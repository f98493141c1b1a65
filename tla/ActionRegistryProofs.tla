------------------------ MODULE ActionRegistryProofs ------------------------
(***************************************************************************)
(* Theorems about the registry of weighted actions: what its operations    *)
(* preserve, and which offset selects which action, for registries of any  *)
(* length and weights.                                                     *)
(***************************************************************************)
EXTENDS ActionRegistry, FiniteSetTheorems, SequenceTheorems, TLAPS

-----------------------------------------------------------------------------
(* Induction over the indexes of a vector, from the fact that the natural  *)
(* numbers are well founded.                                               *)

LEMMA LeastElement ==
    ASSUME NEW R \in SUBSET Nat, R # {}
    PROVE  \E i \in R : \A j \in R : i <= j
<1>1. IsWellFoundedOn(OpToRel(<, Nat), Nat)
  BY NatLessThanWellFounded, Zenon
<1>2. PICK i \in R : \A j \in R : <<j, i>> \notin OpToRel(<, Nat)
  BY <1>1, WFMin, Zenon
<1>3. \A j \in R : ~(j < i)
  BY <1>2 DEF OpToRel
<1> QED
  BY <1>3

LEMMA IndexInduction ==
    ASSUME NEW n \in Nat, NEW A, 0 \in A,
           \A i \in 0 .. n - 1 : i \in A => i + 1 \in A
    PROVE  0 .. n \subseteq A
<1> DEFINE B == {b \in 0 .. n : b \notin A}
<1>1. SUFFICES ASSUME B # {} PROVE FALSE
  OBVIOUS
<1>2. PICK b \in B : \A c \in B : b <= c
  <2>1. B \in SUBSET Nat
    OBVIOUS
  <2> HIDE DEF B
  <2> QED
    BY <1>1, <2>1, LeastElement
<1>3. b # 0 /\ b - 1 \in 0 .. n - 1 /\ (b - 1) + 1 = b
  OBVIOUS
<1> QED
  BY <1>2, <1>3

-----------------------------------------------------------------------------
(* Conversions between the widths.                                         *)

LEMMA Widths ==
    /\ IntLimit \in Nat /\ SizeLimit \in Nat
    /\ 0 < IntLimit /\ IntLimit < SizeLimit
    /\ Weights \subseteq Nat
BY WeightsAssumption

LEMMA AsSizeType ==
    ASSUME NEW n \in Int
    PROVE  AsSize(n) \in Nat
<1>1. SizeLimit \in Nat \ {0}
  BY WeightsAssumption
<1> QED
  BY <1>1 DEF AsSize

LEMMA AsIntType ==
    ASSUME NEW n \in Int
    PROVE  AsInt(n) \in Int
<1>1. 2 * IntLimit \in Nat \ {0} /\ IntLimit \in Nat
  BY WeightsAssumption
<1> DEFINE K == 2 * IntLimit
<1>2. K \in Nat \ {0} /\ AsInt(n) = IF n % K < IntLimit THEN n % K ELSE (n % K) - K
  BY <1>1 DEF AsInt
<1> HIDE DEF K
<1>3. n % K \in Int
  BY <1>2
<1> QED
  BY <1>1, <1>2, <1>3

\* A natural number below the limit of an int is converted to itself.
LEMMA SmallIsItself ==
    ASSUME NEW n \in Nat, n < IntLimit
    PROVE  AsSize(n) = n /\ AsInt(n) = n
<1>1. ASSUME NEW K \in Nat, n < K PROVE n % K = n
  BY <1>1
<1>2. /\ SizeLimit \in Nat /\ n < SizeLimit
      /\ 2 * IntLimit \in Nat /\ n < 2 * IntLimit
  BY Widths
<1>3. n % SizeLimit = n /\ n % (2 * IntLimit) = n
  BY <1>1, <1>2
<1> QED
  BY <1>3 DEF AsSize, AsInt

\* Whatever is drawn is a size_t.
LEMMA DrawType ==
    ASSUME NEW max \in Int
    PROVE  random_number(max) \subseteq Nat
<1>1. AsInt(max) \in Int /\ IntLimit \in Nat
  BY AsIntType, Widths
<1>2. \A i \in -IntLimit .. IntLimit - 1 : AsSize(i) \in Nat
  BY <1>1, AsSizeType
<1> QED
  BY <1>1, <1>2 DEF random_number

-----------------------------------------------------------------------------
(* The sums of the weights.                                                *)

LEMMA RegistryType ==
    ASSUME NEW f, IsRegistry(f)
    PROVE  /\ Len(f) \in Nat /\ DOMAIN f = 1 .. Len(f)
           /\ \A i \in 1 .. Len(f) : /\ f[i] \in ActionFactory
                                     /\ f[i].name \in Names /\ f[i].weight \in Nat
<1>1. f \in Seq(ActionFactory)
  BY DEF IsRegistry
<1>2. Len(f) \in Nat /\ DOMAIN f = 1 .. Len(f)
  BY <1>1, LenProperties
<1>3. ASSUME NEW i \in 1 .. Len(f) PROVE f[i] \in ActionFactory
  BY <1>1, ElementOfSeq
<1>4. ASSUME NEW e \in ActionFactory PROVE e.name \in Names /\ e.weight \in Nat
  BY Widths DEF ActionFactory
<1> QED
  BY <1>2, <1>3, <1>4

Added(f, g, n) == [i \in 0 .. n |-> IF i = 0 THEN 0 ELSE g[i - 1] + f[i].weight]

\* The recursion of Sums has a solution: that of a shorter vector, extended.
LEMMA SumsDefined ==
    ASSUME NEW f, IsRegistry(f)
    PROVE  Sums(f) = Added(f, Sums(f), Len(f))
<1> DEFINE n == Len(f)
           A == {k \in 0 .. n : \E g : g = Added(f, g, k)}
<1>0. n \in Nat
  BY RegistryType
<1>1. 0 \in A
  <2> DEFINE g == [i \in 0 .. 0 |-> 0]
  <2>1. g = Added(f, g, 0)
    BY DEF Added
  <2> QED
    BY <1>0, <2>1
<1>2. ASSUME NEW k \in 0 .. n - 1, k \in A PROVE k + 1 \in A
  <2>1. PICK g : g = Added(f, g, k)
    BY <1>2
  <2> DEFINE h == [i \in 0 .. k + 1 |-> IF i <= k THEN g[i] ELSE g[k] + f[k + 1].weight]
  <2>2. k \in Nat
    BY <1>0
  <2>3. ASSUME NEW i \in 0 .. k + 1
        PROVE  h[i] = Added(f, h, k + 1)[i]
    <3>1. CASE i = 0
      BY <2>1, <2>2, <3>1 DEF Added
    <3>2. CASE i \in 1 .. k
      <4>1. g[i] = g[i - 1] + f[i].weight
        BY <2>1, <2>2, <3>2 DEF Added
      <4>2. h[i] = g[i] /\ h[i - 1] = g[i - 1]
        BY <2>2, <3>2
      <4> QED
        BY <2>2, <3>2, <4>1, <4>2 DEF Added
    <3>3. CASE i = k + 1
      BY <2>2, <3>3 DEF Added
    <3> QED
      BY <2>2, <3>1, <3>2, <3>3
  <2>4. h = Added(f, h, k + 1)
    BY <2>3 DEF Added
  <2> HIDE DEF h
  <2> QED
    BY <1>0, <2>2, <2>4
<1>3. 0 .. n \subseteq A
  <2> HIDE DEF A, n
  <2> QED
    BY <1>0, <1>1, <1>2, IndexInduction
<1>4. \E g : g = Added(f, g, n)
  <2>1. n \in A
    BY <1>0, <1>3
  <2> QED
    BY <2>1
<1> QED
  BY <1>4 DEF Sums, Added

LEMMA SumsStep ==
    ASSUME NEW f, IsRegistry(f)
    PROVE  /\ Sums(f)[0] = 0
           /\ \A i \in 1 .. Len(f) : Sums(f)[i] = Sums(f)[i - 1] + f[i].weight
BY RegistryType, SumsDefined DEF Added

LEMMA SumsType ==
    ASSUME NEW f, IsRegistry(f)
    PROVE  /\ \A i \in 0 .. Len(f) : Sums(f)[i] \in Nat
           /\ Weighs(f) \in Nat
<1> DEFINE A == {k \in 0 .. Len(f) : Sums(f)[k] \in Nat}
<1>1. 0 \in A
  BY SumsStep, RegistryType
<1>2. ASSUME NEW k \in 0 .. Len(f) - 1, k \in A PROVE k + 1 \in A
  <2>1. k + 1 \in 1 .. Len(f) /\ (k + 1) - 1 = k
    BY RegistryType
  <2> QED
    BY <1>2, <2>1, SumsStep, RegistryType
<1>3. 0 .. Len(f) \subseteq A
  <2> HIDE DEF A
  <2> QED
    BY <1>1, <1>2, IndexInduction, RegistryType
<1> QED
  BY <1>3, RegistryType DEF Weighs

\* No weight is negative: the sums ascend.
LEMMA SumsAscend ==
    ASSUME NEW f, IsRegistry(f), NEW i \in 0 .. Len(f), NEW j \in i .. Len(f)
    PROVE  Sums(f)[i] <= Sums(f)[j]
<1> DEFINE A == {k \in 0 .. Len(f) : i <= k => Sums(f)[i] <= Sums(f)[k]}
<1>1. 0 \in A
  BY SumsType, RegistryType
<1>2. ASSUME NEW k \in 0 .. Len(f) - 1, k \in A PROVE k + 1 \in A
  <2>1. k + 1 \in 1 .. Len(f) /\ (k + 1) - 1 = k /\ k \in 0 .. Len(f)
    BY RegistryType
  <2>2. /\ Sums(f)[k + 1] = Sums(f)[k] + f[k + 1].weight
        /\ f[k + 1].weight \in Nat /\ Sums(f)[k] \in Nat /\ Sums(f)[i] \in Nat
    BY <2>1, SumsStep, RegistryType, SumsType
  <2> QED
    BY <1>2, <2>1, <2>2
<1>3. 0 .. Len(f) \subseteq A
  <2> HIDE DEF A
  <2> QED
    BY <1>1, <1>2, IndexInduction, RegistryType
<1> QED
  BY <1>3, RegistryType

\* What is drawn from is a range of offsets, if the weights add up to an int,
\* and always a size_t.
LEMMA OffsetsType ==
    ASSUME NEW f, IsRegistry(f)
    PROVE  /\ Offsets(f) \subseteq Nat
           /\ Fits(f) => Offsets(f) = 0 .. Weighs(f)
<1>1. Weighs(f) \in Nat
  BY SumsType
<1>2. totalWeight(f) \in Nat
  BY <1>1, AsIntType, AsSizeType DEF totalWeight
<1>3. ASSUME Fits(f) PROVE Offsets(f) = 0 .. Weighs(f)
  <2>1. AsInt(Weighs(f)) = Weighs(f) /\ AsSize(Weighs(f)) = Weighs(f)
    BY <1>1, <1>3, SmallIsItself DEF Fits
  <2>2. totalWeight(f) = Weighs(f) /\ AsInt(totalWeight(f)) = Weighs(f)
    BY <2>1 DEF totalWeight
  <2> QED
    BY <1>1, <2>2 DEF Offsets, random_number
<1> QED
  BY <1>2, <1>3, DrawType DEF Offsets

-----------------------------------------------------------------------------
(* lookupByWeightOffset.                                                   *)

\* The sums of a registry whose weights add up to an int do not wrap either.
LEMMA ReachingSums ==
    ASSUME NEW f, IsRegistry(f), Fits(f), NEW o
    PROVE  Reaching(f, o) = {i \in DOMAIN f : Sums(f)[i] >= o}
<1>1. ASSUME NEW i \in DOMAIN f PROVE AsSize(Sums(f)[i]) = Sums(f)[i]
  <2>1. i \in 0 .. Len(f) /\ Len(f) \in i .. Len(f)
    BY RegistryType
  <2>2. Sums(f)[i] \in Nat /\ Sums(f)[i] <= Weighs(f) /\ Weighs(f) \in Nat
    BY <2>1, SumsType, SumsAscend DEF Weighs
  <2>3. Sums(f)[i] < IntLimit
    BY <2>2, Widths DEF Fits
  <2> QED
    BY <2>2, <2>3, SmallIsItself
<1> QED
  BY <1>1 DEF Reaching

\* With an offset that can be drawn, only an empty registry has no answer.
LEMMA DrawnIsFound ==
    ASSUME NEW f, IsRegistry(f), Fits(f), f # <<>>, NEW o \in Nat, o <= Weighs(f)
    PROVE  Reaching(f, o) # {}
<1>1. Len(f) \in 1 .. Len(f)
  BY EmptySeq DEF IsRegistry
<1>2. Sums(f)[Len(f)] >= o
  BY SumsType DEF Weighs
<1> QED
  BY <1>1, <1>2, RegistryType, ReachingSums

\* It returns the first factory whose sum reaches the offset.
LEMMA LookupIsFirst ==
    ASSUME NEW f, IsRegistry(f), NEW o \in Nat, Reaching(f, o) # {}
    PROVE  /\ lookupByWeightOffset(f, o) \in Reaching(f, o)
           /\ \A j \in Reaching(f, o) : lookupByWeightOffset(f, o) <= j
<1>1. Reaching(f, o) \in SUBSET (1 .. Len(f)) /\ Len(f) \in Nat
  BY RegistryType DEF Reaching
<1>2. \E i \in Reaching(f, o) : \A j \in Reaching(f, o) : i <= j
  BY <1>1, LeastElement
<1> QED
  BY <1>2 DEF lookupByWeightOffset

\* The offsets that select a factory are those between its sum and the sum
\* before it; the first also has the 0.
LEMMA OffsetsOf ==
    ASSUME NEW f, IsRegistry(f), Fits(f), NEW i \in DOMAIN f
    PROVE  {o \in Offsets(f) :
               Reaching(f, o) # {} /\ lookupByWeightOffset(f, o) = i}
           = (IF i = 1 THEN 0 ELSE Sums(f)[i - 1] + 1) .. Sums(f)[i]
<1> DEFINE low == IF i = 1 THEN 0 ELSE Sums(f)[i - 1] + 1
<1>0. /\ Offsets(f) = 0 .. Weighs(f)
      /\ \A o : Reaching(f, o) = {j \in DOMAIN f : Sums(f)[j] >= o}
  BY OffsetsType, ReachingSums
<1>1. /\ i \in 1 .. Len(f) /\ Len(f) \in Nat /\ i - 1 \in 0 .. Len(f)
      /\ Sums(f)[i] \in Nat /\ Sums(f)[i - 1] \in Nat /\ low \in Nat
      /\ Weighs(f) \in Nat /\ Sums(f)[i] <= Weighs(f)
  BY RegistryType, SumsType, SumsAscend DEF Weighs
<1>2. ASSUME NEW o \in Offsets(f), Reaching(f, o) # {},
             lookupByWeightOffset(f, o) = i
      PROVE  o \in low .. Sums(f)[i]
  <2>1. o \in Nat
    BY <1>0, <1>1
  <2>2. /\ i \in Reaching(f, o)
        /\ \A j \in Reaching(f, o) : i <= j
    BY <1>2, <2>1, LookupIsFirst
  <2>3. o <= Sums(f)[i]
    BY <1>0, <1>1, <2>1, <2>2
  <2>4. CASE i = 1
    BY <1>1, <2>1, <2>3, <2>4
  <2>5. CASE i # 1
    <3>1. i - 1 \in DOMAIN f /\ i - 1 \notin Reaching(f, o)
      BY <1>1, <2>2, <2>5, RegistryType
    <3>2. ~(Sums(f)[i - 1] >= o)
      BY <1>0, <3>1
    <3> QED
      BY <1>1, <2>1, <2>3, <2>5, <3>2
  <2> QED
    BY <2>4, <2>5
<1>3. ASSUME NEW o \in low .. Sums(f)[i]
      PROVE  /\ o \in Offsets(f)
             /\ Reaching(f, o) # {} /\ lookupByWeightOffset(f, o) = i
  <2>1. o \in Nat /\ o \in Offsets(f)
    BY <1>0, <1>1
  <2>2. i \in Reaching(f, o)
    BY <1>0, <1>1, <2>1, RegistryType
  <2>3. ASSUME NEW j \in Reaching(f, o) PROVE i <= j
    <3>1. j \in 1 .. Len(f) /\ Sums(f)[j] >= o
      BY <1>0, RegistryType
    <3>2. CASE j < i
      <4>1. i # 1 /\ j \in 0 .. Len(f) /\ i - 1 \in j .. Len(f)
        BY <1>1, <3>1, <3>2
      <4>2. Sums(f)[j] <= Sums(f)[i - 1] /\ Sums(f)[j] \in Nat
        BY <4>1, SumsAscend, SumsType
      <4> QED
        BY <1>1, <2>1, <3>1, <4>1, <4>2
    <3> QED
      BY <1>1, <3>1, <3>2
  <2>4. /\ lookupByWeightOffset(f, o) \in Reaching(f, o)
        /\ lookupByWeightOffset(f, o) <= i
    BY <2>1, <2>2, LookupIsFirst
  <2>5. lookupByWeightOffset(f, o) \in 1 .. Len(f)
    BY <2>4, RegistryType DEF Reaching
  <2> QED
    BY <1>1, <2>1, <2>2, <2>3, <2>4, <2>5
<1> QED
  BY <1>1, <1>2, <1>3

\* If the weights add up to an int, every action is drawn with its weight: as
\* many of the offsets select it as it has weight, and one more the first
\* (totalWeight, lookupByWeightOffset and the draw of run_thread, which
\* includes both ends).
THEOREM WeightsAreOdds ==
    ASSUME NEW f, IsRegistry(f), Fits(f), NEW i \in DOMAIN f
    PROVE  Cardinality({o \in Offsets(f) :
                            /\ Reaching(f, o) # {}
                            /\ lookupByWeightOffset(f, o) = i})
               = f[i].weight + (IF i = 1 THEN 1 ELSE 0)
<1>1. /\ i \in 1 .. Len(f) /\ Len(f) \in Nat /\ i - 1 \in 0 .. Len(f)
      /\ Sums(f)[i] \in Nat /\ Sums(f)[i - 1] \in Nat /\ f[i].weight \in Nat
      /\ Sums(f)[0] = 0 /\ Sums(f)[i] = Sums(f)[i - 1] + f[i].weight
  BY RegistryType, SumsType, SumsStep
<1>2. ASSUME NEW a \in Nat, NEW b \in Nat, a <= b + 1
      PROVE  Cardinality(a .. b) = b - a + 1
  BY <1>2, FS_Interval
<1> DEFINE drawn == {o \in Offsets(f) :
                        Reaching(f, o) # {} /\ lookupByWeightOffset(f, o) = i}
           low == IF i = 1 THEN 0 ELSE Sums(f)[i - 1] + 1
           high == Sums(f)[i]
<1>3. drawn = low .. high
  BY OffsetsOf
<1>4. low \in Nat /\ high \in Nat /\ low <= high + 1
  BY <1>1
<1>5. high - low + 1 = f[i].weight + (IF i = 1 THEN 1 ELSE 0)
  BY <1>1
<1> HIDE DEF low, high
<1>6. Cardinality(low .. high) = high - low + 1
  BY <1>2, <1>4
<1>7. Cardinality(drawn) = Cardinality(low .. high)
  BY <1>3, Zenon
<1> QED
  BY <1>5, <1>6, <1>7

-----------------------------------------------------------------------------
(* What the operations leave: a registry, in which no name is taken twice. *)

LEMMA IndexOfHas ==
    ASSUME NEW f, NEW name, Has(f, name)
    PROVE  IndexOf(f, name) \in DOMAIN f /\ f[IndexOf(f, name)].name = name
BY DEF Has, IndexOf

LEMMA InsertKeeps ==
    ASSUME NEW f, IsRegistry(f), NEW factory \in ActionFactory, CanInsert(f, factory)
    PROVE  IsRegistry(insert(f, factory))
<1> DEFINE g == insert(f, factory)
<1>1. f \in Seq(ActionFactory)
  BY DEF IsRegistry
<1>2. /\ g \in Seq(ActionFactory) /\ Len(g) = Len(f) + 1
      /\ \A i \in 1 .. Len(f) : g[i] = f[i]
      /\ g[Len(f) + 1] = factory
  BY <1>1, AppendProperties DEF insert
<1>3. \A i \in 1 .. Len(f) : f[i].name # factory.name
  BY RegistryType DEF CanInsert, Has
<1>4. DOMAIN g = 1 .. Len(f) + 1 /\ Len(f) \in Nat
  BY <1>2, LenProperties, RegistryType
<1> HIDE DEF g
<1>5. ASSUME NEW i \in 1 .. Len(f) + 1, NEW j \in 1 .. Len(f) + 1, g[i].name = g[j].name
      PROVE  i = j
  <2>1. CASE i \in 1 .. Len(f) /\ j \in 1 .. Len(f)
    BY <1>2, <1>5, <2>1, RegistryType DEF IsRegistry
  <2>2. CASE i = Len(f) + 1 \/ j = Len(f) + 1
    BY <1>2, <1>3, <1>4, <1>5, <2>2
  <2> QED
    BY <1>4, <2>1, <2>2
<1> QED
  BY <1>2, <1>4, <1>5 DEF IsRegistry, g

LEMMA RemoveKeeps ==
    ASSUME NEW f, IsRegistry(f), NEW name, Has(f, name)
    PROVE  IsRegistry(remove(f, name))
<1> DEFINE gone == IndexOf(f, name)
           before == SubSeq(f, 1, gone - 1)
           behind == SubSeq(f, gone + 1, Len(f))
           g == before \o behind
<1>1. gone \in 1 .. Len(f) /\ Len(f) \in Nat
  BY IndexOfHas, RegistryType
<1>2. remove(f, name) = g
  BY DEF remove
<1> HIDE DEF gone
<1>3. /\ before \in Seq(ActionFactory) /\ Len(before) = gone - 1
      /\ \A i \in 1 .. gone - 1 : before[i] = f[i]
  <2>1. \A i \in 1 .. gone - 1 : f[i] \in ActionFactory
    BY <1>1, RegistryType
  <2>2. /\ before \in Seq(ActionFactory)
        /\ Len(before) = IF 1 <= gone - 1 THEN (gone - 1) - 1 + 1 ELSE 0
        /\ \A i \in 1 .. (gone - 1) - 1 + 1 : before[i] = f[1 + i - 1]
    BY <1>1, <2>1, SubSeqProperties
  <2> HIDE DEF before
  <2> QED
    BY <1>1, <2>2
<1>4. /\ behind \in Seq(ActionFactory) /\ Len(behind) = Len(f) - gone
      /\ \A i \in 1 .. Len(f) - gone : behind[i] = f[gone + i]
  <2>1. \A i \in gone + 1 .. Len(f) : f[i] \in ActionFactory
    BY <1>1, RegistryType
  <2>2. /\ behind \in Seq(ActionFactory)
        /\ Len(behind) = IF gone + 1 <= Len(f) THEN Len(f) - (gone + 1) + 1 ELSE 0
        /\ \A i \in 1 .. Len(f) - (gone + 1) + 1 : behind[i] = f[(gone + 1) + i - 1]
    BY <1>1, <2>1, SubSeqProperties
  <2> HIDE DEF behind
  <2> QED
    BY <1>1, <2>2
<1> HIDE DEF before, behind
<1>5. /\ g \in Seq(ActionFactory) /\ Len(g) = Len(f) - 1
      /\ \A i \in 1 .. Len(f) - 1 : g[i] = f[IF i < gone THEN i ELSE i + 1]
  <2>1. /\ g \in Seq(ActionFactory) /\ Len(g) = Len(before) + Len(behind)
        /\ \A i \in 1 .. Len(before) + Len(behind) :
               g[i] = IF i <= Len(before) THEN before[i] ELSE behind[i - Len(before)]
    BY <1>3, <1>4, ConcatProperties
  <2> HIDE DEF g
  <2> QED
    BY <1>1, <1>3, <1>4, <2>1
<1> HIDE DEF g
<1>6. DOMAIN g = 1 .. Len(f) - 1
  BY <1>5, LenProperties
<1>7. ASSUME NEW i \in 1 .. Len(f) - 1, NEW j \in 1 .. Len(f) - 1, g[i].name = g[j].name
      PROVE  i = j
  <2> DEFINE a == IF i < gone THEN i ELSE i + 1
             b == IF j < gone THEN j ELSE j + 1
  <2>1. a \in 1 .. Len(f) /\ b \in 1 .. Len(f) /\ f[a].name = f[b].name
    BY <1>1, <1>5, <1>7
  <2>2. a = b
    <3> HIDE DEF a, b
    <3> QED
      BY <2>1, RegistryType DEF IsRegistry
  <2> QED
    BY <1>1, <2>2
<1> QED
  BY <1>2, <1>5, <1>6, <1>7 DEF IsRegistry

\* A weight is written in place: every name stays where it is.
LEMMA SetWeightKeeps ==
    ASSUME NEW f, IsRegistry(f), NEW name, Has(f, name), NEW weight \in Weights
    PROVE  /\ IsRegistry(setWeight(f, name, weight))
           /\ \A other : Has(setWeight(f, name, weight), other) <=> Has(f, other)
<1> DEFINE k == IndexOf(f, name)
           e == [f[k] EXCEPT !.weight = weight]
           g == [f EXCEPT ![k] = e]
<1>1. k \in 1 .. Len(f) /\ f[k] \in ActionFactory /\ f \in Seq(ActionFactory)
  BY IndexOfHas, RegistryType DEF IsRegistry
<1>2. setWeight(f, name, weight) = g
  BY DEF setWeight
<1> HIDE DEF k
<1>3. e \in ActionFactory /\ e.name = f[k].name
  BY <1>1 DEF ActionFactory
<1> HIDE DEF e
<1>4. /\ g \in Seq(ActionFactory) /\ Len(g) = Len(f)
      /\ \A i \in 1 .. Len(f) : g[i] = IF i = k THEN e ELSE f[i]
  BY <1>1, <1>3, ExceptSeq
<1> HIDE DEF g
<1>5. DOMAIN g = DOMAIN f /\ DOMAIN f = 1 .. Len(f)
  BY <1>4, LenProperties, RegistryType
<1>6. \A i \in DOMAIN f : g[i].name = f[i].name
  BY <1>3, <1>4, <1>5
<1>7. \A i, j \in DOMAIN g : g[i].name = g[j].name => i = j
  BY <1>5, <1>6 DEF IsRegistry
<1> QED
  BY <1>2, <1>4, <1>5, <1>6, <1>7 DEF IsRegistry, Has
=============================================================================

---------------------------- MODULE ColumnsProofs ----------------------------
(***************************************************************************)
(* Theorems about Columns, for any number of workers, columns, names and   *)
(* clauses: the primary key is the first column and the only one, the      *)
(* metadata follows the database, and DML fails for a reason.              *)
(***************************************************************************)
EXTENDS Columns, SequenceTheorems, WellFoundedInduction, TLAPS

-----------------------------------------------------------------------------
(* Induction over positions, as in ActionRegistryProofs.                   *)

LEMMA LeastElement ==
    ASSUME NEW R \in SUBSET Nat, R # {}
    PROVE  \E i \in R : \A j \in R : i <= j
<1>1. IsWellFoundedOn(OpToRel(<, Nat), Nat)
  BY NatLessThanWellFounded, Zenon
<1>2. PICK i \in R : \A j \in R : <<j, i>> \notin OpToRel(<, Nat)
  BY <1>1, WFMin, Zenon
<1>3. \A j \in R : ~(j < i)
  BY <1>2 DEF OpToRel
<1> QED
  BY <1>3

LEMMA IndexInduction ==
    ASSUME NEW n \in Nat, NEW A, 0 \in A,
           \A i \in 0 .. n - 1 : i \in A => i + 1 \in A
    PROVE  0 .. n \subseteq A
<1> DEFINE B == {b \in 0 .. n : b \notin A}
<1>1. SUFFICES ASSUME B # {} PROVE FALSE
  OBVIOUS
<1>2. PICK b \in B : \A c \in B : b <= c
  <2>1. B \in SUBSET Nat
    OBVIOUS
  <2> HIDE DEF B
  <2> QED
    BY <1>1, <2>1, LeastElement
<1>3. b # 0 /\ b - 1 \in 0 .. n - 1 /\ (b - 1) + 1 = b
  OBVIOUS
<1> QED
  BY <1>2, <1>3

-----------------------------------------------------------------------------
(* Sequences of columns.                                                   *)

LEMMA ColumnsType ==
    ASSUME NEW cols \in Seq(Column)
    PROVE  /\ Len(cols) \in Nat /\ DOMAIN cols = 1 .. Len(cols)
           /\ \A i \in 1 .. Len(cols) : cols[i] \in Column
<1>1. Len(cols) \in Nat /\ DOMAIN cols = 1 .. Len(cols)
  BY LenProperties
<1>2. ASSUME NEW i \in 1 .. Len(cols) PROVE cols[i] \in Column
  BY ElementOfSeq
<1> QED
  BY <1>1, <1>2

LEMMA RemoveAtColumns ==
    ASSUME NEW cols \in Seq(Column), NEW i \in 1 .. Len(cols)
    PROVE  /\ RemoveAt(cols, i) \in Seq(Column)
           /\ Len(RemoveAt(cols, i)) = Len(cols) - 1
           /\ \A k \in 1 .. Len(cols) - 1 :
                  RemoveAt(cols, i)[k] = cols[IF k < i THEN k ELSE k + 1]
<1> DEFINE before == SubSeq(cols, 1, i - 1)
           behind == SubSeq(cols, i + 1, Len(cols))
           rest == before \o behind
<1>1. /\ cols \in Seq(Column) /\ Len(cols) \in Nat /\ i \in Nat
      /\ i >= 1 /\ i <= Len(cols)
      /\ \A k \in 1 .. Len(cols) : cols[k] \in Column
  BY ColumnsType
<1>2. RemoveAt(cols, i) = rest
  BY DEF RemoveAt
<1>3. /\ before \in Seq(Column) /\ Len(before) = i - 1
      /\ \A k \in 1 .. i - 1 : before[k] = cols[k]
  <2>1. \A k \in 1 .. i - 1 : cols[k] \in Column
    BY <1>1
  <2>2. /\ before \in Seq(Column)
        /\ Len(before) = IF 1 <= i - 1 THEN (i - 1) - 1 + 1 ELSE 0
        /\ \A k \in 1 .. (i - 1) - 1 + 1 : before[k] = cols[1 + k - 1]
    BY <1>1, <2>1, SubSeqProperties
  <2> HIDE DEF before
  <2> QED
    BY <1>1, <2>2
<1>4. /\ behind \in Seq(Column) /\ Len(behind) = Len(cols) - i
      /\ \A k \in 1 .. Len(cols) - i : behind[k] = cols[i + k]
  <2>1. \A k \in i + 1 .. Len(cols) : cols[k] \in Column
    BY <1>1
  <2>2. /\ behind \in Seq(Column)
        /\ Len(behind) = IF i + 1 <= Len(cols) THEN Len(cols) - (i + 1) + 1 ELSE 0
        /\ \A k \in 1 .. Len(cols) - (i + 1) + 1 : behind[k] = cols[(i + 1) + k - 1]
    BY <1>1, <2>1, SubSeqProperties
  <2> HIDE DEF behind
  <2> QED
    BY <1>1, <2>2
<1> HIDE DEF before, behind
<1>5. /\ rest \in Seq(Column) /\ Len(rest) = Len(cols) - 1
      /\ \A k \in 1 .. Len(cols) - 1 : rest[k] = cols[IF k < i THEN k ELSE k + 1]
  <2>1. /\ rest \in Seq(Column) /\ Len(rest) = Len(before) + Len(behind)
        /\ \A k \in 1 .. Len(before) + Len(behind) :
               rest[k] = IF k <= Len(before) THEN before[k] ELSE behind[k - Len(before)]
    BY <1>3, <1>4, ConcatProperties
  <2> HIDE DEF rest
  <2>2. ASSUME NEW k \in 1 .. Len(cols) - 1
        PROVE  rest[k] = cols[IF k < i THEN k ELSE k + 1]
    <3>1. CASE k < i
      <4>1. k \in 1 .. i - 1 /\ k <= Len(before) /\ k \in 1 .. Len(before) + Len(behind)
        BY <1>1, <1>3, <1>4, <3>1
      <4> QED
        BY <1>3, <2>1, <3>1, <4>1
    <3>2. CASE ~(k < i)
      <4>1. /\ k - (i - 1) \in 1 .. Len(cols) - i /\ ~(k <= i - 1)
            /\ k \in 1 .. Len(before) + Len(behind)
            /\ i + (k - (i - 1)) = k + 1
        BY <1>1, <1>3, <1>4, <3>2
      <4>2. rest[k] = behind[k - (i - 1)]
        BY <1>3, <2>1, <4>1
      <4>3. behind[k - (i - 1)] = cols[k + 1]
        BY <1>4, <4>1
      <4> QED
        BY <3>2, <4>2, <4>3
    <3> QED
      BY <3>1, <3>2
  <2>3. Len(before) + Len(behind) = Len(cols) - 1
    BY <1>1, <1>3, <1>4
  <2> QED
    BY <2>1, <2>2, <2>3
<1> QED
  BY <1>2, <1>5

-----------------------------------------------------------------------------
(* What drops leave: the recursion of Remaining has a solution, it depends *)
(* only on the drops so far, and it keeps the names distinct.              *)

Dropping(cols, drops, rest, n) ==
    [m \in 0 .. n |-> IF m = 0 THEN cols ELSE Without(rest[m - 1], drops[m])]

LEMMA RemainingDefined ==
    ASSUME NEW cols, NEW drops \in Seq(Names)
    PROVE  Remaining(cols, drops) =
               Dropping(cols, drops, Remaining(cols, drops), Len(drops))
<1> DEFINE n == Len(drops)
           A == {k \in 0 .. n : \E g : g = Dropping(cols, drops, g, k)}
<1>0. n \in Nat
  BY LenProperties
<1>1. 0 \in A
  <2> DEFINE g == [m \in 0 .. 0 |-> cols]
  <2>1. g = Dropping(cols, drops, g, 0)
    BY DEF Dropping
  <2> QED
    BY <1>0, <2>1
<1>2. ASSUME NEW k \in 0 .. n - 1, k \in A PROVE k + 1 \in A
  <2>1. PICK g : g = Dropping(cols, drops, g, k)
    BY <1>2
  <2> DEFINE h == [m \in 0 .. k + 1 |->
                      IF m <= k THEN g[m] ELSE Without(g[k], drops[k + 1])]
  <2>2. k \in Nat
    BY <1>0
  <2>3. ASSUME NEW m \in 0 .. k + 1
        PROVE  h[m] = Dropping(cols, drops, h, k + 1)[m]
    <3>1. CASE m = 0
      BY <2>1, <2>2, <3>1 DEF Dropping
    <3>2. CASE m \in 1 .. k
      <4>1. g[m] = Without(g[m - 1], drops[m])
        BY <2>1, <2>2, <3>2 DEF Dropping
      <4>2. h[m] = g[m] /\ h[m - 1] = g[m - 1]
        BY <2>2, <3>2
      <4> QED
        BY <2>2, <3>2, <4>1, <4>2 DEF Dropping
    <3>3. CASE m = k + 1
      BY <2>2, <3>3 DEF Dropping
    <3> QED
      BY <2>2, <3>1, <3>2, <3>3
  <2>4. h = Dropping(cols, drops, h, k + 1)
    BY <2>3 DEF Dropping
  <2> HIDE DEF h
  <2> QED
    BY <1>0, <2>2, <2>4
<1>3. 0 .. n \subseteq A
  <2> HIDE DEF A, n
  <2> QED
    BY <1>0, <1>1, <1>2, IndexInduction
<1>4. \E g : g = Dropping(cols, drops, g, n)
  <2>1. n \in A
    BY <1>0, <1>3
  <2> QED
    BY <2>1
<1> QED
  BY <1>4 DEF Remaining, Dropping

LEMMA RemainingStep ==
    ASSUME NEW cols, NEW drops \in Seq(Names)
    PROVE  /\ Remaining(cols, drops)[0] = cols
           /\ \A n \in 1 .. Len(drops) : Remaining(cols, drops)[n] =
                  Without(Remaining(cols, drops)[n - 1], drops[n])
BY LenProperties, RemainingDefined DEF Dropping

LEMMA RemainingPrefix ==
    ASSUME NEW cols, NEW drops \in Seq(Names), NEW name \in Names
    PROVE  /\ \A n \in 0 .. Len(drops) :
                  Remaining(cols, Append(drops, name))[n] = Remaining(cols, drops)[n]
           /\ Remaining(cols, Append(drops, name))[Len(drops) + 1] =
                  Without(Remaining(cols, drops)[Len(drops)], name)
<1> DEFINE more == Append(drops, name)
           N == Len(drops)
           A == {n \in 0 .. N : Remaining(cols, more)[n] = Remaining(cols, drops)[n]}
<1>1. /\ more \in Seq(Names) /\ Len(more) = N + 1 /\ N \in Nat
      /\ \A n \in 1 .. N : more[n] = drops[n]
      /\ more[N + 1] = name
  BY AppendProperties, LenProperties
<1> HIDE DEF more
<1>2. 0 \in A
  BY <1>1, RemainingStep
<1>3. ASSUME NEW n \in 0 .. N - 1, n \in A PROVE n + 1 \in A
  <2>1. n + 1 \in 1 .. N /\ n + 1 \in 1 .. Len(more) /\ (n + 1) - 1 = n
    BY <1>1
  <2>2. /\ Remaining(cols, more)[n + 1] = Without(Remaining(cols, more)[n], more[n + 1])
        /\ Remaining(cols, drops)[n + 1] = Without(Remaining(cols, drops)[n], drops[n + 1])
    BY <1>1, <2>1, RemainingStep
  <2>3. Remaining(cols, more)[n + 1] = Remaining(cols, drops)[n + 1]
    BY <1>1, <1>3, <2>1, <2>2
  <2> QED
    BY <1>1, <2>1, <2>3
<1>4. 0 .. N \subseteq A
  <2> HIDE DEF A, N
  <2> QED
    BY <1>1, <1>2, <1>3, IndexInduction
<1>5. \A n \in 0 .. N : Remaining(cols, more)[n] = Remaining(cols, drops)[n]
  BY <1>4
<1>6. /\ N + 1 \in 1 .. Len(more) /\ (N + 1) - 1 = N /\ N \in 0 .. N
  BY <1>1
<1>7. Remaining(cols, more)[N + 1] = Without(Remaining(cols, more)[N], more[N + 1])
  BY <1>1, <1>6, RemainingStep
<1> QED
  BY <1>1, <1>5, <1>6, <1>7 DEF more

LEMMA WithoutKeeps ==
    ASSUME NEW cols \in Seq(Column), DistinctNames(cols), NEW name
    PROVE  Without(cols, name) \in Seq(Column) /\ DistinctNames(Without(cols, name))
<1>1. CASE name \notin NamesOf(cols)
  BY <1>1 DEF Without
<1>2. CASE name \in NamesOf(cols)
  <2> DEFINE i == Position(cols, name)
             rest == RemoveAt(cols, i)
  <2>1. i \in DOMAIN cols
    BY <1>2 DEF NamesOf, Position
  <2>2. /\ i \in 1 .. Len(cols) /\ Len(cols) \in Nat /\ DOMAIN cols = 1 .. Len(cols)
    BY <2>1, ColumnsType
  <2> HIDE DEF i
  <2>3. /\ rest \in Seq(Column) /\ Len(rest) = Len(cols) - 1
        /\ \A k \in 1 .. Len(cols) - 1 : rest[k] = cols[IF k < i THEN k ELSE k + 1]
    BY <2>2, RemoveAtColumns
  <2>4. DOMAIN rest = 1 .. Len(cols) - 1
    BY <2>3, ColumnsType
  <2> HIDE DEF rest
  <2>5. ASSUME NEW j \in DOMAIN rest, NEW k \in DOMAIN rest, rest[j].name = rest[k].name
        PROVE  j = k
    <3> DEFINE was(m) == IF m < i THEN m ELSE m + 1
    <3>1. /\ was(j) \in DOMAIN cols /\ was(k) \in DOMAIN cols
          /\ was(j) = was(k) => j = k
      BY <2>2, <2>4
    <3>2. rest[j] = cols[was(j)] /\ rest[k] = cols[was(k)]
      BY <2>3, <2>4
    <3> HIDE DEF was
    <3> QED
      BY <2>5, <3>1, <3>2 DEF DistinctNames
  <2> QED
    BY <1>2, <2>3, <2>5 DEF Without, DistinctNames, rest, i
<1> QED
  BY <1>1, <1>2

LEMMA RemainingType ==
    ASSUME NEW cols \in Seq(Column), DistinctNames(cols), NEW drops \in Seq(Names)
    PROVE  \A n \in 0 .. Len(drops) : /\ Remaining(cols, drops)[n] \in Seq(Column)
                                      /\ DistinctNames(Remaining(cols, drops)[n])
<1> DEFINE rest == Remaining(cols, drops)
           A == {n \in 0 .. Len(drops) : rest[n] \in Seq(Column) /\ DistinctNames(rest[n])}
<1>0. Len(drops) \in Nat
  BY LenProperties
<1>1. /\ rest[0] = cols
      /\ \A n \in 1 .. Len(drops) : rest[n] = Without(rest[n - 1], drops[n])
  BY RemainingStep
<1> HIDE DEF rest
<1>2. 0 \in A
  BY <1>0, <1>1
<1>3. ASSUME NEW n \in 0 .. Len(drops) - 1, n \in A PROVE n + 1 \in A
  <2>1. n + 1 \in 0 .. Len(drops) /\ n + 1 \in 1 .. Len(drops) /\ (n + 1) - 1 = n
    BY <1>0
  <2>2. rest[n + 1] = Without(rest[n], drops[n + 1])
    BY <1>1, <2>1
  <2>3. rest[n] \in Seq(Column) /\ DistinctNames(rest[n])
    BY <1>3
  <2>4. rest[n + 1] \in Seq(Column) /\ DistinctNames(rest[n + 1])
    BY <2>2, <2>3, WithoutKeeps
  <2> QED
    BY <2>1, <2>4
<1>4. 0 .. Len(drops) \subseteq A
  <2> HIDE DEF A
  <2> QED
    BY <1>0, <1>2, <1>3, IndexInduction
<1> QED
  BY <1>4 DEF rest

-----------------------------------------------------------------------------
(* The key, and what becomes of it when columns go and come.               *)

KeyFirst(cols) ==
    /\ cols \in Seq(Column)
    /\ \A i \in 1 .. Len(cols) : /\ cols[i].primary_key <=> i = 1
                                 /\ i = 1 => cols[i].type = "INT"

NoKey(cols) ==
    /\ cols \in Seq(Column)
    /\ \A i \in 1 .. Len(cols) : ~cols[i].primary_key

LEMMA DropKeepsKey ==
    ASSUME NEW cols, KeyFirst(cols), Len(cols) >= 3, NEW i \in 2 .. Len(cols)
    PROVE  /\ KeyFirst(RemoveAt(cols, i)) /\ Len(RemoveAt(cols, i)) >= 2
           /\ RemoveAt(cols, i)[1] = cols[1]
<1> DEFINE rest == RemoveAt(cols, i)
<1>1. /\ cols \in Seq(Column) /\ Len(cols) \in Nat /\ i \in Nat
      /\ i >= 2 /\ i <= Len(cols) /\ i \in 1 .. Len(cols)
  BY ColumnsType DEF KeyFirst
<1>2. /\ rest \in Seq(Column) /\ Len(rest) = Len(cols) - 1
      /\ \A k \in 1 .. Len(cols) - 1 : rest[k] = cols[IF k < i THEN k ELSE k + 1]
  BY <1>1, RemoveAtColumns
<1> HIDE DEF rest
<1>3. ASSUME NEW k \in 1 .. Len(rest)
      PROVE  (rest[k].primary_key <=> k = 1) /\ (k = 1 => rest[k].type = "INT")
  <2> DEFINE old == IF k < i THEN k ELSE k + 1
  <2>1. rest[k] = cols[old] /\ old \in 1 .. Len(cols) /\ (old = 1 <=> k = 1)
    BY <1>1, <1>2
  <2> HIDE DEF old
  <2> QED
    BY <2>1 DEF KeyFirst
<1>4. rest[1] = cols[1]
  BY <1>1, <1>2
<1>5. KeyFirst(rest) /\ Len(rest) >= 2
  BY <1>1, <1>2, <1>3 DEF KeyFirst
<1> QED
  BY <1>4, <1>5 DEF rest

LEMMA ConcatColumns ==
    ASSUME NEW cols \in Seq(Column), NEW new \in Seq(Column)
    PROVE  /\ cols \o new \in Seq(Column) /\ Len(cols \o new) = Len(cols) + Len(new)
           /\ \A i \in 1 .. Len(cols) : (cols \o new)[i] = cols[i]
           /\ \A i \in 1 .. Len(new) : (cols \o new)[Len(cols) + i] = new[i]
           /\ \A k \in 1 .. Len(cols) + Len(new) :
                  \/ k \in 1 .. Len(cols)
                  \/ \E i \in 1 .. Len(new) : k = Len(cols) + i
<1> DEFINE all == cols \o new
<1>1. Len(cols) \in Nat /\ Len(new) \in Nat
  BY ColumnsType
<1>2. /\ all \in Seq(Column) /\ Len(all) = Len(cols) + Len(new)
      /\ \A k \in 1 .. Len(cols) + Len(new) :
             all[k] = IF k <= Len(cols) THEN cols[k] ELSE new[k - Len(cols)]
  BY ConcatProperties
<1> HIDE DEF all
<1>3. ASSUME NEW i \in 1 .. Len(cols) PROVE all[i] = cols[i]
  BY <1>1, <1>2
<1>4. ASSUME NEW i \in 1 .. Len(new) PROVE all[Len(cols) + i] = new[i]
  <2>1. /\ Len(cols) + i \in 1 .. Len(cols) + Len(new)
        /\ ~(Len(cols) + i <= Len(cols)) /\ (Len(cols) + i) - Len(cols) = i
    BY <1>1
  <2> QED
    BY <1>2, <2>1
<1>5. ASSUME NEW k \in 1 .. Len(cols) + Len(new), k \notin 1 .. Len(cols)
      PROVE  \E i \in 1 .. Len(new) : k = Len(cols) + i
  <2>1. k - Len(cols) \in 1 .. Len(new) /\ k = Len(cols) + (k - Len(cols))
    BY <1>1, <1>5
  <2> QED
    BY <2>1
<1> QED
  BY <1>2, <1>3, <1>4, <1>5 DEF all

LEMMA InsertKeepsKey ==
    ASSUME NEW cols, KeyFirst(cols), Len(cols) >= 2, NEW new, NoKey(new)
    PROVE  /\ KeyFirst(cols \o new) /\ Len(cols \o new) >= 2
           /\ (cols \o new)[1] = cols[1]
<1> DEFINE all == cols \o new
<1>1. /\ cols \in Seq(Column) /\ new \in Seq(Column)
      /\ Len(cols) \in Nat /\ Len(new) \in Nat
  BY ColumnsType DEF KeyFirst, NoKey
<1>2. /\ all \in Seq(Column) /\ Len(all) = Len(cols) + Len(new)
      /\ \A i \in 1 .. Len(cols) : all[i] = cols[i]
      /\ \A i \in 1 .. Len(new) : all[Len(cols) + i] = new[i]
      /\ \A k \in 1 .. Len(cols) + Len(new) :
             \/ k \in 1 .. Len(cols)
             \/ \E i \in 1 .. Len(new) : k = Len(cols) + i
  BY <1>1, ConcatColumns
<1> HIDE DEF all
<1>3. ASSUME NEW k \in 1 .. Len(all)
      PROVE  (all[k].primary_key <=> k = 1) /\ (k = 1 => all[k].type = "INT")
  <2>1. CASE k \in 1 .. Len(cols)
    BY <1>2, <2>1 DEF KeyFirst
  <2>2. CASE \E i \in 1 .. Len(new) : k = Len(cols) + i
    <3>1. PICK i \in 1 .. Len(new) : k = Len(cols) + i
      BY <2>2
    <3>2. all[k] = new[i] /\ k # 1
      BY <1>1, <1>2, <3>1
    <3> QED
      BY <3>2 DEF NoKey
  <2> QED
    BY <1>2, <2>1, <2>2
<1>4. KeyFirst(all) /\ Len(all) >= 2 /\ all[1] = cols[1]
  BY <1>1, <1>2, <1>3 DEF KeyFirst
<1> QED
  BY <1>4 DEF all

LEMMA AddKeepsNoKey ==
    ASSUME NEW cols, NoKey(cols), NEW c \in randomColumn(FALSE)
    PROVE  NoKey(Append(cols, c))
<1>1. cols \in Seq(Column) /\ Len(cols) \in Nat /\ c \in Column /\ ~c.primary_key
  BY ColumnsType DEF NoKey, randomColumn
<1>2. /\ Append(cols, c) \in Seq(Column) /\ Len(Append(cols, c)) = Len(cols) + 1
      /\ \A i \in 1 .. Len(cols) : Append(cols, c)[i] = cols[i]
      /\ Append(cols, c)[Len(cols) + 1] = c
  BY <1>1, AppendProperties
<1> QED
  BY <1>1, <1>2 DEF NoKey

-----------------------------------------------------------------------------
(* Columns of the metadata that follow those of the database.              *)

Follows(cols, base) ==
    /\ Len(cols) = Len(base)
    /\ \A i \in 1 .. Len(cols) : /\ cols[i].name = base[i].name
                                 /\ cols[i].type # base[i].type => i = 1

\* A drop the statement makes takes the same position from both.
LEMMA DropFollows ==
    ASSUME NEW cols, KeyFirst(cols), Len(cols) >= 3, NEW i \in 2 .. Len(cols),
           NEW base \in Seq(Column), DistinctNames(base), NEW drops \in Seq(Names),
           CanDrop(base, drops) => Follows(cols, Remaining(base, drops)[Len(drops)]),
           CanDrop(base, Append(drops, cols[i].name))
    PROVE  Follows(RemoveAt(cols, i),
                   Remaining(base, Append(drops, cols[i].name))[Len(Append(drops, cols[i].name))])
<1> DEFINE name == cols[i].name
           more == Append(drops, name)
           N == Len(drops)
           kept == Remaining(base, drops)[N]
<1>1. /\ cols \in Seq(Column) /\ Len(cols) \in Nat /\ N \in Nat /\ i \in 1 .. Len(cols)
      /\ i \in Nat /\ i >= 2 /\ i <= Len(cols)
      /\ name \in Names /\ DOMAIN drops = 1 .. N
  <2>1. cols \in Seq(Column)
    BY DEF KeyFirst
  <2>2. /\ Len(cols) \in Nat /\ N \in Nat /\ DOMAIN drops = 1 .. N
        /\ \A k \in 1 .. Len(cols) : cols[k] \in Column
    BY <2>1, ColumnsType, LenProperties
  <2>3. i \in 1 .. Len(cols) /\ i \in Nat /\ i >= 2 /\ i <= Len(cols)
    BY <2>2
  <2>4. name \in Names
    BY <2>2, <2>3 DEF Column
  <2> QED
    BY <2>1, <2>2, <2>3, <2>4
<1>2. /\ more \in Seq(Names) /\ Len(more) = N + 1 /\ DOMAIN more = 1 .. N + 1
      /\ \A n \in 1 .. N : more[n] = drops[n]
      /\ more[N + 1] = name
  BY <1>1, AppendProperties, LenProperties
<1>3. /\ \A n \in 0 .. N : Remaining(base, more)[n] = Remaining(base, drops)[n]
      /\ Remaining(base, more)[N + 1] = Without(kept, name)
  BY <1>1, RemainingPrefix
<1>4. kept \in Seq(Column) /\ DistinctNames(kept)
  BY <1>1, RemainingType
<1>5. \A n \in 1 .. N + 1 : more[n] \in NamesOf(Remaining(base, more)[n - 1])
  BY <1>2 DEF CanDrop
<1> HIDE DEF more, kept
<1>6. CanDrop(base, drops)
  <2>1. ASSUME NEW n \in 1 .. N PROVE drops[n] \in NamesOf(Remaining(base, drops)[n - 1])
    <3>1. n \in 1 .. N + 1 /\ n - 1 \in 0 .. N
      BY <1>1
    <3> QED
      BY <1>2, <1>3, <1>5, <3>1
  <2> QED
    BY <1>1, <2>1 DEF CanDrop
<1>7. Follows(cols, kept)
  BY <1>6 DEF kept
<1>8. name \in NamesOf(kept)
  <2>1. N + 1 \in 1 .. N + 1 /\ (N + 1) - 1 = N /\ N \in 0 .. N
    BY <1>1
  <2> QED
    BY <1>2, <1>3, <1>5, <2>1 DEF kept
<1>9. Position(kept, name) = i
  <2>1. i \in DOMAIN kept /\ kept[i].name = name
    BY <1>1, <1>4, <1>7, ColumnsType DEF Follows
  <2>2. Position(kept, name) \in DOMAIN kept /\ kept[Position(kept, name)].name = name
    BY <2>1 DEF Position
  <2> QED
    BY <1>4, <2>1, <2>2 DEF DistinctNames
<1> HIDE DEF name
<1>10. Remaining(base, more)[Len(more)] = RemoveAt(kept, i)
  BY <1>2, <1>3, <1>8, <1>9 DEF Without
<1>11. Len(kept) = Len(cols) /\ i \in 1 .. Len(kept)
  BY <1>1, <1>7 DEF Follows
<1>12. /\ Len(RemoveAt(cols, i)) = Len(cols) - 1 /\ Len(RemoveAt(kept, i)) = Len(cols) - 1
       /\ \A k \in 1 .. Len(cols) - 1 :
              /\ RemoveAt(cols, i)[k] = cols[IF k < i THEN k ELSE k + 1]
              /\ RemoveAt(kept, i)[k] = kept[IF k < i THEN k ELSE k + 1]
  BY <1>1, <1>4, <1>11, RemoveAtColumns
<1>13. ASSUME NEW k \in 1 .. Len(cols) - 1
       PROVE  /\ RemoveAt(cols, i)[k].name = RemoveAt(kept, i)[k].name
              /\ RemoveAt(cols, i)[k].type # RemoveAt(kept, i)[k].type => k = 1
  <2> DEFINE was == IF k < i THEN k ELSE k + 1
  <2>1. was \in 1 .. Len(cols) /\ (was = 1 => k = 1)
    BY <1>1
  <2>2. RemoveAt(cols, i)[k] = cols[was] /\ RemoveAt(kept, i)[k] = kept[was]
    BY <1>12
  <2> HIDE DEF was
  <2> QED
    BY <1>7, <2>1, <2>2 DEF Follows
<1>14. Follows(RemoveAt(cols, i), RemoveAt(kept, i))
  BY <1>12, <1>13 DEF Follows
<1> QED
  BY <1>10, <1>14 DEF more, name

\* Changing types keeps the columns' names.
LEMMA RetypedColumns ==
    ASSUME NEW kept \in Seq(Column)
    PROVE  /\ Retyped(kept) \in Seq(Column) /\ Len(Retyped(kept)) = Len(kept)
           /\ \A i \in 1 .. Len(kept) :
                  /\ Retyped(kept)[i].name = kept[i].name
                  /\ Retyped(kept)[i].type # kept[i].type =>
                         \E k \in DOMAIN clauses.type : clauses.type[k] = kept[i].name
<1> DEFINE typed == Retyped(kept)
<1>1. /\ Len(kept) \in Nat /\ DOMAIN kept = 1 .. Len(kept)
      /\ \A i \in 1 .. Len(kept) : kept[i] \in Column
  BY ColumnsType
<1>2. ASSUME NEW i \in 1 .. Len(kept)
      PROVE  /\ typed[i] \in Column /\ typed[i].name = kept[i].name
             /\ typed[i].type # kept[i].type =>
                    \E k \in DOMAIN clauses.type : clauses.type[k] = kept[i].name
  <2>1. typed[i] = IF \E k \in DOMAIN clauses.type : clauses.type[k] = kept[i].name
                   THEN [kept[i] EXCEPT !.type = "VARCHAR"] ELSE kept[i]
    BY <1>1 DEF Retyped
  <2>2. kept[i] \in Column
    BY <1>1
  <2> QED
    BY <2>1, <2>2 DEF Column, Types
<1>3. typed \in Seq(Column) /\ Len(typed) = Len(kept)
  <2>1. typed \in [1 .. Len(kept) -> Column]
    BY <1>1, <1>2 DEF Retyped
  <2> HIDE DEF typed
  <2> QED
    BY <1>1, <2>1, SeqDef, LenProperties
<1> QED
  BY <1>2, <1>3

\* Columns with names the others do not have, behind them.
LEMMA AddedDistinct ==
    ASSUME NEW cols \in Seq(Column), DistinctNames(cols),
           NEW new \in Seq(Column), DistinctNames(new),
           NamesOf(new) \intersect NamesOf(cols) = {}
    PROVE  DistinctNames(cols \o new)
<1> DEFINE all == cols \o new
<1>1. /\ Len(cols) \in Nat /\ Len(new) \in Nat
      /\ DOMAIN cols = 1 .. Len(cols) /\ DOMAIN new = 1 .. Len(new)
  BY ColumnsType
<1>2. /\ all \in Seq(Column) /\ Len(all) = Len(cols) + Len(new)
      /\ \A i \in 1 .. Len(cols) : all[i] = cols[i]
      /\ \A i \in 1 .. Len(new) : all[Len(cols) + i] = new[i]
      /\ \A k \in 1 .. Len(cols) + Len(new) :
             \/ k \in 1 .. Len(cols)
             \/ \E i \in 1 .. Len(new) : k = Len(cols) + i
  BY ConcatColumns
<1> HIDE DEF all
<1>3. ASSUME NEW j \in 1 .. Len(cols) + Len(new), NEW k \in 1 .. Len(cols) + Len(new),
             all[j].name = all[k].name
      PROVE  j = k
  <2>1. \A i \in 1 .. Len(cols) : all[i].name = cols[i].name /\ cols[i].name \in NamesOf(cols)
    BY <1>1, <1>2 DEF NamesOf
  <2>2. \A i \in 1 .. Len(new) :
            all[Len(cols) + i].name = new[i].name /\ new[i].name \notin NamesOf(cols)
    BY <1>1, <1>2 DEF NamesOf
  <2>3. CASE j \in 1 .. Len(cols) /\ k \in 1 .. Len(cols)
    BY <1>1, <1>3, <2>1, <2>3 DEF DistinctNames
  <2>4. ASSUME NEW i \in 1 .. Len(new), j = Len(cols) + i
        PROVE  j = k
    <3>1. all[j].name = new[i].name /\ new[i].name \notin NamesOf(cols)
      BY <2>2, <2>4
    <3>2. k \notin 1 .. Len(cols)
      BY <1>3, <2>1, <3>1
    <3>3. PICK l \in 1 .. Len(new) : k = Len(cols) + l
      BY <1>2, <3>2
    <3>4. new[i].name = new[l].name
      BY <1>3, <2>2, <3>1, <3>3
    <3> QED
      BY <1>1, <2>4, <3>3, <3>4 DEF DistinctNames
  <2>5. ASSUME NEW i \in 1 .. Len(new), k = Len(cols) + i
        PROVE  j \notin 1 .. Len(cols)
    <3>1. all[k].name = new[i].name /\ new[i].name \notin NamesOf(cols)
      BY <2>2, <2>5
    <3> QED
      BY <1>3, <2>1, <3>1
  <2>6. CASE j \in 1 .. Len(cols) /\ k \notin 1 .. Len(cols)
    BY <1>2, <2>5, <2>6
  <2>7. CASE j \notin 1 .. Len(cols)
    BY <1>2, <2>4, <2>7
  <2> QED
    BY <2>3, <2>6, <2>7
<1>4. DistinctNames(all)
  BY <1>2, <1>3, ColumnsType DEF DistinctNames
<1> QED
  BY <1>4 DEF all

\* What the statement makes of the columns the drops leave.
LEMMA AlteredType ==
    ASSUME NEW kept \in Seq(Column), DistinctNames(kept),
           NEW new \in Seq(Column), DistinctNames(new),
           NamesOf(new) \intersect NamesOf(kept) = {}
    PROVE  /\ Retyped(kept) \o new \in Seq(Column)
           /\ DistinctNames(Retyped(kept) \o new)
<1> DEFINE typed == Retyped(kept)
<1>1. /\ typed \in Seq(Column) /\ Len(typed) = Len(kept)
      /\ \A i \in 1 .. Len(kept) : typed[i].name = kept[i].name
  BY RetypedColumns
<1> HIDE DEF typed
<1>2. DOMAIN typed = 1 .. Len(kept) /\ DOMAIN kept = 1 .. Len(kept)
  BY <1>1, ColumnsType
<1>3. DistinctNames(typed) /\ NamesOf(typed) = NamesOf(kept)
  BY <1>1, <1>2 DEF DistinctNames, NamesOf
<1>4. typed \o new \in Seq(Column)
  BY <1>1, ConcatProperties
<1>5. DistinctNames(typed \o new)
  BY <1>1, <1>3, AddedDistinct
<1> QED
  BY <1>4, <1>5 DEF typed

\* If only the key's type was changed, the columns with the new ones follow
\* what the statement makes of the rest.
LEMMA AlterFollows ==
    ASSUME NEW cols \in Seq(Column), Len(cols) >= 2, NEW kept \in Seq(Column),
           DistinctNames(kept), Follows(cols, kept), NEW new \in Seq(Column),
           \A k \in DOMAIN clauses.type : clauses.type[k] = cols[1].name
    PROVE  Follows(cols \o new, Retyped(kept) \o new)
<1> DEFINE typed == Retyped(kept)
<1>1. /\ Len(cols) \in Nat /\ Len(kept) = Len(cols) /\ Len(new) \in Nat
      /\ DOMAIN kept = 1 .. Len(cols) /\ 1 \in 1 .. Len(cols)
  BY ColumnsType DEF Follows
<1>2. /\ typed \in Seq(Column) /\ Len(typed) = Len(cols)
      /\ \A i \in 1 .. Len(cols) :
             /\ typed[i].name = kept[i].name
             /\ typed[i].type # kept[i].type =>
                    \E k \in DOMAIN clauses.type : clauses.type[k] = kept[i].name
  BY <1>1, RetypedColumns
<1> HIDE DEF typed
<1>3. ASSUME NEW i \in 1 .. Len(cols), typed[i].type # kept[i].type
      PROVE  i = 1
  <2>1. kept[i].name = kept[1].name
    BY <1>1, <1>2, <1>3 DEF Follows
  <2> QED
    BY <1>1, <2>1 DEF DistinctNames
<1> DEFINE all == typed \o new
           mine == cols \o new
<1>4. /\ Len(all) = Len(cols) + Len(new)
      /\ \A i \in 1 .. Len(cols) : all[i] = typed[i]
      /\ \A i \in 1 .. Len(new) : all[Len(cols) + i] = new[i]
  <2>1. /\ Len(all) = Len(typed) + Len(new)
        /\ \A i \in 1 .. Len(typed) : all[i] = typed[i]
        /\ \A i \in 1 .. Len(new) : all[Len(typed) + i] = new[i]
    BY <1>2, ConcatColumns
  <2> HIDE DEF all
  <2> QED
    BY <1>2, <2>1
<1>5. /\ Len(mine) = Len(cols) + Len(new)
      /\ \A i \in 1 .. Len(cols) : mine[i] = cols[i]
      /\ \A i \in 1 .. Len(new) : mine[Len(cols) + i] = new[i]
      /\ \A k \in 1 .. Len(cols) + Len(new) :
             \/ k \in 1 .. Len(cols)
             \/ \E i \in 1 .. Len(new) : k = Len(cols) + i
  BY ConcatColumns
<1> HIDE DEF all, mine
<1>6. ASSUME NEW k \in 1 .. Len(cols) + Len(new)
      PROVE  mine[k].name = all[k].name /\ (mine[k].type # all[k].type => k = 1)
  <2>1. CASE k \in 1 .. Len(cols)
    <3>1. mine[k] = cols[k] /\ all[k] = typed[k]
      BY <1>4, <1>5, <2>1
    <3>2. cols[k].name = kept[k].name /\ (cols[k].type # kept[k].type => k = 1)
      BY <2>1 DEF Follows
    <3>3. typed[k].name = kept[k].name /\ (typed[k].type # kept[k].type => k = 1)
      BY <1>2, <1>3, <2>1
    <3> QED
      BY <3>1, <3>2, <3>3
  <2>2. CASE \E i \in 1 .. Len(new) : k = Len(cols) + i
    <3>1. PICK i \in 1 .. Len(new) : k = Len(cols) + i
      BY <2>2
    <3>2. mine[k] = new[i] /\ all[k] = new[i]
      BY <1>4, <1>5, <3>1
    <3> QED
      BY <3>2
  <2> QED
    BY <1>5, <2>1, <2>2
<1>7. Follows(mine, all)
  BY <1>4, <1>5, <1>6 DEF Follows
<1> QED
  BY <1>7 DEF all, mine, typed

-----------------------------------------------------------------------------
(* The inductive invariant.                                                *)

AtDml == {"insert", "update", "delete"}

\* The copy an ALTER works on never loses its first column, its new columns
\* have no key, and the one type it changes is the key's.  The first column of
\* the table is never another one, so the copies DML reads have it too.
KeyInv ==
    /\ KeyFirst(columns) /\ NoKey(added)
    /\ owner = NoWorker => clauses = NoClauses /\ added = <<>>
    /\ owner # NoWorker => /\ KeyFirst(draft) /\ Len(draft) >= 2
                           /\ draft[1] = columns[1]
    /\ \A k \in DOMAIN clauses.type : clauses.type[k] = columns[1].name
    /\ \A w \in Workers :
           /\ KeyFirst(snapshot[w])
           /\ pc[w] = "clauses" => clauses.add = added
           /\ pc[w] \in {"sql", "publish"} => added = <<>>
           /\ pc[w] \in AtDml => snapshot[w] # <<>> /\ snapshot[w][1] = columns[1]

\* The copy of an ALTER follows what its drops leave of the database, as long
\* as the statement can drop them; a list of columns that DML works with
\* follows the database, unless that was altered since.
PublishedFollows ==
    (\A w \in Workers : pc[w] # "publish") => Follows(columns, database)

DraftFollows == CanDrop(database, clauses.drop) => Follows(draft, Kept)

StatementFollows == CanDrop(database, clauses.drop) =>
    \E cols \in Seq(Column) : /\ Len(cols) >= 2 /\ cols[1] = columns[1]
                              /\ Follows(cols, Kept)
                              /\ draft = cols \o clauses.add

FollowInv == ~tainted =>
    /\ PublishedFollows
    /\ \A w \in Workers :
           /\ pc[w] = "clauses" => DraftFollows
           /\ pc[w] = "sql" => StatementFollows
           /\ pc[w] = "publish" => Follows(draft, database)
           /\ pc[w] \in AtDml /\ w \notin altered => Follows(snapshot[w], database)

ColumnsInv == TypeOK /\ KeyInv /\ FollowInv /\ DmlErrorsExplained

LEMMA EmptyColumns ==
    KeyFirst(<<>>) /\ NoKey(<<>>) /\ DistinctNames(<<>>) /\ <<>> \in Seq(Column)
BY EmptySeq, ColumnsType DEF KeyFirst, NoKey, DistinctNames

LEMMA InitColumns == Init => ColumnsInv
<1> SUFFICES ASSUME Init PROVE ColumnsInv
  OBVIOUS
<1>1. PICK n \in 2 .. MaxColumns :
          columns \in {cols \in [1 .. n -> Column] :
              \A i \in 1 .. n : cols[i] \in randomColumn(i = 1)}
  BY DEF Init
<1>2. /\ n \in Nat /\ n >= 2
      /\ columns \in [1 .. n -> Column]
      /\ \A i \in 1 .. n : columns[i] \in randomColumn(i = 1)
  BY <1>1, ColumnsAssumption
<1>3. columns \in Seq(Column) /\ Len(columns) = n
  BY <1>2, SeqDef, LenProperties
<1>4. \A i \in 1 .. n : /\ columns[i].primary_key <=> i = 1
                        /\ i = 1 => columns[i].type = "INT"
  BY <1>2 DEF randomColumn
<1>5. KeyFirst(columns)
  BY <1>3, <1>4 DEF KeyFirst
<1>6. database \in Seq(Column) /\ DistinctNames(database)
  BY <1>3, EmptyColumns DEF Init
<1>7. ~tainted => Follows(columns, database)
  BY DEF Init, Follows
<1>8. /\ owner = NoWorker /\ pc = [w \in Workers |-> "idle"] /\ draft = <<>>
      /\ added = <<>> /\ clauses = NoClauses /\ left = 0 /\ changingAm = FALSE
      /\ alters = 0 /\ snapshot = [w \in Workers |-> <<>>] /\ altered = {}
      /\ tainted \in BOOLEAN
  BY DEF Init
<1>9. /\ NoClauses \in [drop : Seq(Names), type : Seq(Names), add : Seq(Column),
                        method : Seq({"random"})]
      /\ DOMAIN NoClauses.type = {}
      /\ HowMany(NoClauses) = 0
  <2>1. \A S : <<>> \in Seq(S)
    BY EmptySeq
  <2>2. Len(<<>>) = 0 /\ DOMAIN <<>> = {}
    BY EmptySeq, LenProperties
  <2> QED
    BY <2>1, <2>2 DEF NoClauses, HowMany
<1>10. MaxClauses \in Nat /\ MaxAlters \in Nat /\ NoWorker \notin Workers
  BY ColumnsAssumption
<1>11. TypeOK
  <2>1. {columns, database, draft, added} \subseteq Seq(Column) /\ Len(columns) >= 2
    BY <1>2, <1>3, <1>6, <1>8, EmptyColumns
  <2>2. /\ clauses \in [drop : Seq(Names), type : Seq(Names), add : Seq(Column),
                        method : Seq({"random"})]
        /\ HowMany(clauses) + left <= MaxClauses
    BY <1>8, <1>9, <1>10
  <2>3. /\ alters \in 0 .. MaxAlters /\ left \in 0 .. MaxClauses
        /\ snapshot \in [Workers -> Seq(Column)] /\ altered \subseteq Workers
        /\ changingAm \in BOOLEAN /\ tainted \in BOOLEAN
    <3>1. snapshot \in [Workers -> Seq(Column)] /\ altered \subseteq Workers
      BY <1>8, EmptyColumns
    <3>2. alters \in 0 .. MaxAlters /\ left \in 0 .. MaxClauses
      BY <1>8, <1>10
    <3>3. changingAm \in BOOLEAN /\ tainted \in BOOLEAN
      BY <1>8
    <3> QED
      BY <3>1, <3>2, <3>3
  <2>4. /\ \A w \in Workers : pc[w] \in {"clauses", "sql", "publish"} <=> owner = w
        /\ pc \in [Workers -> {"idle", "clauses", "sql", "publish", "insert", "update",
                               "delete", "delete failed", "values failed"}]
    <3>1. \A w \in Workers : pc[w] = "idle" /\ owner # w
      BY <1>8, <1>10
    <3>2. pc \in [Workers -> {"idle"}]
      BY <1>8
    <3> QED
      BY <3>1, <3>2
  <2> QED
    BY <1>6, <1>8, <2>1, <2>2, <2>3, <2>4 DEF TypeOK
<1>12. KeyInv
  BY <1>5, <1>8, <1>9, EmptyColumns DEF KeyInv, AtDml
<1>13. FollowInv
  BY <1>7, <1>8 DEF FollowInv, PublishedFollows, AtDml
<1>14. DmlErrorsExplained
  BY <1>8 DEF DmlErrorsExplained
<1> QED
  BY <1>11, <1>12, <1>13, <1>14 DEF ColumnsInv

-----------------------------------------------------------------------------
(* AlterTable::execute keeps the invariant.                                *)

LEMMA AlterKeeps ==
    ASSUME ColumnsInv, NEW w \in Workers, Alter(w)
    PROVE  ColumnsInv'
<1>1. /\ pc[w] = "idle" /\ pc' = [pc EXCEPT ![w] = "clauses"]
      /\ owner = NoWorker /\ owner' = w
      /\ alters < MaxAlters /\ alters' = alters + 1
      /\ draft' = columns /\ left' \in 1 .. MaxClauses
      /\ UNCHANGED <<columns, database, added, clauses, changingAm, snapshot, altered,
                     tainted>>
  BY DEF Alter, Goto, dmlVars
<1>2. /\ TypeOK /\ KeyInv /\ FollowInv /\ DmlErrorsExplained
      /\ NoWorker \notin Workers /\ MaxClauses \in Nat /\ MaxAlters \in Nat
  BY ColumnsAssumption DEF ColumnsInv
<1>3. clauses = NoClauses /\ added = <<>>
  BY <1>1, <1>2 DEF KeyInv
<1>4. \A v \in Workers : pc[v] \notin {"clauses", "sql", "publish"}
  BY <1>1, <1>2 DEF TypeOK
<1>5. /\ HowMany(NoClauses) = 0 /\ NoClauses.add = <<>>
      /\ NoClauses.drop = <<>> /\ <<>> \in Seq(Names) /\ Len(<<>>) = 0
  BY EmptySeq DEF NoClauses, HowMany
<1>6. TypeOK'
  <2>1. {columns, database, draft, added}' \subseteq Seq(Column)
    BY <1>1, <1>2 DEF TypeOK
  <2>2. alters' \in 0 .. MaxAlters /\ left' \in 0 .. MaxClauses
    <3>1. alters \in 0 .. MaxAlters
      BY <1>2 DEF TypeOK
    <3> QED
      BY <1>1, <1>2, <3>1
  <2>3. HowMany(clauses') + left' <= MaxClauses
    <3>1. HowMany(clauses') = 0
      <4>1. clauses' = NoClauses
        BY <1>1, <1>3
      <4>2. HowMany(NoClauses) = 0
        BY <1>5
      <4> QED
        BY <4>1, <4>2
    <3>2. left' \in Nat /\ left' <= MaxClauses
      BY <1>1, <1>2
    <3> QED
      BY <3>1, <3>2
  <2>4. /\ pc' \in [Workers -> {"idle", "clauses", "sql", "publish", "insert", "update",
                                "delete", "delete failed", "values failed"}]
        /\ \A v \in Workers : pc'[v] \in {"clauses", "sql", "publish"} <=> owner' = v
    <3>1. pc \in [Workers -> {"idle", "clauses", "sql", "publish", "insert", "update",
                             "delete", "delete failed", "values failed"}]
      BY <1>2 DEF TypeOK
    <3>2. ASSUME NEW v \in Workers
          PROVE  pc'[v] \in {"clauses", "sql", "publish"} <=> owner' = v
      <4>1. CASE v = w
        BY <1>1, <3>1, <4>1
      <4>2. CASE v # w
        BY <1>1, <1>4, <3>1, <4>2
      <4> QED
        BY <4>1, <4>2
    <3> QED
      BY <1>1, <3>1, <3>2
  <2> QED
    BY <1>1, <1>2, <2>1, <2>2, <2>3, <2>4 DEF TypeOK
<1>7. KeyInv'
  BY <1>1, <1>2, <1>3, <1>5 DEF KeyInv, TypeOK, AtDml
<1>8. FollowInv'
  <2> SUFFICES ASSUME ~tainted PROVE FollowInv'
    BY <1>1 DEF FollowInv
  <2>1. Follows(columns, database)
    BY <1>2, <1>4 DEF FollowInv, PublishedFollows
  <2>2. Remaining(database, clauses.drop)[Len(clauses.drop)] = database
    BY <1>3, <1>5, RemainingStep
  <2>3. DraftFollows' /\ PublishedFollows'
    BY <1>1, <2>1, <2>2 DEF DraftFollows, PublishedFollows, Kept
  <2>4. \A v \in Workers : /\ pc'[v] \notin {"sql", "publish"}
                           /\ pc'[v] \in AtDml => pc[v] \in AtDml
    BY <1>1, <1>2, <1>4 DEF TypeOK, AtDml
  <2> QED
    BY <1>1, <1>2, <2>3, <2>4 DEF FollowInv
<1>9. DmlErrorsExplained'
  BY <1>1, <1>2 DEF DmlErrorsExplained, TypeOK
<1> QED
  BY <1>6, <1>7, <1>8, <1>9 DEF ColumnsInv

LEMMA HowManyType ==
    ASSUME NEW said, Len(said.drop) \in Nat, Len(said.type) \in Nat,
           Len(said.add) \in Nat, Len(said.method) \in Nat
    PROVE  HowMany(said) \in Nat
<1> DEFINE a == Len(said.drop)
           b == Len(said.type)
           c == Len(said.add)
           d == Len(said.method)
<1>1. /\ a \in Nat /\ b \in Nat /\ c \in Nat /\ d \in Nat
      /\ HowMany(said) = a + b + c + d
  BY DEF HowMany
<1> HIDE DEF a, b, c, d
<1> QED
  BY <1>1

LEMMA HowManyStep ==
    ASSUME NEW was, NEW is,
           Len(was.drop) \in Nat, Len(was.type) \in Nat,
           Len(was.add) \in Nat, Len(was.method) \in Nat,
           LET Same(kind) == Len(is[kind]) = Len(was[kind])
               More(kind) == Len(is[kind]) = Len(was[kind]) + 1
           IN  \/ More("drop") /\ Same("type") /\ Same("add") /\ Same("method")
               \/ Same("drop") /\ More("type") /\ Same("add") /\ Same("method")
               \/ Same("drop") /\ Same("type") /\ More("add") /\ Same("method")
               \/ Same("drop") /\ Same("type") /\ Same("add") /\ More("method")
    PROVE  HowMany(was) \in Nat /\ HowMany(is) = HowMany(was) + 1
<1> DEFINE a == Len(was.drop)
           b == Len(was.type)
           c == Len(was.add)
           d == Len(was.method)
<1>1. /\ a \in Nat /\ b \in Nat /\ c \in Nat /\ d \in Nat
      /\ HowMany(was) = a + b + c + d
  BY DEF HowMany
<1>2. \/ HowMany(is) = (a + 1) + b + c + d
      \/ HowMany(is) = a + (b + 1) + c + d
      \/ HowMany(is) = a + b + (c + 1) + d
      \/ HowMany(is) = a + b + c + (d + 1)
  BY DEF HowMany
<1> HIDE DEF a, b, c, d
<1> QED
  BY <1>1, <1>2

\* One more clause of a kind.
LEMMA SaysOne ==
    ASSUME TypeOK
    PROVE  /\ \A name \in Names : Says("drop", name) =>
                  /\ clauses'.drop = Append(clauses.drop, name)
                  /\ Len(clauses'.drop) = Len(clauses.drop) + 1
                  /\ clauses'.type = clauses.type /\ clauses'.add = clauses.add
                  /\ clauses'.method = clauses.method
           /\ \A name \in Names : Says("type", name) =>
                  /\ clauses'.type = Append(clauses.type, name)
                  /\ Len(clauses'.type) = Len(clauses.type) + 1
                  /\ clauses'.drop = clauses.drop /\ clauses'.add = clauses.add
                  /\ clauses'.method = clauses.method
           /\ \A c \in Column : Says("add", c) =>
                  /\ clauses'.add = Append(clauses.add, c)
                  /\ Len(clauses'.add) = Len(clauses.add) + 1
                  /\ clauses'.drop = clauses.drop /\ clauses'.type = clauses.type
                  /\ clauses'.method = clauses.method
           /\ Says("method", "random") =>
                  /\ Len(clauses'.method) = Len(clauses.method) + 1
                  /\ clauses'.drop = clauses.drop /\ clauses'.type = clauses.type
                  /\ clauses'.add = clauses.add
           /\ \A name \in Names :
                  Says("drop", name) \/ Says("type", name) =>
                      clauses' \in [drop : Seq(Names), type : Seq(Names), add : Seq(Column),
                                    method : Seq({"random"})]
           /\ (\E c \in Column : Says("add", c)) \/ Says("method", "random") =>
                  clauses' \in [drop : Seq(Names), type : Seq(Names), add : Seq(Column),
                                method : Seq({"random"})]
<1>1. /\ clauses \in [drop : Seq(Names), type : Seq(Names), add : Seq(Column),
                      method : Seq({"random"})]
      /\ clauses.drop \in Seq(Names) /\ clauses.type \in Seq(Names)
      /\ clauses.add \in Seq(Column) /\ clauses.method \in Seq({"random"})
  BY DEF TypeOK
<1>2. /\ \A name \in Names : /\ Append(clauses.drop, name) \in Seq(Names)
                             /\ Len(Append(clauses.drop, name)) = Len(clauses.drop) + 1
                             /\ Append(clauses.type, name) \in Seq(Names)
                             /\ Len(Append(clauses.type, name)) = Len(clauses.type) + 1
      /\ \A c \in Column : /\ Append(clauses.add, c) \in Seq(Column)
                           /\ Len(Append(clauses.add, c)) = Len(clauses.add) + 1
      /\ Append(clauses.method, "random") \in Seq({"random"})
      /\ Len(Append(clauses.method, "random")) = Len(clauses.method) + 1
  BY <1>1, AppendProperties
<1> QED
  BY <1>1, <1>2 DEF Says

\* What one clause does to the copy, the new columns and the clauses.
LEMMA ClauseEffect ==
    ASSUME TypeOK, KeyFirst(columns), KeyFirst(draft), Len(draft) >= 2,
           draft[1] = columns[1], NoKey(added), clauses.add = added,
           \A k \in DOMAIN clauses.type : clauses.type[k] = columns[1].name,
           addColumn \/ dropColumn \/ changeColumn \/ changeAccessMethod
    PROVE  /\ KeyFirst(draft') /\ Len(draft') >= 2 /\ draft'[1] = columns[1]
           /\ NoKey(added') /\ clauses'.add = added'
           /\ clauses' \in [drop : Seq(Names), type : Seq(Names), add : Seq(Column),
                            method : Seq({"random"})]
           /\ HowMany(clauses) \in Nat
           /\ HowMany(clauses') \in {HowMany(clauses), HowMany(clauses) + 1}
           /\ \A k \in DOMAIN clauses'.type : clauses'.type[k] = columns[1].name
           /\ DraftFollows => (CanDrop(database, clauses'.drop) =>
                  Follows(draft', Remaining(database, clauses'.drop)[Len(clauses'.drop)]))
<1>1. /\ clauses \in [drop : Seq(Names), type : Seq(Names), add : Seq(Column),
                      method : Seq({"random"})]
      /\ clauses.drop \in Seq(Names) /\ clauses.type \in Seq(Names)
      /\ database \in Seq(Column) /\ DistinctNames(database)
      /\ draft \in Seq(Column) /\ Len(draft) \in Nat
  BY LenProperties DEF TypeOK
<1>2. /\ Len(clauses.drop) \in Nat /\ Len(clauses.type) \in Nat
      /\ Len(clauses.add) \in Nat /\ Len(clauses.method) \in Nat
      /\ HowMany(clauses) \in Nat
  <2>1. clauses.add \in Seq(Column) /\ clauses.method \in Seq({"random"})
    BY <1>1
  <2>2. /\ Len(clauses.drop) \in Nat /\ Len(clauses.type) \in Nat
        /\ Len(clauses.add) \in Nat /\ Len(clauses.method) \in Nat
    BY <1>1, <2>1, LenProperties
  <2> QED
    BY <2>2, HowManyType
<1>3. CASE draft' = draft /\ added' = added /\ clauses' = clauses
  BY <1>1, <1>2, <1>3 DEF DraftFollows, Kept
<1>4. CASE addColumn
  <2>1. PICK c \in randomColumn(FALSE) :
            Says("add", c) /\ added' = Append(added, c) /\ draft' = draft
    BY <1>4 DEF addColumn
  <2>2. NoKey(Append(added, c)) /\ c \in Column
    BY AddKeepsNoKey DEF randomColumn
  <2>3. /\ clauses'.add = Append(clauses.add, c)
        /\ Len(clauses'.add) = Len(clauses.add) + 1
        /\ clauses'.drop = clauses.drop /\ clauses'.type = clauses.type
        /\ clauses'.method = clauses.method
        /\ clauses' \in [drop : Seq(Names), type : Seq(Names), add : Seq(Column),
                         method : Seq({"random"})]
    BY <2>1, <2>2, SaysOne
  <2>4. HowMany(clauses') = HowMany(clauses) + 1
    BY <1>2, <2>3, HowManyStep
  <2> QED
    BY <1>2, <2>1, <2>2, <2>3, <2>4 DEF DraftFollows, Kept
<1>5. CASE dropColumn /\ Len(draft) >= 3
  <2>1. PICK i \in 2 .. Len(draft) :
            /\ Says("drop", draft[i].name) /\ draft' = RemoveAt(draft, i)
            /\ added' = added
    BY <1>1, <1>5 DEF dropColumn
  <2>2. draft[i].name \in Names
    <3>1. draft[i] \in Column
      BY <1>1, ColumnsType
    <3> QED
      BY <3>1 DEF Column
  <2>3. /\ clauses'.drop = Append(clauses.drop, draft[i].name)
        /\ Len(clauses'.drop) = Len(clauses.drop) + 1
        /\ clauses'.type = clauses.type /\ clauses'.add = clauses.add
        /\ clauses'.method = clauses.method
        /\ clauses' \in [drop : Seq(Names), type : Seq(Names), add : Seq(Column),
                         method : Seq({"random"})]
    BY <2>1, <2>2, SaysOne
  <2>4. /\ KeyFirst(RemoveAt(draft, i)) /\ Len(RemoveAt(draft, i)) >= 2
        /\ RemoveAt(draft, i)[1] = draft[1]
    BY <1>5, DropKeepsKey
  <2>5. HowMany(clauses') = HowMany(clauses) + 1
    BY <1>2, <2>3, HowManyStep
  <2>6. ASSUME DraftFollows, CanDrop(database, clauses'.drop)
        PROVE  Follows(draft', Remaining(database, clauses'.drop)[Len(clauses'.drop)])
    <3>1. /\ CanDrop(database, clauses.drop) =>
                 Follows(draft, Remaining(database, clauses.drop)[Len(clauses.drop)])
          /\ CanDrop(database, Append(clauses.drop, draft[i].name))
      BY <2>3, <2>6 DEF DraftFollows, Kept
    <3>2. Follows(RemoveAt(draft, i),
                  Remaining(database, Append(clauses.drop, draft[i].name))
                      [Len(Append(clauses.drop, draft[i].name))])
      BY <1>1, <1>5, <3>1, DropFollows
    <3> QED
      BY <2>1, <2>3, <3>2
  <2> QED
    BY <1>2, <2>1, <2>3, <2>4, <2>5, <2>6
<1>6. CASE changeColumn
  <2> DEFINE numeric == {i \in DOMAIN draft : draft[i].type = "INT"}
  <2>1. /\ 1 \in numeric /\ \A i \in numeric : i \in Nat /\ 1 <= i
    BY <1>1, ColumnsType DEF KeyFirst
  <2>2. Min(numeric) = 1
    <3> HIDE DEF numeric
    <3>1. Min(numeric) \in numeric /\ \A i \in numeric : Min(numeric) <= i
      BY <2>1 DEF Min
    <3> QED
      BY <2>1, <3>1
  <2>3. Says("type", columns[1].name) /\ draft' = draft /\ added' = added
    BY <1>6, <2>1, <2>2 DEF changeColumn
  <2>4. columns[1].name \in Names
    <3>1. columns \in Seq(Column) /\ Len(columns) >= 2
      BY DEF TypeOK
    <3>2. columns[1] \in Column
      BY <3>1, ColumnsType
    <3> QED
      BY <3>2 DEF Column
  <2>5. /\ clauses'.type = Append(clauses.type, columns[1].name)
        /\ Len(clauses'.type) = Len(clauses.type) + 1
        /\ clauses'.drop = clauses.drop /\ clauses'.add = clauses.add
        /\ clauses'.method = clauses.method
        /\ clauses' \in [drop : Seq(Names), type : Seq(Names), add : Seq(Column),
                         method : Seq({"random"})]
    BY <2>3, <2>4, SaysOne
  <2>6. \A k \in DOMAIN clauses'.type : clauses'.type[k] = columns[1].name
    <3>1. /\ DOMAIN clauses.type = 1 .. Len(clauses.type)
          /\ DOMAIN clauses'.type = 1 .. Len(clauses.type) + 1
          /\ \A k \in 1 .. Len(clauses.type) : clauses'.type[k] = clauses.type[k]
          /\ clauses'.type[Len(clauses.type) + 1] = columns[1].name
      BY <1>1, <2>4, <2>5, AppendProperties, LenProperties
    <3> QED
      BY <1>2, <3>1
  <2>7. HowMany(clauses') = HowMany(clauses) + 1
    BY <1>2, <2>5, HowManyStep
  <2> HIDE DEF numeric
  <2> QED
    BY <1>2, <2>3, <2>5, <2>6, <2>7 DEF DraftFollows, Kept
<1>7. CASE changeAccessMethod /\ ~changingAm
  <2>1. Says("method", "random") /\ draft' = draft /\ added' = added
    BY <1>7 DEF changeAccessMethod
  <2>2. /\ Len(clauses'.method) = Len(clauses.method) + 1
        /\ clauses'.drop = clauses.drop /\ clauses'.type = clauses.type
        /\ clauses'.add = clauses.add
        /\ clauses' \in [drop : Seq(Names), type : Seq(Names), add : Seq(Column),
                         method : Seq({"random"})]
    BY <2>1, SaysOne
  <2>3. HowMany(clauses') = HowMany(clauses) + 1
    BY <1>2, <2>2, HowManyStep
  <2> QED
    BY <1>2, <2>1, <2>2, <2>3 DEF DraftFollows, Kept
<1> QED
  BY <1>1, <1>3, <1>4, <1>5, <1>6, <1>7 DEF dropColumn, changeAccessMethod

LEMMA AddClauseKeeps ==
    ASSUME ColumnsInv, NEW w \in Workers, AddClause(w)
    PROVE  ColumnsInv'
<1>1. /\ pc[w] = "clauses" /\ left > 0 /\ left' = left - 1
      /\ addColumn \/ dropColumn \/ changeColumn \/ changeAccessMethod
      /\ changingAm' \in {TRUE, changingAm}
      /\ UNCHANGED <<columns, database, pc, owner, alters, snapshot, altered, tainted>>
  BY DEF AddClause, dmlVars, addColumn, dropColumn, changeColumn, changeAccessMethod
<1>2. /\ TypeOK /\ KeyInv /\ FollowInv /\ DmlErrorsExplained
      /\ NoWorker \notin Workers /\ MaxClauses \in Nat
  BY ColumnsAssumption DEF ColumnsInv
<1>3. owner = w /\ owner # NoWorker /\ \A v \in Workers \ {w} : pc[v] \notin {"clauses", "sql", "publish"}
  BY <1>1, <1>2 DEF TypeOK
<1>4. /\ KeyFirst(columns) /\ KeyFirst(draft) /\ Len(draft) >= 2
      /\ draft[1] = columns[1] /\ NoKey(added) /\ clauses.add = added
      /\ \A k \in DOMAIN clauses.type : clauses.type[k] = columns[1].name
  BY <1>1, <1>2, <1>3 DEF KeyInv
<1>5. /\ KeyFirst(draft') /\ Len(draft') >= 2 /\ draft'[1] = columns[1]
      /\ NoKey(added') /\ clauses'.add = added'
      /\ clauses' \in [drop : Seq(Names), type : Seq(Names), add : Seq(Column),
                       method : Seq({"random"})]
      /\ HowMany(clauses) \in Nat
      /\ HowMany(clauses') \in {HowMany(clauses), HowMany(clauses) + 1}
      /\ \A k \in DOMAIN clauses'.type : clauses'.type[k] = columns[1].name
      /\ DraftFollows => (CanDrop(database, clauses'.drop) =>
             Follows(draft', Remaining(database, clauses'.drop)[Len(clauses'.drop)]))
  BY <1>1, <1>2, <1>4, ClauseEffect
<1>6. TypeOK'
  <2>1. {columns, database, draft, added}' \subseteq Seq(Column)
    BY <1>1, <1>2, <1>5 DEF TypeOK, KeyFirst, NoKey
  <2>2. left' \in 0 .. MaxClauses
    <3>1. left \in 0 .. MaxClauses
      BY <1>2 DEF TypeOK
    <3> QED
      BY <1>1, <1>2, <3>1
  <2>3. HowMany(clauses') + left' <= MaxClauses
    <3>1. left \in 0 .. MaxClauses /\ HowMany(clauses) + left <= MaxClauses
      BY <1>2 DEF TypeOK
    <3>2. /\ HowMany(clauses) \in Nat /\ left' = left - 1 /\ MaxClauses \in Nat
          /\ HowMany(clauses') \in {HowMany(clauses), HowMany(clauses) + 1}
      BY <1>1, <1>2, <1>5
    <3> QED
      BY <3>1, <3>2
  <2>4. changingAm' \in BOOLEAN
    BY <1>1, <1>2 DEF TypeOK
  <2> QED
    BY <1>1, <1>2, <1>5, <2>1, <2>2, <2>3, <2>4 DEF TypeOK
<1>7. KeyInv'
  <2>1. \A v \in Workers : /\ pc[v] = "clauses" => v = w
                           /\ pc[v] \notin {"sql", "publish"}
    BY <1>1, <1>3
  <2> QED
    BY <1>1, <1>2, <1>3, <1>5, <2>1 DEF KeyInv
<1>8. FollowInv'
  <2> SUFFICES ASSUME ~tainted PROVE FollowInv'
    BY <1>1 DEF FollowInv
  <2>1. DraftFollows'
    BY <1>1, <1>2, <1>5 DEF FollowInv, DraftFollows, Kept
  <2>2. PublishedFollows'
    BY <1>1, <1>2 DEF FollowInv, PublishedFollows
  <2>3. \A v \in Workers : pc[v] \notin {"sql", "publish"}
    BY <1>1, <1>3
  <2> QED
    BY <1>1, <1>2, <2>1, <2>2, <2>3 DEF FollowInv
<1>9. DmlErrorsExplained'
  BY <1>1, <1>2 DEF DmlErrorsExplained
<1> QED
  BY <1>6, <1>7, <1>8, <1>9 DEF ColumnsInv

\* Where the workers are when one of them moves on in an ALTER.
LEMMA OneAlter ==
    ASSUME TypeOK, NEW w \in Workers, pc[w] \in {"clauses", "sql", "publish"},
           NEW to \in {"sql", "publish", "idle"}, pc' = [pc EXCEPT ![w] = to],
           owner' = IF to = "idle" THEN NoWorker ELSE owner
    PROVE  /\ owner = w /\ owner # NoWorker
           /\ pc' \in [Workers -> {"idle", "clauses", "sql", "publish", "insert", "update",
                                   "delete", "delete failed", "values failed"}]
           /\ \A v \in Workers : pc'[v] \in {"clauses", "sql", "publish"} <=> owner' = v
           /\ pc'[w] = to
           /\ \A v \in Workers \ {w} :
                  pc[v] \notin {"clauses", "sql", "publish"} /\ pc'[v] = pc[v]
<1>1. /\ pc \in [Workers -> {"idle", "clauses", "sql", "publish", "insert", "update",
                             "delete", "delete failed", "values failed"}]
      /\ \A v \in Workers : pc[v] \in {"clauses", "sql", "publish"} <=> owner = v
      /\ NoWorker \notin Workers
  BY ColumnsAssumption DEF TypeOK
<1>2. owner = w /\ owner # NoWorker
  BY <1>1
<1>3. /\ pc'[w] = to
      /\ \A v \in Workers \ {w} :
             pc[v] \notin {"clauses", "sql", "publish"} /\ pc'[v] = pc[v]
  BY <1>1, <1>2
<1>4. ASSUME NEW v \in Workers
      PROVE  pc'[v] \in {"clauses", "sql", "publish"} <=> owner' = v
  <2>1. CASE v = w
    BY <1>1, <1>2, <1>3, <2>1
  <2>2. CASE v # w
    BY <1>1, <1>2, <1>3, <2>2
  <2> QED
    BY <2>1, <2>2
<1> QED
  BY <1>1, <1>2, <1>3, <1>4

LEMMA EndOfClausesKeeps ==
    ASSUME ColumnsInv, NEW w \in Workers, EndOfClauses(w)
    PROVE  ColumnsInv'
<1>1. /\ pc[w] = "clauses" /\ pc' = [pc EXCEPT ![w] = "sql"]
      /\ draft' = draft \o added /\ added' = <<>>
      /\ UNCHANGED <<columns, database, owner, clauses, left, changingAm, alters, snapshot,
                     altered, tainted>>
  BY DEF EndOfClauses, Goto, InsertNew, dmlVars
<1>2. TypeOK /\ KeyInv /\ FollowInv /\ DmlErrorsExplained
  BY DEF ColumnsInv
<1>3. /\ owner = w /\ owner # NoWorker
      /\ pc' \in [Workers -> {"idle", "clauses", "sql", "publish", "insert", "update",
                              "delete", "delete failed", "values failed"}]
      /\ \A v \in Workers : pc'[v] \in {"clauses", "sql", "publish"} <=> owner' = v
      /\ pc'[w] = "sql"
      /\ \A v \in Workers \ {w} :
             pc[v] \notin {"clauses", "sql", "publish"} /\ pc'[v] = pc[v]
  BY <1>1, <1>2, OneAlter
<1>4. /\ KeyFirst(columns) /\ KeyFirst(draft) /\ Len(draft) >= 2
      /\ draft[1] = columns[1] /\ NoKey(added) /\ clauses.add = added
  BY <1>1, <1>2, <1>3 DEF KeyInv
<1>5. KeyFirst(draft') /\ Len(draft') >= 2 /\ draft'[1] = columns[1]
  BY <1>1, <1>4, InsertKeepsKey
<1>6. TypeOK'
  <2>1. {columns, database, draft, added}' \subseteq Seq(Column)
    BY <1>1, <1>2, <1>5, EmptyColumns DEF TypeOK, KeyFirst
  <2> QED
    BY <1>1, <1>2, <1>3, <2>1 DEF TypeOK
<1>7. KeyInv'
  <2>1. NoKey(added')
    BY <1>1, EmptyColumns
  <2>2. \A v \in Workers : /\ pc'[v] # "clauses"
                           /\ pc'[v] \in AtDml => pc[v] \in AtDml
    BY <1>3 DEF AtDml
  <2> QED
    BY <1>1, <1>2, <1>3, <1>5, <2>1, <2>2 DEF KeyInv
<1>8. FollowInv'
  <2> SUFFICES ASSUME ~tainted PROVE FollowInv'
    BY <1>1 DEF FollowInv
  <2>1. StatementFollows'
    <3>1. CanDrop(database, clauses.drop) => Follows(draft, Kept)
      BY <1>1, <1>2 DEF FollowInv, DraftFollows
    <3>2. draft \in Seq(Column) /\ draft' = draft \o clauses.add
      BY <1>1, <1>4 DEF KeyFirst
    <3> QED
      BY <1>1, <1>4, <3>1, <3>2 DEF StatementFollows, Kept
  <2>2. Follows(columns, database)
    BY <1>1, <1>2, <1>3 DEF FollowInv, PublishedFollows
  <2>3. PublishedFollows'
    BY <1>1, <2>2 DEF PublishedFollows
  <2>4. \A v \in Workers : /\ pc'[v] \notin {"clauses", "publish"}
                           /\ pc'[v] \in AtDml => pc[v] \in AtDml
    BY <1>3 DEF AtDml
  <2> QED
    BY <1>1, <1>2, <2>1, <2>3, <2>4 DEF FollowInv
<1>9. DmlErrorsExplained'
  BY <1>1, <1>2, <1>3 DEF DmlErrorsExplained
<1> QED
  BY <1>6, <1>7, <1>8, <1>9 DEF ColumnsInv

\* What a statement that succeeds does to the database, and to the copy's
\* agreement with it.
LEMMA StatementEffect ==
    ASSUME TypeOK, KeyInv, IsValid, ~tainted => StatementFollows
    PROVE  /\ Retyped(Kept) \o clauses.add \in Seq(Column)
           /\ DistinctNames(Retyped(Kept) \o clauses.add)
           /\ ~tainted => Follows(draft, Retyped(Kept) \o clauses.add)
<1>1. /\ database \in Seq(Column) /\ DistinctNames(database)
      /\ clauses.drop \in Seq(Names) /\ clauses.add \in Seq(Column)
  BY DEF TypeOK
<1>2. Len(clauses.drop) \in 0 .. Len(clauses.drop)
  BY <1>1, LenProperties
<1>3. Kept \in Seq(Column) /\ DistinctNames(Kept)
  BY <1>1, <1>2, RemainingType DEF Kept
<1>4. /\ DistinctNames(clauses.add) /\ NamesOf(clauses.add) \intersect NamesOf(Kept) = {}
      /\ CanDrop(database, clauses.drop)
  BY DEF IsValid
<1>5. \A k \in DOMAIN clauses.type : clauses.type[k] = columns[1].name
  BY DEF KeyInv
<1>6. ASSUME ~tainted
      PROVE  Follows(draft, Retyped(Kept) \o clauses.add)
  <2>1. PICK cols \in Seq(Column) : /\ Len(cols) >= 2 /\ cols[1] = columns[1]
                                    /\ Follows(cols, Kept)
                                    /\ draft = cols \o clauses.add
    BY <1>4, <1>6 DEF StatementFollows
  <2>2. \A k \in DOMAIN clauses.type : clauses.type[k] = cols[1].name
    BY <1>5, <2>1
  <2> QED
    BY <1>1, <1>3, <2>1, <2>2, AlterFollows
<1>7. /\ Retyped(Kept) \o clauses.add \in Seq(Column)
      /\ DistinctNames(Retyped(Kept) \o clauses.add)
  BY <1>1, <1>3, <1>4, AlteredType
<1> QED
  BY <1>6, <1>7

LEMMA AlterSqlKeeps ==
    ASSUME ColumnsInv, NEW w \in Workers, AlterSql(w)
    PROVE  ColumnsInv'
<1>1. /\ pc[w] = "sql" /\ pc' = [pc EXCEPT ![w] = "publish"]
      /\ \/ /\ IsValid /\ database' = Retyped(Kept) \o clauses.add
            /\ altered' = altered \union {v \in Workers : pc[v] \in AtDml}
            /\ tainted' = tainted
         \/ /\ tainted' = (tainted \/ draft # columns)
            /\ database' = database /\ altered' = altered
      /\ UNCHANGED <<columns, owner, draft, added, clauses, left, changingAm, alters, snapshot>>
  BY DEF AlterSql, Goto, alterVars, AtDml
<1>2. TypeOK /\ KeyInv /\ FollowInv /\ DmlErrorsExplained
  BY DEF ColumnsInv
<1>3. /\ owner = w /\ owner # NoWorker
      /\ pc' \in [Workers -> {"idle", "clauses", "sql", "publish", "insert", "update",
                              "delete", "delete failed", "values failed"}]
      /\ \A v \in Workers : pc'[v] \in {"clauses", "sql", "publish"} <=> owner' = v
      /\ pc'[w] = "publish"
      /\ \A v \in Workers \ {w} :
             pc[v] \notin {"clauses", "sql", "publish"} /\ pc'[v] = pc[v]
  BY <1>1, <1>2, OneAlter
<1>4. ~tainted => StatementFollows /\ Follows(columns, database)
  BY <1>1, <1>2, <1>3 DEF FollowInv, PublishedFollows
<1>5. /\ database' \in Seq(Column) /\ DistinctNames(database')
      /\ ~tainted' => ~tainted /\ Follows(draft, database')
      /\ tainted' \in BOOLEAN /\ altered' \subseteq Workers /\ altered \subseteq altered'
      /\ database' = database \/ \A v \in Workers : pc[v] \in AtDml => v \in altered'
  <2>1. CASE IsValid /\ database' = Retyped(Kept) \o clauses.add
               /\ altered' = altered \union {v \in Workers : pc[v] \in AtDml}
               /\ tainted' = tainted
    <3>1. /\ Retyped(Kept) \o clauses.add \in Seq(Column)
          /\ DistinctNames(Retyped(Kept) \o clauses.add)
          /\ ~tainted => Follows(draft, Retyped(Kept) \o clauses.add)
      BY <1>2, <1>4, <2>1, StatementEffect
    <3>2. tainted \in BOOLEAN /\ altered \subseteq Workers
      BY <1>2 DEF TypeOK
    <3> QED
      BY <2>1, <3>1, <3>2
  <2>2. CASE tainted' = (tainted \/ draft # columns)
               /\ database' = database /\ altered' = altered
    <3>1. ~tainted' => ~tainted /\ Follows(draft, database')
      BY <1>4, <2>2
    <3>2. /\ database \in Seq(Column) /\ DistinctNames(database)
          /\ altered \subseteq Workers
      BY <1>2 DEF TypeOK
    <3>3. tainted' \in BOOLEAN
      BY <2>2
    <3> QED
      BY <2>2, <3>1, <3>2, <3>3
  <2> QED
    BY <1>1, <2>1, <2>2
<1>6. TypeOK'
  <2>1. {columns, database, draft, added}' \subseteq Seq(Column)
    BY <1>1, <1>2, <1>5 DEF TypeOK
  <2> QED
    BY <1>1, <1>2, <1>3, <1>5, <2>1 DEF TypeOK
<1>7. KeyInv'
  <2>1. \A v \in Workers : /\ pc'[v] # "clauses"
                           /\ pc'[v] \in {"sql", "publish"} => pc[v] \in {"sql", "publish"}
                           /\ pc'[v] \in AtDml => pc[v] \in AtDml
    BY <1>1, <1>3 DEF AtDml
  <2> QED
    BY <1>1, <1>2, <1>3, <2>1 DEF KeyInv
<1>8. FollowInv'
  <2> SUFFICES ASSUME ~tainted' PROVE FollowInv'
    BY DEF FollowInv
  <2>1. ~tainted /\ Follows(draft', database')
    BY <1>1, <1>5
  <2>2. PublishedFollows'
    BY <1>3 DEF PublishedFollows
  <2>3. \A v \in Workers : /\ pc'[v] \notin {"clauses", "sql"}
                           /\ pc'[v] \in AtDml => pc[v] \in AtDml
    BY <1>3 DEF AtDml
  <2>4. ASSUME NEW v \in Workers, pc'[v] \in AtDml, v \notin altered'
        PROVE  Follows(snapshot'[v], database')
    <3>1. pc[v] \in AtDml /\ v \notin altered /\ database' = database
      BY <1>5, <2>3, <2>4
    <3> QED
      BY <1>1, <1>2, <2>1, <3>1 DEF FollowInv
  <2> QED
    BY <2>1, <2>2, <2>3, <2>4 DEF FollowInv
<1>9. DmlErrorsExplained'
  <2>1. tainted => tainted'
    BY <1>1
  <2> QED
    BY <1>2, <1>3, <1>5, <2>1 DEF DmlErrorsExplained
<1> QED
  BY <1>6, <1>7, <1>8, <1>9 DEF ColumnsInv

LEMMA PublishKeeps ==
    ASSUME ColumnsInv, NEW w \in Workers, Publish(w)
    PROVE  ColumnsInv'
<1>1. /\ pc[w] = "publish" /\ pc' = [pc EXCEPT ![w] = "idle"]
      /\ columns' = draft /\ owner' = NoWorker /\ draft' = <<>>
      /\ clauses' = NoClauses /\ changingAm' = FALSE
      /\ UNCHANGED <<database, added, left, alters, snapshot, altered, tainted>>
  BY DEF Publish, Goto, dmlVars
<1>2. TypeOK /\ KeyInv /\ FollowInv /\ DmlErrorsExplained
  BY DEF ColumnsInv
<1>3. /\ owner = w /\ owner # NoWorker
      /\ pc' \in [Workers -> {"idle", "clauses", "sql", "publish", "insert", "update",
                              "delete", "delete failed", "values failed"}]
      /\ \A v \in Workers : pc'[v] \in {"clauses", "sql", "publish"} <=> owner' = v
      /\ pc'[w] = "idle"
      /\ \A v \in Workers \ {w} :
             pc[v] \notin {"clauses", "sql", "publish"} /\ pc'[v] = pc[v]
  BY <1>1, <1>2, OneAlter
<1>4. /\ KeyFirst(draft) /\ Len(draft) >= 2 /\ draft[1] = columns[1]
      /\ NoKey(added) /\ added = <<>>
  BY <1>1, <1>2, <1>3 DEF KeyInv
<1>5. /\ NoClauses \in [drop : Seq(Names), type : Seq(Names), add : Seq(Column),
                        method : Seq({"random"})]
      /\ DOMAIN NoClauses.type = {} /\ HowMany(NoClauses) = 0
  <2>1. \A S : <<>> \in Seq(S)
    BY EmptySeq
  <2>2. Len(<<>>) = 0 /\ DOMAIN <<>> = {}
    BY EmptySeq, LenProperties
  <2> QED
    BY <2>1, <2>2 DEF NoClauses, HowMany
<1>6. TypeOK'
  <2>1. {columns, database, draft, added}' \subseteq Seq(Column)
    <3>1. draft \in Seq(Column) /\ <<>> \in Seq(Column)
      BY <1>4, EmptyColumns DEF KeyFirst
    <3>2. database \in Seq(Column) /\ added \in Seq(Column)
      BY <1>2 DEF TypeOK
    <3> QED
      BY <1>1, <3>1, <3>2
  <2>2. HowMany(clauses') + left' <= MaxClauses
    <3>1. HowMany(clauses') = 0
      <4>1. clauses' = NoClauses
        BY <1>1
      <4>2. HowMany(NoClauses) = 0
        BY <1>5
      <4> QED
        BY <4>1, <4>2
    <3>2. left' \in Nat /\ left' <= MaxClauses
      <4>1. left \in 0 .. MaxClauses
        BY <1>2 DEF TypeOK
      <4>2. MaxClauses \in Nat /\ left' = left
        BY <1>1, ColumnsAssumption
      <4> QED
        BY <4>1, <4>2
    <3> QED
      BY <3>1, <3>2
  <2>3. clauses' \in [drop : Seq(Names), type : Seq(Names), add : Seq(Column),
                      method : Seq({"random"})]
    BY <1>1, <1>5
  <2> QED
    BY <1>1, <1>2, <1>3, <1>4, <2>1, <2>2, <2>3 DEF TypeOK
<1>7. KeyInv'
  <2>1. \A v \in Workers : /\ pc'[v] \notin {"clauses", "sql", "publish"}
                           /\ pc'[v] \in AtDml => pc[v] \in AtDml
    BY <1>3 DEF AtDml
  <2>2. \A k \in DOMAIN clauses'.type : clauses'.type[k] = columns'[1].name
    BY <1>1, <1>5
  <2> QED
    BY <1>1, <1>2, <1>4, <2>1, <2>2 DEF KeyInv
<1>8. FollowInv'
  <2> SUFFICES ASSUME ~tainted PROVE FollowInv'
    BY <1>1 DEF FollowInv
  <2>1. Follows(draft, database)
    BY <1>1, <1>2 DEF FollowInv
  <2>2. PublishedFollows'
    BY <1>1, <2>1 DEF PublishedFollows
  <2>3. \A v \in Workers : /\ pc'[v] \notin {"clauses", "sql", "publish"}
                           /\ pc'[v] \in AtDml => pc[v] \in AtDml
    BY <1>3 DEF AtDml
  <2> QED
    BY <1>1, <1>2, <2>2, <2>3 DEF FollowInv
<1>9. DmlErrorsExplained'
  BY <1>1, <1>2, <1>3 DEF DmlErrorsExplained
<1> QED
  BY <1>6, <1>7, <1>8, <1>9 DEF ColumnsInv

-----------------------------------------------------------------------------
(* DML keeps the invariant.                                                *)

LEMMA SnapshotKeeps ==
    ASSUME ColumnsInv, NEW w \in Workers, Snapshot(w)
    PROVE  ColumnsInv'
<1>1. PICK statement \in AtDml :
          /\ pc[w] = "idle" /\ pc' = [pc EXCEPT ![w] = statement]
          /\ owner = NoWorker
          /\ snapshot' = [snapshot EXCEPT ![w] = columns]
          /\ altered' = altered \ {w}
          /\ UNCHANGED <<columns, database, owner, draft, added, clauses, left, changingAm,
                         alters, tainted>>
  BY DEF Snapshot, Goto, alterVars, AtDml
<1>2. TypeOK /\ KeyInv /\ FollowInv /\ DmlErrorsExplained
  BY DEF ColumnsInv
<1>3. /\ pc \in [Workers -> {"idle", "clauses", "sql", "publish", "insert", "update",
                             "delete", "delete failed", "values failed"}]
      /\ \A v \in Workers : pc[v] \in {"clauses", "sql", "publish"} <=> owner = v
      /\ snapshot \in [Workers -> Seq(Column)] /\ columns \in Seq(Column)
      /\ altered \subseteq Workers /\ Len(columns) >= 2
      /\ statement \in {"insert", "update", "delete"}
  BY <1>2 DEF TypeOK, AtDml
<1>4. /\ pc' \in [Workers -> {"idle", "clauses", "sql", "publish", "insert", "update",
                              "delete", "delete failed", "values failed"}]
      /\ pc'[w] = statement /\ snapshot'[w] = columns
      /\ \A v \in Workers \ {w} : pc'[v] = pc[v] /\ snapshot'[v] = snapshot[v]
  BY <1>1, <1>3
<1>5. \A v \in Workers : pc'[v] \in {"clauses", "sql", "publish"} <=> owner' = v
  <2>1. owner # w
    BY <1>1, ColumnsAssumption
  <2> QED
    BY <1>1, <1>3, <1>4, <2>1
<1>6. TypeOK'
  <2>1. snapshot' \in [Workers -> Seq(Column)]
    BY <1>1, <1>3
  <2>2. altered' \subseteq Workers
    BY <1>1, <1>3
  <2> QED
    BY <1>1, <1>2, <1>4, <1>5, <2>1, <2>2 DEF TypeOK
<1>7. KeyInv'
  <2>1. columns # <<>> /\ KeyFirst(columns)
    <3>1. columns # <<>>
      <4>1. columns \in Seq(Column) /\ Len(columns) >= 2
        BY <1>3
      <4> QED
        BY <4>1
    <3>2. KeyFirst(columns)
      BY <1>2 DEF KeyInv
    <3> QED
      BY <3>1, <3>2
  <2>2. ASSUME NEW v \in Workers
        PROVE  /\ KeyFirst(snapshot'[v])
               /\ pc'[v] = "clauses" => clauses'.add = added'
               /\ pc'[v] \in {"sql", "publish"} => added' = <<>>
               /\ pc'[v] \in AtDml => snapshot'[v] # <<>> /\ snapshot'[v][1] = columns'[1]
    <3>1. CASE v = w
      <4>1. pc'[v] \notin {"clauses", "sql", "publish"} /\ snapshot'[v] = columns
        BY <1>3, <1>4, <3>1
      <4>2. columns' = columns
        BY <1>1
      <4> QED
        BY <2>1, <4>1, <4>2
    <3>2. CASE v # w
      BY <1>1, <1>2, <1>4, <3>2 DEF KeyInv
    <3> QED
      BY <3>1, <3>2
  <2> QED
    BY <1>1, <1>2, <2>2 DEF KeyInv
<1>8. FollowInv'
  <2> SUFFICES ASSUME ~tainted PROVE FollowInv'
    BY <1>1 DEF FollowInv
  <2>1. \A v \in Workers : pc[v] \notin {"clauses", "sql", "publish"}
    BY <1>1, <1>3, ColumnsAssumption
  <2>2. Follows(columns, database)
    BY <1>2, <2>1 DEF FollowInv, PublishedFollows
  <2>3. PublishedFollows'
    BY <1>1, <2>2 DEF PublishedFollows
  <2>4. \A v \in Workers : pc'[v] \notin {"clauses", "sql", "publish"}
    BY <1>3, <1>4, <2>1
  <2>5. ASSUME NEW v \in Workers, pc'[v] \in AtDml, v \notin altered'
        PROVE  Follows(snapshot'[v], database')
    <3>1. CASE v = w
      BY <1>1, <1>4, <2>2, <3>1
    <3>2. CASE v # w
      BY <1>1, <1>2, <1>4, <2>5, <3>2 DEF FollowInv
    <3> QED
      BY <3>1, <3>2
  <2> QED
    BY <2>3, <2>4, <2>5 DEF FollowInv
<1>9. DmlErrorsExplained'
  BY <1>1, <1>2, <1>3, <1>4 DEF DmlErrorsExplained
<1> QED
  BY <1>6, <1>7, <1>8, <1>9 DEF ColumnsInv

\* As long as no failed statement was published the database has the table,
\* and its first column is the key the metadata shows.
LEMMA DatabaseHasKey ==
    ASSUME ColumnsInv, ~tainted
    PROVE  Len(database) >= 2 /\ database[1].name = columns[1].name
<1>1. TypeOK /\ KeyInv /\ FollowInv
  BY DEF ColumnsInv
<1>2. CASE \E w \in Workers : pc[w] = "publish"
  <2>1. PICK w \in Workers : pc[w] = "publish"
    BY <1>2
  <2>2. Follows(draft, database)
    BY <1>1, <2>1 DEF FollowInv
  <2>3. owner # NoWorker
    BY <1>1, <2>1, ColumnsAssumption DEF TypeOK
  <2>4. Len(draft) >= 2 /\ draft[1] = columns[1] /\ draft \in Seq(Column)
    BY <1>1, <2>3 DEF KeyInv, KeyFirst
  <2>5. 1 \in 1 .. Len(draft)
    BY <2>4, ColumnsType
  <2> QED
    BY <2>2, <2>4, <2>5 DEF Follows
<1>3. CASE ~ \E w \in Workers : pc[w] = "publish"
  <2>1. Follows(columns, database)
    BY <1>1, <1>3 DEF FollowInv, PublishedFollows
  <2>2. Len(columns) >= 2 /\ columns \in Seq(Column)
    BY <1>1 DEF TypeOK
  <2>3. 1 \in 1 .. Len(columns)
    BY <2>2, ColumnsType
  <2> QED
    BY <2>1, <2>2, <2>3 DEF Follows
<1> QED
  BY <1>2, <1>3

\* A statement built from columns that follow the database succeeds.
LEMMA StatementSucceeds ==
    ASSUME ColumnsInv, ~tainted, NEW w \in Workers, NEW statement \in AtDml,
           pc[w] = statement, statement = "delete" \/ w \notin altered
    PROVE  Succeeds(statement, snapshot[w])
<1> DEFINE cols == snapshot[w]
<1>1. TypeOK /\ KeyInv /\ FollowInv
  BY DEF ColumnsInv
<1>2. /\ KeyFirst(cols) /\ cols \in Seq(Column) /\ cols # <<>> /\ cols[1] = columns[1]
      /\ w \notin altered => Follows(cols, database)
  BY <1>1 DEF KeyInv, FollowInv, KeyFirst
<1>3. /\ database \in Seq(Column) /\ DistinctNames(database)
      /\ Len(database) >= 2 /\ database[1].name = columns[1].name
      /\ DOMAIN database = 1 .. Len(database) /\ Len(database) \in Nat
      /\ DOMAIN cols = 1 .. Len(cols) /\ Len(cols) \in Nat
  BY <1>1, <1>2, DatabaseHasKey, ColumnsType DEF TypeOK
<1> HIDE DEF cols
<1>4. database # <<>>
  BY <1>3, EmptySeq
<1>5. pkName(cols) \in NamesOf(database)
  <2>1. 1 \in DOMAIN database
    BY <1>3
  <2> QED
    BY <1>2, <1>3, <2>1 DEF pkName, NamesOf
<1>6. ASSUME statement # "delete" PROVE TakesValues(cols)
  <2>1. Follows(cols, database)
    BY <1>2, <1>6
  <2>2. Assigned(cols) = 2 .. Len(cols) /\ Len(cols) = Len(database)
    BY <1>2, <1>3, <2>1 DEF Assigned, KeyFirst, Follows
  <2>3. 2 \in Assigned(cols)
    BY <1>3, <2>2
  <2>4. ASSUME NEW i \in Assigned(cols), NEW j \in Assigned(cols),
               cols[i].name = cols[j].name
        PROVE  i = j
    <3>1. i \in 1 .. Len(cols) /\ j \in 1 .. Len(cols)
      BY <1>3, <2>2
    <3>2. database[i].name = database[j].name
      BY <2>1, <2>4, <3>1 DEF Follows
    <3> QED
      BY <1>3, <2>2, <3>1, <3>2 DEF DistinctNames
  <2>5. ASSUME NEW i \in Assigned(cols)
        PROVE  \E j \in DOMAIN database :
                   /\ database[j].name = cols[i].name
                   /\ database[j].type \in {cols[i].type, "VARCHAR"}
    <3>1. i \in 1 .. Len(cols) /\ i # 1
      BY <1>3, <2>2
    <3>2. database[i].name = cols[i].name /\ database[i].type = cols[i].type
      BY <2>1, <3>1 DEF Follows
    <3> QED
      BY <1>3, <2>2, <3>1, <3>2
  <2> QED
    BY <2>3, <2>4, <2>5 DEF TakesValues
<1> QED
  BY <1>4, <1>5, <1>6 DEF Succeeds, cols

\* What the end of a DML action leaves alone.
LEMMA DmlKeeps ==
    ASSUME ColumnsInv, NEW w \in Workers, DmlSql(w) \/ DmlThrows(w)
    PROVE  ColumnsInv'
<1>1. TypeOK /\ KeyInv /\ FollowInv /\ DmlErrorsExplained
  BY DEF ColumnsInv
<1>2. PICK to \in {"idle", "delete failed", "values failed"} :
          /\ pc' = [pc EXCEPT ![w] = to]
          /\ pc[w] \in AtDml \union {"delete failed", "values failed"}
          /\ snapshot' \in {snapshot, [snapshot EXCEPT ![w] = <<>>]}
          /\ altered' = IF to = "idle" THEN altered \ {w} ELSE altered
          /\ to = "delete failed" => tainted
          /\ to = "values failed" => tainted \/ w \in altered
          /\ UNCHANGED <<columns, database, owner, draft, added, clauses, left, changingAm,
                         alters, tainted>>
  <2>1. pc \in [Workers -> {"idle", "clauses", "sql", "publish", "insert", "update",
                            "delete", "delete failed", "values failed"}]
    BY <1>1 DEF TypeOK
  <2>2. CASE DmlSql(w)
    <3>1. PICK statement \in AtDml :
              /\ pc[w] = statement
              /\ pc' = [pc EXCEPT ![w] = Outcome(statement, Succeeds(statement, snapshot[w]))]
              /\ snapshot' \in {snapshot, [snapshot EXCEPT ![w] = <<>>]}
              /\ altered' = IF pc'[w] = "idle" THEN altered \ {w} ELSE altered
              /\ UNCHANGED <<columns, database, owner, draft, added, clauses, left,
                             changingAm, alters, tainted>>
      BY <2>2 DEF DmlSql, Goto, AtDml, alterVars
    <3>2. CASE Succeeds(statement, snapshot[w])
      <4>1. Outcome(statement, Succeeds(statement, snapshot[w])) = "idle"
        BY <3>2 DEF Outcome
      <4> QED
        BY <2>1, <3>1, <4>1
    <3>3. CASE ~Succeeds(statement, snapshot[w])
      <4>1. tainted \/ (statement # "delete" /\ w \in altered)
        BY <3>1, <3>3, StatementSucceeds
      <4>2. Outcome(statement, Succeeds(statement, snapshot[w])) =
                IF statement = "delete" THEN "delete failed" ELSE "values failed"
        BY <3>3 DEF Outcome
      <4>3. CASE statement = "delete"
        BY <2>1, <3>1, <4>1, <4>2, <4>3
      <4>4. CASE statement # "delete"
        BY <2>1, <3>1, <4>1, <4>2, <4>4
      <4> QED
        BY <4>3, <4>4
    <3> QED
      BY <3>2, <3>3
  <2>3. CASE DmlThrows(w)
    BY <2>3 DEF DmlThrows, alterVars
  <2> QED
    BY <2>2, <2>3
<1>3. /\ pc \in [Workers -> {"idle", "clauses", "sql", "publish", "insert", "update",
                             "delete", "delete failed", "values failed"}]
      /\ \A v \in Workers : pc[v] \in {"clauses", "sql", "publish"} <=> owner = v
      /\ snapshot \in [Workers -> Seq(Column)] /\ altered \subseteq Workers
  BY <1>1 DEF TypeOK
<1>4. /\ pc' \in [Workers -> {"idle", "clauses", "sql", "publish", "insert", "update",
                              "delete", "delete failed", "values failed"}]
      /\ pc'[w] = to
      /\ \A v \in Workers \ {w} : pc'[v] = pc[v]
  BY <1>2, <1>3
<1>5. /\ snapshot' \in [Workers -> Seq(Column)]
      /\ snapshot'[w] \in {snapshot[w], <<>>}
      /\ \A v \in Workers \ {w} : snapshot'[v] = snapshot[v]
  BY <1>2, <1>3, EmptyColumns
<1>6. pc[w] \notin {"clauses", "sql", "publish"} /\ pc'[w] \notin AtDml
      /\ pc'[w] \notin {"clauses", "sql", "publish"}
  BY <1>2, <1>4 DEF AtDml
<1>7. \A v \in Workers : pc'[v] \in {"clauses", "sql", "publish"} <=> owner' = v
  BY <1>2, <1>3, <1>4, <1>6
<1>8. TypeOK'
  <2>1. altered' \subseteq Workers
    BY <1>2, <1>3
  <2> QED
    BY <1>1, <1>2, <1>4, <1>5, <1>7, <2>1 DEF TypeOK
<1>9. KeyInv'
  <2>1. ASSUME NEW v \in Workers
        PROVE  /\ KeyFirst(snapshot'[v])
               /\ pc'[v] = "clauses" => clauses'.add = added'
               /\ pc'[v] \in {"sql", "publish"} => added' = <<>>
               /\ pc'[v] \in AtDml => snapshot'[v] # <<>> /\ snapshot'[v][1] = columns'[1]
    <3>1. CASE v = w
      <4>1. KeyFirst(snapshot'[w])
        BY <1>1, <1>5, EmptyColumns DEF KeyInv
      <4> QED
        BY <1>6, <3>1, <4>1
    <3>2. CASE v # w
      BY <1>1, <1>2, <1>4, <1>5, <3>2 DEF KeyInv
    <3> QED
      BY <3>1, <3>2
  <2> QED
    BY <1>1, <1>2, <2>1 DEF KeyInv
<1>10. FollowInv'
  <2> SUFFICES ASSUME ~tainted PROVE FollowInv'
    BY <1>2 DEF FollowInv
  <2>1. PublishedFollows'
    BY <1>1, <1>2, <1>4, <1>6 DEF FollowInv, PublishedFollows
  <2>2. \A v \in Workers : /\ pc'[v] = "clauses" => pc[v] = "clauses"
                           /\ pc'[v] = "sql" => pc[v] = "sql"
                           /\ pc'[v] = "publish" => pc[v] = "publish"
    BY <1>4, <1>6
  <2>3. (DraftFollows <=> DraftFollows') /\ (StatementFollows => StatementFollows')
    BY <1>2 DEF DraftFollows, StatementFollows, Kept
  <2>4. ASSUME NEW v \in Workers, pc'[v] \in AtDml, v \notin altered'
        PROVE  Follows(snapshot'[v], database')
    <3>1. v # w
      BY <1>6, <2>4
    <3>2. pc[v] \in AtDml /\ v \notin altered /\ snapshot'[v] = snapshot[v]
      BY <1>2, <1>4, <1>5, <2>4, <3>1
    <3> QED
      BY <1>1, <1>2, <3>2 DEF FollowInv
  <2> QED
    BY <1>1, <1>2, <2>1, <2>2, <2>3, <2>4 DEF FollowInv
<1>11. DmlErrorsExplained'
  <2>1. ASSUME NEW v \in Workers
        PROVE  /\ pc'[v] = "delete failed" => tainted'
               /\ pc'[v] = "values failed" => tainted' \/ v \in altered'
    <3>1. CASE v = w
      BY <1>2, <1>4, <3>1
    <3>2. CASE v # w
      BY <1>1, <1>2, <1>4, <3>2 DEF DmlErrorsExplained
    <3> QED
      BY <3>1, <3>2
  <2> QED
    BY <2>1 DEF DmlErrorsExplained
<1> QED
  BY <1>8, <1>9, <1>10, <1>11 DEF ColumnsInv

-----------------------------------------------------------------------------
(* The theorems.                                                           *)

LEMMA StepColumns == ColumnsInv /\ [Next]_vars => ColumnsInv'
<1> SUFFICES ASSUME ColumnsInv, [Next]_vars PROVE ColumnsInv'
  OBVIOUS
<1>1. CASE UNCHANGED vars
  BY <1>1 DEF vars, alterVars, dmlVars, ColumnsInv, TypeOK, KeyInv, FollowInv,
              PublishedFollows, DraftFollows, StatementFollows, Kept, DmlErrorsExplained
<1>2. CASE Next
  BY <1>2, AlterKeeps, AddClauseKeeps, EndOfClausesKeeps, AlterSqlKeeps, PublishKeeps,
     SnapshotKeeps, DmlKeeps DEF Next
<1> QED
  BY <1>1, <1>2

LEMMA ColumnsInvHolds == Spec => []ColumnsInv
BY InitColumns, StepColumns, PTL DEF Spec

\* Whatever clauses an ALTER draws and whatever statements fail, a table keeps
\* two columns, an ALTER makes no more clauses than it may, and the database
\* never has two columns of one name.
THEOREM ColumnsTypeCorrect == Spec => []TypeOK
<1>1. ColumnsInv => TypeOK
  BY DEF ColumnsInv
<1> QED
  BY <1>1, ColumnsInvHolds, PTL

\* The first column is the primary key and no other column is, in the metadata
\* and in every copy a DML statement is built from: what dml.cpp assumes of
\* every table it reads.
THEOREM PrimaryKeyStaysFirst == Spec => []PrimaryKeyFirst
<1>1. ColumnsInv => PrimaryKeyFirst
  <2> SUFFICES ASSUME ColumnsInv PROVE PrimaryKeyFirst
    OBVIOUS
  <2>1. \A cols \in {columns} \union {snapshot[w] : w \in Workers} : KeyFirst(cols)
    BY DEF ColumnsInv, KeyInv
  <2>2. ASSUME NEW cols, KeyFirst(cols)
        PROVE  \A i \in DOMAIN cols : cols[i].primary_key <=> i = 1
    BY <2>2, ColumnsType DEF KeyFirst
  <2> QED
    BY <2>1, <2>2 DEF PrimaryKeyFirst
<1> QED
  BY <1>1, ColumnsInvHolds, PTL

\* ALTER's SQL text and its copy of the columns say the same: until a failed
\* statement is published, the metadata has the columns of the database, in
\* their order, and no type differs but the key's.
THEOREM MetadataFollows == Spec => []ColumnsFollow
<1>1. ColumnsInv => ColumnsFollow
  <2> SUFFICES ASSUME ColumnsInv, owner = NoWorker, ~tainted PROVE ColumnsFollow
    BY DEF ColumnsFollow
  <2>1. \A w \in Workers : pc[w] # "publish"
    BY ColumnsAssumption DEF ColumnsInv, TypeOK
  <2>2. Follows(columns, database)
    BY <2>1 DEF ColumnsInv, FollowInv, PublishedFollows
  <2>3. KeyFirst(columns) /\ columns \in Seq(Column)
    BY DEF ColumnsInv, KeyInv, KeyFirst
  <2> QED
    BY <2>2, <2>3, ColumnsType DEF ColumnsFollow, Follows, KeyFirst
<1> QED
  BY <1>1, ColumnsInvHolds, PTL

\* A DELETE fails on a column only if a failed statement was published; an
\* INSERT or UPDATE also if an ALTER changed the table after it was read.
THEOREM DmlErrorsHaveCause == Spec => []DmlErrorsExplained
<1>1. ColumnsInv => DmlErrorsExplained
  BY DEF ColumnsInv
<1> QED
  BY <1>1, ColumnsInvHolds, PTL
=============================================================================

-------------------------- MODULE MetadataBoundsProofs --------------------------
(***************************************************************************)
(* Theorems about the counters of Metadata: they never pass zero, stay     *)
(* within the configured limits, and with room to spare in the arrays no   *)
(* operation leaves them.                                                  *)
(***************************************************************************)
EXTENDS MetadataProofs

-----------------------------------------------------------------------------
(* No counter is decremented below zero *)

\* The tables that tableCount still counts.
Kept == {i \in Slots : tables[i] # NoTable /\ ~Vacated(i)}

\* A thread with a slot to empty has a table in it.
Full(t) ==
    /\ pc[t] \in HoldsPicked => tables[index[t]] # NoTable
    /\ pc[t] = "dropCount" => tables[next[t]] # NoTable

\* Two CREATEs on an empty store may write one slot and count it twice, but no
\* table is left uncounted.
Counted ==
    /\ \A t \in Threads : Full(t)
    /\ tableCount >= Cardinality(Kept)
    /\ reservedSize >= 0

LEMMA KeptFinite == IsFiniteSet(Kept) /\ Cardinality(Kept) \in Nat
<1>1. IsFiniteSet(Slots)
  BY FS_Interval, ConstantsAssumption DEF Slots
<1> QED
  BY <1>1, FS_Subset, FS_CardinalityType DEF Kept

LEMMA FullSelf ==
    ASSUME TypeOK, HasSlot, NEW t \in Threads, Full(t), Step(t)
    PROVE  Full(t)'
<1> USE DEF TypeOK, HasSlot, Full, HoldsPicked, store
<1>1. ASSUME NEW to \in {"dropLock", "alterLock", "readSlot"}, PickSlot(t, to)
      PROVE  Full(t)'
  BY <1>1 DEF PickSlot
<1>2. CASE Create(t)
  <2>1. CASE CreateCheck(t) \/ ReserveTest(t) \/ Reserve(t) \/ ReserveUndo(t) \/ CreateSql(t)
             \/ CreateRead(t) \/ CreateTestEmpty(t)
    BY <2>1 DEF CreateCheck, ReserveTest, Reserve, ReserveUndo, CreateSql, CreateRead,
                CreateTestEmpty, Goto
  <2>2. CASE CreateLockLast(t) \/ CreateLockBeforeFirst(t)
    BY <2>2 DEF CreateLockLast, CreateLockBeforeFirst
  <2>3. CASE CreateInsert(t)
    BY <2>3 DEF CreateInsert, Finish
  <2> QED
    BY <1>2, <2>1, <2>2, <2>3 DEF Create
<1>3. CASE Drop(t)
  <2>1. CASE DropCheck(t) \/ DropSql(t) \/ DropTest(t) \/ DropReadLast(t) \/ DropCount(t)
    BY <2>1 DEF DropCheck, DropSql, DropTest, DropReadLast, DropCount, Goto
  <2>2. CASE DropPick(t)
    BY <1>1, <2>2 DEF DropPick
  <2>3. CASE DropLock(t) \/ DropVacate(t)
    BY <2>3 DEF DropLock, DropVacate, Finish
  <2>4. CASE DropLockLast(t)
    BY <2>4 DEF DropLockLast, StillLast
  <2>5. CASE DropRelock(t)
    BY <2>5 DEF DropRelock
  <2> QED
    BY <1>3, <2>1, <2>2, <2>3, <2>4, <2>5 DEF Drop
<1>4. CASE Alter(t)
  BY <1>1, <1>4 DEF Alter, AlterPick, AlterLock, AlterComplete, Finish
<1>5. CASE Read(t)
  BY <1>1, <1>5 DEF Read, DmlCheck, CustomStart, ReadPick, ReadSlot, Finish
<1>6. CASE Cancel(t)
  BY <1>6 DEF Cancel, Finish
<1> QED
  BY <1>2, <1>3, <1>4, <1>5, <1>6 DEF Step

LEMMA FullOther ==
    ASSUME TypeOK, HasSlot, Owns, NEW t \in Threads, Frame(t),
           NEW u \in Threads \ {t}, Full(u)
    PROVE  Full(u)'
BY NullAssumption DEF Full, Frame, Owns, HasSlot, HoldsPicked, HoldsLast

\* Steps that write no slot and neither start nor end the emptying of one.
LEMMA KeptQuiet ==
    ASSUME TypeOK, NEW t \in Threads, Frame(t), UNCHANGED tables,
           pc[t] # "dropVacate", pc'[t] # "dropVacate"
    PROVE  Kept' = Kept
<1>1. ASSUME NEW i \in Slots PROVE Vacated(i)' <=> Vacated(i)
  BY DEF Vacated, Frame
<1> QED
  BY <1>1 DEF Kept

\* The slot that a thread owns for a DROP or an ALTER is one of the tables counted.
LEMMA OwnKept ==
    ASSUME TypeOK, HasSlot, Owns, NEW t \in Threads, Full(t)
    PROVE  /\ pc[t] \in HoldsPicked => index[t] \in Kept
           /\ pc[t] = "dropCount" => next[t] \in Kept
BY DEF Kept, Vacated, Full, Owns, HasSlot, HoldsPicked, HoldsLast

LEMMA KeptStep ==
    ASSUME TypeOK, HasSlot, Owns, NEW t \in Threads, Full(t), Frame(t), Step(t)
    PROVE  \/ tableCount' = tableCount /\ Kept' \subseteq Kept
           \/ /\ tableCount' = tableCount + 1
              /\ \E i \in Slots : Kept' \subseteq Kept \union {i}
           \/ /\ tableCount' = tableCount - 1
              /\ \E i \in Kept : Kept' \subseteq Kept \ {i}
<1> USE DEF TypeOK, store
<1>1. ASSUME NEW to, to # "dropVacate", pc[t] # "dropVacate", PickSlot(t, to)
      PROVE  tableCount' = tableCount /\ Kept' \subseteq Kept
  BY <1>1, KeptQuiet DEF PickSlot
<1>2. ASSUME pc[t] # "dropVacate", pc'[t] # "dropVacate", NEW i \in Slots, NEW x,
             tables' = [tables EXCEPT ![i] = x]
      PROVE  Kept' \subseteq Kept \union {i}
  <2>1. ASSUME NEW j \in Slots PROVE Vacated(j)' <=> Vacated(j)
    BY <1>2 DEF Vacated, Frame
  <2> QED
    BY <1>2, <2>1 DEF Kept
<1>3. CASE Create(t)
  <2>1. CASE CreateInsert(t)
    BY <1>2, <2>1 DEF CreateInsert, Finish
  <2>2. CASE ~CreateInsert(t)
    <3>1. CASE CreateCheck(t) \/ ReserveTest(t) \/ CreateSql(t) \/ CreateTestEmpty(t)
      BY <3>1, KeptQuiet DEF CreateCheck, Starts, ReserveTest, CreateSql, CreateTestEmpty, Goto
    <3>2. CASE Reserve(t) \/ ReserveUndo(t) \/ CreateRead(t)
      BY <3>2, KeptQuiet DEF Reserve, ReserveUndo, CreateRead, Goto
    <3>3. CASE CreateLockLast(t) \/ CreateLockBeforeFirst(t)
      BY <3>3, KeptQuiet DEF CreateLockLast, CreateLockBeforeFirst
    <3> QED
      BY <1>3, <2>2, <3>1, <3>2, <3>3 DEF Create
  <2> QED
    BY <2>1, <2>2
<1>4. CASE DropCount(t)
  <2>1. /\ pc[t] = "dropCount" /\ pc' = [pc EXCEPT ![t] = "dropVacate"]
        /\ UNCHANGED <<tables, next>> /\ tableCount' = tableCount - 1
    BY <1>4 DEF DropCount, Goto
  <2>2. next[t] \in Kept
    BY <2>1, OwnKept
  <2>3. \A i \in Slots : Vacated(i) \/ i = next[t] => Vacated(i)'
    BY <2>1 DEF Vacated, Frame
  <2>4. Kept' \subseteq Kept \ {next[t]}
    BY <2>1, <2>3 DEF Kept
  <2> QED
    BY <2>1, <2>2, <2>4
<1>5. CASE DropVacate(t)
  <2>1. /\ pc[t] = "dropVacate" /\ tableCount' = tableCount
        /\ tables' = [tables EXCEPT ![next[t]] = NoTable] /\ next[t] \in Slots
    BY <1>5 DEF DropVacate, HasSlot
  <2>2. \A i \in Slots : Vacated(i) => Vacated(i)' \/ i = next[t]
    BY <2>1 DEF Vacated, Frame
  <2> QED
    BY <2>1, <2>2 DEF Kept
<1>6. CASE DropLockLast(t)
  <2>1. /\ pc[t] = "dropLockLast" /\ pc'[t] # "dropVacate" /\ tableCount' = tableCount
    BY <1>6 DEF DropLockLast
  <2>2. index[t] \in Kept /\ index[t] \in Slots
    BY <2>1, OwnKept DEF HoldsPicked, HasSlot
  <2>3. CASE StillLast(next[t])
    BY <1>2, <1>6, <2>1, <2>2, <2>3 DEF DropLockLast
  <2>4. CASE ~StillLast(next[t])
    BY <1>6, <2>1, <2>4, KeptQuiet DEF DropLockLast
  <2> QED
    BY <2>3, <2>4
<1>7. CASE Drop(t) /\ ~DropCount(t) /\ ~DropVacate(t) /\ ~DropLockLast(t)
  <2>1. CASE DropCheck(t) \/ DropSql(t) \/ DropTest(t) \/ DropReadLast(t)
    BY <2>1, KeptQuiet DEF DropCheck, Starts, DropSql, DropTest, DropReadLast, Goto
  <2>2. CASE DropPick(t)
    BY <1>1, <2>2 DEF DropPick
  <2>3. CASE DropLock(t) \/ DropRelock(t)
    BY <2>3, KeptQuiet DEF DropLock, Finish, DropRelock
  <2> QED
    BY <1>7, <2>1, <2>2, <2>3 DEF Drop
<1>8. CASE AlterComplete(t)
  <2>1. /\ pc[t] = "alterOpen" /\ pc'[t] = "idle" /\ tableCount' = tableCount
        /\ tables' = [tables EXCEPT ![index[t]] = table[t]] /\ index[t] \in Slots
    BY <1>8 DEF AlterComplete, Finish, HasSlot
  <2>2. index[t] \in Kept
    BY <2>1, OwnKept DEF HoldsPicked
  <2> QED
    BY <1>2, <2>1, <2>2
<1>9. CASE Alter(t) /\ ~AlterComplete(t)
  BY <1>1, <1>9, KeptQuiet DEF Alter, AlterPick, Starts, AlterLock, Finish
<1>10. CASE Read(t)
  BY <1>1, <1>10, KeptQuiet DEF Read, DmlCheck, CustomStart, Starts, ReadPick, ReadSlot, Finish
<1>11. CASE Cancel(t)
  BY <1>11, KeptQuiet DEF Cancel, Finish
<1> QED
  BY <1>3, <1>4, <1>5, <1>6, <1>7, <1>8, <1>9, <1>10, <1>11 DEF Step

\* Whoever gives a reservation back is one of those the accounts list.
LEMMA ReservedStays ==
    ASSUME TypeOK, Accounting, tableCount >= 0, reservedSize >= 0,
           NEW t \in Threads, Step(t)
    PROVE  reservedSize' >= 0
<1> DEFINE debtors == At({"reserveUndo", "dropVacate"})
<1> USE DEF TypeOK, store
<1>1. /\ reservedSize = tableCount + Cardinality(Creating) + Cardinality(debtors)
  BY DEF Step, Accounting
<1>2. IsFiniteSet(Creating) /\ IsFiniteSet(debtors)
  BY FS_Subset, ThreadsAssumption DEF Creating, At
<1>3. /\ Cardinality(Creating) \in Nat /\ Cardinality(debtors) \in Nat
      /\ t \in Creating => Cardinality(Creating) # 0
      /\ t \in debtors => Cardinality(debtors) # 0
  BY <1>2, FS_CardinalityType, FS_EmptySet
<1>4. CASE t \in Creating \union debtors
  <2>1. reservedSize' \in Int /\ reservedSize' >= reservedSize - 1
    BY DEF Step, Create, CreateCheck, ReserveTest, Reserve, ReserveUndo, CreateSql, CreateRead,
           CreateTestEmpty, CreateLockLast, CreateLockBeforeFirst, CreateInsert, Drop,
           DropCheck, DropPick, PickSlot, DropLock, DropSql, DropTest, DropReadLast,
           DropLockLast, DropRelock, DropCount, DropVacate, Alter, AlterPick, AlterLock,
           AlterComplete, Read, DmlCheck, CustomStart, ReadPick, ReadSlot, Cancel
  <2> QED
    BY <1>1, <1>3, <1>4, <2>1
<1>5. CASE t \notin Creating \union debtors
  <2>1. pc[t] \notin {"createSql", "reserveUndo", "dropVacate"}
    BY <1>5 DEF Creating, At
  <2>2. reservedSize' = reservedSize \/ reservedSize' = reservedSize + 1
    BY <2>1
       DEF Step, Create, CreateCheck, ReserveTest, Reserve, ReserveUndo, CreateSql, CreateRead,
           CreateTestEmpty, CreateLockLast, CreateLockBeforeFirst, CreateInsert, Drop,
           DropCheck, DropPick, PickSlot, DropLock, DropSql, DropTest, DropReadLast,
           DropLockLast, DropRelock, DropCount, DropVacate, Alter, AlterPick, AlterLock,
           AlterComplete, Read, DmlCheck, CustomStart, ReadPick, ReadSlot, Cancel, Goto
  <2> QED
    BY <2>2
<1> QED
  BY <1>4, <1>5

LEMMA CountedStep == HeldInv /\ Counted /\ [Next]_vars => Counted'
<1> SUFFICES ASSUME HeldInv, Counted, [Next]_vars PROVE Counted'
  OBVIOUS
<1>1. TypeOK /\ HasSlot /\ Owns /\ Accounting
  BY DEF HeldInv, AccountsInv
<1>2. ASSUME NEW t \in Threads, Step(t) PROVE Counted'
  <2>1. Frame(t)
    BY <1>1, <1>2, StepFrame
  <2>2. \A u \in Threads : Full(u)'
    BY <1>1, <1>2, <2>1, FullSelf, FullOther DEF Counted
  <2>3. tableCount' >= Cardinality(Kept')
    <3>1. /\ IsFiniteSet(Kept) /\ Cardinality(Kept) \in Nat
          /\ tableCount \in Int /\ tableCount >= Cardinality(Kept)
      BY <1>1, KeptFinite DEF Counted, TypeOK
    <3>2. CASE tableCount' = tableCount /\ Kept' \subseteq Kept
      <4>1. Cardinality(Kept') <= Cardinality(Kept) /\ Cardinality(Kept') \in Nat
        BY <3>1, <3>2, FS_Subset, FS_CardinalityType
      <4> QED
        BY <3>1, <3>2, <4>1
    <3>3. ASSUME NEW i \in Slots, tableCount' = tableCount + 1, Kept' \subseteq Kept \union {i}
          PROVE  tableCount' >= Cardinality(Kept')
      <4>1. /\ IsFiniteSet(Kept \union {i})
            /\ Cardinality(Kept \union {i}) \in Nat
            /\ Cardinality(Kept \union {i}) <= Cardinality(Kept) + 1
        <5>1. /\ IsFiniteSet(Kept \union {i})
              /\ Cardinality(Kept \union {i}) = IF i \in Kept THEN Cardinality(Kept)
                                                             ELSE Cardinality(Kept) + 1
          BY <3>1, FS_AddElement
        <5> QED
          BY <3>1, <5>1
      <4>2. /\ Cardinality(Kept') <= Cardinality(Kept \union {i})
            /\ Cardinality(Kept') \in Nat
        BY <3>3, <4>1, FS_Subset, FS_CardinalityType
      <4> QED
        BY <3>1, <3>3, <4>1, <4>2
    <3>4. ASSUME NEW i \in Kept, tableCount' = tableCount - 1, Kept' \subseteq Kept \ {i}
          PROVE  tableCount' >= Cardinality(Kept')
      <4>1. /\ IsFiniteSet(Kept \ {i}) /\ Cardinality(Kept \ {i}) = Cardinality(Kept) - 1
        BY <3>1, FS_RemoveElement
      <4>2. /\ Cardinality(Kept') <= Cardinality(Kept \ {i})
            /\ Cardinality(Kept') \in Nat
        BY <3>4, <4>1, FS_Subset, FS_CardinalityType
      <4> QED
        BY <3>1, <3>4, <4>1, <4>2
    <3> QED
      BY <1>1, <1>2, <2>1, <3>2, <3>3, <3>4, KeptStep DEF Counted
  <2>4. reservedSize' >= 0
    <3>1. tableCount >= 0
      BY <1>1, KeptFinite DEF Counted, TypeOK
    <3> QED
      BY <1>1, <1>2, <3>1, ReservedStays DEF Counted
  <2> QED
    BY <2>2, <2>3, <2>4 DEF Counted
<1>3. ASSUME UNCHANGED <<store, pc, index, next>> PROVE Counted'
  BY <1>3 DEF Counted, Full, Kept, Vacated, store
<1> QED
  BY <1>2, <1>3 DEF Next, Ended, TimeUp, vars, store

LEMMA CountedInit == Init => Counted
<1> SUFFICES ASSUME Init PROVE Counted
  OBVIOUS
<1>1. \A t \in Threads : Full(t)
  BY DEF Init, Full, HoldsPicked
<1>2. Kept \subseteq 0 .. InitialTables - 1
  BY ConstantsAssumption DEF Init, Kept, Slots
<1>3. InitialTables \in Nat
  BY ConstantsAssumption
<1>4. /\ IsFiniteSet(0 .. InitialTables - 1)
      /\ Cardinality(0 .. InitialTables - 1) = InitialTables
  BY <1>3, FS_Interval
<1>5. Cardinality(Kept) <= InitialTables
  BY <1>2, <1>4, FS_Subset
<1> QED
  BY <1>1, <1>3, <1>5 DEF Init, Counted

\* No counter is ever decremented below zero, not even by DROPs on a store that
\* CREATEs from empty have left with holes: each decrement of size() stands for a
\* table that was in a slot, each one of reservedSize for a reservation.
THEOREM NoCounterWraps == Spec => []NoWrapAround
<1>1. HeldInv /\ Counted => NoWrapAround
  BY KeptFinite DEF HeldInv, AccountsInv, TypeOK, Counted, NoWrapAround
<1> QED
  BY <1>1, CountedInit, CountedStep, HeldInvariant, PTL DEF Spec

-----------------------------------------------------------------------------
(* The configured limits *)

CanCreate == {t \in Threads : "create" \in Work[t]}
CanChange == CanCreate \union CanDrop

\* CREATEs that have passed the test of size() and not yet counted their table, and
\* with them the DROPs that have a slot to give back.
Coming == {"reserveTest", "reserve", "reserveUndo"} \union Creators
Changing == Coming \union {"dropVacate"}

Permitted == At(Coming) \subseteq CanCreate /\ At(BeforeCount \union {"dropVacate"}) \subseteq CanDrop

\* Whoever entered was let in below the limit, and everybody else who is under way
\* is one of those who may be.
Load(places, who) ==
    At(Coming) # {} => tableCount + Cardinality(At(places)) <= MaxTableCount - 1 + Cardinality(who)

LoadInv == Permitted /\ Load(Coming, CanCreate) /\ Load(Changing, CanChange)

LEMMA CanFinite ==
    /\ IsFiniteSet(CanCreate) /\ Cardinality(CanCreate) \in Nat
    /\ IsFiniteSet(CanChange) /\ Cardinality(CanChange) \in Nat
<1>1. CanCreate \subseteq Threads /\ CanChange \subseteq Threads
  BY DEF CanCreate, CanChange, CanDrop
<1>2. IsFiniteSet(CanCreate) /\ IsFiniteSet(CanChange)
  BY <1>1, FS_Subset, ThreadsAssumption
<1> QED
  BY <1>2, FS_CardinalityType

\* How a thread comes to the places that the bounds count.
LEMMA PlaceMoves ==
    ASSUME TypeOK, HasSlot, NEW t \in Threads, Step(t)
    PROVE  /\ pc'[t] \in Coming => pc[t] \in Coming \/ CreateCheck(t)
           /\ pc'[t] \in BeforeCount => pc[t] \in BeforeCount \/ DropCheck(t)
           /\ pc'[t] = "dropVacate" => DropCount(t)
<1> USE DEF TypeOK, store, Coming, Creators, BeforeCount
<1>1. ASSUME NEW to \in {"dropLock", "alterLock", "readSlot"}, PickSlot(t, to)
      PROVE  pc'[t] \in {"crashed", to}
  BY <1>1 DEF PickSlot
<1>2. CASE Create(t)
  BY <1>2 DEF Create, CreateCheck, ReserveTest, Reserve, ReserveUndo, CreateSql, CreateRead,
              CreateTestEmpty, CreateLockLast, CreateLockBeforeFirst, CreateInsert, Goto,
              Finish
<1>3. CASE Drop(t)
  BY <1>1, <1>3 DEF Drop, DropCheck, DropPick, DropLock, DropSql, DropTest, DropReadLast,
              DropLockLast, DropRelock, DropCount, DropVacate, Goto, Finish
<1>4. CASE Alter(t) \/ Read(t) \/ Cancel(t)
  BY <1>1, <1>4 DEF Alter, AlterPick, AlterLock, AlterComplete, Read, DmlCheck, CustomStart,
              ReadPick, ReadSlot, Cancel, Finish
<1> QED
  BY <1>2, <1>3, <1>4 DEF Step

LEMMA PermittedStep ==
    ASSUME TypeOK, HasSlot, NEW t \in Threads, Frame(t), Permitted, Step(t)
    PROVE  Permitted'
<1>1. CreateCheck(t) => t \in CanCreate
  BY DEF CreateCheck, Starts, CanCreate
<1>2. DropCheck(t) => t \in CanDrop
  BY DEF DropCheck, Starts, CanDrop
<1>3. DropCount(t) => pc[t] \in BeforeCount
  BY DEF DropCount, Goto, BeforeCount
<1>4. CanCreate' = CanCreate /\ CanDrop' = CanDrop
  BY DEF CanCreate, CanDrop
<1>5. \A u \in Threads \ {t} : pc'[u] = pc[u]
  BY DEF Frame
<1>6. At(Coming)' \subseteq CanCreate
  BY <1>1, <1>5, PlaceMoves DEF Permitted, At
<1>7. At(BeforeCount \union {"dropVacate"})' \subseteq CanDrop
  BY <1>2, <1>3, <1>5, PlaceMoves DEF Permitted, At
<1> QED
  BY <1>4, <1>6, <1>7 DEF Permitted

\* What a step of a thread does to the number of threads at some places.
LEMMA StepCounts ==
    ASSUME TypeOK, TypeOK', NEW t \in Threads, Frame(t), NEW places
    PROVE  /\ Cardinality(At(places)) \in Nat /\ Cardinality(At(places)') \in Nat
           /\ Cardinality(At(places)') <= Cardinality(At(places)) + 1
           /\ (pc'[t] \in places => pc[t] \in places)
                 => Cardinality(At(places)') <= Cardinality(At(places))
           /\ pc[t] \in places /\ pc'[t] \notin places
                 => Cardinality(At(places)') = Cardinality(At(places)) - 1
<1>1. pc \in [Threads -> PCs] /\ pc'[t] \in PCs /\ pc' = [pc EXCEPT ![t] = pc'[t]]
  BY DEF TypeOK, Frame
<1>2. LET before == {u \in Threads : pc[u] \in places}
          after == {u \in Threads : pc'[u] \in places}
      IN /\ Cardinality(before) \in Nat
         /\ Cardinality(after) \in Nat
         /\ (pc[t] \in places <=> pc'[t] \in places) => Cardinality(after) = Cardinality(before)
         /\ pc[t] \notin places /\ pc'[t] \in places => Cardinality(after) = Cardinality(before) + 1
         /\ pc[t] \in places /\ pc'[t] \notin places => Cardinality(after) = Cardinality(before) - 1
  BY <1>1, CountMove
<1> QED
  BY <1>2 DEF At

LEMMA LoadStep ==
    ASSUME TypeOK, TypeOK', HasSlot, NEW t \in Threads, Frame(t), Step(t),
           NEW places \in {Coming, Changing}, NEW who, IsFiniteSet(who),
           At(places)' \subseteq who, Load(places, who)
    PROVE  Load(places, who)'
<1> SUFFICES ASSUME At(Coming)' # {}
             PROVE  tableCount' + Cardinality(At(places)') <= MaxTableCount - 1 + Cardinality(who)
  BY DEF Load
<1>1. Cardinality(who) \in Nat /\ Cardinality(At(places)') <= Cardinality(who)
  BY FS_Subset, FS_CardinalityType
<1>2. /\ Cardinality(At(places)) \in Nat /\ Cardinality(At(places)') \in Nat
      /\ Cardinality(At(places)') <= Cardinality(At(places)) + 1
      /\ (pc'[t] \in places => pc[t] \in places)
            => Cardinality(At(places)') <= Cardinality(At(places))
      /\ pc[t] \in places /\ pc'[t] \notin places
            => Cardinality(At(places)') = Cardinality(At(places)) - 1
  BY StepCounts
<1>3. tableCount \in Int /\ MaxTableCount \in Nat
  BY ConstantsAssumption DEF TypeOK
<1>4. CASE CreateCheck(t)
  BY <1>1, <1>2, <1>3, <1>4 DEF CreateCheck, store
<1>5. CASE ~CreateCheck(t)
  <2>1. At(Coming) # {}
    BY <1>5, PlaceMoves DEF At, Frame
  <2>2. tableCount + Cardinality(At(places)) <= MaxTableCount - 1 + Cardinality(who)
    BY <2>1 DEF Load
  <2>3. CASE CreateInsert(t)
    <3>1. /\ pc[t] \in Coming /\ pc'[t] = "idle" /\ tableCount' = tableCount + 1
      BY <2>3 DEF CreateInsert, Finish, Coming, Creators, TypeOK
    <3>2. pc[t] \in places /\ pc'[t] \notin places
      BY <3>1 DEF Changing, Coming, Creators
    <3> QED
      BY <1>1, <1>2, <1>3, <2>2, <3>1, <3>2
  <2>4. CASE DropCount(t)
    BY <1>1, <1>2, <1>3, <2>2, <2>4 DEF DropCount, Goto
  <2>5. CASE tableCount' = tableCount /\ ~DropCount(t)
    <3>1. pc'[t] \in places => pc[t] \in places
      BY <1>5, <2>5, PlaceMoves DEF Changing
    <3> QED
      BY <1>1, <1>2, <1>3, <2>2, <2>5, <3>1
  <2> QED
    BY <2>3, <2>4, <2>5, CountSteps
<1> QED
  BY <1>4, <1>5

LEMMA LoadInvStep == HeldInv /\ LoadInv /\ HeldInv' /\ [Next]_vars => LoadInv'
<1> SUFFICES ASSUME HeldInv, LoadInv, HeldInv', [Next]_vars PROVE LoadInv'
  OBVIOUS
<1>1. TypeOK /\ HasSlot /\ Owns /\ TypeOK'
  BY DEF HeldInv, AccountsInv
<1>2. ASSUME NEW t \in Threads, Step(t) PROVE LoadInv'
  <2>1. Frame(t)
    BY <1>1, <1>2, StepFrame
  <2>2. Permitted'
    BY <1>1, <1>2, <2>1, PermittedStep DEF LoadInv
  <2>3. CanCreate' = CanCreate /\ CanChange' = CanChange
    BY DEF CanCreate, CanChange, CanDrop
  <2>4. At(Coming)' \subseteq CanCreate /\ At(Changing)' \subseteq CanChange
    BY <2>2, <2>3 DEF Permitted, CanChange, CanDrop, CanCreate, Changing, At
  <2>5. Load(Coming, CanCreate)'
    BY <1>1, <1>2, <2>1, <2>3, <2>4, CanFinite, LoadStep DEF LoadInv
  <2>6. Load(Changing, CanChange)'
    BY <1>1, <1>2, <2>1, <2>3, <2>4, CanFinite, LoadStep DEF LoadInv
  <2> QED
    BY <2>2, <2>5, <2>6 DEF LoadInv
<1>3. ASSUME UNCHANGED <<store, pc>> PROVE LoadInv'
  BY <1>3 DEF LoadInv, Permitted, Load, At, CanCreate, CanDrop, CanChange, store
<1> QED
  BY <1>2, <1>3 DEF Next, Ended, TimeUp, vars, store

LEMMA LoadInvariant == Spec => []LoadInv
<1>1. Init => LoadInv
  <2> SUFFICES ASSUME Init PROVE LoadInv
    OBVIOUS
  <2>1. At(Coming) = {} /\ At(BeforeCount \union {"dropVacate"}) = {}
    BY DEF Init, At, Coming, Creators, BeforeCount
  <2> QED
    BY <2>1 DEF LoadInv, Permitted, Load
<1> QED
  BY <1>1, LoadInvStep, HeldInvariant, PTL DEF Spec

\* Each CREATE under way has been counted against the limit already.
Ceiling == tableCount <= MaxTableCount - 1 + Cardinality(CanCreate)

LEMMA CeilingStep == HeldInv /\ LoadInv /\ Ceiling /\ [Next]_vars => Ceiling'
<1> SUFFICES ASSUME HeldInv, LoadInv, Ceiling, [Next]_vars PROVE Ceiling'
  OBVIOUS
<1>1. tableCount \in Int /\ MaxTableCount \in Nat /\ Cardinality(CanCreate) \in Nat
  BY CanFinite, ConstantsAssumption DEF HeldInv, AccountsInv, TypeOK
<1>2. CanCreate' = CanCreate
  BY DEF CanCreate
<1>3. ASSUME NEW t \in Threads, Step(t) PROVE Ceiling'
  <2>1. CASE CreateInsert(t)
    <3>1. t \in At(Coming) /\ tableCount' = tableCount + 1
      BY <2>1 DEF CreateInsert, At, Coming, Creators
    <3>2. IsFiniteSet(At(Coming))
      BY FS_Subset, ThreadsAssumption DEF At
    <3>3. Cardinality(At(Coming)) \in Nat /\ Cardinality(At(Coming)) # 0
      BY <3>1, <3>2, FS_CardinalityType, FS_EmptySet
    <3>4. tableCount + Cardinality(At(Coming)) <= MaxTableCount - 1 + Cardinality(CanCreate)
      BY <3>1 DEF LoadInv, Load
    <3> QED
      BY <1>1, <1>2, <3>1, <3>3, <3>4 DEF Ceiling
  <2>2. CASE DropCount(t)
    BY <1>1, <1>2, <2>2 DEF Ceiling, DropCount
  <2>3. CASE tableCount' = tableCount
    BY <1>2, <2>3 DEF Ceiling
  <2> QED
    BY <1>3, <2>1, <2>2, <2>3, CountSteps
<1>4. ASSUME UNCHANGED store PROVE Ceiling'
  BY <1>2, <1>4 DEF Ceiling, store
<1> QED
  BY <1>3, <1>4 DEF Next, Ended, TimeUp, vars, store

\* The tables made before the workload are a number the limits allow for.
StartsWithin ==
    /\ InitialTables >= MinTableCount + 1 - Cardinality(CanDrop)
    /\ InitialTables <= MaxTableCount - 1 + Cardinality(CanCreate)

\* The tests of size() in CreateTable::execute and DropTable::execute are made
\* without a lock and are out of date when the statement runs; the number of tables
\* passes a limit by at most one operation per worker nevertheless.
THEOREM LimitsKept == ASSUME StartsWithin PROVE Spec => []SizeBounds
<1> DEFINE floor == MinTableCount + 1 - Cardinality(CanDrop)
<1>1. floor \in Int
  BY UnderwayFinite, ConstantsAssumption
<1>2. Init => Margin(floor) /\ Ceiling
  <2> SUFFICES ASSUME Init PROVE Margin(floor) /\ Ceiling
    OBVIOUS
  <2>1. Underway = {} /\ tableCount = InitialTables
    BY DEF Init, Underway, At, BeforeCount
  <2> QED
    BY <2>1 DEF Margin, StartsWithin, Ceiling
<1> HIDE DEF floor
<1>3. HeldInv /\ Margin(floor) /\ [Next]_vars => Margin(floor)'
  <2>1. floor <= MinTableCount + 1 - Cardinality(CanDrop)
    BY <1>1 DEF floor
  <2> QED
    BY <1>1, <2>1, MarginInvStep
<1>4. Margin(floor) /\ Ceiling => SizeBounds
  BY DEF Margin, Ceiling, SizeBounds, floor, CanDrop, CanCreate
<1> QED
  BY <1>2, <1>3, <1>4, CeilingStep, HeldInvariant, LoadInvariant, PTL DEF Spec

-----------------------------------------------------------------------------
(* No undefined behaviour *)

\* The arrays have room for every worker that may be adding a table or still has a
\* slot to give back when max_table_count is reached.
HasRoom == MaxTableCount + Cardinality(CanChange) <= MaxTables + 1

Defined(t) ==
    /\ pc[t] \notin {"crashed", "reserveUndo"}
    /\ pc[t] = "createInsert" => next[t] \in Slots
    /\ next[t] <= MaxTables

\* A CREATE that is about to reserve a slot will get one.
LEMMA RoomLeft ==
    ASSUME HasRoom, HeldInv, LoadInv, ProcessAlive, NEW t \in Threads,
           pc[t] \in {"reserveTest", "reserve"}
    PROVE  reservedSize < MaxTables
<1> DEFINE holders == Creating \union At({"reserveUndo", "dropVacate"})
<1>1. TypeOK /\ reservedSize = tableCount + Cardinality(Creating)
                               + Cardinality(At({"reserveUndo", "dropVacate"}))
  BY DEF HeldInv, AccountsInv, Accounting
<1>2. /\ IsFiniteSet(Creating) /\ IsFiniteSet(At({"reserveUndo", "dropVacate"}))
      /\ IsFiniteSet(At(Changing))
  BY FS_Subset, ThreadsAssumption DEF Creating, At
<1>3. Creating \intersect At({"reserveUndo", "dropVacate"}) = {}
  BY DEF Creating, At
<1>4. /\ IsFiniteSet(holders)
      /\ Cardinality(holders) = Cardinality(Creating)
                                + Cardinality(At({"reserveUndo", "dropVacate"}))
  <2>1. /\ IsFiniteSet(holders)
        /\ Cardinality(holders) = Cardinality(Creating)
               + Cardinality(At({"reserveUndo", "dropVacate"}))
               - Cardinality(Creating \intersect At({"reserveUndo", "dropVacate"}))
    BY <1>2, FS_Union
  <2>2. /\ Cardinality(Creating) \in Nat
        /\ Cardinality(At({"reserveUndo", "dropVacate"})) \in Nat
    BY <1>2, FS_CardinalityType
  <2> QED
    BY <1>3, <2>1, <2>2, FS_EmptySet
<1>5. t \notin holders /\ holders \union {t} \subseteq At(Changing) /\ t \in At(Coming)
  BY DEF Creating, At, Changing, Coming, Creators
<1>6. IsFiniteSet(holders \union {t}) /\ Cardinality(holders \union {t}) = Cardinality(holders) + 1
  <2> HIDE DEF holders
  <2> QED
    BY <1>4, <1>5, FS_AddElement
<1>7. Cardinality(holders \union {t}) <= Cardinality(At(Changing))
  <2> HIDE DEF holders
  <2> QED
    BY <1>2, <1>5, FS_Subset
<1>8. Cardinality(holders) \in Nat /\ Cardinality(At(Changing)) \in Nat
      /\ Cardinality(CanChange) \in Nat
  <2> HIDE DEF holders
  <2> QED
    BY <1>2, <1>4, FS_CardinalityType, CanFinite
<1>9. tableCount + Cardinality(At(Changing)) <= MaxTableCount - 1 + Cardinality(CanChange)
  BY <1>5 DEF LoadInv, Load
<1>10. tableCount \in Int /\ MaxTables \in Nat /\ MaxTableCount \in Nat
  BY <1>1, ConstantsAssumption DEF TypeOK
<1>11. reservedSize = tableCount + Cardinality(holders)
  <2>1. /\ Cardinality(Creating) \in Nat
        /\ Cardinality(At({"reserveUndo", "dropVacate"})) \in Nat
    BY <1>2, FS_CardinalityType
  <2> QED
    BY <1>1, <1>4, <1>10, <2>1
<1> HIDE DEF holders
<1> QED
  BY <1>6, <1>7, <1>8, <1>9, <1>10, <1>11 DEF HasRoom

LEMMA DefinedSelf ==
    ASSUME HasRoom, HeldInv, LoadInv, NonEmpty, NEW t \in Threads,
           Local(t), Defined(t), Step(t)
    PROVE  Defined(t)'
<1> USE DEF store, Defined
<1>1. /\ TypeOK /\ HasSlot /\ ProcessAlive /\ MaxTables \in Nat
      /\ tableCount \in Int /\ tableCount <= MaxTables
  BY CreatingFinite, ConstantsAssumption
     DEF Step, HeldInv, AccountsInv, Accounting, TypeOK
<1>2. npos <= MaxTables
  BY <1>1 DEF npos
<1> USE DEF TypeOK, HasSlot
<1>3. ASSUME NEW to \in {"dropLock", "alterLock", "readSlot"}, PickSlot(t, to)
      PROVE  Defined(t)'
  BY <1>1, <1>3 DEF PickSlot, NonEmpty
<1>4. CASE Create(t)
  <2>1. CASE ReserveTest(t) \/ Reserve(t)
    <3>1. reservedSize < MaxTables /\ reservedSize \in Int
      BY <1>1, <2>1, RoomLeft DEF ReserveTest, Reserve
    <3> QED
      BY <1>1, <2>1, <3>1 DEF ReserveTest, Reserve
  <2>2. CASE CreateCheck(t) \/ ReserveUndo(t) \/ CreateSql(t) \/ CreateRead(t)
    BY <1>1, <2>2 DEF CreateCheck, ReserveUndo, CreateSql, CreateRead, Goto
  <2>3. CASE CreateTestEmpty(t) \/ CreateLockBeforeFirst(t)
    BY <1>1, <2>3 DEF CreateTestEmpty, CreateLockBeforeFirst, NonEmpty, Local
  <2>4. CASE CreateLockLast(t)
    <3>1. CASE StillLast(next[t] - 1)
      <4>1. /\ pc' = [pc EXCEPT ![t] = "createInsert"] /\ next' = next
            /\ next[t] = tableCount /\ t \in Creating
        BY <1>1, <2>4, <3>1 DEF CreateLockLast, StillLast, Creating, At
      <4>2. Cardinality(Creating) \in Nat /\ Cardinality(Creating) # 0
        <5>1. IsFiniteSet(Creating)
          BY FS_Subset, ThreadsAssumption DEF Creating, At
        <5> QED
          BY <4>1, <5>1, FS_CardinalityType, FS_EmptySet
      <4>3. tableCount + Cardinality(Creating) <= MaxTables
        BY <1>1 DEF HeldInv, AccountsInv, Accounting
      <4>4. tableCount \in Slots
        BY <1>1, <4>2, <4>3 DEF Slots, NonEmpty
      <4> QED
        BY <1>1, <4>1, <4>4
    <3>2. CASE ~StillLast(next[t] - 1)
      BY <1>1, <1>2, <2>4, <3>2 DEF CreateLockLast
    <3> QED
      BY <3>1, <3>2
  <2>5. CASE CreateInsert(t)
    BY <1>1, <1>2, <2>5 DEF CreateInsert, Finish
  <2> QED
    BY <1>4, <2>1, <2>2, <2>3, <2>4, <2>5 DEF Create
<1>5. CASE Drop(t)
  <2>1. CASE DropCheck(t) \/ DropSql(t) \/ DropCount(t)
    BY <1>1, <2>1 DEF DropCheck, DropSql, DropCount, Goto
  <2>2. CASE DropPick(t)
    BY <1>3, <2>2 DEF DropPick
  <2>3. CASE DropLock(t) \/ DropVacate(t)
    BY <1>1, <1>2, <2>3 DEF DropLock, DropVacate, Finish
  <2>4. CASE DropTest(t)
    <3>1. index[t] \in Int /\ index[t] <= MaxTables
      BY <1>1, <2>4 DEF DropTest, Slots
    <3> QED
      BY <1>1, <2>4, <3>1 DEF DropTest
  <2>5. CASE DropReadLast(t)
    BY <1>1, <2>5 DEF DropReadLast, Goto
  <2>6. CASE DropLockLast(t) \/ DropRelock(t)
    BY <1>1, <1>2, <2>6 DEF DropLockLast, DropRelock
  <2> QED
    BY <1>5, <2>1, <2>2, <2>3, <2>4, <2>5, <2>6 DEF Drop
<1>6. CASE Alter(t)
  BY <1>1, <1>2, <1>3, <1>6 DEF Alter, AlterPick, AlterLock, AlterComplete, Finish
<1>7. CASE Read(t)
  BY <1>1, <1>2, <1>3, <1>7 DEF Read, DmlCheck, CustomStart, ReadPick, ReadSlot, Finish
<1>8. CASE Cancel(t)
  BY <1>1, <1>2, <1>8 DEF Cancel, Finish
<1> QED
  BY <1>4, <1>5, <1>6, <1>7, <1>8 DEF Step

DefinedInv == \A t \in Threads : Defined(t)

LEMMA DefinedInvStep ==
    ASSUME HasRoom
    PROVE  HeldInv /\ LoadInv /\ DenseInv /\ NonEmpty /\ DefinedInv /\ [Next]_vars
             => DefinedInv'
<1> SUFFICES ASSUME HeldInv, LoadInv, DenseInv, NonEmpty, DefinedInv, [Next]_vars
             PROVE  DefinedInv'
  OBVIOUS
<1>1. ASSUME NEW t \in Threads, Step(t), NEW u \in Threads PROVE Defined(u)'
  <2>1. CASE u = t
    BY <1>1, <2>1, DefinedSelf DEF DenseInv, DefinedInv
  <2>2. CASE u # t
    <3>1. Frame(t)
      BY <1>1, StepFrame DEF HeldInv, AccountsInv
    <3> QED
      BY <2>2, <3>1 DEF Frame, Defined, DefinedInv
  <2> QED
    BY <2>1, <2>2
<1>2. ASSUME UNCHANGED <<pc, next>> PROVE DefinedInv'
  BY <1>2 DEF DefinedInv, Defined
<1> QED
  BY <1>1, <1>2 DEF DefinedInv, Next, Ended, TimeUp, vars, store

\* With room in the arrays beyond max_table_count, and as long as the store does not
\* become empty, no operation draws a slot from an empty range, locks what lies
\* before or after the arrays, or writes through the null table of a reservation
\* that was refused.
THEOREM BehaviourDefined == ASSUME HasRoom PROVE Spec /\ []NonEmpty => []NoUndefinedBehaviour
<1>1. Init => DefinedInv
  BY ConstantsAssumption DEF Init, DefinedInv, Defined, npos
<1>2. DefinedInv => NoUndefinedBehaviour
  BY DEF DefinedInv, Defined, NoUndefinedBehaviour
<1>3. HeldInv /\ LoadInv /\ DenseInv /\ NonEmpty /\ DefinedInv /\ [Next]_vars => DefinedInv'
  BY DefinedInvStep
<1>4. HeldInv /\ NonEmpty /\ DenseInv /\ [Next]_vars => DenseInv'
  BY DenseInvStep
<1> QED
  BY <1>1, <1>2, <1>3, <1>4, DenseInit, HeldInvariant, LoadInvariant, PTL DEF Spec

\* A configuration whose minimum covers the workers that may drop and whose maximum
\* leaves room for those that change the store never runs into undefined behaviour.
THEOREM StaysDefined ==
    ASSUME KeepsTables, HasRoom PROVE Spec => []NoUndefinedBehaviour
BY MinimumKept, BehaviourDefined, PTL
=============================================================================

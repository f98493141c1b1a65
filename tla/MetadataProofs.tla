--------------------------- MODULE MetadataProofs ---------------------------
(***************************************************************************)
(* Theorems about Metadata, for every number of workers, every size of the *)
(* arrays and every configuration of the limits.                           *)
(***************************************************************************)
EXTENDS Metadata, FiniteSetTheorems, TLAPS

-----------------------------------------------------------------------------
(* Counting threads by where they are *)

\* When one thread moves, the number of threads at a set of places changes by
\* whether it enters or leaves the set.
LEMMA CountMove ==
    ASSUME NEW p \in [Threads -> PCs], NEW t \in Threads, NEW to \in PCs, NEW P,
           NEW q, q = [p EXCEPT ![t] = to]
    PROVE  LET before == {u \in Threads : p[u] \in P}
               after == {u \in Threads : q[u] \in P}
           IN /\ Cardinality(before) \in Nat
              /\ Cardinality(after) \in Nat
              /\ (p[t] \in P <=> to \in P) => Cardinality(after) = Cardinality(before)
              /\ p[t] \notin P /\ to \in P => Cardinality(after) = Cardinality(before) + 1
              /\ p[t] \in P /\ to \notin P => Cardinality(after) = Cardinality(before) - 1
<1> DEFINE before == {u \in Threads : p[u] \in P}
           after == {u \in Threads : q[u] \in P}
<1>1. IsFiniteSet(before) /\ IsFiniteSet(after)
  BY FS_Subset, ThreadsAssumption
<1>2. Cardinality(before) \in Nat /\ Cardinality(after) \in Nat
  BY <1>1, FS_CardinalityType
<1>3. CASE p[t] \in P <=> to \in P
  <2>1. after = before
    BY <1>3
  <2> QED
    BY <2>1, <1>2, <1>3
<1>4. CASE p[t] \notin P /\ to \in P
  <2>1. after = before \union {t} /\ t \notin before
    BY <1>4
  <2>2. Cardinality(after) = Cardinality(before) + 1
    BY <2>1, <1>1, FS_AddElement
  <2> QED
    BY <2>2, <1>2, <1>4
<1>5. CASE p[t] \in P /\ to \notin P
  <2>1. after = before \ {t} /\ t \in before
    BY <1>5
  <2>2. Cardinality(after) = Cardinality(before) - 1
    BY <2>1, <1>1, FS_RemoveElement
  <2> QED
    BY <2>2, <1>2, <1>5
<1> QED
  BY <1>3, <1>4, <1>5

-----------------------------------------------------------------------------
(* Types *)

\* Where a thread has picked a slot of the arrays, and where a DROP has one to
\* empty.
HasSlot == \A t \in Threads :
    /\ pc[t] \in {"dropLock", "dropSql", "dropTest", "dropReadLast", "dropLockLast",
                  "alterLock", "alterOpen", "readSlot"} => index[t] \in Slots
    /\ pc[t] \in {"dropCount", "dropVacate"} => next[t] \in Slots

LEMMA PickTypes ==
    ASSUME TypeOK, HasSlot, NEW t \in Threads,
           NEW to \in {"dropLock", "alterLock", "readSlot"},
           tableCount <= MaxTables, PickSlot(t, to)
    PROVE  TypeOK' /\ HasSlot'
<1>1. ASSUME NEW i \in (IF tableCount = 0 THEN Slots ELSE 0 .. tableCount - 1)
      PROVE  i \in Slots
  BY ConstantsAssumption DEF Slots, TypeOK
<1>2. CASE \E i \in (IF tableCount = 0 THEN Slots ELSE 0 .. tableCount - 1) :
             /\ index' = [index EXCEPT ![t] = i]
             /\ pc' = [pc EXCEPT ![t] = to]
  <2>1. PICK i \in Slots : index' = [index EXCEPT ![t] = i] /\ pc' = [pc EXCEPT ![t] = to]
    BY <1>1, <1>2
  <2> QED
    BY <2>1 DEF TypeOK, HasSlot, PickSlot, store, PCs
<1>3. CASE pc' = [pc EXCEPT ![t] = "crashed"] /\ UNCHANGED index
  BY <1>3 DEF TypeOK, HasSlot, PickSlot, store, PCs
<1> QED
  BY <1>2, <1>3 DEF PickSlot

LEMMA CreateTypes ==
    ASSUME TypeOK, HasSlot, NEW t \in Threads, Create(t)
    PROVE  TypeOK' /\ HasSlot'
<1> USE DEF TypeOK, HasSlot, store
<1>1. CASE CreateCheck(t)
  BY <1>1 DEF CreateCheck, Starts, PCs
<1>2. CASE ReserveTest(t)
  BY <1>2 DEF ReserveTest, PCs
<1>3. CASE Reserve(t)
  <2>1. CASE reservedSize' > MaxTables
    <3>1. /\ pc' = [pc EXCEPT ![t] = "reserveUndo"]
          /\ reservedSize' = reservedSize + 1
          /\ UNCHANGED <<tables, owner, tableCount, table, index, next, unwind, timeUp>>
      BY <1>3, <2>1 DEF Reserve
    <3> QED
      BY <3>1 DEF PCs
  <2>2. CASE ~(reservedSize' > MaxTables)
    <3>1. PICK id \in FreshIds, d \in Defs :
            table' = [table EXCEPT ![t] = [id |-> id, def |-> d]]
      BY <1>3, <2>2 DEF Reserve
    <3>2. [id |-> id, def |-> d] \in Table
      BY <3>1 DEF Table, FreshIds
    <3> QED
      BY <1>3, <2>2, <3>1, <3>2 DEF Reserve, PCs
  <2> QED
    BY <2>1, <2>2
<1>4. CASE ReserveUndo(t)
  BY <1>4 DEF ReserveUndo, Goto, PCs
<1>5. CASE CreateSql(t)
  BY <1>5 DEF CreateSql, Goto, PCs
<1>6. CASE CreateRead(t)
  BY <1>6 DEF CreateRead, Goto, PCs
<1>7. CASE CreateTestEmpty(t)
  BY <1>7 DEF CreateTestEmpty, PCs
<1>8. CASE CreateLockLast(t)
  BY <1>8 DEF CreateLockLast, PCs, npos
<1>9. CASE CreateLockBeforeFirst(t)
  BY <1>9 DEF CreateLockBeforeFirst, PCs, npos
<1>10. CASE CreateInsert(t)
  BY <1>10 DEF CreateInsert, Finish, Unlocked, PCs, npos
<1> QED
  BY <1>1, <1>2, <1>3, <1>4, <1>5, <1>6, <1>7, <1>8, <1>9, <1>10 DEF Create

LEMMA DropTypes ==
    ASSUME TypeOK, HasSlot, tableCount <= MaxTables, NEW t \in Threads, Drop(t)
    PROVE  TypeOK' /\ HasSlot'
<1>1. CASE DropCheck(t)
  BY <1>1 DEF TypeOK, HasSlot, store, DropCheck, Starts, PCs
<1>2. CASE DropPick(t)
  BY <1>2, PickTypes DEF DropPick
<1> USE DEF TypeOK, HasSlot, store
<1>3. CASE DropLock(t)
  BY <1>3 DEF DropLock, Finish, PCs, npos
<1>4. CASE DropSql(t)
  BY <1>4 DEF DropSql, Goto, PCs
<1>5. CASE DropTest(t)
  <2>1. index[t] \in Slots /\ index[t] \in Int
    BY <1>5, ConstantsAssumption DEF DropTest, Slots
  <2> QED
    BY <1>5, <2>1 DEF DropTest, PCs
<1>6. CASE DropReadLast(t)
  BY <1>6 DEF DropReadLast, Goto, PCs
<1>7. CASE DropLockLast(t)
  BY <1>7 DEF DropLockLast, StillLast, PCs, npos
<1>8. CASE DropRelock(t)
  BY <1>8 DEF DropRelock, PCs, npos
<1>9. CASE DropCount(t)
  BY <1>9 DEF DropCount, Goto, PCs
<1>10. CASE DropVacate(t)
  BY <1>10 DEF DropVacate, Finish, Unlocked, PCs, npos
<1> QED
  BY <1>1, <1>2, <1>3, <1>4, <1>5, <1>6, <1>7, <1>8, <1>9, <1>10 DEF Drop

LEMMA OtherTypes ==
    ASSUME TypeOK, HasSlot, tableCount <= MaxTables, NEW t \in Threads,
           Alter(t) \/ Read(t) \/ Cancel(t)
    PROVE  TypeOK' /\ HasSlot'
<1>1. CASE AlterPick(t)
  BY <1>1, PickTypes DEF AlterPick
<1>2. CASE ReadPick(t)
  BY <1>2, PickTypes DEF ReadPick
<1> USE DEF TypeOK, HasSlot, store
<1>3. CASE AlterLock(t)
  <2>1. CASE tables[index[t]] = NoTable
    BY <1>3, <2>1 DEF AlterLock, Finish, PCs, npos
  <2>2. CASE tables[index[t]] # NoTable
    <3>1. PICK d \in Defs :
            table' = [table EXCEPT ![t] = [tables[index[t]] EXCEPT !.def = d]]
      BY <1>3, <2>2 DEF AlterLock
    <3>2. index[t] \in Slots /\ tables[index[t]] \in Table
      BY <1>3, <2>2 DEF AlterLock
    <3>3. [tables[index[t]] EXCEPT !.def = d] \in Table
      BY <3>2 DEF Table
    <3> QED
      BY <1>3, <2>2, <3>1, <3>2, <3>3 DEF AlterLock, PCs
  <2> QED
    BY <2>1, <2>2
<1>4. CASE AlterComplete(t)
  BY <1>4 DEF AlterComplete, Finish, Unlocked, PCs, npos
<1>5. CASE DmlCheck(t)
  BY <1>5 DEF DmlCheck, Starts, PCs
<1>6. CASE CustomStart(t)
  BY <1>6 DEF CustomStart, Starts, PCs
<1>7. CASE ReadSlot(t)
  BY <1>7 DEF ReadSlot, Finish, PCs, npos
<1>8. CASE Cancel(t)
  BY <1>8 DEF Cancel, Finish, Unlocked, PCs, npos
<1> QED
  BY <1>1, <1>2, <1>3, <1>4, <1>5, <1>6, <1>7, <1>8 DEF Alter, Read

-----------------------------------------------------------------------------
(* The accounts of slots *)

Creators == {"createSql", "createRead", "createTestEmpty", "createLockLast",
             "createInsert"}
Debtors == {"reserveUndo", "dropVacate"}

\* What the move of one thread does to the two numbers in Accounting.
LEMMA Moves ==
    ASSUME pc \in [Threads -> PCs], NEW t \in Threads, NEW to \in PCs,
           pc' = [pc EXCEPT ![t] = to]
    PROVE  /\ Cardinality(Creating) \in Nat /\ Cardinality(Creating') \in Nat
           /\ Cardinality(At(Debtors)) \in Nat /\ Cardinality(At(Debtors)') \in Nat
           /\ Cardinality(Creating') =
                IF pc[t] \in Creators
                THEN IF to \in Creators THEN Cardinality(Creating) ELSE Cardinality(Creating) - 1
                ELSE IF to \in Creators THEN Cardinality(Creating) + 1 ELSE Cardinality(Creating)
           /\ Cardinality(At(Debtors)') =
                IF pc[t] \in Debtors
                THEN IF to \in Debtors THEN Cardinality(At(Debtors)) ELSE Cardinality(At(Debtors)) - 1
                ELSE IF to \in Debtors THEN Cardinality(At(Debtors)) + 1 ELSE Cardinality(At(Debtors))
<1>1. Creating = {u \in Threads : pc[u] \in Creators} /\ Creating' = {u \in Threads : pc'[u] \in Creators}
  BY DEF Creating, At, Creators
<1>2. At(Debtors) = {u \in Threads : pc[u] \in Debtors} /\ At(Debtors)' = {u \in Threads : pc'[u] \in Debtors}
  BY DEF At
<1> HIDE DEF Creators, Debtors
<1>3. LET before == {u \in Threads : pc[u] \in Creators}
          after == {u \in Threads : pc'[u] \in Creators}
      IN /\ Cardinality(before) \in Nat
         /\ Cardinality(after) \in Nat
         /\ (pc[t] \in Creators <=> to \in Creators) => Cardinality(after) = Cardinality(before)
         /\ pc[t] \notin Creators /\ to \in Creators => Cardinality(after) = Cardinality(before) + 1
         /\ pc[t] \in Creators /\ to \notin Creators => Cardinality(after) = Cardinality(before) - 1
  BY CountMove
<1>4. LET before == {u \in Threads : pc[u] \in Debtors}
          after == {u \in Threads : pc'[u] \in Debtors}
      IN /\ Cardinality(before) \in Nat
         /\ Cardinality(after) \in Nat
         /\ (pc[t] \in Debtors <=> to \in Debtors) => Cardinality(after) = Cardinality(before)
         /\ pc[t] \notin Debtors /\ to \in Debtors => Cardinality(after) = Cardinality(before) + 1
         /\ pc[t] \in Debtors /\ to \notin Debtors => Cardinality(after) = Cardinality(before) - 1
  BY CountMove
<1> QED
  BY <1>1, <1>2, <1>3, <1>4

\* A move that touches no counter and leaves or enters neither set.
LEMMA QuietMove ==
    ASSUME TypeOK, ProcessAlive, Accounting, NEW t \in Threads, NEW to \in PCs,
           pc' = [pc EXCEPT ![t] = to], UNCHANGED <<tableCount, reservedSize>>,
           pc[t] \in Creators <=> to \in Creators,
           pc[t] \in Debtors <=> to \in Debtors
    PROVE  Accounting'
<1>1. /\ Cardinality(Creating') = Cardinality(Creating)
      /\ Cardinality(At(Debtors)') = Cardinality(At(Debtors))
  BY Moves DEF TypeOK
<1> QED
  BY <1>1 DEF Accounting, Debtors

\* Undefined behaviour has no accounts to keep.
LEMMA Crash ==
    ASSUME TypeOK, NEW t \in Threads, pc' = [pc EXCEPT ![t] = "crashed"]
    PROVE  Accounting'
<1>1. pc'[t] = "crashed"
  BY DEF TypeOK
<1> QED
  BY <1>1 DEF Accounting, ProcessAlive

LEMMA PickAccounting ==
    ASSUME TypeOK, ProcessAlive, Accounting, NEW t \in Threads,
           NEW to \in {"dropLock", "alterLock", "readSlot"}, PickSlot(t, to),
           pc[t] \notin Creators, pc[t] \notin Debtors
    PROVE  Accounting'
<1>1. CASE pc' = [pc EXCEPT ![t] = to]
  BY <1>1, QuietMove DEF PickSlot, store, Creators, Debtors, PCs
<1>2. CASE pc' = [pc EXCEPT ![t] = "crashed"]
  BY <1>2, Crash
<1> QED
  BY <1>1, <1>2 DEF PickSlot

LEMMA CreateAccounting ==
    ASSUME TypeOK, ProcessAlive, Accounting, NEW t \in Threads, Create(t)
    PROVE  Accounting'
<1> USE DEF store
<1>1. CASE CreateCheck(t)
  BY <1>1, QuietMove DEF CreateCheck, Starts, PCs, Creators, Debtors
<1>2. CASE ReserveTest(t)
  <2>1. CASE reservedSize < MaxTables
    BY <1>2, <2>1, QuietMove DEF ReserveTest, PCs, Creators, Debtors
  <2>2. CASE ~(reservedSize < MaxTables)
    BY <1>2, <2>2, Crash DEF ReserveTest
  <2> QED
    BY <2>1, <2>2
<1>3. CASE Reserve(t)
  <2>1. CASE reservedSize' > MaxTables
    <3>1. /\ pc[t] = "reserve" /\ pc' = [pc EXCEPT ![t] = "reserveUndo"]
          /\ reservedSize' = reservedSize + 1 /\ tableCount' = tableCount
      BY <1>3, <2>1 DEF Reserve
    <3>2. /\ Cardinality(Creating') = Cardinality(Creating)
          /\ Cardinality(At(Debtors)') = Cardinality(At(Debtors)) + 1
          /\ Cardinality(Creating) \in Nat /\ Cardinality(At(Debtors)) \in Nat
      BY <3>1, Moves DEF TypeOK, PCs, Creators, Debtors
    <3> QED
      BY <3>1, <3>2 DEF Accounting, Debtors, TypeOK
  <2>2. CASE ~(reservedSize' > MaxTables)
    <3>1. /\ pc[t] = "reserve" /\ pc' = [pc EXCEPT ![t] = "createSql"]
          /\ reservedSize' = reservedSize + 1 /\ tableCount' = tableCount
      BY <1>3, <2>2 DEF Reserve
    <3>2. /\ Cardinality(Creating') = Cardinality(Creating) + 1
          /\ Cardinality(At(Debtors)') = Cardinality(At(Debtors))
          /\ Cardinality(Creating) \in Nat /\ Cardinality(At(Debtors)) \in Nat
      BY <3>1, Moves DEF TypeOK, PCs, Creators, Debtors
    <3> QED
      BY <3>1, <3>2, <2>2, ConstantsAssumption DEF Accounting, Debtors, TypeOK
  <2> QED
    BY <2>1, <2>2
<1>4. CASE ReserveUndo(t)
  BY <1>4, Crash DEF ReserveUndo, Goto
<1>5. CASE CreateSql(t)
  BY <1>5, QuietMove DEF CreateSql, Goto, PCs, Creators, Debtors
<1>6. CASE CreateRead(t)
  BY <1>6, QuietMove DEF CreateRead, Goto, PCs, Creators, Debtors
<1>7. CASE CreateTestEmpty(t)
  <2>1. CASE tableCount = 0
    BY <1>7, <2>1, QuietMove DEF CreateTestEmpty, PCs, Creators, Debtors
  <2>2. CASE tableCount # 0
    BY <1>7, <2>2, QuietMove DEF CreateTestEmpty, PCs, Creators, Debtors
  <2> QED
    BY <2>1, <2>2
<1>8. CASE CreateLockLast(t)
  <2>1. CASE StillLast(next[t] - 1)
    BY <1>8, <2>1, QuietMove DEF CreateLockLast, PCs, Creators, Debtors
  <2>2. CASE ~StillLast(next[t] - 1)
    BY <1>8, <2>2, QuietMove DEF CreateLockLast, PCs, Creators, Debtors
  <2> QED
    BY <2>1, <2>2
<1>9. CASE CreateLockBeforeFirst(t)
  <2>1. CASE pc' = [pc EXCEPT ![t] = "crashed"]
    BY <2>1, Crash
  <2>2. CASE pc' = [pc EXCEPT ![t] = "createRead"]
    BY <1>9, <2>2, QuietMove DEF CreateLockBeforeFirst, PCs, Creators, Debtors
  <2>3. CASE pc' = [pc EXCEPT ![t] = "createInsert"]
    BY <1>9, <2>3, QuietMove DEF CreateLockBeforeFirst, PCs, Creators, Debtors
  <2> QED
    BY <1>9, <2>1, <2>2, <2>3 DEF CreateLockBeforeFirst
<1>10. CASE CreateInsert(t)
  <2>1. /\ pc[t] = "createInsert" /\ pc' = [pc EXCEPT ![t] = "idle"]
        /\ reservedSize' = reservedSize /\ tableCount' = tableCount + 1
    BY <1>10 DEF CreateInsert, Finish
  <2>2. /\ Cardinality(Creating') = Cardinality(Creating) - 1
        /\ Cardinality(At(Debtors)') = Cardinality(At(Debtors))
        /\ Cardinality(Creating) \in Nat /\ Cardinality(At(Debtors)) \in Nat
    BY <2>1, Moves DEF TypeOK, PCs, Creators, Debtors
  <2> QED
    BY <2>1, <2>2, ConstantsAssumption DEF Accounting, Debtors, TypeOK
<1> QED
  BY <1>1, <1>2, <1>3, <1>4, <1>5, <1>6, <1>7, <1>8, <1>9, <1>10 DEF Create

LEMMA DropAccounting ==
    ASSUME TypeOK, ProcessAlive, Accounting, NEW t \in Threads, Drop(t)
    PROVE  Accounting'
<1> USE DEF store
<1>1. CASE DropCheck(t)
  BY <1>1, QuietMove DEF DropCheck, Starts, PCs, Creators, Debtors
<1>2. CASE DropPick(t)
  BY <1>2, PickAccounting DEF DropPick, Creators, Debtors
<1>3. CASE DropLock(t)
  <2>1. CASE tables[index[t]] = NoTable
    BY <1>3, <2>1, QuietMove DEF DropLock, Finish, PCs, Creators, Debtors
  <2>2. CASE tables[index[t]] # NoTable
    BY <1>3, <2>2, QuietMove DEF DropLock, PCs, Creators, Debtors
  <2> QED
    BY <2>1, <2>2
<1>4. CASE DropSql(t)
  BY <1>4, QuietMove DEF DropSql, Goto, PCs, Creators, Debtors
<1>5. CASE DropTest(t)
  <2>1. CASE index[t] = tableCount - 1
    BY <1>5, <2>1, QuietMove DEF DropTest, PCs, Creators, Debtors
  <2>2. CASE index[t] # tableCount - 1
    BY <1>5, <2>2, QuietMove DEF DropTest, PCs, Creators, Debtors
  <2> QED
    BY <2>1, <2>2
<1>6. CASE DropReadLast(t)
  BY <1>6, QuietMove DEF DropReadLast, Goto, PCs, Creators, Debtors
<1>7. CASE DropLockLast(t)
  <2>1. CASE StillLast(next[t])
    BY <1>7, <2>1, QuietMove DEF DropLockLast, PCs, Creators, Debtors
  <2>2. CASE ~StillLast(next[t])
    BY <1>7, <2>2, QuietMove DEF DropLockLast, PCs, Creators, Debtors
  <2> QED
    BY <2>1, <2>2
<1>8. CASE DropRelock(t)
  <2>1. CASE unwind[t] = "no"
    BY <1>8, <2>1, QuietMove DEF DropRelock, PCs, Creators, Debtors
  <2>2. CASE unwind[t] # "no"
    BY <1>8, <2>2, QuietMove DEF DropRelock, PCs, Creators, Debtors
  <2> QED
    BY <2>1, <2>2
<1>9. CASE DropCount(t)
  <2>1. /\ pc[t] = "dropCount" /\ pc' = [pc EXCEPT ![t] = "dropVacate"]
        /\ reservedSize' = reservedSize /\ tableCount' = tableCount - 1
    BY <1>9 DEF DropCount, Goto
  <2>2. /\ Cardinality(Creating') = Cardinality(Creating)
        /\ Cardinality(At(Debtors)') = Cardinality(At(Debtors)) + 1
        /\ Cardinality(Creating) \in Nat /\ Cardinality(At(Debtors)) \in Nat
    BY <2>1, Moves DEF TypeOK, PCs, Creators, Debtors
  <2> QED
    BY <2>1, <2>2, ConstantsAssumption DEF Accounting, Debtors, TypeOK
<1>10. CASE DropVacate(t)
  <2>1. /\ pc[t] = "dropVacate" /\ pc' = [pc EXCEPT ![t] = "idle"]
        /\ reservedSize' = reservedSize - 1 /\ tableCount' = tableCount
    BY <1>10 DEF DropVacate, Finish
  <2>2. /\ Cardinality(Creating') = Cardinality(Creating)
        /\ Cardinality(At(Debtors)') = Cardinality(At(Debtors)) - 1
        /\ Cardinality(Creating) \in Nat /\ Cardinality(At(Debtors)) \in Nat
    BY <2>1, Moves DEF TypeOK, PCs, Creators, Debtors
  <2> QED
    BY <2>1, <2>2, ConstantsAssumption DEF Accounting, Debtors, TypeOK
<1> QED
  BY <1>1, <1>2, <1>3, <1>4, <1>5, <1>6, <1>7, <1>8, <1>9, <1>10 DEF Drop

LEMMA OtherAccounting ==
    ASSUME TypeOK, ProcessAlive, Accounting, NEW t \in Threads,
           Alter(t) \/ Read(t) \/ Cancel(t)
    PROVE  Accounting'
<1> USE DEF store
<1>1. CASE AlterPick(t)
  BY <1>1, PickAccounting DEF AlterPick, Starts, Creators, Debtors
<1>2. CASE AlterLock(t)
  <2>1. CASE tables[index[t]] = NoTable
    BY <1>2, <2>1, QuietMove DEF AlterLock, Finish, PCs, Creators, Debtors
  <2>2. CASE tables[index[t]] # NoTable
    BY <1>2, <2>2, QuietMove DEF AlterLock, PCs, Creators, Debtors
  <2> QED
    BY <2>1, <2>2
<1>3. CASE AlterComplete(t)
  BY <1>3, QuietMove DEF AlterComplete, Finish, PCs, Creators, Debtors
<1>4. CASE DmlCheck(t)
  BY <1>4, QuietMove DEF DmlCheck, Starts, PCs, Creators, Debtors
<1>5. CASE CustomStart(t)
  BY <1>5, QuietMove DEF CustomStart, Starts, PCs, Creators, Debtors
<1>6. CASE ReadPick(t)
  BY <1>6, PickAccounting DEF ReadPick, Creators, Debtors
<1>7. CASE ReadSlot(t)
  <2>1. CASE tables[index[t]] = NoTable
    BY <1>7, <2>1, QuietMove DEF ReadSlot, PCs, Creators, Debtors
  <2>2. CASE tables[index[t]] # NoTable
    BY <1>7, <2>2, QuietMove DEF ReadSlot, Finish, PCs, Creators, Debtors
  <2> QED
    BY <2>1, <2>2
<1>8. CASE Cancel(t)
  <2>1. /\ pc' = [pc EXCEPT ![t] = "idle"] /\ tableCount' = tableCount
        /\ pc[t] \in {"createSql", "dropSql", "alterOpen"}
        /\ reservedSize' = IF pc[t] = "createSql" THEN reservedSize - 1 ELSE reservedSize
    BY <1>8 DEF Cancel, Finish
  <2>2. /\ Cardinality(Creating') = IF pc[t] = "createSql" THEN Cardinality(Creating) - 1
                                                            ELSE Cardinality(Creating)
        /\ Cardinality(At(Debtors)') = Cardinality(At(Debtors))
        /\ Cardinality(Creating) \in Nat /\ Cardinality(At(Debtors)) \in Nat
    BY <2>1, Moves DEF TypeOK, PCs, Creators, Debtors
  <2> QED
    BY <2>1, <2>2, ConstantsAssumption DEF Accounting, Debtors, TypeOK
<1> QED
  BY <1>1, <1>2, <1>3, <1>4, <1>5, <1>6, <1>7, <1>8 DEF Alter, Read

-----------------------------------------------------------------------------
(* Types and accounts hold in every reachable state *)

AccountsInv == TypeOK /\ HasSlot /\ Accounting

LEMMA CreatingFinite == Cardinality(Creating) \in Nat
<1>1. IsFiniteSet(Creating)
  BY FS_Subset, ThreadsAssumption DEF Creating, At
<1> QED
  BY <1>1, FS_CardinalityType

LEMMA AccountsInit == Init => AccountsInv
<1> SUFFICES ASSUME Init PROVE AccountsInv
  OBVIOUS
<1>1. TypeOK /\ HasSlot
  <2>1. InitialTables \in Int
    BY ConstantsAssumption
  <2>2. /\ tables \in [Slots -> Table \union {NoTable}] /\ timeUp = FALSE
        /\ owner = [i \in Slots |-> NoThread]
        /\ tableCount = InitialTables /\ reservedSize = InitialTables
        /\ pc = [u \in Threads |-> "idle"] /\ table = [u \in Threads |-> NoTable]
        /\ index = [u \in Threads |-> npos] /\ next = [u \in Threads |-> npos]
        /\ unwind = [u \in Threads |-> "no"]
    BY DEF Init
  <2>3. npos \in Int
    BY DEF npos
  <2> QED
    BY <2>1, <2>2, <2>3 DEF TypeOK, HasSlot, PCs
<1>2. Creating = {} /\ At({"reserveUndo", "dropVacate"}) = {}
  BY DEF Init, Creating, At
<1>3. Accounting
  BY <1>2, FS_EmptySet, ConstantsAssumption DEF Init, Accounting
<1> QED
  BY <1>1, <1>3 DEF AccountsInv

LEMMA AccountsStep == AccountsInv /\ [Next]_vars => AccountsInv'
<1> SUFFICES ASSUME AccountsInv, [Next]_vars PROVE AccountsInv'
  OBVIOUS
<1>1. ASSUME NEW t \in Threads, Step(t) PROVE AccountsInv'
  <2>1. ProcessAlive /\ TypeOK /\ HasSlot /\ Accounting
    BY <1>1 DEF Step, AccountsInv
  <2>2. tableCount <= MaxTables
    BY <2>1, CreatingFinite, ConstantsAssumption DEF Accounting, TypeOK
  <2>3. CASE Create(t)
    BY <2>1, <2>3, CreateTypes, CreateAccounting DEF AccountsInv
  <2>4. CASE Drop(t)
    BY <2>1, <2>2, <2>4, DropTypes, DropAccounting DEF AccountsInv
  <2>5. CASE Alter(t) \/ Read(t) \/ Cancel(t)
    BY <2>1, <2>2, <2>5, OtherTypes, OtherAccounting DEF AccountsInv
  <2> QED
    BY <1>1, <2>3, <2>4, <2>5 DEF Step
<1>2. ASSUME UNCHANGED <<store, pc, table, index, next, unwind>>, timeUp' \in BOOLEAN
      PROVE  AccountsInv'
  BY <1>2 DEF AccountsInv, TypeOK, HasSlot, Accounting, ProcessAlive, Creating, At, store
<1>3. CASE TimeUp
  BY <1>2, <1>3 DEF TimeUp
<1>4. CASE UNCHANGED vars
  BY <1>2, <1>4 DEF vars, store, AccountsInv, TypeOK
<1> QED
  BY <1>1, <1>3, <1>4 DEF Next, Ended

\* Every variable keeps its type, and the slot that an operation has drawn and
\* locked, and the one that a DROP is about to empty, are slots of the arrays,
\* whatever the workers do (~Reservation, complete(), operator[]).
THEOREM TypeCorrect == Spec => [](TypeOK /\ HasSlot)
<1>1. AccountsInv => TypeOK /\ HasSlot
  BY DEF AccountsInv
<1> QED
  BY <1>1, AccountsInit, AccountsStep, PTL DEF Spec

\* reservedSize accounts for every table and every CREATE in flight, and so the
\* arrays are never overbooked: createTable()'s test, increment and take-back are
\* enough for any number of workers.
THEOREM AccountsAgree == Spec => []Accounting
<1>1. AccountsInv => Accounting
  BY DEF AccountsInv
<1> QED
  BY <1>1, AccountsInit, AccountsStep, PTL DEF Spec

-----------------------------------------------------------------------------
(* What is locked stays as it is *)

HoldsPicked == {"dropSql", "dropTest", "dropReadLast", "dropLockLast", "alterOpen"}
HoldsLast == {"dropCount", "dropVacate"}

\* A thread with an open DROP or ALTER, or one about to empty the last slot, owns
\* that slot.
Owns == \A t \in Threads :
    /\ pc[t] \in HoldsPicked => owner[index[t]] = t
    /\ pc[t] \in HoldsLast => owner[next[t]] = t

\* A step of one thread leaves alone what belongs to the others: where they are,
\* and the slots they have locked.
Frame(t) ==
    /\ \A u \in Threads \ {t} : /\ pc'[u] = pc[u] /\ table'[u] = table[u]
                               /\ index'[u] = index[u] /\ next'[u] = next[u]
    /\ \A i \in Slots : owner[i] \notin {t, NoThread} =>
                            owner'[i] = owner[i] /\ tables'[i] = tables[i]

LEMMA StepFrame ==
    ASSUME TypeOK, HasSlot, Owns, NEW t \in Threads, Step(t)
    PROVE  Frame(t)
<1> USE DEF TypeOK, HasSlot, Owns, Frame, store, Free, HoldsPicked, HoldsLast
<1>1. ASSUME NEW to, PickSlot(t, to) PROVE Frame(t)
  BY <1>1 DEF PickSlot
<1>2. CASE Create(t)
  <2>1. CASE CreateCheck(t) \/ ReserveTest(t) \/ CreateSql(t) \/ CreateTestEmpty(t)
    BY <2>1 DEF CreateCheck, ReserveTest, CreateSql, CreateTestEmpty, Goto
  <2>2. CASE Reserve(t) \/ ReserveUndo(t) \/ CreateRead(t)
    BY <2>2 DEF Reserve, ReserveUndo, CreateRead, Goto
  <2>3. CASE CreateLockLast(t)
    BY <2>3 DEF CreateLockLast
  <2>4. CASE CreateLockBeforeFirst(t)
    BY <2>4 DEF CreateLockBeforeFirst
  <2>5. CASE CreateInsert(t)
    BY <2>5, NullAssumption DEF CreateInsert, Finish, Unlocked
  <2> QED
    BY <1>2, <2>1, <2>2, <2>3, <2>4, <2>5 DEF Create
<1>3. CASE Drop(t)
  <2>1. CASE DropCheck(t) \/ DropSql(t) \/ DropTest(t) \/ DropReadLast(t)
    BY <2>1 DEF DropCheck, DropSql, DropTest, DropReadLast, Goto
  <2>2. CASE DropPick(t)
    BY <1>1, <2>2 DEF DropPick
  <2>3. CASE DropLock(t)
    BY <2>3 DEF DropLock, Finish
  <2>4. CASE DropLockLast(t)
    BY <2>4 DEF DropLockLast
  <2>5. CASE DropRelock(t) \/ DropCount(t)
    BY <2>5 DEF DropRelock, DropCount, Goto
  <2>6. CASE DropVacate(t)
    BY <2>6 DEF DropVacate, Finish, Unlocked
  <2> QED
    BY <1>3, <2>1, <2>2, <2>3, <2>4, <2>5, <2>6 DEF Drop
<1>4. CASE Alter(t)
  <2>1. CASE AlterPick(t)
    BY <1>1, <2>1 DEF AlterPick
  <2>2. CASE AlterLock(t)
    <3>1. CASE tables[index[t]] = NoTable
      BY <2>2, <3>1 DEF AlterLock, Finish
    <3>2. CASE tables[index[t]] # NoTable
      <4>1. PICK copy : table' = [table EXCEPT ![t] = copy]
        BY <2>2, <3>2 DEF AlterLock
      <4> QED
        BY <2>2, <3>2, <4>1 DEF AlterLock
    <3> QED
      BY <3>1, <3>2
  <2>3. CASE AlterComplete(t)
    BY <2>3 DEF AlterComplete, Finish, Unlocked
  <2> QED
    BY <1>4, <2>1, <2>2, <2>3 DEF Alter
<1>5. CASE Read(t)
  BY <1>1, <1>5 DEF Read, DmlCheck, CustomStart, ReadPick, ReadSlot, Finish
<1>6. CASE Cancel(t)
  BY <1>6 DEF Cancel, Finish, Unlocked
<1> QED
  BY <1>2, <1>3, <1>4, <1>5, <1>6 DEF Step

\* What Owns and HeldTableStays say of one thread.
HeldBy(t) ==
    /\ pc[t] \in HoldsPicked => owner[index[t]] = t
    /\ pc[t] \in HoldsLast => owner[next[t]] = t
    /\ pc[t] \in HoldsPicked \ {"alterOpen"} => tables[index[t]] = table[t]
    /\ pc[t] = "alterOpen" => tables[index[t]] # NoTable /\ tables[index[t]].id = table[t].id

LEMMA HeldByAll == Owns /\ HeldTableStays <=> \A t \in Threads : HeldBy(t)
BY DEF HeldTableStays, Owns, HeldBy, Dropping, Altering, At, HoldsPicked, HoldsLast

LEMMA OwnStep ==
    ASSUME TypeOK, HasSlot, NEW t \in Threads, HeldBy(t), Step(t)
    PROVE  HeldBy(t)'
<1> USE DEF TypeOK, HasSlot, HeldBy, store, Free, HoldsPicked, HoldsLast
<1>1. ASSUME pc'[t] \notin HoldsPicked \union HoldsLast PROVE HeldBy(t)'
  BY <1>1
<1>2. ASSUME NEW to \in {"dropLock", "alterLock", "readSlot"}, PickSlot(t, to)
      PROVE  HeldBy(t)'
  BY <1>2 DEF PickSlot
<1>3. CASE Create(t)
  <2>1. CASE CreateCheck(t) \/ ReserveTest(t) \/ CreateSql(t) \/ CreateTestEmpty(t)
    BY <2>1 DEF CreateCheck, ReserveTest, CreateSql, CreateTestEmpty, Goto
  <2>2. CASE Reserve(t) \/ ReserveUndo(t) \/ CreateRead(t)
    BY <2>2 DEF Reserve, ReserveUndo, CreateRead, Goto
  <2>3. CASE CreateLockLast(t) \/ CreateLockBeforeFirst(t)
    BY <2>3 DEF CreateLockLast, CreateLockBeforeFirst
  <2>4. CASE CreateInsert(t)
    BY <2>4 DEF CreateInsert, Finish
  <2> QED
    BY <1>3, <2>1, <2>2, <2>3, <2>4 DEF Create
<1>4. CASE Drop(t)
  <2>1. CASE DropCheck(t) \/ DropSql(t) \/ DropTest(t) \/ DropReadLast(t)
    BY <2>1 DEF DropCheck, DropSql, DropTest, DropReadLast, Goto
  <2>2. CASE DropPick(t)
    BY <1>2, <2>2 DEF DropPick
  <2>3. CASE DropLock(t)
    BY <2>3 DEF DropLock, Finish
  <2>4. CASE DropLockLast(t)
    BY <2>4 DEF DropLockLast
  <2>5. CASE DropRelock(t) \/ DropCount(t)
    BY <2>5 DEF DropRelock, DropCount, Goto
  <2>6. CASE DropVacate(t)
    BY <2>6 DEF DropVacate, Finish
  <2> QED
    BY <1>4, <2>1, <2>2, <2>3, <2>4, <2>5, <2>6 DEF Drop
<1>5. CASE Alter(t)
  <2>1. CASE AlterPick(t)
    BY <1>2, <2>1 DEF AlterPick
  <2>2. CASE AlterLock(t)
    <3>1. CASE tables[index[t]] = NoTable
      BY <2>2, <3>1 DEF AlterLock, Finish
    <3>2. CASE tables[index[t]] # NoTable
      <4>1. PICK d \in Defs :
              table' = [table EXCEPT ![t] = [tables[index[t]] EXCEPT !.def = d]]
        BY <2>2, <3>2 DEF AlterLock
      <4>2. index[t] \in Slots /\ tables[index[t]] \in Table
        BY <2>2, <3>2 DEF AlterLock
      <4>3. [tables[index[t]] EXCEPT !.def = d].id = tables[index[t]].id
        BY <4>2 DEF Table
      <4>4. table'[t].id = tables[index[t]].id
        BY <4>1, <4>3
      <4> QED
        BY <2>2, <3>2, <4>2, <4>4 DEF AlterLock
    <3> QED
      BY <3>1, <3>2
  <2>3. CASE AlterComplete(t)
    BY <2>3 DEF AlterComplete, Finish
  <2> QED
    BY <1>5, <2>1, <2>2, <2>3 DEF Alter
<1>6. CASE Read(t)
  BY <1>2, <1>6 DEF Read, DmlCheck, CustomStart, ReadPick, ReadSlot, Finish
<1>7. CASE Cancel(t)
  BY <1>7 DEF Cancel, Finish
<1> QED
  BY <1>3, <1>4, <1>5, <1>6, <1>7 DEF Step

LEMMA HeldStep == AccountsInv /\ Owns /\ HeldTableStays /\ [Next]_vars
                    => (Owns /\ HeldTableStays)'
<1> SUFFICES ASSUME AccountsInv, Owns, HeldTableStays, [Next]_vars
             PROVE  (Owns /\ HeldTableStays)'
  OBVIOUS
<1>1. TypeOK /\ HasSlot
  BY DEF AccountsInv
<1>2. ASSUME NEW t \in Threads, Step(t) PROVE (Owns /\ HeldTableStays)'
  <2>1. Frame(t)
    BY <1>1, <1>2, StepFrame
  <2>2. HeldBy(t)'
    BY <1>1, <1>2, HeldByAll, OwnStep
  <2>3. ASSUME NEW u \in Threads \ {t} PROVE HeldBy(u)'
    <3>1. HeldBy(u)
      BY HeldByAll
    <3>2. u # NoThread
      BY NullAssumption
    <3> QED
      BY <1>1, <2>1, <3>1, <3>2 DEF Frame, HeldBy, HasSlot, HoldsPicked, HoldsLast
  <2>4. \A u \in Threads : HeldBy(u)'
    BY <2>2, <2>3
  <2> QED
    BY <2>4 DEF HeldTableStays, Owns, HeldBy, Dropping, Altering, At, HoldsPicked, HoldsLast
<1>3. ASSUME UNCHANGED <<store, pc, table, index, next>> PROVE (Owns /\ HeldTableStays)'
  BY <1>3 DEF Owns, HeldTableStays, Dropping, Altering, At, store
<1> QED
  BY <1>2, <1>3 DEF Next, Ended, TimeUp, vars, store

\* From the moment a DROP or an ALTER has locked its table until it writes the
\* slot, the slot holds that table: a concurrent DROP cannot move it, a CREATE
\* cannot write over it, another ALTER cannot replace it.  It holds from empty
\* stores too, where the order of the slots does not.
THEOREM HeldTablesStay == Spec => []HeldTableStays
<1>1. Init => Owns /\ HeldTableStays
  BY DEF Init, Owns, HeldTableStays, Dropping, Altering, At, HoldsPicked, HoldsLast
<1> QED
  BY <1>1, AccountsInit, AccountsStep, HeldStep, PTL DEF Spec

-----------------------------------------------------------------------------
(* No holes, as long as the store does not become empty, and when it cannot *)

\* When the minimum covers every worker that may drop, the DROPs that have passed
\* the unlocked test of DropTable::execute cannot take the last table away.
CanDrop == {t \in Threads : "drop" \in Work[t]}
KeepsTables == InitialTables >= 1 /\ MinTableCount >= Cardinality(CanDrop)

\* DROPs that have passed the test and not yet decremented tableCount.
BeforeCount == {"dropPick", "dropLock", "dropSql", "dropTest", "dropReadLast",
                "dropLockLast", "dropCount"}
Underway == At(BeforeCount)

NonEmpty == tableCount >= 1

\* The store never holds fewer tables than `floor'.
Margin(floor) ==
    /\ tableCount >= floor
    /\ Underway \subseteq CanDrop
    /\ Underway # {} => tableCount >= MinTableCount + 1 - Cardinality(CanDrop)
                                      + Cardinality(Underway)

\* What a thread relies on about the end of the array.
Local(t) ==
    /\ pc[t] \in HoldsPicked => index[t] < tableCount
    /\ pc[t] = "dropCount" => next[t] = tableCount - 1
    /\ pc[t] = "dropVacate" => next[t] >= tableCount
    /\ pc[t] \in {"createTestEmpty", "createLockLast"} => next[t] >= 1
    /\ pc[t] = "createInsert" => /\ next[t] = tableCount
                                 /\ next[t] - 1 \in Slots
                                 /\ owner[next[t] - 1] = t
    /\ pc[t] \in Creators \union {"alterOpen"} => table[t] \in Table

Vacated(i) == \E t \in Threads : pc[t] = "dropVacate" /\ next[t] = i
Dense == \A i \in Slots : tables[i] # NoTable <=> i < tableCount \/ Vacated(i)

DenseInv == (\A t \in Threads : Local(t)) /\ Dense

LEMMA UnderwayFinite == IsFiniteSet(CanDrop) /\ Cardinality(CanDrop) \in Nat
BY FS_Subset, FS_CardinalityType, ThreadsAssumption DEF CanDrop

\* No DROP enters and the store does not shrink.
LEMMA MarginQuiet ==
    ASSUME TypeOK, NEW floor \in Int, Margin(floor), tableCount' \in Int, tableCount' >= tableCount,
           Underway' \subseteq Underway
    PROVE  Margin(floor)'
<1>1. CanDrop' = CanDrop
  BY DEF CanDrop
<1>2. IsFiniteSet(Underway) /\ IsFiniteSet(Underway')
  BY UnderwayFinite, FS_Subset DEF Margin
<1>3. /\ Cardinality(Underway) \in Nat /\ Cardinality(Underway') \in Nat
      /\ Cardinality(Underway') <= Cardinality(Underway)
  BY <1>2, FS_Subset, FS_CardinalityType
<1>4. /\ tableCount \in Int /\ MinTableCount \in Nat /\ Cardinality(CanDrop) \in Nat
  BY UnderwayFinite, ConstantsAssumption DEF TypeOK
<1>5. tableCount' >= floor
  BY <1>4 DEF Margin
<1>6. Underway' # {} => tableCount' >= MinTableCount + 1 - Cardinality(CanDrop)
                                       + Cardinality(Underway')
  BY <1>3, <1>4 DEF Margin
<1> QED
  BY <1>1, <1>5, <1>6 DEF Margin

LEMMA MarginStep ==
    ASSUME TypeOK, NEW floor \in Int, floor <= MinTableCount + 1 - Cardinality(CanDrop),
           Margin(floor), NEW t \in Threads, Step(t)
    PROVE  Margin(floor)'
<1> USE DEF TypeOK
<1>1. CanDrop' = CanDrop /\ IsFiniteSet(CanDrop) /\ Cardinality(CanDrop) \in Nat
  BY UnderwayFinite DEF CanDrop
<1>2. CASE DropCheck(t)
  <2>1. /\ tableCount > MinTableCount /\ tableCount' = tableCount
        /\ "drop" \in Work[t] /\ pc' = [pc EXCEPT ![t] = "dropPick"]
    BY <1>2 DEF DropCheck, Starts, store
  <2>2. Underway' \subseteq CanDrop
    BY <2>1 DEF Margin, Underway, At, CanDrop
  <2>3. Cardinality(Underway') \in Nat /\ Cardinality(Underway') <= Cardinality(CanDrop)
    BY <1>1, <2>2, FS_Subset, FS_CardinalityType
  <2> QED
    BY <1>1, <2>1, <2>2, <2>3, ConstantsAssumption DEF Margin
<1>3. CASE DropCount(t)
  <2>1. /\ pc[t] = "dropCount" /\ tableCount' = tableCount - 1
        /\ pc' = [pc EXCEPT ![t] = "dropVacate"]
    BY <1>3 DEF DropCount, Goto
  <2>2. t \in Underway /\ Underway' = Underway \ {t}
    BY <2>1 DEF Underway, At, BeforeCount
  <2>3. IsFiniteSet(Underway) /\ Cardinality(Underway) \in Nat
    BY <1>1, FS_Subset, FS_CardinalityType DEF Margin
  <2>4. /\ Cardinality(Underway') = Cardinality(Underway) - 1
        /\ Cardinality(Underway') \in Nat
    BY <2>2, <2>3, FS_RemoveElement, FS_CardinalityType
  <2>5. tableCount >= MinTableCount + 1 - Cardinality(CanDrop) + Cardinality(Underway)
    BY <2>2 DEF Margin
  <2>6. MinTableCount \in Nat
    BY ConstantsAssumption
  <2> QED
    BY <1>1, <2>1, <2>2, <2>3, <2>4, <2>5, <2>6 DEF Margin
<1>4. ASSUME tableCount' \in Int, tableCount' >= tableCount,
             \A u \in Threads : pc'[u] \in BeforeCount => pc[u] \in BeforeCount
      PROVE  Margin(floor)'
  <2>1. Underway' \subseteq Underway
    BY <1>4 DEF Underway, At
  <2> QED
    BY <1>4, <2>1, MarginQuiet
<1> USE DEF store, BeforeCount
<1>5. ASSUME NEW to, PickSlot(t, to), to \in {"dropLock", "alterLock", "readSlot"},
             to = "dropLock" => pc[t] = "dropPick"
      PROVE  Margin(floor)'
  BY <1>4, <1>5 DEF PickSlot
<1>6. CASE Create(t)
  <2>1. CASE CreateCheck(t) \/ ReserveTest(t) \/ CreateSql(t) \/ CreateTestEmpty(t)
    BY <1>4, <2>1 DEF CreateCheck, ReserveTest, CreateSql, CreateTestEmpty, Goto
  <2>2. CASE Reserve(t) \/ ReserveUndo(t) \/ CreateRead(t)
    BY <1>4, <2>2 DEF Reserve, ReserveUndo, CreateRead, Goto
  <2>3. CASE CreateLockLast(t) \/ CreateLockBeforeFirst(t)
    BY <1>4, <2>3 DEF CreateLockLast, CreateLockBeforeFirst
  <2>4. CASE CreateInsert(t)
    BY <1>4, <2>4 DEF CreateInsert, Finish
  <2> QED
    BY <1>6, <2>1, <2>2, <2>3, <2>4 DEF Create
<1>7. CASE Drop(t) /\ ~DropCheck(t) /\ ~DropCount(t)
  <2>1. CASE DropSql(t) \/ DropTest(t) \/ DropReadLast(t)
    BY <1>4, <2>1 DEF DropSql, DropTest, DropReadLast, Goto
  <2>2. CASE DropPick(t)
    BY <1>5, <2>2 DEF DropPick
  <2>3. CASE DropLock(t) \/ DropVacate(t)
    BY <1>4, <2>3 DEF DropLock, DropVacate, Finish
  <2>4. CASE DropLockLast(t) \/ DropRelock(t)
    BY <1>4, <2>4 DEF DropLockLast, DropRelock
  <2> QED
    BY <1>7, <2>1, <2>2, <2>3, <2>4 DEF Drop
<1>8. CASE Alter(t)
  BY <1>4, <1>5, <1>8 DEF Alter, AlterPick, AlterLock, AlterComplete, Finish
<1>9. CASE Read(t)
  BY <1>4, <1>5, <1>9 DEF Read, DmlCheck, CustomStart, ReadPick, ReadSlot, Finish
<1>10. CASE Cancel(t)
  BY <1>4, <1>10 DEF Cancel, Finish
<1> QED
  BY <1>2, <1>3, <1>6, <1>7, <1>8, <1>9, <1>10 DEF Step

\* A table in a slot that nobody has locked is below the end.
LEMMA FreeBelow ==
    ASSUME Owns, Dense, NEW i \in Slots, Free(i)
    PROVE  ~Vacated(i) /\ (tables[i] # NoTable <=> i < tableCount)
BY NullAssumption DEF Owns, Dense, Vacated, Free, HoldsLast

LEMMA LocalSelf ==
    ASSUME TypeOK, HasSlot, Owns, NonEmpty, Dense, NEW t \in Threads, Local(t), Step(t)
    PROVE  Local(t)'
<1> USE DEF TypeOK, HasSlot, Local, store, HoldsPicked, Creators, NonEmpty
<1>1. ASSUME pc'[t] \notin HoldsPicked \union HoldsLast \union Creators
      PROVE  Local(t)'
  BY <1>1 DEF HoldsLast
<1>2. ASSUME NEW to \in {"dropLock", "alterLock", "readSlot"}, PickSlot(t, to)
      PROVE  Local(t)'
  BY <1>2 DEF PickSlot
<1>3. CASE Create(t)
  <2>1. CASE CreateCheck(t) \/ ReserveTest(t) \/ CreateSql(t) \/ CreateTestEmpty(t)
    BY <2>1 DEF CreateCheck, ReserveTest, CreateSql, CreateTestEmpty, Goto
  <2>2. CASE Reserve(t)
    <3>1. CASE reservedSize' > MaxTables
      BY <1>1, <2>2, <3>1 DEF Reserve, HoldsLast
    <3>2. CASE ~(reservedSize' > MaxTables)
      <4>1. PICK id \in FreshIds, d \in Defs :
              table' = [table EXCEPT ![t] = [id |-> id, def |-> d]]
        BY <2>2, <3>2 DEF Reserve
      <4>2. [id |-> id, def |-> d] \in Table
        BY <4>1 DEF Table, FreshIds
      <4> QED
        BY <2>2, <3>2, <4>1, <4>2 DEF Reserve
    <3> QED
      BY <3>1, <3>2
  <2>3. CASE ReserveUndo(t) \/ CreateRead(t)
    BY <2>3 DEF ReserveUndo, CreateRead, Goto
  <2>4. CASE CreateLockLast(t)
    <3>1. CASE StillLast(next[t] - 1)
      <4>1. /\ next[t] = tableCount /\ next[t] - 1 \in Slots
            /\ owner'[next[t] - 1] = t
            /\ pc' = [pc EXCEPT ![t] = "createInsert"]
            /\ UNCHANGED <<tableCount, table, index, next>>
        BY <2>4, <3>1 DEF CreateLockLast, StillLast
      <4> QED
        BY <4>1, <2>4 DEF CreateLockLast
    <3>2. CASE ~StillLast(next[t] - 1)
      BY <2>4, <3>2 DEF CreateLockLast
    <3> QED
      BY <3>1, <3>2
  <2>5. CASE CreateLockBeforeFirst(t)
    BY <2>5 DEF CreateLockBeforeFirst
  <2>6. CASE CreateInsert(t)
    BY <1>1, <2>6 DEF CreateInsert, Finish, HoldsLast
  <2> QED
    BY <1>3, <2>1, <2>2, <2>3, <2>4, <2>5, <2>6 DEF Create
<1>4. CASE Drop(t)
  <2>1. CASE DropCheck(t) \/ DropSql(t) \/ DropTest(t) \/ DropReadLast(t)
    BY <2>1 DEF DropCheck, DropSql, DropTest, DropReadLast, Goto
  <2>2. CASE DropPick(t)
    BY <1>2, <2>2 DEF DropPick
  <2>3. CASE DropLock(t)
    <3>1. CASE tables[index[t]] = NoTable
      BY <1>1, <2>3, <3>1 DEF DropLock, Finish, HoldsLast
    <3>2. CASE tables[index[t]] # NoTable
      <4>1. index[t] < tableCount
        BY <2>3, <3>2, FreeBelow DEF DropLock
      <4> QED
        BY <2>3, <3>2, <4>1 DEF DropLock
    <3> QED
      BY <3>1, <3>2
  <2>4. CASE DropLockLast(t)
    BY <2>4 DEF DropLockLast, StillLast
  <2>5. CASE DropRelock(t)
    BY <2>5 DEF DropRelock
  <2>6. CASE DropCount(t)
    BY <2>6 DEF DropCount, Goto
  <2>7. CASE DropVacate(t)
    BY <1>1, <2>7 DEF DropVacate, Finish, HoldsLast
  <2> QED
    BY <1>4, <2>1, <2>2, <2>3, <2>4, <2>5, <2>6, <2>7 DEF Drop
<1>5. CASE Alter(t)
  <2>1. CASE AlterPick(t)
    BY <1>2, <2>1 DEF AlterPick
  <2>2. CASE AlterLock(t)
    <3>1. CASE tables[index[t]] = NoTable
      BY <1>1, <2>2, <3>1 DEF AlterLock, Finish, HoldsLast
    <3>2. CASE tables[index[t]] # NoTable
      <4>1. PICK d \in Defs :
              table' = [table EXCEPT ![t] = [tables[index[t]] EXCEPT !.def = d]]
        BY <2>2, <3>2 DEF AlterLock
      <4>2. index[t] \in Slots /\ tables[index[t]] \in Table
        BY <2>2, <3>2 DEF AlterLock
      <4>3. [tables[index[t]] EXCEPT !.def = d] \in Table
        BY <4>2 DEF Table
      <4>4. index[t] < tableCount
        BY <2>2, <3>2, <4>2, FreeBelow DEF AlterLock
      <4> QED
        BY <2>2, <3>2, <4>1, <4>3, <4>4 DEF AlterLock
    <3> QED
      BY <3>1, <3>2
  <2>3. CASE AlterComplete(t)
    BY <1>1, <2>3 DEF AlterComplete, Finish, HoldsLast
  <2> QED
    BY <1>5, <2>1, <2>2, <2>3 DEF Alter
<1>6. CASE Read(t)
  BY <1>2, <1>6 DEF Read, DmlCheck, CustomStart, ReadPick, ReadSlot, Finish
<1>7. CASE Cancel(t)
  BY <1>1, <1>7 DEF Cancel, Finish, HoldsLast
<1> QED
  BY <1>3, <1>4, <1>5, <1>6, <1>7 DEF Step

\* Only the insertion by a CREATE and the decrement by a DROP change tableCount.
LEMMA CountSteps ==
    ASSUME NEW t \in Threads, Step(t)
    PROVE  tableCount' = tableCount \/ CreateInsert(t) \/ DropCount(t)
<1> USE DEF store
<1>1. CASE Create(t)
  BY <1>1 DEF Create, CreateCheck, ReserveTest, Reserve, ReserveUndo, CreateSql, CreateRead,
              CreateTestEmpty, CreateLockLast, CreateLockBeforeFirst
<1>2. CASE Drop(t)
  BY <1>2 DEF Drop, DropCheck, DropPick, PickSlot, DropLock, DropSql, DropTest, DropReadLast,
              DropLockLast, DropRelock, DropVacate
<1>3. CASE Alter(t) \/ Read(t) \/ Cancel(t)
  BY <1>3 DEF Alter, AlterPick, AlterLock, AlterComplete, Read, DmlCheck, CustomStart,
              ReadPick, ReadSlot, PickSlot, Cancel
<1> QED
  BY <1>1, <1>2, <1>3 DEF Step

\* What the others rely on survives: whoever counts a table in or out owns the
\* last slot, so nobody else is about to.
LEMMA LocalOther ==
    ASSUME TypeOK, HasSlot, Owns, NEW t \in Threads, Local(t), Step(t), Frame(t),
           NEW u \in Threads \ {t}, Local(u)
    PROVE  Local(u)'
<1>1. /\ pc'[u] = pc[u] /\ table'[u] = table[u] /\ index'[u] = index[u] /\ next'[u] = next[u]
      /\ \A i \in Slots : owner[i] = u => owner'[i] = u
  BY NullAssumption DEF Frame
<1>2. CASE tableCount' = tableCount
  BY <1>1, <1>2 DEF Local
<1>3. CASE CreateInsert(t)
  <2>1. /\ tableCount' = tableCount + 1 /\ next[t] = tableCount
        /\ Free(next[t]) /\ owner[tableCount - 1] = t
    BY <1>3 DEF CreateInsert, Local
  <2>2. pc[u] # "createInsert" /\ pc[u] # "dropCount"
    BY <2>1 DEF Local, Owns, HoldsLast
  <2>3. pc[u] = "dropVacate" => next[u] # tableCount
    BY <2>1, NullAssumption DEF Owns, Free, HoldsLast
  <2>4. pc[u] = "dropVacate" => next[u] \in Int /\ next[u] >= tableCount + 1
    BY <2>3 DEF Local, TypeOK
  <2>5. pc[u] \in HoldsPicked => index[u] < tableCount + 1
    BY ConstantsAssumption DEF Local, TypeOK, HasSlot, Slots, HoldsPicked
  <2> QED
    BY <1>1, <2>1, <2>2, <2>4, <2>5 DEF Local
<1>4. CASE DropCount(t)
  <2>1. /\ pc[t] = "dropCount" /\ tableCount' = tableCount - 1
        /\ next[t] = tableCount - 1 /\ owner[tableCount - 1] = t
    BY <1>4 DEF DropCount, Goto, Local, Owns, HoldsLast
  <2>2. pc[u] # "createInsert" /\ pc[u] # "dropCount"
    BY <2>1 DEF Local, Owns, HoldsLast
  <2>3. pc[u] \in HoldsPicked => index[u] # tableCount - 1
    BY <2>1 DEF Owns
  <2>4. pc[u] \in HoldsPicked => index[u] < tableCount - 1
    BY <2>3, ConstantsAssumption DEF Local, TypeOK, HasSlot, Slots, HoldsPicked
  <2>5. pc[u] = "dropVacate" => next[u] >= tableCount - 1
    BY DEF Local, TypeOK
  <2> QED
    BY <1>1, <2>1, <2>2, <2>4, <2>5 DEF Local
<1> QED
  BY <1>2, <1>3, <1>4, CountSteps

\* Steps that write no slot, count nothing and neither start nor end the emptying
\* of one.
LEMMA DenseQuiet ==
    ASSUME TypeOK, Dense, NEW t \in Threads, Frame(t),
           UNCHANGED <<tables, tableCount>>,
           pc[t] # "dropVacate", pc'[t] # "dropVacate"
    PROVE  Dense'
<1>1. ASSUME NEW i \in Slots PROVE Vacated(i)' <=> Vacated(i)
  BY DEF Vacated, Frame
<1> QED
  BY <1>1 DEF Dense

LEMMA DenseStep ==
    ASSUME TypeOK, HasSlot, Owns, Dense, NEW t \in Threads, Local(t), Step(t), Frame(t)
    PROVE  Dense'
<1> USE DEF TypeOK, store
<1>1. ASSUME NEW to, to # "dropVacate", pc[t] # "dropVacate", PickSlot(t, to)
      PROVE  Dense'
  BY <1>1, DenseQuiet DEF PickSlot
<1>2. CASE CreateInsert(t)
  <2>1. /\ pc[t] = "createInsert" /\ pc'[t] = "idle"
        /\ next[t] = tableCount /\ tableCount' = tableCount + 1
        /\ tables' = [tables EXCEPT ![next[t]] = table[t]]
        /\ table[t] \in Table /\ next[t] \in Slots
    BY <1>2 DEF CreateInsert, Finish, Local, Creators
  <2>2. table[t] # NoTable
    BY <2>1, NullAssumption
  <2>3. ASSUME NEW i \in Slots PROVE Vacated(i)' <=> Vacated(i)
    BY <2>1 DEF Vacated, Frame
  <2>4. ASSUME NEW i \in Slots
        PROVE  tables'[i] # NoTable <=> i < tableCount + 1 \/ Vacated(i)
    <3>1. i \in Int
      BY ConstantsAssumption DEF Slots
    <3>2. CASE i = next[t]
      BY <2>1, <2>2, <3>2
    <3>3. CASE i # next[t]
      <4>1. tables'[i] = tables[i] /\ (i < tableCount + 1 <=> i < tableCount)
        BY <2>1, <3>1, <3>3
      <4> QED
        BY <4>1 DEF Dense
    <3> QED
      BY <3>2, <3>3
  <2> QED
    BY <2>1, <2>3, <2>4 DEF Dense
<1>3. CASE DropLockLast(t)
  <2>1. /\ pc[t] = "dropLockLast" /\ pc'[t] # "dropVacate" /\ tableCount' = tableCount
    BY <1>3 DEF DropLockLast
  <2>2. CASE StillLast(next[t])
    <3>1. /\ tables' = [tables EXCEPT ![index[t]] = tables[next[t]]]
          /\ tables[next[t]] # NoTable
      BY <1>3, <2>2 DEF DropLockLast, StillLast
    <3>2. index[t] \in Slots /\ index[t] < tableCount
      BY <2>1 DEF HasSlot, Local, HoldsPicked
    <3>3. ASSUME NEW i \in Slots PROVE Vacated(i)' <=> Vacated(i)
      BY <2>1 DEF Vacated, Frame
    <3>4. \A i \in Slots : tables'[i] # NoTable <=> tables[i] # NoTable
      BY <3>1, <3>2 DEF Dense
    <3> QED
      BY <2>1, <3>3, <3>4 DEF Dense
  <2>3. CASE ~StillLast(next[t])
    BY <1>3, <2>1, <2>3, DenseQuiet DEF DropLockLast
  <2> QED
    BY <2>2, <2>3
<1>4. CASE DropCount(t)
  <2>1. /\ pc[t] = "dropCount" /\ pc'[t] = "dropVacate" /\ tables' = tables
        /\ next[t] = tableCount - 1 /\ next'[t] = next[t] /\ tableCount' = tableCount - 1
    BY <1>4 DEF DropCount, Goto, Local
  <2>2. ASSUME NEW i \in Slots PROVE Vacated(i)' <=> Vacated(i) \/ i = tableCount - 1
    BY <2>1 DEF Vacated, Frame
  <2>3. ASSUME NEW i \in Slots
        PROVE  i < tableCount <=> i < tableCount - 1 \/ i = tableCount - 1
    BY ConstantsAssumption DEF Slots
  <2> QED
    BY <2>1, <2>2, <2>3 DEF Dense
<1>5. CASE DropVacate(t)
  <2>1. /\ pc[t] = "dropVacate" /\ pc'[t] = "idle" /\ tableCount' = tableCount
        /\ tables' = [tables EXCEPT ![next[t]] = NoTable]
        /\ next[t] \in Slots /\ owner[next[t]] = t /\ next[t] >= tableCount
    BY <1>5 DEF DropVacate, Finish, HasSlot, Owns, HoldsLast, Local
  <2>2. ASSUME NEW i \in Slots PROVE Vacated(i)' <=> Vacated(i) /\ i # next[t]
    BY <2>1 DEF Vacated, Frame, Owns, HoldsLast
  <2>3. ~(next[t] < tableCount)
    BY <2>1
  <2> QED
    BY <2>1, <2>2, <2>3 DEF Dense
<1>6. CASE AlterComplete(t)
  <2>1. /\ pc[t] = "alterOpen" /\ pc'[t] = "idle" /\ tableCount' = tableCount
        /\ tables' = [tables EXCEPT ![index[t]] = table[t]]
        /\ index[t] \in Slots /\ index[t] < tableCount /\ table[t] \in Table
    BY <1>6 DEF AlterComplete, Finish, HasSlot, Local, HoldsPicked
  <2>2. table[t] # NoTable
    BY <2>1, NullAssumption
  <2>3. ASSUME NEW i \in Slots PROVE Vacated(i)' <=> Vacated(i)
    BY <2>1 DEF Vacated, Frame
  <2> QED
    BY <2>1, <2>2, <2>3 DEF Dense
<1>7. CASE Create(t) /\ ~CreateInsert(t)
  <2>1. CASE CreateCheck(t) \/ ReserveTest(t) \/ CreateSql(t) \/ CreateTestEmpty(t)
    BY <2>1, DenseQuiet DEF CreateCheck, Starts, ReserveTest, CreateSql, CreateTestEmpty, Goto
  <2>2. CASE Reserve(t) \/ ReserveUndo(t) \/ CreateRead(t)
    BY <2>2, DenseQuiet DEF Reserve, ReserveUndo, CreateRead, Goto
  <2>3. CASE CreateLockLast(t) \/ CreateLockBeforeFirst(t)
    BY <2>3, DenseQuiet DEF CreateLockLast, CreateLockBeforeFirst
  <2> QED
    BY <1>7, <2>1, <2>2, <2>3 DEF Create
<1>8. CASE Drop(t) /\ ~DropLockLast(t) /\ ~DropCount(t) /\ ~DropVacate(t)
  <2>1. CASE DropCheck(t) \/ DropSql(t) \/ DropTest(t) \/ DropReadLast(t)
    BY <2>1, DenseQuiet DEF DropCheck, Starts, DropSql, DropTest, DropReadLast, Goto
  <2>2. CASE DropPick(t)
    BY <1>1, <2>2 DEF DropPick
  <2>3. CASE DropLock(t) \/ DropRelock(t)
    BY <2>3, DenseQuiet DEF DropLock, Finish, DropRelock
  <2> QED
    BY <1>8, <2>1, <2>2, <2>3 DEF Drop
<1>9. CASE Alter(t) /\ ~AlterComplete(t)
  BY <1>1, <1>9, DenseQuiet DEF Alter, AlterPick, Starts, AlterLock, Finish
<1>10. CASE Read(t)
  BY <1>1, <1>10, DenseQuiet DEF Read, DmlCheck, CustomStart, Starts, ReadPick, ReadSlot, Finish
<1>11. CASE Cancel(t)
  BY <1>11, DenseQuiet DEF Cancel, Finish
<1> QED
  BY <1>2, <1>3, <1>4, <1>5, <1>6, <1>7, <1>8, <1>9, <1>10, <1>11 DEF Step

HeldInv == AccountsInv /\ Owns /\ HeldTableStays

LEMMA DenseInit == Init => DenseInv
<1> SUFFICES ASSUME Init PROVE DenseInv
  OBVIOUS
<1>1. \A t \in Threads : pc[t] = "idle"
  BY DEF Init
<1>2. \A t \in Threads : Local(t)
  BY <1>1 DEF Local, HoldsPicked, Creators
<1>3. Dense
  BY <1>1 DEF Dense, Vacated, Init
<1> QED
  BY <1>2, <1>3 DEF DenseInv

LEMMA DenseInvStep == HeldInv /\ NonEmpty /\ DenseInv /\ [Next]_vars => DenseInv'
<1> SUFFICES ASSUME HeldInv, NonEmpty, DenseInv, [Next]_vars PROVE DenseInv'
  OBVIOUS
<1>1. TypeOK /\ HasSlot /\ Owns /\ Dense /\ \A u \in Threads : Local(u)
  BY DEF HeldInv, AccountsInv, DenseInv
<1>2. ASSUME NEW t \in Threads, Step(t) PROVE DenseInv'
  <2>1. Frame(t)
    BY <1>1, <1>2, StepFrame
  <2>2. Dense'
    BY <1>1, <1>2, <2>1, DenseStep
  <2>3. Local(t)'
    BY <1>1, <1>2, LocalSelf
  <2>4. ASSUME NEW u \in Threads \ {t} PROVE Local(u)'
    BY <1>1, <1>2, <2>1, LocalOther
  <2> QED
    BY <2>2, <2>3, <2>4 DEF DenseInv
<1>3. ASSUME UNCHANGED <<store, pc, table, index, next>> PROVE DenseInv'
  BY <1>1, <1>3 DEF DenseInv, Local, Dense, Vacated, store
<1> QED
  BY <1>2, <1>3 DEF Next, Ended, TimeUp, vars, store

LEMMA HeldInvariant == Spec => []HeldInv
<1>1. Init => HeldInv
  BY AccountsInit
     DEF Init, HeldInv, Owns, HeldTableStays, Dropping, Altering, At, HoldsPicked, HoldsLast
<1>2. HeldInv /\ [Next]_vars => HeldInv'
  BY AccountsStep, HeldStep DEF HeldInv
<1> QED
  BY <1>1, <1>2, PTL DEF Spec

\* In every run in which the store does not become empty, CREATE and DROP leave no
\* hole and no table past the end, for any number of workers and any order of
\* their completions: each one locks the last slot, checks that it still is the
\* last, and thereby keeps everybody else from moving the end of the array.
THEOREM DenseWhileNonEmpty == Spec /\ []NonEmpty => []NoHoles
<1>1. HeldInv /\ NonEmpty /\ DenseInv /\ [Next]_vars => DenseInv'
  BY DenseInvStep
<1>2. HeldInv /\ DenseInv => NoHoles
  BY FreeBelow DEF HeldInv, DenseInv, NoHoles
<1> QED
  BY <1>1, <1>2, DenseInit, HeldInvariant, PTL DEF Spec

LEMMA MarginInvStep ==
    ASSUME NEW floor \in Int, floor <= MinTableCount + 1 - Cardinality(CanDrop)
    PROVE  HeldInv /\ Margin(floor) /\ [Next]_vars => Margin(floor)'
<1> SUFFICES ASSUME HeldInv, Margin(floor), [Next]_vars PROVE Margin(floor)'
  OBVIOUS
<1>1. ASSUME NEW t \in Threads, Step(t) PROVE Margin(floor)'
  BY <1>1, MarginStep DEF HeldInv, AccountsInv
<1>2. ASSUME UNCHANGED <<store, pc>> PROVE Margin(floor)'
  BY <1>2 DEF Margin, Underway, At, CanDrop, store
<1> QED
  BY <1>1, <1>2 DEF Next, Ended, TimeUp, vars, store

\* The minimum that DropTable::execute tests without a lock keeps the store from
\* becoming empty when it is at least the number of workers that may drop.
THEOREM MinimumKept == ASSUME KeepsTables PROVE Spec => []NonEmpty
<1>1. Init => Margin(1)
  <2> SUFFICES ASSUME Init PROVE Margin(1)
    OBVIOUS
  <2>1. Underway = {} /\ tableCount = InitialTables
    BY DEF Init, Underway, At, BeforeCount
  <2> QED
    BY <2>1 DEF Margin, KeepsTables
<1>2. 1 <= MinTableCount + 1 - Cardinality(CanDrop)
  BY UnderwayFinite, ConstantsAssumption DEF KeepsTables
<1>3. HeldInv /\ Margin(1) /\ [Next]_vars => Margin(1)'
  BY <1>2, MarginInvStep
<1>4. Margin(1) => NonEmpty
  BY DEF Margin, NonEmpty
<1> QED
  BY <1>1, <1>3, <1>4, HeldInvariant, PTL DEF Spec

\* Such a configuration never has a hole.
THEOREM StaysDense == ASSUME KeepsTables PROVE Spec => []NoHoles
BY MinimumKept, DenseWhileNonEmpty, PTL

-----------------------------------------------------------------------------
(* Which slots a thread has locked *)

\* The slots each place in the code leaves locked.
Held(t, i) ==
    \/ pc[t] \in HoldsPicked \union {"terminated"} /\ i = index[t]
    \/ pc[t] \in HoldsLast /\ i = next[t]
    \/ pc[t] = "createInsert" /\ i = next[t] - 1
OwnsOnly(t) == \A i \in Slots : owner[i] = t => Held(t, i)

\* Beyond Frame: no step hands a lock to another thread or changes why another
\* one is unwinding.
LEMMA StepOthers ==
    ASSUME TypeOK, NEW t \in Threads, Step(t)
    PROVE  /\ \A i \in Slots : owner'[i] \in {owner[i], t, NoThread}
           /\ \A u \in Threads \ {t} : unwind'[u] = unwind[u]
<1> USE DEF TypeOK, store
<1>1. ASSUME NEW to, PickSlot(t, to)
      PROVE  /\ \A i \in Slots : owner'[i] \in {owner[i], t, NoThread}
             /\ \A u \in Threads \ {t} : unwind'[u] = unwind[u]
  BY <1>1 DEF PickSlot
<1>2. CASE Create(t)
  BY <1>2 DEF Create, CreateCheck, ReserveTest, Reserve, ReserveUndo, CreateSql, CreateRead,
              CreateTestEmpty, CreateLockLast, CreateLockBeforeFirst, CreateInsert, Finish,
              Unlocked
<1>3. CASE Drop(t)
  <2>1. CASE DropLock(t) \/ DropVacate(t)
    BY <2>1 DEF DropLock, DropVacate, Finish, Unlocked
  <2>2. CASE DropLockLast(t)
    BY <2>2 DEF DropLockLast
  <2> QED
    BY <1>1, <1>3, <2>1, <2>2
       DEF Drop, DropCheck, DropPick, DropSql, DropTest, DropReadLast, DropRelock, DropCount
<1>4. CASE Alter(t)
  BY <1>1, <1>4 DEF Alter, AlterPick, AlterLock, AlterComplete, Finish, Unlocked
<1>5. CASE Read(t)
  BY <1>1, <1>5 DEF Read, DmlCheck, CustomStart, ReadPick, ReadSlot, Finish
<1>6. CASE Cancel(t)
  BY <1>6 DEF Cancel, Finish, Unlocked
<1> QED
  BY <1>2, <1>3, <1>4, <1>5, <1>6 DEF Step

LEMMA OwnsOnlySelf ==
    ASSUME TypeOK, HasSlot, NEW t \in Threads, OwnsOnly(t), Step(t)
    PROVE  OwnsOnly(t)'
<1> USE NullAssumption DEF TypeOK, HasSlot, OwnsOnly, Held, HoldsPicked, HoldsLast, store
<1>1. ASSUME NEW to \in {"dropLock", "alterLock", "readSlot"}, PickSlot(t, to),
             \A i \in Slots : owner[i] # t
      PROVE  OwnsOnly(t)'
  BY <1>1 DEF PickSlot
<1>2. CASE Create(t)
  <2>1. CASE CreateCheck(t) \/ ReserveTest(t) \/ Reserve(t) \/ ReserveUndo(t) \/ CreateSql(t)
             \/ CreateRead(t)
    BY <2>1 DEF CreateCheck, Starts, ReserveTest, Reserve, ReserveUndo, CreateSql, CreateRead,
                Goto
  <2>2. CASE CreateTestEmpty(t) \/ CreateLockBeforeFirst(t)
    BY <2>2 DEF CreateTestEmpty, CreateLockBeforeFirst
  <2>3. CASE CreateLockLast(t)
    BY <2>3 DEF CreateLockLast
  <2>4. CASE CreateInsert(t)
    BY <2>4 DEF CreateInsert, Finish, Unlocked
  <2> QED
    BY <1>2, <2>1, <2>2, <2>3, <2>4 DEF Create
<1>3. CASE Drop(t)
  <2>1. CASE DropCheck(t) \/ DropSql(t) \/ DropTest(t) \/ DropReadLast(t)
    BY <2>1 DEF DropCheck, Starts, DropSql, DropTest, DropReadLast, Goto
  <2>2. CASE DropPick(t)
    BY <1>1, <2>2 DEF DropPick
  <2>3. CASE DropLock(t)
    BY <2>3 DEF DropLock, Finish
  <2>4. CASE DropLockLast(t)
    BY <2>4 DEF DropLockLast
  <2>5. CASE DropRelock(t) \/ DropCount(t)
    BY <2>5 DEF DropRelock, DropCount, Goto
  <2>6. CASE DropVacate(t)
    BY <2>6 DEF DropVacate, Finish, Unlocked
  <2> QED
    BY <1>3, <2>1, <2>2, <2>3, <2>4, <2>5, <2>6 DEF Drop
<1>4. CASE Alter(t)
  <2>1. CASE AlterPick(t)
    BY <1>1, <2>1 DEF AlterPick, Starts
  <2>2. CASE AlterLock(t)
    BY <2>2 DEF AlterLock, Finish
  <2>3. CASE AlterComplete(t)
    BY <2>3 DEF AlterComplete, Finish, Unlocked
  <2> QED
    BY <1>4, <2>1, <2>2, <2>3 DEF Alter
<1>5. CASE Read(t)
  BY <1>1, <1>5 DEF Read, DmlCheck, CustomStart, Starts, ReadPick, ReadSlot, Finish
<1>6. CASE Cancel(t)
  BY <1>6 DEF Cancel, Finish, Unlocked
<1> QED
  BY <1>2, <1>3, <1>4, <1>5, <1>6 DEF Step

LocksInv == HeldInv /\ \A t \in Threads : OwnsOnly(t)

\* Every place in the code holds the locks it took and no others: none is lost on
\* the way out of an operation, however it ends.
LEMMA LocksInvariant == Spec => []LocksInv
<1>1. Init => \A t \in Threads : OwnsOnly(t)
  BY NullAssumption DEF Init, OwnsOnly
<1>2. LocksInv /\ HeldInv' /\ [Next]_vars => LocksInv'
  <2> SUFFICES ASSUME LocksInv, [Next]_vars PROVE \A u \in Threads : OwnsOnly(u)'
    BY DEF LocksInv
  <2>1. TypeOK /\ HasSlot /\ Owns
    BY DEF LocksInv, HeldInv, AccountsInv
  <2>2. ASSUME NEW t \in Threads, Step(t) PROVE \A u \in Threads : OwnsOnly(u)'
    <3>1. Frame(t)
      BY <2>1, <2>2, StepFrame
    <3>2. OwnsOnly(t)'
      BY <2>1, <2>2, OwnsOnlySelf DEF LocksInv
    <3>3. ASSUME NEW u \in Threads \ {t} PROVE OwnsOnly(u)'
      <4>1. \A i \in Slots : owner'[i] = u => owner[i] = u
        BY <2>1, <2>2, StepOthers, NullAssumption
      <4>2. \A i \in Slots : Held(u, i)' <=> Held(u, i)
        BY <3>1 DEF Frame, Held
      <4> QED
        BY <4>1, <4>2 DEF LocksInv, OwnsOnly
    <3> QED
      BY <3>2, <3>3
  <2>3. ASSUME UNCHANGED <<store, pc, index, next>> PROVE \A u \in Threads : OwnsOnly(u)'
    BY <2>3 DEF LocksInv, OwnsOnly, Held, store
  <2> QED
    BY <2>2, <2>3 DEF Next, Ended, TimeUp, vars, store
<1> QED
  BY <1>1, <1>2, HeldInvariant, PTL DEF Spec, LocksInv

-----------------------------------------------------------------------------
(* The order of the locks *)

\* What a DROP has read of the end of the array is never below its own slot; and
\* while it owns the last slot, that slot stays the last.
Ordered(t) ==
    /\ pc[t] = "dropLockLast" => index[t] <= next[t]
    /\ pc[t] = "dropLockLast" /\ next[t] = index[t] => tableCount = index[t] + 1
    /\ unwind[t] = "relock" => /\ pc[t] \in {"dropTest", "dropCount", "dropVacate"}
                               /\ pc[t] = "dropTest" => tableCount = index[t] + 1
    /\ pc[t] = "terminated" => unwind[t] = "sql"

OrderInv == DenseInv /\ \A t \in Threads : Ordered(t)

LEMMA OrderedSelf ==
    ASSUME TypeOK, HasSlot, NEW t \in Threads, Local(t), Ordered(t), Step(t)
    PROVE  Ordered(t)'
<1> USE DEF TypeOK, HasSlot, Ordered, store
<1>1. ASSUME NEW to \in {"dropLock", "alterLock", "readSlot"}, PickSlot(t, to),
             pc[t] \in {"idle", "dropPick", "readPick"}
      PROVE  Ordered(t)'
  BY <1>1 DEF PickSlot
<1>2. CASE Create(t)
  <2>1. CASE CreateCheck(t) \/ ReserveTest(t) \/ Reserve(t) \/ ReserveUndo(t) \/ CreateSql(t)
             \/ CreateRead(t)
    BY <2>1 DEF CreateCheck, Starts, ReserveTest, Reserve, ReserveUndo, CreateSql, CreateRead,
                Goto
  <2>2. CASE CreateTestEmpty(t) \/ CreateLockBeforeFirst(t) \/ CreateLockLast(t)
    BY <2>2 DEF CreateTestEmpty, CreateLockBeforeFirst, CreateLockLast
  <2>3. CASE CreateInsert(t)
    BY <2>3 DEF CreateInsert, Finish
  <2> QED
    BY <1>2, <2>1, <2>2, <2>3 DEF Create
<1>3. CASE Drop(t)
  <2>1. CASE DropCheck(t) \/ DropSql(t) \/ DropCount(t)
    BY <2>1 DEF DropCheck, Starts, DropSql, DropCount, Goto
  <2>2. CASE DropPick(t)
    BY <1>1, <2>2 DEF DropPick
  <2>3. CASE DropLock(t) \/ DropVacate(t)
    BY <2>3 DEF DropLock, DropVacate, Finish
  <2>4. CASE DropTest(t)
    <3>1. index[t] \in Int
      BY <2>4, ConstantsAssumption DEF DropTest, Slots
    <3> QED
      BY <2>4, <3>1 DEF DropTest
  <2>5. CASE DropReadLast(t)
    <3>1. index[t] \in Int /\ index[t] < tableCount
      BY <2>5, ConstantsAssumption DEF DropReadLast, Goto, Slots, Local, HoldsPicked
    <3> QED
      BY <2>5, <3>1 DEF DropReadLast, Goto
  <2>6. CASE DropLockLast(t)
    <3>1. CASE StillLast(next[t])
      BY <2>6, <3>1 DEF DropLockLast
    <3>2. CASE ~StillLast(next[t])
      BY <2>6, <3>2 DEF DropLockLast
    <3> QED
      BY <3>1, <3>2
  <2>7. CASE DropRelock(t)
    BY <2>7 DEF DropRelock
  <2> QED
    BY <1>3, <2>1, <2>2, <2>3, <2>4, <2>5, <2>6, <2>7 DEF Drop
<1>4. CASE Alter(t)
  BY <1>1, <1>4 DEF Alter, AlterPick, Starts, AlterLock, AlterComplete, Finish
<1>5. CASE Read(t)
  BY <1>1, <1>5 DEF Read, DmlCheck, CustomStart, Starts, ReadPick, ReadSlot, Finish
<1>6. CASE Cancel(t)
  BY <1>6 DEF Cancel, Finish
<1> QED
  BY <1>2, <1>3, <1>4, <1>5, <1>6 DEF Step

\* Only the owner of the last slot moves the end of the array.
LEMMA EndIsOwned ==
    ASSUME TypeOK, Owns, NEW t \in Threads, Local(t), Step(t)
    PROVE  tableCount' = tableCount \/ owner[tableCount - 1] = t
BY CountSteps DEF CreateInsert, DropCount, Goto, Local, Owns, HoldsLast

LEMMA OrderedOther ==
    ASSUME TypeOK, HasSlot, Owns, NEW t \in Threads, Local(t), Step(t), Frame(t),
           NEW u \in Threads \ {t}, Ordered(u)
    PROVE  Ordered(u)'
<1>1. /\ pc'[u] = pc[u] /\ index'[u] = index[u] /\ next'[u] = next[u]
      /\ unwind'[u] = unwind[u]
  BY StepOthers DEF Frame
<1>2. ASSUME pc[u] \in {"dropTest", "dropLockLast"}, tableCount = index[u] + 1
      PROVE  tableCount' = tableCount
  <2>1. owner[index[u]] = u /\ index[u] \in Slots
    BY <1>2 DEF Owns, HasSlot, HoldsPicked
  <2>2. tableCount - 1 = index[u]
    BY <1>2, <2>1, ConstantsAssumption DEF Slots
  <2> QED
    BY <2>1, <2>2, EndIsOwned
<1> QED
  BY <1>1, <1>2 DEF Ordered

LEMMA OrderInvStep == HeldInv /\ NonEmpty /\ OrderInv /\ [Next]_vars => OrderInv'
<1> SUFFICES ASSUME HeldInv, NonEmpty, OrderInv, [Next]_vars PROVE OrderInv'
  OBVIOUS
<1>1. TypeOK /\ HasSlot /\ Owns /\ DenseInv /\ \A u \in Threads : Local(u) /\ Ordered(u)
  BY DEF HeldInv, AccountsInv, OrderInv, DenseInv
<1>2. DenseInv'
  BY <1>1, DenseInvStep
<1>3. ASSUME NEW t \in Threads, Step(t) PROVE \A u \in Threads : Ordered(u)'
  <2>1. Frame(t)
    BY <1>1, <1>3, StepFrame
  <2>2. Ordered(t)'
    BY <1>1, <1>3, OrderedSelf
  <2>3. ASSUME NEW u \in Threads \ {t} PROVE Ordered(u)'
    BY <1>1, <1>3, <2>1, OrderedOther
  <2> QED
    BY <2>2, <2>3
<1>4. ASSUME UNCHANGED <<store, pc, index, next, unwind>> PROVE \A u \in Threads : Ordered(u)'
  BY <1>1, <1>4 DEF Ordered, store
<1> QED
  BY <1>2, <1>3, <1>4 DEF OrderInv, Next, Ended, TimeUp, vars, store

LEMMA OrderInvariant == Spec /\ []NonEmpty => []OrderInv
<1>1. Init => \A t \in Threads : Ordered(t)
  BY DEF Init, Ordered
<1>2. Init => OrderInv
  BY <1>1, DenseInit DEF OrderInv
<1> QED
  BY <1>2, OrderInvStep, HeldInvariant, PTL DEF Spec

\* As long as the store does not become empty, a thread only ever waits for a slot
\* above the ones it owns, or for the one it owns itself in DROP: no number of
\* CREATEs, DROPs, ALTERs and reads can wait for each other in a cycle.
THEOREM LocksAscend == Spec /\ []NonEmpty => []LockOrder
<1>1. LocksInv /\ OrderInv => LockOrder
  <2> SUFFICES ASSUME LocksInv, OrderInv, NEW t \in Threads, NEW wanted \in WaitsFor(t),
                      NEW held \in OwnedBy(t)
               PROVE  held < wanted \/ (pc[t] = "dropLockLast" /\ held = wanted)
    BY DEF LockOrder
  <2>1. held \in Slots /\ held \in Int /\ Held(t, held)
    BY ConstantsAssumption DEF OwnedBy, LocksInv, OwnsOnly, Slots
  <2>2. TypeOK /\ Ordered(t)
    BY DEF LocksInv, HeldInv, AccountsInv, OrderInv
  <2>3. CASE pc[t] = "dropLockLast"
    <3>1. WaitsFor(t) = {next[t]}
      BY <2>3 DEF WaitsFor
    <3>2. held = index[t]
      BY <2>1, <2>3 DEF Held, HoldsLast
    <3>3. wanted = next[t] /\ held = index[t] /\ index[t] <= next[t]
      BY <2>2, <2>3, <3>1, <3>2 DEF Ordered
    <3> QED
      BY <2>1, <2>2, <2>3, <3>3 DEF TypeOK
  <2>4. CASE pc[t] = "createInsert"
    BY <2>1, <2>2, <2>4 DEF WaitsFor, Held, HoldsPicked, HoldsLast, TypeOK
  <2>5. CASE pc[t] \notin {"dropLockLast", "createInsert"}
    BY <2>1, <2>5 DEF WaitsFor, Held, HoldsPicked, HoldsLast
  <2> QED
    BY <2>3, <2>4, <2>5
<1> QED
  BY <1>1, LocksInvariant, OrderInvariant, PTL

\* As long as the store does not become empty, the exception from locking a slot
\* twice ends the process only when the statement of the DROP had failed: the
\* completion that ~Reservation repeats finds its slot to be the last one, and
\* nobody can have moved the end in between.
THEOREM RelocksAbsorbed == Spec /\ []NonEmpty => []RelockAbsorbed
<1>1. OrderInv => RelockAbsorbed
  BY DEF OrderInv, Ordered, RelockAbsorbed
<1> QED
  BY <1>1, OrderInvariant, PTL

\* Where the configured minimum keeps the store from becoming empty, the order of
\* the locks needs no further condition.
THEOREM StaysOrdered == ASSUME KeepsTables PROVE Spec => [](LockOrder /\ RelockAbsorbed)
BY MinimumKept, LocksAscend, RelocksAbsorbed, PTL
=============================================================================

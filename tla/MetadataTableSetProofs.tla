------------------------- MODULE MetadataTableSetProofs -------------------------
(***************************************************************************)
(* The slots, locks and counters of Metadata behave as the set of tables   *)
(* of TableSet.                                                            *)
(***************************************************************************)
EXTENDS MetadataBoundsProofs

-----------------------------------------------------------------------------
(* What a step does to the slots *)

\* A reservation for a new table and the copy of an ALTER are tables, and no two
\* reservations are for the same one.
HasTable(t) == pc[t] \in Creators \union {"alterOpen"} => table[t] \in Table
Distinct == \A t, u \in Creating : table[t].id = table[u].id => t = u

\* All that the steps below are taken from.
SlotsInv == HeldInv /\ (\A t \in Threads : Full(t) /\ HasTable(t))

LEMMA HasTableSelf ==
    ASSUME TypeOK, HasSlot, NEW t \in Threads, HasTable(t), Step(t)
    PROVE  HasTable(t)'
<1> USE DEF TypeOK, HasSlot, HasTable, Creators, store
<1>1. ASSUME NEW to \in {"dropLock", "alterLock", "readSlot"}, PickSlot(t, to)
      PROVE  HasTable(t)'
  BY <1>1 DEF PickSlot
<1>2. CASE Create(t)
  <2>1. CASE Reserve(t)
    <3>1. CASE reservedSize' > MaxTables
      BY <2>1, <3>1 DEF Reserve
    <3>2. CASE ~(reservedSize' > MaxTables)
      <4>1. PICK id \in FreshIds, d \in Defs :
              table' = [table EXCEPT ![t] = [id |-> id, def |-> d]]
        BY <2>1, <3>2 DEF Reserve
      <4>2. [id |-> id, def |-> d] \in Table
        BY <4>1 DEF Table, FreshIds
      <4> QED
        BY <2>1, <3>2, <4>1, <4>2 DEF Reserve
    <3> QED
      BY <3>1, <3>2
  <2>2. CASE CreateCheck(t) \/ ReserveTest(t) \/ ReserveUndo(t) \/ CreateSql(t) \/ CreateRead(t)
             \/ CreateTestEmpty(t)
    BY <2>2 DEF CreateCheck, ReserveTest, ReserveUndo, CreateSql, CreateRead, CreateTestEmpty,
                Goto
  <2>3. CASE CreateLockLast(t) \/ CreateLockBeforeFirst(t) \/ CreateInsert(t)
    BY <2>3 DEF CreateLockLast, CreateLockBeforeFirst, CreateInsert, Finish
  <2> QED
    BY <1>2, <2>1, <2>2, <2>3 DEF Create
<1>3. CASE Drop(t)
  BY <1>1, <1>3 DEF Drop, DropCheck, DropPick, DropLock, DropSql, DropTest, DropReadLast,
              DropLockLast, DropRelock, DropCount, DropVacate, Goto, Finish
<1>4. CASE AlterLock(t)
  <2>1. CASE tables[index[t]] = NoTable
    BY <1>4, <2>1 DEF AlterLock, Finish
  <2>2. CASE tables[index[t]] # NoTable
    <3>1. PICK d \in Defs :
            table' = [table EXCEPT ![t] = [tables[index[t]] EXCEPT !.def = d]]
      BY <1>4, <2>2 DEF AlterLock
    <3>2. tables[index[t]] \in Table
      BY <1>4, <2>2 DEF AlterLock
    <3>3. [tables[index[t]] EXCEPT !.def = d] \in Table
      BY <3>2 DEF Table
    <3> QED
      BY <1>4, <2>2, <3>1, <3>3 DEF AlterLock
  <2> QED
    BY <2>1, <2>2
<1>5. CASE AlterPick(t) \/ AlterComplete(t)
  BY <1>1, <1>5 DEF AlterPick, AlterComplete, Finish
<1>6. CASE Read(t) \/ Cancel(t)
  BY <1>1, <1>6 DEF Read, DmlCheck, CustomStart, ReadPick, ReadSlot, Cancel, Finish
<1> QED
  BY <1>2, <1>3, <1>4, <1>5, <1>6 DEF Step, Alter

LEMMA SlotsInvariant == Spec => []SlotsInv
<1>1. Init => SlotsInv
  <2> SUFFICES ASSUME Init PROVE \A t \in Threads : Full(t) /\ HasTable(t)
    BY AccountsInit DEF Init, SlotsInv, HeldInv, Owns, HeldTableStays, Dropping, Altering, At,
                        HoldsPicked, HoldsLast
  <2> QED
    BY DEF Init, Full, HasTable, HoldsPicked, Creators
<1>2. SlotsInv /\ HeldInv' /\ [Next]_vars => SlotsInv'
  <2> SUFFICES ASSUME SlotsInv, [Next]_vars
               PROVE  \A u \in Threads : Full(u)' /\ HasTable(u)'
    BY DEF SlotsInv
  <2>1. TypeOK /\ HasSlot /\ Owns
    BY DEF SlotsInv, HeldInv, AccountsInv
  <2>2. ASSUME NEW t \in Threads, Step(t), NEW u \in Threads PROVE Full(u)' /\ HasTable(u)'
    <3>1. Frame(t)
      BY <2>1, <2>2, StepFrame
    <3>2. CASE u = t
      BY <2>1, <2>2, <3>2, FullSelf, HasTableSelf DEF SlotsInv
    <3>3. CASE u # t
      BY <2>1, <3>1, <3>3, FullOther DEF SlotsInv, HasTable, Frame
    <3> QED
      BY <3>2, <3>3
  <2>3. ASSUME UNCHANGED <<store, pc, table, index, next>>
        PROVE  \A u \in Threads : Full(u)' /\ HasTable(u)'
    BY <2>3 DEF SlotsInv, Full, HasTable, store
  <2> QED
    BY <2>2, <2>3 DEF Next, Ended, TimeUp, vars, store
<1> QED
  BY <1>1, <1>2, HeldInvariant, PTL DEF Spec

\* Only the slot of a DROP at the end of its completion is not one of the store.
LEMMA VacatingIs ==
    ASSUME NEW i
    PROVE  i \in Vacating <=> \E t \in Threads : pc[t] \in HoldsLast /\ next[t] = i
BY DEF Vacating, At, HoldsLast

LEMMA OwnedStored ==
    ASSUME SlotsInv, NEW t \in Threads, pc[t] \in HoldsPicked
    PROVE  index[t] \in Stored /\ index[t] \in Slots /\ owner[index[t]] = t
<1>1. index[t] \in Slots /\ owner[index[t]] = t /\ tables[index[t]] # NoTable
  BY DEF SlotsInv, HeldInv, AccountsInv, HasSlot, Owns, Full, HoldsPicked
<1>2. index[t] \notin Vacating
  BY <1>1, VacatingIs DEF SlotsInv, HeldInv, Owns, HoldsPicked, HoldsLast
<1> QED
  BY <1>1, <1>2 DEF Stored

LEMMA FreeStored ==
    ASSUME SlotsInv, NEW i \in Slots, Free(i)
    PROVE  i \notin Vacating /\ (i \in Stored <=> tables[i] # NoTable)
<1>1. i \notin Vacating
  BY VacatingIs, NullAssumption DEF SlotsInv, HeldInv, Owns, Free, HoldsLast
<1> QED
  BY <1>1 DEF Stored

\* A step that neither enters nor leaves the end of a DROP.
LEMMA VacatingFrame ==
    ASSUME NEW t \in Threads, Frame(t), pc[t] \notin HoldsLast, pc'[t] \notin HoldsLast
    PROVE  Vacating' = Vacating
<1>1. ASSUME NEW i PROVE i \in Vacating' <=> \E u \in Threads : pc'[u] \in HoldsLast /\ next'[u] = i
  BY DEF Vacating, At, HoldsLast
<1>2. ASSUME NEW i PROVE i \in Vacating' <=> i \in Vacating
  BY <1>1, VacatingIs DEF Frame
<1> QED
  BY <1>2

Quiet == tables' = tables /\ Stored' = Stored

LEMMA QuietFrame ==
    ASSUME NEW t \in Threads, Frame(t), tables' = tables,
           pc[t] \notin HoldsLast, pc'[t] \notin HoldsLast
    PROVE  Quiet
BY VacatingFrame DEF Quiet, Stored

LEMMA InsertSlots ==
    ASSUME SlotsInv, NEW t \in Threads, Frame(t), CreateInsert(t)
    PROVE  /\ next[t] \in Slots /\ table[t] \in Table /\ pc[t] = "createInsert" /\ pc'[t] = "idle"
           /\ tables' = [tables EXCEPT ![next[t]] = table[t]]
           /\ Stored' = Stored \union {next[t]}
<1>1. /\ pc[t] = "createInsert" /\ pc'[t] = "idle" /\ next[t] \in Slots /\ Free(next[t])
      /\ tables' = [tables EXCEPT ![next[t]] = table[t]]
  BY DEF CreateInsert, Finish, SlotsInv, HeldInv, AccountsInv, TypeOK
<1>2. table[t] \in Table /\ table[t] # NoTable
  BY <1>1, NullAssumption DEF SlotsInv, HasTable, Creators
<1>3. Vacating' = Vacating /\ next[t] \notin Vacating
  BY <1>1, VacatingFrame, FreeStored DEF HoldsLast
<1>4. Stored' = Stored \union {next[t]}
  BY <1>1, <1>2, <1>3 DEF Stored, SlotsInv, HeldInv, AccountsInv, TypeOK
<1> QED
  BY <1>1, <1>2, <1>4

\* A DROP that has found its own slot to be the last.
LEMMA EmptySlots ==
    ASSUME SlotsInv, NEW t \in Threads, Frame(t), DropTest(t), index[t] = tableCount - 1
    PROVE  /\ pc[t] = "dropTest" /\ pc'[t] = "dropCount" /\ index[t] \in Stored
           /\ tables' = tables /\ Stored' = Stored \ {index[t]}
<1>1. /\ pc[t] = "dropTest" /\ pc'[t] = "dropCount" /\ next'[t] = index[t] /\ tables' = tables
  BY DEF DropTest, store, SlotsInv, HeldInv, AccountsInv, TypeOK
<1>2. index[t] \in Stored
  BY <1>1, OwnedStored DEF HoldsPicked
<1>3. ASSUME NEW i PROVE i \in Vacating' <=> \E u \in Threads : pc'[u] \in HoldsLast /\ next'[u] = i
  BY DEF Vacating, At, HoldsLast
<1>4. ASSUME NEW i PROVE i \in Vacating' <=> i \in Vacating \/ i = index[t]
  BY <1>1, <1>3, VacatingIs DEF Frame, HoldsLast
<1> QED
  BY <1>1, <1>2, <1>4 DEF Stored

\* A DROP that moves the last table to its slot.
LEMMA MoveSlots ==
    ASSUME SlotsInv, NEW t \in Threads, Frame(t), DropLockLast(t), StillLast(next[t])
    PROVE  /\ pc[t] = "dropLockLast" /\ pc'[t] = "dropCount"
           /\ index[t] \in Stored /\ next[t] \in Stored /\ index[t] # next[t]
           /\ tables' = [tables EXCEPT ![index[t]] = tables[next[t]]]
           /\ Stored' = Stored \ {next[t]}
           /\ Free(next[t])
<1>1. /\ pc[t] = "dropLockLast" /\ pc'[t] = "dropCount" /\ next'[t] = next[t]
      /\ next[t] \in Slots /\ Free(next[t]) /\ tables[next[t]] # NoTable
      /\ tables' = [tables EXCEPT ![index[t]] = tables[next[t]]]
  BY DEF DropLockLast, StillLast, SlotsInv, HeldInv, AccountsInv, TypeOK
<1>2. index[t] \in Stored /\ index[t] \in Slots /\ owner[index[t]] = t
  BY <1>1, OwnedStored DEF HoldsPicked
<1>3. next[t] \in Stored /\ index[t] # next[t]
  BY <1>1, <1>2, FreeStored, NullAssumption DEF Free
<1>4. ASSUME NEW i PROVE i \in Vacating' <=> \E u \in Threads : pc'[u] \in HoldsLast /\ next'[u] = i
  BY DEF Vacating, At, HoldsLast
<1>5. ASSUME NEW i PROVE i \in Vacating' <=> i \in Vacating \/ i = next[t]
  BY <1>1, <1>4, VacatingIs DEF Frame, HoldsLast
<1>6. Stored' = Stored \ {next[t]}
  BY <1>1, <1>2, <1>3, <1>5 DEF Stored, SlotsInv, HeldInv, AccountsInv, TypeOK
<1> QED
  BY <1>1, <1>2, <1>3, <1>6

LEMMA AlterSlots ==
    ASSUME SlotsInv, NEW t \in Threads, Frame(t), AlterComplete(t)
    PROVE  /\ pc[t] = "alterOpen" /\ pc'[t] = "idle" /\ index[t] \in Stored
           /\ table[t] \in Table /\ table[t].id = tables[index[t]].id
           /\ tables' = [tables EXCEPT ![index[t]] = table[t]]
           /\ Stored' = Stored
<1>1. /\ pc[t] = "alterOpen" /\ pc'[t] = "idle"
      /\ tables' = [tables EXCEPT ![index[t]] = table[t]]
  BY DEF AlterComplete, Finish, SlotsInv, HeldInv, AccountsInv, TypeOK
<1>2. index[t] \in Stored /\ index[t] \in Slots
  BY <1>1, OwnedStored DEF HoldsPicked
<1>3. table[t] \in Table /\ table[t] # NoTable /\ table[t].id = tables[index[t]].id
  BY <1>1, NullAssumption DEF SlotsInv, HasTable, HeldInv, HeldTableStays, Altering, At
<1>4. Vacating' = Vacating
  BY <1>1, VacatingFrame DEF HoldsLast
<1>5. Stored' = Stored
  BY <1>1, <1>2, <1>3, <1>4 DEF Stored, SlotsInv, HeldInv, AccountsInv, TypeOK
<1> QED
  BY <1>1, <1>2, <1>3, <1>5

LEMMA VacateSlots ==
    ASSUME SlotsInv, NEW t \in Threads, Frame(t), DropVacate(t)
    PROVE  /\ pc[t] = "dropVacate" /\ pc'[t] = "idle" /\ next[t] \notin Stored
           /\ tables' = [tables EXCEPT ![next[t]] = NoTable]
           /\ Stored' = Stored
<1>1. /\ pc[t] = "dropVacate" /\ pc'[t] = "idle" /\ next[t] \in Slots
      /\ tables' = [tables EXCEPT ![next[t]] = NoTable]
  BY DEF DropVacate, Finish, SlotsInv, HeldInv, AccountsInv, TypeOK, HasSlot
<1>2. next[t] \in Vacating
  BY <1>1, VacatingIs DEF HoldsLast
<1>3. ASSUME NEW i PROVE i \in Vacating' <=> \E u \in Threads : pc'[u] \in HoldsLast /\ next'[u] = i
  BY DEF Vacating, At, HoldsLast
<1>4. ASSUME NEW i, i # next[t] PROVE i \in Vacating' <=> i \in Vacating
  BY <1>1, <1>3, <1>4, VacatingIs DEF Frame, HoldsLast
<1>5. Stored' = Stored
  BY <1>1, <1>2, <1>4 DEF Stored, SlotsInv, HeldInv, AccountsInv, TypeOK
<1> QED
  BY <1>1, <1>2, <1>5 DEF Stored

\* Everything else a thread does leaves the tables where they are.
LEMMA QuietSlots ==
    ASSUME SlotsInv, NEW t \in Threads, Frame(t), Step(t),
           ~CreateInsert(t), ~(DropTest(t) /\ index[t] = tableCount - 1),
           ~(DropLockLast(t) /\ StillLast(next[t])), ~DropVacate(t), ~AlterComplete(t)
    PROVE  Quiet
<1> USE DEF HoldsLast, store
<1>0. TypeOK /\ \A to \in {"dropLock", "alterLock", "readSlot"} :
          PickSlot(t, to) => tables' = tables /\ pc'[t] \in {to, "crashed"}
  BY DEF SlotsInv, HeldInv, AccountsInv, TypeOK, PickSlot
<1>1. CASE DropCount(t)
  <2>1. /\ pc[t] = "dropCount" /\ pc'[t] = "dropVacate" /\ UNCHANGED <<tables, next>>
    BY <1>0, <1>1 DEF DropCount, Goto, TypeOK
  <2>2. ASSUME NEW i PROVE i \in Vacating' <=> \E u \in Threads : pc'[u] \in HoldsLast /\ next'[u] = i
    BY DEF Vacating, At
  <2>3. ASSUME NEW i PROVE i \in Vacating' <=> i \in Vacating
    BY <2>1, <2>2, VacatingIs DEF Frame
  <2> QED
    BY <2>1, <2>3 DEF Quiet, Stored
<1>2. ASSUME tables' = tables, pc[t] \notin HoldsLast, pc'[t] \notin HoldsLast PROVE Quiet
  BY <1>2, QuietFrame
<1> USE DEF TypeOK
<1>3. CASE Create(t)
  <2>1. CASE CreateCheck(t) \/ ReserveTest(t) \/ Reserve(t) \/ ReserveUndo(t) \/ CreateSql(t)
             \/ CreateRead(t)
    BY <1>0, <1>2, <2>1 DEF CreateCheck, Starts, ReserveTest, Reserve, ReserveUndo, CreateSql,
                            CreateRead, Goto
  <2>2. CASE CreateTestEmpty(t) \/ CreateLockLast(t) \/ CreateLockBeforeFirst(t)
    BY <1>0, <1>2, <2>2 DEF CreateTestEmpty, CreateLockLast, CreateLockBeforeFirst
  <2> QED
    BY <1>3, <2>1, <2>2 DEF Create
<1>4. CASE Drop(t) /\ ~DropCount(t)
  <2>1. CASE DropCheck(t) \/ DropSql(t) \/ DropReadLast(t) \/ DropLock(t) \/ DropRelock(t)
    BY <1>0, <1>2, <2>1 DEF DropCheck, Starts, DropSql, DropReadLast, DropLock, DropRelock, Goto,
                            Finish
  <2>2. CASE DropPick(t)
    BY <1>0, <1>2, <2>2 DEF DropPick
  <2>3. CASE DropTest(t) \/ DropLockLast(t)
    BY <1>0, <1>2, <2>3 DEF DropTest, DropLockLast
  <2> QED
    BY <1>4, <2>1, <2>2, <2>3 DEF Drop
<1>5. CASE Alter(t)
  BY <1>0, <1>2, <1>5 DEF Alter, AlterPick, Starts, AlterLock, Finish
<1>6. CASE Read(t)
  BY <1>0, <1>2, <1>6 DEF Read, DmlCheck, CustomStart, Starts, ReadPick, ReadSlot, Finish
<1>7. CASE Cancel(t)
  BY <1>0, <1>2, <1>7 DEF Cancel, Finish
<1> QED
  BY <1>1, <1>3, <1>4, <1>5, <1>6, <1>7 DEF Step

-----------------------------------------------------------------------------
(* No table is in two places *)

\* A thread comes to hold a reservation for a table by createTable(), whose table is
\* none of the known ones, and keeps that table until it inserts it.
LEMMA CreatorMoves ==
    ASSUME TypeOK, NEW t \in Threads, Step(t), pc'[t] \in Creators
    PROVE  \/ pc[t] \in Creators /\ table'[t] = table[t]
           \/ /\ pc[t] = "reserve" /\ pc'[t] = "createSql"
              /\ reservedSize' = reservedSize + 1 /\ reservedSize' <= MaxTables
              /\ \E id \in FreshIds, d \in Defs : table'[t] = [id |-> id, def |-> d]
<1> USE DEF TypeOK, Creators, store
<1>1. ASSUME NEW to \in {"dropLock", "alterLock", "readSlot"}, PickSlot(t, to) PROVE FALSE
  BY <1>1 DEF PickSlot
<1>2. CASE Create(t)
  <2>1. CASE Reserve(t)
    BY <2>1, ConstantsAssumption DEF Reserve
  <2>2. CASE CreateCheck(t) \/ ReserveTest(t) \/ ReserveUndo(t) \/ CreateSql(t) \/ CreateRead(t)
             \/ CreateTestEmpty(t)
    BY <2>2 DEF CreateCheck, ReserveTest, ReserveUndo, CreateSql, CreateRead, CreateTestEmpty,
                Goto
  <2>3. CASE CreateLockLast(t) \/ CreateLockBeforeFirst(t) \/ CreateInsert(t)
    BY <2>3 DEF CreateLockLast, CreateLockBeforeFirst, CreateInsert, Finish
  <2> QED
    BY <1>2, <2>1, <2>2, <2>3 DEF Create
<1>3. CASE Drop(t)
  BY <1>1, <1>3 DEF Drop, DropCheck, DropPick, DropLock, DropSql, DropTest, DropReadLast,
              DropLockLast, DropRelock, DropCount, DropVacate, Goto, Finish
<1>4. CASE Alter(t) \/ Read(t) \/ Cancel(t)
  BY <1>1, <1>4 DEF Alter, AlterPick, AlterLock, AlterComplete, Read, DmlCheck, CustomStart,
              ReadPick, ReadSlot, Cancel, Finish
<1> QED
  BY <1>2, <1>3, <1>4 DEF Step

UniqueInv == NoDuplicates /\ Distinct

\* Where the tables of a step come from: each stored one was stored or is the one
\* that is being inserted.
LEMMA UniqueStored ==
    ASSUME SlotsInv, UniqueInv, NEW t \in Threads, Frame(t), Step(t)
    PROVE  /\ \A i, j \in Stored' : tables'[i].id = tables'[j].id => i = j
           /\ \A i \in Stored' :
                \/ \E j \in Stored : tables'[i].id = tables[j].id
                \/ CreateInsert(t) /\ tables'[i] = table[t]
<1> USE DEF UniqueInv, NoDuplicates
<1>0. tables \in [Slots -> Table \union {NoTable}] /\ Stored \subseteq Slots
  BY DEF SlotsInv, HeldInv, AccountsInv, TypeOK, Stored
<1>1. CASE CreateInsert(t)
  <2>1. t \in Creating
    BY <1>1 DEF CreateInsert, Creating, At
  <2>2. \A i \in Stored : tables[i].id # table[t].id
    BY <2>1
  <2>3. /\ next[t] \in Slots /\ tables' = [tables EXCEPT ![next[t]] = table[t]]
        /\ Stored' = Stored \union {next[t]}
    BY <1>1, InsertSlots
  <2> QED
    BY <1>0, <1>1, <2>2, <2>3
<1>2. CASE DropTest(t) /\ index[t] = tableCount - 1
  <2>1. tables' = tables /\ Stored' = Stored \ {index[t]}
    BY <1>2, EmptySlots
  <2> QED
    BY <2>1
<1>3. CASE DropLockLast(t) /\ StillLast(next[t])
  <2>1. /\ index[t] \in Stored /\ next[t] \in Stored
        /\ tables' = [tables EXCEPT ![index[t]] = tables[next[t]]]
        /\ Stored' = Stored \ {next[t]}
    BY <1>3, MoveSlots
  <2> QED
    BY <1>0, <2>1
<1>4. CASE DropVacate(t)
  <2>1. /\ next[t] \notin Stored /\ Stored' = Stored
        /\ tables' = [tables EXCEPT ![next[t]] = NoTable]
    BY <1>4, VacateSlots
  <2> QED
    BY <1>0, <2>1
<1>5. CASE AlterComplete(t)
  <2>1. /\ index[t] \in Stored /\ Stored' = Stored /\ table[t].id = tables[index[t]].id
        /\ tables' = [tables EXCEPT ![index[t]] = table[t]]
    BY <1>5, AlterSlots
  <2> QED
    BY <1>0, <2>1
<1>6. CASE Quiet
  BY <1>0, <1>6 DEF Quiet
<1> QED
  BY <1>1, <1>2, <1>3, <1>4, <1>5, <1>6, QuietSlots

LEMMA UniqueStep ==
    ASSUME SlotsInv, UniqueInv, NEW t \in Threads, Frame(t), Step(t)
    PROVE  UniqueInv'
<1>1. TypeOK
  BY DEF SlotsInv, HeldInv, AccountsInv
<1>2. Creating = {u \in Threads : pc[u] \in Creators} /\ Creating' = {u \in Threads : pc'[u] \in Creators}
  BY DEF Creating, At, Creators
<1>3. \A u \in Creating' \ {t} : u \in Creating /\ table'[u] = table[u]
  BY <1>2 DEF Frame
<1>4. ASSUME NEW u \in Creating'
      PROVE  \/ u \in Creating /\ table'[u] = table[u] /\ ~(u = t /\ CreateInsert(t))
             \/ u = t /\ ~CreateInsert(t) /\ table'[u].id \in FreshIds
  <2>1. CASE u # t
    BY <1>3, <2>1
  <2>2. CASE u = t
    <3>1. pc'[t] \in Creators
      BY <1>2, <2>2
    <3>2. ~CreateInsert(t)
      BY <1>1, <3>1 DEF CreateInsert, Finish, TypeOK, Creators
    <3>3. CASE pc[t] \in Creators /\ table'[t] = table[t]
      BY <1>2, <2>2, <3>2, <3>3
    <3>4. ASSUME NEW id \in FreshIds, NEW d \in Defs, table'[t] = [id |-> id, def |-> d]
          PROVE  table'[t].id \in FreshIds
      BY <3>4
    <3> QED
      BY <1>1, <2>2, <3>1, <3>2, <3>3, <3>4, CreatorMoves
  <2> QED
    BY <2>1, <2>2
<1>5. /\ \A i \in Stored : tables[i].id \notin FreshIds
      /\ \A u \in Creating : table[u].id \notin FreshIds
  <2>1. \A u \in Creating : table[u] # NoTable
    BY <1>2, NullAssumption DEF SlotsInv, HasTable
  <2> QED
    BY <1>2, <2>1 DEF FreshIds, Stored
<1>6. Distinct'
  <2> SUFFICES ASSUME NEW u \in Creating', NEW v \in Creating', table'[u].id = table'[v].id
               PROVE  u = v
    BY DEF Distinct
  <2>1. CASE u # t /\ v # t
    BY <1>3, <2>1 DEF UniqueInv, Distinct
  <2>2. CASE u = t /\ v # t
    BY <1>3, <1>4, <1>5, <2>2 DEF UniqueInv, Distinct
  <2>3. CASE u # t /\ v = t
    BY <1>3, <1>4, <1>5, <2>3 DEF UniqueInv, Distinct
  <2> QED
    BY <2>1, <2>2, <2>3
<1>7. ASSUME NEW u \in Creating', NEW i \in Stored' PROVE tables'[i].id # table'[u].id
  <2>1. CASE \E j \in Stored : tables'[i].id = tables[j].id
    BY <1>4, <1>5, <2>1 DEF UniqueInv, NoDuplicates
  <2>2. CASE CreateInsert(t) /\ tables'[i] = table[t]
    <3>1. t \in Creating /\ u \in Creating /\ u # t /\ table'[u] = table[u]
      BY <1>4, <2>2 DEF CreateInsert, Creating, At
    <3> QED
      BY <2>2, <3>1 DEF UniqueInv, Distinct
  <2> QED
    BY <2>1, <2>2, UniqueStored
<1> QED
  BY <1>6, <1>7, UniqueStored DEF UniqueInv, NoDuplicates

LEMMA UniqueInvStep == SlotsInv /\ UniqueInv /\ [Next]_vars => UniqueInv'
<1> SUFFICES ASSUME SlotsInv, UniqueInv, [Next]_vars PROVE UniqueInv'
  OBVIOUS
<1>1. ASSUME NEW t \in Threads, Step(t) PROVE UniqueInv'
  BY <1>1, StepFrame, UniqueStep DEF SlotsInv, HeldInv, AccountsInv
<1>2. ASSUME UNCHANGED <<store, pc, table, index, next>> PROVE UniqueInv'
  BY <1>2 DEF UniqueInv, NoDuplicates, Distinct, Creating, Stored, Vacating, At, store
<1> QED
  BY <1>1, <1>2 DEF Next, Ended, TimeUp, vars, store

LEMMA UniqueInvariant == Spec => []UniqueInv
<1>1. Init => UniqueInv
  <2> SUFFICES ASSUME Init PROVE UniqueInv
    OBVIOUS
  <2>1. Creating = {} /\ Stored \subseteq 0 .. InitialTables - 1
    BY ConstantsAssumption DEF Init, Creating, At, Stored, Slots
  <2> QED
    BY <2>1 DEF Init, UniqueInv, NoDuplicates, Distinct
<1> QED
  BY <1>1, UniqueInvStep, SlotsInvariant, PTL DEF Spec

\* No table is ever in two slots of the store, and no reservation is for a table
\* that the store has already: the move of the last table by DROP, the copy of
\* ALTER and the insertion by CREATE never multiply one, from empty stores too.
THEOREM TablesUnique == Spec => []NoDuplicates
<1>1. UniqueInv => NoDuplicates
  BY DEF UniqueInv
<1> QED
  BY <1>1, UniqueInvariant, PTL

-----------------------------------------------------------------------------
(* The store implements TableSet *)

\* What Claims and Pending say of one thread.
ClaimOf(t) == IF pc[t] \in HoldsPicked THEN tables[index[t]].id ELSE NoTable
PendingOf(t) == IF pc[t] \in Creators THEN table[t].id ELSE NoTable

LEMMA ViewsByThread ==
    /\ Claims = [t \in Threads |-> ClaimOf(t)]
    /\ Pending = [t \in Threads |-> PendingOf(t)]
    /\ Claims' = [t \in Threads |-> ClaimOf(t)']
    /\ Pending' = [t \in Threads |-> PendingOf(t)']
<1>1. ASSUME NEW t \in Threads
      PROVE  /\ t \in Dropping \union Altering <=> pc[t] \in HoldsPicked
             /\ t \in Creating <=> pc[t] \in Creators
  BY DEF Dropping, Altering, Creating, At, HoldsPicked, Creators
<1>2. ASSUME NEW t \in Threads
      PROVE  /\ t \in Dropping' \union Altering' <=> pc'[t] \in HoldsPicked
             /\ t \in Creating' <=> pc'[t] \in Creators
  BY DEF Dropping, Altering, Creating, At, HoldsPicked, Creators
<1>3. /\ Claims = [t \in Threads |-> ClaimOf(t)]
      /\ Pending = [t \in Threads |-> PendingOf(t)]
  BY <1>1 DEF Claims, Pending, ClaimOf, PendingOf
<1>4. /\ Claims' = [t \in Threads |-> ClaimOf(t)']
      /\ Pending' = [t \in Threads |-> PendingOf(t)']
  BY <1>2 DEF Claims, Pending, ClaimOf, PendingOf
<1> QED
  BY <1>3, <1>4

\* TableSet counts as Metadata does.
LEMMA SameCount == ASSUME NEW S PROVE Promise!Cardinality(S) = Cardinality(S)
BY DEF Promise!Cardinality, Cardinality, Promise!IsFiniteSet, IsFiniteSet

\* A step changes the claim and the reservation of its own thread only.
LEMMA ViewStep ==
    ASSUME SlotsInv, NEW t \in Threads, Frame(t)
    PROVE  /\ Claims' = [Claims EXCEPT ![t] = ClaimOf(t)']
           /\ Pending' = [Pending EXCEPT ![t] = PendingOf(t)']
<1>1. ASSUME NEW u \in Threads \ {t}
      PROVE  ClaimOf(u)' = ClaimOf(u) /\ PendingOf(u)' = PendingOf(u)
  <2>1. pc'[u] = pc[u] /\ table'[u] = table[u] /\ index'[u] = index[u]
    BY DEF Frame
  <2>2. CASE pc[u] \in HoldsPicked
    <3>1. index[u] \in Slots /\ owner[index[u]] = u
      BY <2>2, OwnedStored
    <3>2. tables'[index[u]] = tables[index[u]]
      BY <3>1, NullAssumption DEF Frame
    <3> QED
      BY <2>1, <3>2 DEF ClaimOf, PendingOf
  <2>3. CASE pc[u] \notin HoldsPicked
    BY <2>1, <2>3 DEF ClaimOf, PendingOf
  <2> QED
    BY <2>2, <2>3
<1>2. /\ Claims' = [u \in Threads |-> ClaimOf(u)']
      /\ Pending' = [u \in Threads |-> PendingOf(u)']
  BY ViewsByThread
<1>3. /\ Claims = [u \in Threads |-> ClaimOf(u)]
      /\ Pending = [u \in Threads |-> PendingOf(u)]
  BY ViewsByThread
<1> QED
  BY <1>1, <1>2, <1>3

LEMMA ClaimPending ==
    ASSUME SlotsInv, NEW t \in Threads
    PROVE  /\ Claims[t] = ClaimOf(t) /\ Pending[t] = PendingOf(t)
           /\ pc[t] \in HoldsPicked <=> Claims[t] # NoTable
           /\ pc[t] \in Creators <=> Pending[t] # NoTable
<1>1. Claims[t] = ClaimOf(t) /\ Pending[t] = PendingOf(t)
  BY ViewsByThread
<1>2. pc[t] \in HoldsPicked => tables[index[t]].id \in TableIds
  BY OwnedStored DEF SlotsInv, HeldInv, AccountsInv, TypeOK, Stored, Table
<1>3. pc[t] \in Creators => table[t].id \in TableIds
  BY DEF SlotsInv, HasTable, Table
<1> QED
  BY <1>1, <1>2, <1>3, NullAssumption DEF ClaimOf, PendingOf

LEMMA LiveTables == SlotsInv => Live \subseteq Table
BY DEF SlotsInv, HeldInv, AccountsInv, TypeOK, Live, Stored

LEMMA LiveQuiet == Quiet => Live' = Live
BY DEF Quiet, Live

\* As many tables as the counters allow for.
LEMMA LiveFits ==
    ASSUME SlotsInv, Counted, ProcessAlive
    PROVE  Cardinality(Live) + Cardinality(Creating) <= reservedSize
<1>1. IsFiniteSet(Slots)
  BY FS_Interval, ConstantsAssumption DEF Slots
<1>2. Stored \subseteq Kept
  <2>1. ASSUME NEW i \in Stored PROVE ~Vacated(i)
    BY VacatingIs DEF Vacated, HoldsLast, Stored
  <2> QED
    BY <2>1 DEF Stored, Kept
<1>3. IsFiniteSet(Stored) /\ Cardinality(Stored) <= Cardinality(Kept)
  BY <1>2, KeptFinite, FS_Subset
<1>4. IsFiniteSet(Live) /\ Cardinality(Live) <= Cardinality(Stored)
  <2> DEFINE f == [i \in Stored |-> tables[i]]
  <2>1. f \in Surjection(Stored, Live)
    BY DEF Surjection, Live
  <2> QED
    BY <1>3, <2>1, FS_Surjection
<1>5. /\ Cardinality(Live) \in Nat /\ Cardinality(Stored) \in Nat
      /\ Cardinality(Kept) \in Nat
  BY <1>3, <1>4, KeptFinite, FS_CardinalityType
<1>6. Cardinality(At({"reserveUndo", "dropVacate"})) \in Nat
  <2>1. IsFiniteSet(At({"reserveUndo", "dropVacate"}))
    BY FS_Subset, ThreadsAssumption DEF At
  <2> QED
    BY <2>1, FS_CardinalityType
<1>7. /\ tableCount \in Int /\ tableCount >= Cardinality(Kept)
      /\ reservedSize = tableCount + Cardinality(Creating)
                        + Cardinality(At({"reserveUndo", "dropVacate"}))
  BY DEF Counted, SlotsInv, HeldInv, AccountsInv, TypeOK, Accounting
<1> QED
  BY <1>3, <1>4, <1>5, <1>6, <1>7, CreatingFinite

-----------------------------------------------------------------------------
(* The steps of TableSet *)

LEMMA ReserveMaps ==
    ASSUME SlotsInv, UniqueInv, Counted, NEW t \in Threads, Frame(t), Step(t),
           Quiet, pc[t] = "reserve", pc'[t] = "createSql",
           reservedSize' = reservedSize + 1, reservedSize' <= MaxTables,
           NEW id \in FreshIds, NEW d \in Defs, table'[t] = [id |-> id, def |-> d]
    PROVE  Promise!Next
<1>1. Claims[t] = NoTable /\ Pending[t] = NoTable
  BY ClaimPending DEF HoldsPicked, Creators
<1>2. id \in TableIds /\ id \notin {tab.id : tab \in Live}
  BY DEF FreshIds, Live, Stored
<1>3. ASSUME NEW u \in Threads PROVE Pending[u] # id
  <2>1. CASE pc[u] \in Creators
    <3>1. table[u] # NoTable
      BY <2>1, NullAssumption DEF SlotsInv, HasTable
    <3> QED
      BY <2>1, <3>1, ClaimPending DEF FreshIds, PendingOf
  <2>2. CASE pc[u] \notin Creators
    BY <1>2, <2>2, ClaimPending, NullAssumption DEF PendingOf
  <2> QED
    BY <2>1, <2>2
<1>4. Cardinality(Live) + Cardinality({u \in Threads : Pending[u] # NoTable}) < MaxTables
  <2>1. {u \in Threads : Pending[u] # NoTable} = Creating
    BY ClaimPending DEF Creating, At, Creators
  <2>2. Cardinality(Live) + Cardinality(Creating) <= reservedSize
    BY LiveFits DEF Step
  <2>3. Cardinality(Live) \in Nat
    <3>1. IsFiniteSet(Slots)
      BY FS_Interval, ConstantsAssumption DEF Slots
    <3>2. IsFiniteSet(Stored)
      BY <3>1, FS_Subset DEF Stored
    <3> DEFINE f == [i \in Stored |-> tables[i]]
    <3>3. f \in Surjection(Stored, Live)
      BY DEF Surjection, Live
    <3>4. IsFiniteSet(Live)
      BY <3>2, <3>3, FS_Surjection
    <3> QED
      BY <3>4, FS_CardinalityType
  <2>4. reservedSize \in Int /\ MaxTables \in Int
    BY ConstantsAssumption DEF SlotsInv, HeldInv, AccountsInv, TypeOK
  <2>5. Cardinality(Live) + Cardinality(Creating) < MaxTables
    BY <2>2, <2>3, <2>4, CreatingFinite
  <2> QED
    BY <2>1, <2>5
<1>5. ClaimOf(t)' = NoTable /\ PendingOf(t)' = id
  BY DEF ClaimOf, PendingOf, HoldsPicked, Creators
<1>6. Pending' = [Pending EXCEPT ![t] = id] /\ Claims' = Claims
  BY <1>1, <1>5, ViewStep, ViewsByThread
<1>7. Promise!Reserve(t, id)
  BY <1>1, <1>2, <1>3, <1>4, <1>6, LiveQuiet, SameCount
     DEF Promise!Reserve, Promise!LiveIds, Promise!Reserved
<1> QED
  BY <1>2, <1>7 DEF Promise!Next

\* The slot of a CREATE is empty when it writes it: otherwise the store would lose
\* a table here.
LEMMA InsertMaps ==
    ASSUME SlotsInv, DenseInv, NEW t \in Threads, Frame(t), CreateInsert(t)
    PROVE  Promise!Next
<1>1. /\ next[t] \in Slots /\ table[t] \in Table /\ pc[t] = "createInsert" /\ pc'[t] = "idle"
      /\ tables' = [tables EXCEPT ![next[t]] = table[t]]
      /\ Stored' = Stored \union {next[t]}
  BY InsertSlots
<1>2. next[t] \notin Stored
  <2>1. Free(next[t]) /\ next[t] = tableCount /\ tableCount \in Int
    BY <1>1 DEF CreateInsert, DenseInv, Local, SlotsInv, HeldInv, AccountsInv, TypeOK
  <2>2. tables[next[t]] = NoTable
    BY <1>1, <2>1, FreeBelow DEF DenseInv, SlotsInv, HeldInv
  <2> QED
    BY <1>1, <2>2 DEF Stored
<1>3. PICK d \in Defs : table[t] = [id |-> table[t].id, def |-> d]
  BY <1>1 DEF Table
<1>4. Live' = Live \union {table[t]}
  BY <1>1, <1>2 DEF Live, Stored, SlotsInv, HeldInv, AccountsInv, TypeOK
<1>5. Pending[t] = table[t].id /\ Pending[t] # NoTable
  BY <1>1, ClaimPending DEF PendingOf, Creators
<1>6. ClaimOf(t)' = NoTable /\ PendingOf(t)' = NoTable /\ Claims[t] = NoTable
  BY <1>1, ClaimPending DEF ClaimOf, PendingOf, HoldsPicked, Creators
<1>7. Pending' = [Pending EXCEPT ![t] = NoTable] /\ Claims' = Claims
  BY <1>6, ViewStep, ViewsByThread
<1>8. Promise!Insert(t, d)
  BY <1>3, <1>4, <1>5, <1>7 DEF Promise!Insert
<1> QED
  BY <1>8 DEF Promise!Next

\* Whoever locks a slot with a table in it gets a claim nobody else has.
LEMMA ClaimMaps ==
    ASSUME SlotsInv, UniqueInv, NEW t \in Threads, Frame(t), Quiet,
           pc[t] \in {"dropLock", "alterLock"}, pc'[t] \in {"dropSql", "alterOpen"},
           Free(index[t]), tables[index[t]] # NoTable, index'[t] = index[t]
    PROVE  Promise!Next
<1>1. index[t] \in Slots /\ index[t] \in Stored
  BY FreeStored DEF SlotsInv, HeldInv, AccountsInv, HasSlot
<1>2. tables[index[t]] \in Live /\ tables[index[t]].id \in TableIds
  BY <1>1, LiveTables DEF Live, Table
<1>3. Claims[t] = NoTable /\ Pending[t] = NoTable
  BY ClaimPending DEF HoldsPicked, Creators
<1>4. ASSUME NEW u \in Threads PROVE Claims[u] # tables[index[t]].id
  <2>1. CASE pc[u] \in HoldsPicked
    <3>1. index[u] \in Stored /\ owner[index[u]] = u
      BY <2>1, OwnedStored
    <3>2. index[u] # index[t]
      BY <3>1, NullAssumption DEF Free
    <3>3. tables[index[u]].id # tables[index[t]].id
      BY <1>1, <3>1, <3>2 DEF UniqueInv, NoDuplicates
    <3> QED
      BY <2>1, <3>3, ClaimPending DEF ClaimOf
  <2>2. CASE pc[u] \notin HoldsPicked
    BY <1>2, <2>2, ClaimPending, NullAssumption DEF ClaimOf
  <2> QED
    BY <2>1, <2>2
<1>5. ClaimOf(t)' = tables[index[t]].id /\ PendingOf(t)' = NoTable
  BY DEF Quiet, ClaimOf, PendingOf, HoldsPicked, Creators
<1>6. Claims' = [Claims EXCEPT ![t] = tables[index[t]].id] /\ Pending' = Pending
  BY <1>3, <1>5, ViewStep, ViewsByThread
<1>7. Promise!Claim(t, tables[index[t]])
  BY <1>2, <1>3, <1>4, <1>6, LiveQuiet DEF Promise!Claim
<1> QED
  BY <1>2, <1>7 DEF Promise!Next

Dropped == {"dropTest", "dropLockLast"}

\* A DROP has removed its table once nobody can find it: when its slot is known to
\* be the last, or another table has been moved there.
LEMMA RemoveMaps ==
    ASSUME SlotsInv, UniqueInv, NEW t \in Threads, Frame(t),
           pc[t] \in Dropped, pc'[t] = "dropCount",
           NEW last \in Stored, Stored' = Stored \ {last},
           tables' = [tables EXCEPT ![index[t]] = tables[last]]
    PROVE  Promise!Next
<1>1. pc[t] \in HoldsPicked
  BY DEF HoldsPicked, Dropped
<1>2. index[t] \in Stored /\ index[t] \in Slots /\ tables \in [Slots -> Table \union {NoTable}]
  BY <1>1, OwnedStored DEF SlotsInv, HeldInv, AccountsInv, TypeOK
<1>3. Claims[t] = tables[index[t]].id /\ Claims[t] # NoTable /\ Pending[t] = NoTable
  BY <1>1, ClaimPending DEF ClaimOf, Dropped, Creators
<1>4. Live' = {tab \in Live : tab.id # Claims[t]}
  <2>1. ASSUME NEW i \in Stored, i # index[t] PROVE tables[i].id # Claims[t]
    BY <1>2, <1>3, <2>1 DEF UniqueInv, NoDuplicates
  <2>2. Stored \subseteq Slots /\ last \in Slots
    BY DEF Stored
  <2>3. Live' = {tables[i] : i \in Stored \ {index[t]}}
    <3>1. Live' = {tables'[i] : i \in Stored \ {last}}
      BY DEF Live
    <3>2. CASE last = index[t]
      BY <1>2, <2>2, <3>1, <3>2
    <3>3. CASE last # index[t]
      <4>1. ASSUME NEW x \in Live' PROVE x \in {tables[i] : i \in Stored \ {index[t]}}
        BY <1>2, <2>2, <3>1, <3>3
      <4>2. ASSUME NEW i \in Stored \ {index[t]} PROVE tables[i] \in Live'
        <5>1. CASE i = last
          BY <1>2, <2>2, <3>1, <3>3, <5>1
        <5>2. CASE i # last
          BY <1>2, <2>2, <3>1, <5>2
        <5> QED
          BY <5>1, <5>2
      <4> QED
        BY <4>1, <4>2
    <3> QED
      BY <3>2, <3>3
  <2> QED
    BY <1>3, <2>1, <2>3 DEF Live
<1>5. ClaimOf(t)' = NoTable /\ PendingOf(t)' = NoTable
  BY DEF ClaimOf, PendingOf, HoldsPicked, Creators
<1>6. Claims' = [Claims EXCEPT ![t] = NoTable] /\ Pending' = Pending
  BY <1>3, <1>5, ViewStep, ViewsByThread
<1>7. Promise!Remove(t)
  BY <1>3, <1>4, <1>6 DEF Promise!Remove
<1> QED
  BY <1>7 DEF Promise!Next

LEMMA UpdateMaps ==
    ASSUME SlotsInv, UniqueInv, NEW t \in Threads, Frame(t), AlterComplete(t)
    PROVE  Promise!Next
<1>1. /\ pc[t] = "alterOpen" /\ pc'[t] = "idle" /\ index[t] \in Stored
      /\ table[t] \in Table /\ table[t].id = tables[index[t]].id
      /\ tables' = [tables EXCEPT ![index[t]] = table[t]]
      /\ Stored' = Stored
  BY AlterSlots
<1>2. Claims[t] = tables[index[t]].id /\ Claims[t] # NoTable /\ Pending[t] = NoTable
  BY <1>1, ClaimPending DEF ClaimOf, HoldsPicked, Creators
<1>3. PICK d \in Defs : table[t] = [id |-> Claims[t], def |-> d]
  BY <1>1, <1>2 DEF Table
<1>4. Live' = {tab \in Live : tab.id # Claims[t]} \union {table[t]}
  <2>1. ASSUME NEW i \in Stored, i # index[t] PROVE tables[i].id # Claims[t]
    BY <1>1, <1>2, <2>1 DEF UniqueInv, NoDuplicates
  <2>2. Stored \subseteq Slots /\ tables \in [Slots -> Table \union {NoTable}]
    BY DEF Stored, SlotsInv, HeldInv, AccountsInv, TypeOK
  <2>3. Live' = {tables[i] : i \in Stored \ {index[t]}} \union {table[t]}
    <3>1. Live' = {tables'[i] : i \in Stored}
      BY <1>1 DEF Live
    <3> QED
      BY <1>1, <2>2, <3>1
  <2> QED
    BY <1>2, <2>1, <2>3 DEF Live
<1>5. ClaimOf(t)' = NoTable /\ PendingOf(t)' = NoTable
  BY <1>1 DEF ClaimOf, PendingOf, HoldsPicked, Creators
<1>6. Claims' = [Claims EXCEPT ![t] = NoTable] /\ Pending' = Pending
  BY <1>2, <1>5, ViewStep, ViewsByThread
<1>7. Promise!Update(t, d)
  BY <1>2, <1>3, <1>4, <1>6 DEF Promise!Update
<1> QED
  BY <1>7 DEF Promise!Next

\* A thread that stops holding its reservation or claim gives it up; one that holds
\* none, or goes on holding the same, changes nothing.
LEMMA CancelMaps ==
    ASSUME SlotsInv, NEW t \in Threads, Frame(t), Live' = Live,
           pc'[t] \notin HoldsPicked \union Creators
    PROVE  [Promise!Next]_(Promise!vars)
<1>1. ClaimOf(t)' = NoTable /\ PendingOf(t)' = NoTable
  BY DEF ClaimOf, PendingOf
<1>2. /\ Claims' = [Claims EXCEPT ![t] = NoTable]
      /\ Pending' = [Pending EXCEPT ![t] = NoTable]
  BY <1>1, ViewStep
<1>3. CASE Claims[t] # NoTable \/ Pending[t] # NoTable
  <2>1. Promise!Cancel(t)
    BY <1>2, <1>3 DEF Promise!Cancel
  <2> QED
    BY <2>1 DEF Promise!Next
<1>4. CASE Claims[t] = NoTable /\ Pending[t] = NoTable
  <2>1. Claims' = Claims /\ Pending' = Pending
    BY <1>2, <1>4, ViewsByThread
  <2> QED
    BY <1>2, <2>1 DEF Promise!vars
<1> QED
  BY <1>3, <1>4

LEMMA StutterMaps ==
    ASSUME SlotsInv, NEW t \in Threads, Frame(t), Quiet,
           \/ pc[t] \in HoldsPicked /\ pc'[t] \in HoldsPicked /\ index'[t] = index[t]
           \/ pc[t] \in Creators /\ pc'[t] \in Creators /\ table'[t] = table[t]
    PROVE  UNCHANGED Promise!vars
<1>1. ClaimOf(t)' = ClaimOf(t) /\ PendingOf(t)' = PendingOf(t)
  BY DEF ClaimOf, PendingOf, HoldsPicked, Creators, Quiet
<1>2. Claims[t] = ClaimOf(t) /\ Pending[t] = PendingOf(t)
  BY ViewsByThread
<1>3. Claims' = Claims /\ Pending' = Pending
  BY <1>1, <1>2, ViewStep, ViewsByThread
<1> QED
  BY <1>3, LiveQuiet DEF Promise!vars

\* A thread comes to hold a slot by locking one with a table in it, and keeps it.
LEMMA PickedMoves ==
    ASSUME TypeOK, NEW t \in Threads, Step(t), pc'[t] \in HoldsPicked
    PROVE  \/ pc[t] \in HoldsPicked /\ index'[t] = index[t]
           \/ /\ pc[t] \in {"dropLock", "alterLock"} /\ pc'[t] \in {"dropSql", "alterOpen"}
              /\ Free(index[t]) /\ tables[index[t]] # NoTable /\ index'[t] = index[t]
<1> USE DEF TypeOK, HoldsPicked, store
<1>1. ASSUME NEW to \in {"dropLock", "alterLock", "readSlot"}, PickSlot(t, to) PROVE FALSE
  BY <1>1 DEF PickSlot
<1>2. CASE Create(t)
  <2>1. CASE CreateCheck(t) \/ ReserveTest(t) \/ Reserve(t) \/ ReserveUndo(t) \/ CreateSql(t)
             \/ CreateRead(t) \/ CreateTestEmpty(t)
    BY <2>1 DEF CreateCheck, ReserveTest, Reserve, ReserveUndo, CreateSql, CreateRead,
                CreateTestEmpty, Goto
  <2>2. CASE CreateLockLast(t) \/ CreateLockBeforeFirst(t) \/ CreateInsert(t)
    BY <2>2 DEF CreateLockLast, CreateLockBeforeFirst, CreateInsert, Finish
  <2> QED
    BY <1>2, <2>1, <2>2 DEF Create
<1>3. CASE Drop(t)
  <2>1. CASE DropCheck(t) \/ DropSql(t) \/ DropTest(t) \/ DropReadLast(t) \/ DropCount(t)
    BY <2>1 DEF DropCheck, DropSql, DropTest, DropReadLast, DropCount, Goto
  <2>2. CASE DropPick(t)
    BY <1>1, <2>2 DEF DropPick
  <2>3. CASE DropLock(t) \/ DropVacate(t)
    BY <2>3 DEF DropLock, DropVacate, Finish
  <2>4. CASE DropLockLast(t) \/ DropRelock(t)
    BY <2>4 DEF DropLockLast, DropRelock
  <2> QED
    BY <1>3, <2>1, <2>2, <2>3, <2>4 DEF Drop
<1>4. CASE Alter(t)
  BY <1>1, <1>4 DEF Alter, AlterPick, AlterLock, AlterComplete, Finish
<1>5. CASE Read(t) \/ Cancel(t)
  BY <1>1, <1>5 DEF Read, DmlCheck, CustomStart, ReadPick, ReadSlot, Cancel, Finish
<1> QED
  BY <1>2, <1>3, <1>4, <1>5 DEF Step

LEMMA StepMaps ==
    ASSUME SlotsInv, UniqueInv, Counted, DenseInv, NEW t \in Threads, Step(t)
    PROVE  [Promise!Next]_(Promise!vars)
<1>1. Frame(t) /\ TypeOK
  BY StepFrame DEF SlotsInv, HeldInv, AccountsInv
<1>2. CASE CreateInsert(t)
  BY <1>1, <1>2, InsertMaps
<1>3. CASE DropTest(t) /\ index[t] = tableCount - 1
  <2>1. /\ pc[t] = "dropTest" /\ pc'[t] = "dropCount" /\ index[t] \in Stored
        /\ tables' = tables /\ Stored' = Stored \ {index[t]}
    BY <1>1, <1>3, EmptySlots
  <2>2. tables' = [tables EXCEPT ![index[t]] = tables[index[t]]]
    BY <1>1, <2>1 DEF TypeOK
  <2> QED
    BY <1>1, <2>1, <2>2, RemoveMaps DEF Dropped
<1>4. CASE DropLockLast(t) /\ StillLast(next[t])
  <2>1. /\ pc[t] = "dropLockLast" /\ pc'[t] = "dropCount" /\ next[t] \in Stored
        /\ tables' = [tables EXCEPT ![index[t]] = tables[next[t]]]
        /\ Stored' = Stored \ {next[t]}
    BY <1>1, <1>4, MoveSlots
  <2> QED
    BY <1>1, <2>1, RemoveMaps DEF Dropped
<1>5. CASE AlterComplete(t)
  BY <1>1, <1>5, UpdateMaps
<1>6. CASE DropVacate(t)
  <2>1. /\ pc'[t] = "idle" /\ next[t] \notin Stored /\ Stored' = Stored
        /\ tables' = [tables EXCEPT ![next[t]] = NoTable]
    BY <1>1, <1>6, VacateSlots
  <2>2. Live' = Live
    BY <1>1, <2>1 DEF Live, Stored, TypeOK
  <2>3. pc'[t] \notin HoldsPicked \union Creators
    BY <2>1 DEF HoldsPicked, Creators
  <2> QED
    BY <1>1, <2>2, <2>3, CancelMaps
<1>7. CASE Quiet
  <2>1. CASE pc'[t] \notin HoldsPicked \union Creators
    BY <1>1, <1>7, <2>1, LiveQuiet, CancelMaps
  <2>2. CASE pc'[t] \in Creators
    <3>1. CASE pc[t] \in Creators /\ table'[t] = table[t]
      BY <1>1, <1>7, <2>2, <3>1, StutterMaps
    <3>2. CASE /\ pc[t] = "reserve" /\ pc'[t] = "createSql"
               /\ reservedSize' = reservedSize + 1 /\ reservedSize' <= MaxTables
               /\ \E id \in FreshIds, d \in Defs : table'[t] = [id |-> id, def |-> d]
      BY <1>1, <1>7, <3>2, ReserveMaps
    <3> QED
      BY <1>1, <2>2, <3>1, <3>2, CreatorMoves
  <2>3. CASE pc'[t] \in HoldsPicked
    <3>1. CASE pc[t] \in HoldsPicked /\ index'[t] = index[t]
      BY <1>1, <1>7, <2>3, <3>1, StutterMaps
    <3>2. CASE /\ pc[t] \in {"dropLock", "alterLock"} /\ pc'[t] \in {"dropSql", "alterOpen"}
               /\ Free(index[t]) /\ tables[index[t]] # NoTable /\ index'[t] = index[t]
      BY <1>1, <1>7, <3>2, ClaimMaps
    <3> QED
      BY <1>1, <2>3, <3>1, <3>2, PickedMoves
  <2> QED
    BY <2>1, <2>2, <2>3
<1> QED
  BY <1>1, <1>2, <1>3, <1>4, <1>5, <1>6, <1>7, QuietSlots

LEMMA InitMaps == Init => Promise!Init
<1> SUFFICES ASSUME Init PROVE Promise!Init
  OBVIOUS
<1>1. /\ Stored \subseteq 0 .. InitialTables - 1 /\ Stored \subseteq Slots
      /\ Live = {tables[i] : i \in Stored}
  BY ConstantsAssumption DEF Init, Stored, Slots, Live
<1>2. Live \in SUBSET [id : TableIds, def : Defs]
  BY <1>1 DEF Init, Stored, Table
<1>3. \A a, b \in Live : a.id = b.id => a = b
  BY <1>1 DEF Init
<1>4. /\ Claims = [t \in Threads |-> NoTable]
      /\ Pending = [t \in Threads |-> NoTable]
  BY ViewsByThread DEF Init, ClaimOf, PendingOf, HoldsPicked, Creators
<1> QED
  BY <1>2, <1>3, <1>4 DEF Promise!Init

LEMMA NextMaps == SlotsInv /\ UniqueInv /\ Counted /\ DenseInv /\ [Next]_vars
                    => [Promise!Next]_(Promise!vars)
<1> SUFFICES ASSUME SlotsInv, UniqueInv, Counted, DenseInv, [Next]_vars
             PROVE  [Promise!Next]_(Promise!vars)
  OBVIOUS
<1>1. ASSUME UNCHANGED <<store, pc, table, index, next>> PROVE UNCHANGED Promise!vars
  BY <1>1 DEF Promise!vars, Live, Claims, Pending, Stored, Vacating, Creating, Dropping,
              Altering, At, store
<1> QED
  BY <1>1, StepMaps DEF Next, Ended, TimeUp, vars, store

\* As long as the store does not become empty, the array, its locks and the two
\* counters behave as one set of tables on which every operation is atomic: a CREATE
\* reserves room and later adds its table, a DROP or an ALTER claims a table nobody
\* else has claimed and then removes or changes exactly that one.
THEOREM StoreIsTableSet == Spec /\ []NonEmpty => Promise!Spec
<1>1. Counted /\ HeldInv /\ [Next]_vars => Counted'
  BY CountedStep
<1>2. HeldInv /\ NonEmpty /\ DenseInv /\ [Next]_vars => DenseInv'
  BY DenseInvStep
<1> QED
  BY <1>1, <1>2, InitMaps, NextMaps, DenseInit, CountedInit, SlotsInvariant, UniqueInvariant,
     HeldInvariant, PTL DEF Spec, Promise!Spec

\* So it does in every configuration whose minimum covers the workers that may drop.
THEOREM StoreImplementsTableSet == ASSUME KeepsTables PROVE Spec => ImplementsTableSet
BY MinimumKept, StoreIsTableSet, PTL DEF ImplementsTableSet
=============================================================================

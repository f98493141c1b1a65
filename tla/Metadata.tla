------------------------------ MODULE Metadata ------------------------------
(***************************************************************************)
(* The table store shared by all worker threads of pstress                 *)
(* (libpstress/include/metadata.hpp, src/metadata.cpp) together with the   *)
(* way the actions of the workers call it (src/action/ddl.cpp, dml.cpp,    *)
(* custom.cpp).                                                            *)
(*                                                                         *)
(* Granularity.  Every element of `tables' is read and written only under  *)
(* the lock of its slot, so taking a lock, the accesses under it and its   *)
(* release commute with the steps of other threads; the atomic counters    *)
(* do not.  A step below therefore holds at most one access to a counter.  *)
(* The SQL statement of a DDL action is a step of its own (ALTER runs it   *)
(* in the step that writes the slot back, under the lock of the slot).     *)
(*                                                                         *)
(* Left out: movedToMap (written by DROP, read nowhere), everything a      *)
(* table holds except its identity and one abstract `def' that ALTER       *)
(* replaces, and the logs.                                                 *)
(***************************************************************************)
EXTENDS Integers, FiniteSets

CONSTANTS
    Threads,        \* the worker threads
    TableIds,       \* identities of tables (what shared_ptr<Table> points to)
    Defs,           \* abstract definitions (columns, access method) of a table
    NoTable,        \* nullptr
    NoThread,       \* owner of a free lock
    MaxTables,      \* limits::maximum_table_count
    MinTableCount,  \* DdlConfig::min_table_count
    MaxTableCount,  \* DdlConfig::max_table_count
    InitialTables,  \* tables made by create_random_tables before the workload
    Work,           \* per thread, the operations its actions perform
    RelockThrows    \* what std::shared_mutex::lock does when the caller already
                    \* owns the mutex: TRUE, it throws system_error (libstdc++
                    \* with glibc); FALSE, it waits for ever (libc++)

Operations == {"create", "drop", "alter", "dml", "custom", "cancel"}
Table == [id : TableIds, def : Defs]

ASSUME ConstantsAssumption ==
    /\ MaxTables \in Nat \ {0}
    /\ MinTableCount \in Nat
    /\ MaxTableCount \in Nat
    /\ InitialTables \in 0 .. MaxTables
    /\ Work \in [Threads -> SUBSET Operations]
    /\ RelockThrows \in BOOLEAN

ASSUME ThreadsAssumption == IsFiniteSet(Threads)

ASSUME NullAssumption == NoTable \notin Table \union TableIds /\ NoThread \notin Threads

Slots == 0 .. MaxTables - 1
npos == -1          \* 2^64 - 1, which is also what 0 - 1 is for a size_t

VARIABLES
    tables,         \* data_.tables
    owner,          \* data_.tableLocks: the thread that owns each slot
    tableCount,     \* data_.tableCount
    reservedSize,   \* data_.reservedSize
    pc,             \* where each thread is
    table,          \* the table_ of each thread's Reservation
    index,          \* its index_, or the slot a read is about to look at
    next,           \* nextIndex / lastIndex of complete(); the slot to vacate
    unwind,         \* why the Reservation is being completed by ~Reservation
    timeUp          \* duration_in_seconds has elapsed

store == <<tables, owner, tableCount, reservedSize>>
vars == <<tables, owner, tableCount, reservedSize, pc, table, index, next,
          unwind, timeUp>>

PCs == {"idle", "reserveTest", "reserve", "reserveUndo",
        "createSql", "createRead", "createTestEmpty", "createLockLast",
        "createInsert",
        "dropPick", "dropLock", "dropSql", "dropTest", "dropReadLast",
        "dropLockLast", "dropCount", "dropVacate",
        "alterLock", "alterOpen",
        "readPick", "readSlot",
        "crashed",       \* undefined behaviour ended the process
        "terminated"}    \* std::terminate ended the process

-----------------------------------------------------------------------------
(* Helpers *)

Free(i) == owner[i] = NoThread
At(states) == {t \in Threads : pc[t] \in states}
OwnedBy(t) == {i \in Slots : owner[i] = t}
Unlocked(t, released) ==
    [i \in Slots |-> IF owner[i] = t /\ i \in released THEN NoThread ELSE owner[i]]

\* Slots a DROP has emptied, or whose table it has moved away, and still owns.
Vacating == {next[t] : t \in At({"dropCount", "dropVacate"})}

\* A new table is none that the store or a reservation refers to.
FreshIds == TableIds \ ({tables[i].id : i \in {j \in Slots : tables[j] # NoTable}}
                        \union {table[t].id : t \in {u \in Threads : table[u] # NoTable}})

\* The recheck after locking what was the last slot: its table may have gone, or
\* another CREATE may have put one after it.
StillLast_NoSize(last) == tables[last] # NoTable
StillLast(last) == tables[last] # NoTable /\ last = tableCount - 1

Goto(t, from, to) == pc[t] = from /\ pc' = [pc EXCEPT ![t] = to]

\* The action's execute() returns: the Reservation and the locals are gone.
Finish(t) ==
    /\ pc' = [pc EXCEPT ![t] = "idle"]
    /\ table' = [table EXCEPT ![t] = NoTable]
    /\ index' = [index EXCEPT ![t] = npos]
    /\ next' = [next EXCEPT ![t] = npos]
    /\ unwind' = [unwind EXCEPT ![t] = "no"]

\* RandomWorker::run_thread starts another action only while time is left.
Starts(t, operation) == pc[t] = "idle" /\ ~timeUp /\ operation \in Work[t]

PickSlot_OffByOne(t, to) ==
    /\ \E i \in 0 .. tableCount : index' = [index EXCEPT ![t] = i]
    /\ pc' = [pc EXCEPT ![t] = to]
    /\ UNCHANGED <<store, table, next, unwind, timeUp>>

\* rand.random_number(0, size() - 1): for size() = 0 the distribution is (0, -1),
\* whose result may be any number; one outside the arrays ends the process.
PickSlot(t, to) ==
    /\ \/ \E i \in (IF tableCount = 0 THEN Slots ELSE 0 .. tableCount - 1) :
            /\ index' = [index EXCEPT ![t] = i]
            /\ pc' = [pc EXCEPT ![t] = to]
       \/ /\ tableCount = 0
          /\ pc' = [pc EXCEPT ![t] = "crashed"]
          /\ UNCHANGED index
    /\ UNCHANGED <<store, table, next, unwind, timeUp>>

-----------------------------------------------------------------------------
(* Initial state: create_random_tables has run on one thread and nothing is *)
(* in flight.                                                               *)

Init ==
    /\ tables \in [Slots -> Table \union {NoTable}]
    /\ \A i \in Slots : tables[i] # NoTable <=> i < InitialTables
    /\ \A i, j \in 0 .. InitialTables - 1 : i # j => tables[i].id # tables[j].id
    /\ owner = [i \in Slots |-> NoThread]
    /\ tableCount = InitialTables
    /\ reservedSize = InitialTables
    /\ pc = [t \in Threads |-> "idle"]
    /\ table = [t \in Threads |-> NoTable]
    /\ index = [t \in Threads |-> npos]
    /\ next = [t \in Threads |-> npos]
    /\ unwind = [t \in Threads |-> "no"]
    /\ timeUp = FALSE

-----------------------------------------------------------------------------
(* CREATE TABLE *)

\* CreateTable::execute goes on only below max_table_count.
CreateCheck(t) ==
    /\ Starts(t, "create")
    /\ tableCount < MaxTableCount
    /\ pc' = [pc EXCEPT ![t] = "reserveTest"]
    /\ UNCHANGED <<store, table, index, next, unwind, timeUp>>

\* createTable() without a slot to spare returns a Reservation that is not open;
\* CreateTable::execute then writes through its null table().
ReserveTest(t) ==
    /\ pc[t] = "reserveTest"
    /\ pc' = [pc EXCEPT ![t] = IF reservedSize < MaxTables THEN "reserve" ELSE "crashed"]
    /\ UNCHANGED <<store, table, index, next, unwind, timeUp>>

Reserve_NoUndo(t) ==
    /\ Goto(t, "reserve", "createSql")
    /\ reservedSize' = reservedSize + 1
    /\ \E id \in FreshIds, d \in Defs : table' = [table EXCEPT ![t] = [id |-> id, def |-> d]]
    /\ UNCHANGED <<tables, owner, tableCount, index, next, unwind, timeUp>>

\* ++reservedSize, taken back when another CREATE got the last slot first.
Reserve(t) ==
    /\ pc[t] = "reserve"
    /\ reservedSize' = reservedSize + 1
    /\ IF reservedSize' > MaxTables
       THEN /\ pc' = [pc EXCEPT ![t] = "reserveUndo"]
            /\ UNCHANGED table
       ELSE /\ pc' = [pc EXCEPT ![t] = "createSql"]
            /\ \E id \in FreshIds, d \in Defs :
                  table' = [table EXCEPT ![t] = [id |-> id, def |-> d]]
    /\ UNCHANGED <<tables, owner, tableCount, index, next, unwind, timeUp>>

ReserveUndo(t) ==
    /\ Goto(t, "reserveUndo", "crashed")
    /\ reservedSize' = reservedSize - 1
    /\ UNCHANGED <<tables, owner, tableCount, table, index, next, unwind, timeUp>>

\* The statement succeeds and complete() is called, or it fails and ~Reservation
\* calls complete(): either way the table enters the store.
CreateSql(t) ==
    /\ Goto(t, "createSql", "createRead")
    /\ UNCHANGED <<store, table, index, next, unwind, timeUp>>

CreateRead(t) ==
    /\ Goto(t, "createRead", "createTestEmpty")
    /\ next' = [next EXCEPT ![t] = tableCount]
    /\ UNCHANGED <<store, table, index, unwind, timeUp>>

\* The second read of size(): an empty store has no last slot to lock.
CreateTestEmpty(t) ==
    /\ pc[t] = "createTestEmpty"
    /\ pc' = [pc EXCEPT ![t] = IF tableCount = 0 THEN "createInsert" ELSE "createLockLast"]
    /\ UNCHANGED <<store, table, index, next, unwind, timeUp>>

CreateLockLast_KeepsLock(t) ==
    LET last == next[t] - 1 IN
    /\ pc[t] = "createLockLast"
    /\ last \in Slots
    /\ Free(last)
    /\ owner' = [owner EXCEPT ![last] = t]
    /\ pc' = [pc EXCEPT ![t] = IF StillLast(last) THEN "createInsert" ELSE "createRead"]
    /\ UNCHANGED <<tables, tableCount, reservedSize, table, index, next, unwind, timeUp>>

\* Lock the last slot and see whether it still is the last one; if not, release
\* it and start again.
CreateLockLast(t) ==
    LET last == next[t] - 1 IN
    /\ pc[t] = "createLockLast"
    /\ last \in Slots
    /\ Free(last)
    /\ IF StillLast(last)
       THEN /\ owner' = [owner EXCEPT ![last] = t]
            /\ pc' = [pc EXCEPT ![t] = "createInsert"]
            /\ UNCHANGED next
       ELSE /\ pc' = [pc EXCEPT ![t] = "createRead"]
            /\ next' = [next EXCEPT ![t] = npos]
            /\ UNCHANGED owner
    /\ UNCHANGED <<tables, tableCount, reservedSize, table, index, unwind, timeUp>>

\* nextIndex was read as 0 and the store is not empty any more: lastIndex is
\* 2^64 - 1, and what lies before tableLocks[0] and tables[0] is used as a mutex
\* and a table.  It crashes, or it seems to be locked and null or not null.
CreateLockBeforeFirst(t) ==
    /\ pc[t] = "createLockLast"
    /\ next[t] = 0
    /\ \/ /\ pc' = [pc EXCEPT ![t] = "crashed"]
          /\ UNCHANGED next
       \/ /\ pc' = [pc EXCEPT ![t] = "createRead"]
          /\ next' = [next EXCEPT ![t] = npos]
       \/ /\ tableCount = 0
          /\ pc' = [pc EXCEPT ![t] = "createInsert"]
          /\ UNCHANGED next
    /\ UNCHANGED <<store, table, index, unwind, timeUp>>

\* Lock the slot after the last one, write it, count it, release both locks.
CreateInsert(t) ==
    /\ pc[t] = "createInsert"
    /\ next[t] \in Slots
    /\ Free(next[t])
    /\ tables' = [tables EXCEPT ![next[t]] = table[t]]
    /\ tableCount' = tableCount + 1
    /\ owner' = Unlocked(t, Slots)
    /\ Finish(t)
    /\ UNCHANGED <<reservedSize, timeUp>>

Cancel_FreesAny(t) ==
    /\ "cancel" \in Work[t]
    /\ pc[t] \in {"createSql", "dropSql", "alterOpen"}
    /\ reservedSize' = reservedSize - 1
    /\ owner' = Unlocked(t, Slots)
    /\ Finish(t)
    /\ UNCHANGED <<tables, tableCount, timeUp>>

\* The caller gives a reservation up: the slot of a CREATE is free again, the
\* lock of a DROP or ALTER is released.
Cancel(t) ==
    /\ "cancel" \in Work[t]
    /\ pc[t] \in {"createSql", "dropSql", "alterOpen"}
    /\ reservedSize' = IF pc[t] = "createSql" THEN reservedSize - 1 ELSE reservedSize
    /\ owner' = Unlocked(t, Slots)
    /\ Finish(t)
    /\ UNCHANGED <<tables, tableCount, timeUp>>

-----------------------------------------------------------------------------
(* DROP TABLE *)

DropCheck_AtLimit(t) ==
    /\ Starts(t, "drop")
    /\ tableCount >= MinTableCount
    /\ pc' = [pc EXCEPT ![t] = "dropPick"]
    /\ UNCHANGED <<store, table, index, next, unwind, timeUp>>

\* DropTable::execute goes on only above min_table_count.
DropCheck(t) ==
    /\ Starts(t, "drop")
    /\ tableCount > MinTableCount
    /\ pc' = [pc EXCEPT ![t] = "dropPick"]
    /\ UNCHANGED <<store, table, index, next, unwind, timeUp>>

DropPick(t) == pc[t] = "dropPick" /\ PickSlot(t, "dropLock")

\* dropTable(idx): the lock stays with the Reservation unless the slot is empty.
DropLock(t) ==
    /\ pc[t] = "dropLock"
    /\ Free(index[t])
    /\ IF tables[index[t]] = NoTable
       THEN Finish(t) /\ UNCHANGED owner
       ELSE /\ owner' = [owner EXCEPT ![index[t]] = t]
            /\ table' = [table EXCEPT ![t] = tables[index[t]]]
            /\ pc' = [pc EXCEPT ![t] = "dropSql"]
            /\ UNCHANGED <<index, next, unwind>>
    /\ UNCHANGED <<tables, tableCount, reservedSize, timeUp>>

\* A statement that fails throws, and ~Reservation completes the DROP.
DropSql(t) ==
    /\ Goto(t, "dropSql", "dropTest")
    /\ \E outcome \in {"no", "sql"} : unwind' = [unwind EXCEPT ![t] = outcome]
    /\ UNCHANGED <<store, table, index, next, timeUp>>

\* First read of size(): if the slot is the last one it only has to be emptied.
DropTest(t) ==
    /\ pc[t] = "dropTest"
    /\ IF index[t] = tableCount - 1
       THEN /\ pc' = [pc EXCEPT ![t] = "dropCount"]
            /\ next' = [next EXCEPT ![t] = index[t]]
       ELSE /\ pc' = [pc EXCEPT ![t] = "dropReadLast"]
            /\ UNCHANGED next
    /\ UNCHANGED <<store, table, index, unwind, timeUp>>

\* Second read of size(): the slot to lock.
DropReadLast(t) ==
    /\ Goto(t, "dropReadLast", "dropLockLast")
    /\ next' = [next EXCEPT ![t] = tableCount - 1]
    /\ UNCHANGED <<store, table, index, unwind, timeUp>>

DropLockLast_NoLock(t) ==
    LET last == next[t] IN
    /\ Goto(t, "dropLockLast", "dropCount")
    /\ tables' = [tables EXCEPT ![index[t]] = tables[last]]
    /\ owner' = [owner EXCEPT ![index[t]] = NoThread]
    /\ UNCHANGED <<tableCount, reservedSize, table, index, next, unwind, timeUp>>

\* Lock the last slot; if it still is the last, its table moves to the dropped
\* slot, which is released.
DropLockLast(t) ==
    LET last == next[t] IN
    /\ pc[t] = "dropLockLast"
    /\ last \in Slots
    /\ Free(last)
    /\ IF StillLast(last)
       THEN /\ tables' = [tables EXCEPT ![index[t]] = tables[last]]
            /\ owner' = [owner EXCEPT ![index[t]] = NoThread, ![last] = t]
            /\ pc' = [pc EXCEPT ![t] = "dropCount"]
            /\ UNCHANGED next
       ELSE /\ pc' = [pc EXCEPT ![t] = "dropTest"]
            /\ next' = [next EXCEPT ![t] = npos]
            /\ UNCHANGED <<tables, owner>>
    /\ UNCHANGED <<tableCount, reservedSize, table, index, unwind, timeUp>>

DropRelock_Resumes(t) ==
    /\ RelockThrows
    /\ pc[t] = "dropLockLast"
    /\ next[t] = index[t]
    /\ pc' = [pc EXCEPT ![t] = IF unwind[t] = "no" THEN "dropLockLast" ELSE "terminated"]
    /\ unwind' = [unwind EXCEPT ![t] = IF @ = "no" THEN "relock" ELSE @]
    /\ UNCHANGED <<store, table, index, next, timeUp>>

\* The last slot is the one this thread has locked already.  If the mutex throws,
\* ~Reservation completes again; out of ~Reservation it is std::terminate.
DropRelock(t) ==
    /\ RelockThrows
    /\ pc[t] = "dropLockLast"
    /\ next[t] = index[t]
    /\ IF unwind[t] = "no"
       THEN /\ pc' = [pc EXCEPT ![t] = "dropTest"]
            /\ next' = [next EXCEPT ![t] = npos]
            /\ unwind' = [unwind EXCEPT ![t] = "relock"]
       ELSE /\ pc' = [pc EXCEPT ![t] = "terminated"]
            /\ UNCHANGED <<next, unwind>>
    /\ UNCHANGED <<store, table, index, timeUp>>

\* tableCount--, with the lock of the last slot held.
DropCount(t) ==
    /\ Goto(t, "dropCount", "dropVacate")
    /\ tableCount' = tableCount - 1
    /\ UNCHANGED <<tables, owner, reservedSize, table, index, next, unwind, timeUp>>

DropVacate_KeepsTable(t) ==
    /\ pc[t] = "dropVacate"
    /\ reservedSize' = reservedSize - 1
    /\ owner' = Unlocked(t, {next[t]})
    /\ Finish(t)
    /\ UNCHANGED <<tables, tableCount, timeUp>>

DropVacate_KeepsSlot(t) ==
    /\ pc[t] = "dropVacate"
    /\ tables' = [tables EXCEPT ![next[t]] = NoTable]
    /\ owner' = Unlocked(t, {next[t]})
    /\ Finish(t)
    /\ UNCHANGED <<tableCount, reservedSize, timeUp>>

\* reservedSize--, empty the slot and release it.
DropVacate(t) ==
    /\ pc[t] = "dropVacate"
    /\ reservedSize' = reservedSize - 1
    /\ tables' = [tables EXCEPT ![next[t]] = NoTable]
    /\ owner' = Unlocked(t, {next[t]})
    /\ Finish(t)
    /\ UNCHANGED <<tableCount, timeUp>>

-----------------------------------------------------------------------------
(* ALTER TABLE *)

\* AlterTable::execute picks a slot without looking at the size first.
AlterPick(t) == Starts(t, "alter") /\ PickSlot(t, "alterLock")

\* alterTable(idx) hands out a copy; the action changes the copy before it runs
\* the statement.
AlterLock(t) ==
    /\ pc[t] = "alterLock"
    /\ Free(index[t])
    /\ IF tables[index[t]] = NoTable
       THEN Finish(t) /\ UNCHANGED owner
       ELSE /\ owner' = [owner EXCEPT ![index[t]] = t]
            /\ \E d \in Defs : table' = [table EXCEPT ![t] = [tables[index[t]] EXCEPT !.def = d]]
            /\ pc' = [pc EXCEPT ![t] = "alterOpen"]
            /\ UNCHANGED <<index, next, unwind>>
    /\ UNCHANGED <<tables, tableCount, reservedSize, timeUp>>

\* The statement runs; whether it succeeds or not, the copy is written back.
AlterComplete(t) ==
    /\ pc[t] = "alterOpen"
    /\ tables' = [tables EXCEPT ![index[t]] = table[t]]
    /\ owner' = Unlocked(t, {index[t]})
    /\ Finish(t)
    /\ UNCHANGED <<tableCount, reservedSize, timeUp>>

-----------------------------------------------------------------------------
(* INSERT, UPDATE, DELETE and custom statements: they look for any table *)

DmlCheck(t) ==
    /\ Starts(t, "dml")
    /\ tableCount # 0
    /\ pc' = [pc EXCEPT ![t] = "readPick"]
    /\ UNCHANGED <<store, table, index, next, unwind, timeUp>>

\* A custom statement looks for a table whatever the size is.
CustomStart(t) ==
    /\ Starts(t, "custom")
    /\ pc' = [pc EXCEPT ![t] = "readPick"]
    /\ UNCHANGED <<store, table, index, next, unwind, timeUp>>

ReadPick(t) == pc[t] = "readPick" /\ PickSlot(t, "readSlot")

\* operator[] under the shared lock; nullptr makes the caller pick again.
ReadSlot(t) ==
    /\ pc[t] = "readSlot"
    /\ Free(index[t])
    /\ IF tables[index[t]] = NoTable
       THEN /\ pc' = [pc EXCEPT ![t] = "readPick"]
            /\ index' = [index EXCEPT ![t] = npos]
            /\ UNCHANGED <<table, next, unwind>>
       ELSE Finish(t)
    /\ UNCHANGED <<store, timeUp>>

-----------------------------------------------------------------------------
(* The specification *)

ProcessAlive == \A t \in Threads : pc[t] \notin {"crashed", "terminated"}
Joined == timeUp /\ \A t \in Threads : pc[t] = "idle"

Create(t) ==
    \/ CreateCheck(t) \/ ReserveTest(t) \/ Reserve(t) \/ ReserveUndo(t)
    \/ CreateSql(t) \/ CreateRead(t) \/ CreateTestEmpty(t) \/ CreateLockLast(t)
    \/ CreateLockBeforeFirst(t) \/ CreateInsert(t)

Drop(t) ==
    \/ DropCheck(t) \/ DropPick(t) \/ DropLock(t) \/ DropSql(t) \/ DropTest(t)
    \/ DropReadLast(t) \/ DropLockLast(t) \/ DropRelock(t) \/ DropCount(t)
    \/ DropVacate(t)

Alter(t) == AlterPick(t) \/ AlterLock(t) \/ AlterComplete(t)

Read(t) == DmlCheck(t) \/ CustomStart(t) \/ ReadPick(t) \/ ReadSlot(t)

Step(t) == ProcessAlive /\ (Create(t) \/ Drop(t) \/ Alter(t) \/ Read(t) \/ Cancel(t))

\* The duration elapses; workers stop at their next look at the clock.
TimeUp ==
    /\ ProcessAlive
    /\ ~timeUp
    /\ timeUp' = TRUE
    /\ UNCHANGED <<store, pc, table, index, next, unwind>>

\* Nothing happens once the workers are joined or the process has ended.
Ended == (Joined \/ ~ProcessAlive) /\ UNCHANGED vars

Next == (\E t \in Threads : Step(t)) \/ TimeUp \/ Ended

Spec == Init /\ [][Next]_vars

\* A thread in the middle of an operation is scheduled whenever it can run, and
\* the duration elapses.  Nothing makes a worker begin another operation.
Continue(t) == pc[t] # "idle" /\ Step(t)
Fairness == WF_vars(TimeUp) /\ \A t \in Threads : WF_vars(Continue(t))
FairSpec == Spec /\ Fairness

-----------------------------------------------------------------------------
(* Properties *)

\* Every variable keeps its type.
TypeOK ==
    /\ tables \in [Slots -> Table \union {NoTable}]
    /\ owner \in [Slots -> Threads \union {NoThread}]
    /\ tableCount \in Int
    /\ reservedSize \in Int
    /\ pc \in [Threads -> PCs]
    /\ table \in [Threads -> Table \union {NoTable}]
    /\ index \in [Threads -> Slots \union {npos}]
    /\ next \in [Threads -> Int]
    /\ unwind \in [Threads -> {"no", "sql", "relock"}]
    /\ timeUp \in BOOLEAN

\* Whoever can lock a slot finds a table in it exactly when the slot is below
\* size(): CREATE and DROP leave no hole and no table past the end, whatever
\* order they complete in.
NoHoles == \A i \in Slots : Free(i) => (tables[i] # NoTable <=> i < tableCount)

\* No table is in two slots, save for the slot a DROP is about to empty after
\* moving its table, and no reservation for a new table is in the store yet.
Creating == At({"createSql", "createRead", "createTestEmpty", "createLockLast",
                "createInsert"})
Stored == {i \in Slots \ Vacating : tables[i] # NoTable}
NoDuplicates ==
    /\ \A i, j \in Stored : tables[i].id = tables[j].id => i = j
    /\ \A t \in Creating, i \in Stored : tables[i].id # table[t].id

\* While a DROP or an ALTER runs its statement and completes, its slot keeps the
\* table it started from: no move or write of another thread gets in between.
Dropping == At({"dropSql", "dropTest", "dropReadLast", "dropLockLast"})
Altering == At({"alterOpen"})
HeldTableStays ==
    /\ \A t \in Dropping : owner[index[t]] = t /\ tables[index[t]] = table[t]
    /\ \A t \in Altering : /\ owner[index[t]] = t
                           /\ tables[index[t]] # NoTable
                           /\ tables[index[t]].id = table[t].id

\* reservedSize counts the tables, the CREATEs in flight, the overshoots of
\* createTable() still to be undone and the DROPs between their two decrements:
\* a slot is reserved for every CREATE that will insert, and never leaks.
Accounting ==
    ProcessAlive =>
        /\ reservedSize = tableCount + Cardinality(Creating)
                          + Cardinality(At({"reserveUndo", "dropVacate"}))
        /\ tableCount + Cardinality(Creating) <= MaxTables

\* The counters are unsigned: none is ever decremented below zero, not even by
\* DROPs on a store that CREATEs from empty have left with holes.
NoWrapAround == tableCount >= 0 /\ reservedSize >= 0

\* No action leaves the arrays, writes through the null table of a refused
\* reservation or draws a slot from an empty range.
NoUndefinedBehaviour ==
    \A t \in Threads :
        /\ pc[t] # "crashed"
        /\ pc[t] = "createInsert" => next[t] \in Slots
        /\ pc[t] \in {"createLockLast", "dropLockLast"} => next[t] <= MaxTables

\* A thread that waits for a slot waits for one above every slot it holds, so no
\* cycle of waiting threads can form; the one exception is DROP locking the slot
\* it holds itself.
WaitsFor(t) == CASE pc[t] \in {"dropLock", "alterLock", "readSlot"} -> {index[t]}
                 [] pc[t] \in {"dropLockLast", "createInsert"} -> {next[t]}
                 [] pc[t] = "createLockLast" -> {next[t] - 1}
                 [] OTHER -> {}
LockOrder ==
    \A t \in Threads : \A wanted \in WaitsFor(t) : \A held \in OwnedBy(t) :
        held < wanted \/ (pc[t] = "dropLockLast" /\ held = wanted)

\* DROP never waits for the lock it holds (metadata.hpp:97-99: "two DROPs can't
\* deadlock").
NoSelfDeadlock == \A t \in Threads : pc[t] = "dropLockLast" => owner[next[t]] # t

\* An exception from locking a slot twice is absorbed: the completion ~Reservation
\* repeats finds its slot to be the last.  Only a DROP whose statement failed
\* completes inside ~Reservation the first time and takes the process down.
RelockAbsorbed == \A t \in Threads : pc[t] = "terminated" => unwind[t] = "sql"

\* The unlocked tests of size() against the configured limits are late by at
\* most one operation per thread.
SizeBounds ==
    LET Can(operation) == {t \in Threads : operation \in Work[t]} IN
    /\ tableCount >= MinTableCount + 1 - Cardinality(Can("drop"))
    /\ tableCount <= MaxTableCount - 1 + Cardinality(Can("create"))

\* When the duration has elapsed, every worker comes to the end of its operation
\* and wait_completion() returns, unless the process has been terminated.
WaitCompletionReturns == <>(Joined \/ ~ProcessAlive)

-----------------------------------------------------------------------------
(* What the store promises: see TableSet. *)

Live == {tables[i] : i \in Stored}
Claims == [t \in Threads |-> IF t \in Dropping \union Altering
                             THEN tables[index[t]].id ELSE NoTable]
Pending == [t \in Threads |-> IF t \in Creating THEN table[t].id ELSE NoTable]

Promise == INSTANCE TableSet WITH
    Clients <- Threads, Ids <- TableIds, NoId <- NoTable, Capacity <- MaxTables,
    live <- Live, claimed <- Claims, pending <- Pending

\* The arrays, locks and counters together behave as one set of tables on which
\* whole operations act atomically and with exclusive claims.
ImplementsTableSet == Promise!Spec
====

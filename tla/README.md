# TLA+ models of pstress

pstress runs SQL workloads with many worker threads against a database.  A scenario,
a Lua script, starts a server, creates a workload, runs it, and restarts or kills the
server between runs.  pstress keeps its own idea of the tables that exist - the
*metadata* - in an array shared by all workers, which every DDL action changes while
the others read, change and drop.  This directory holds TLA+ models of pstress, the
TLC runs that check them, and proofs, checked by TLAPS, of the safety properties of
every one of them and of the two refinements.  Paths below are relative to the repository root;
`metadata.cpp` is `libpstress/src/metadata.cpp`, and so on.

## 1. The system

| Component | State | Operations | Shared with | What makes it correct | Model |
|---|---|---|---|---|---|
| **Metadata store** (`metadata.hpp`, `metadata.cpp`) | `tables[]`, one lock per slot, the atomics `tableCount` and `reservedSize` | `createTable`, `alterTable`, `dropTable`, `operator[]`, `size`; `complete`, `cancel`, `~Reservation` | every worker | dense array; no update lost, no table twice; accounts agree; no deadlock | `Metadata`, `TableSet` |
| **DDL actions** (`action/ddl.cpp`) | the action's `Reservation`, the clauses of an ALTER | `CreateTable`, `DropTable`, `AlterTable::execute` | store, connection | limits kept; metadata follows the database | `Metadata`, `DdlDatabase`, `Columns` |
| **DML actions** (`action/dml.cpp`) | - | `InsertData`, `DeleteData`, `UpdateOneRow` | store, connection | no slot outside the array; statements fit the table | `Metadata`, `Columns` |
| **Custom SQL** (`action/custom.cpp`) | - | `CustomSql::execute` | store, connection | a table is found if there is one | `Metadata` (the search) |
| **Action registry** (`action/action_registry.cpp`) | vector of weighted factories, a mutex | `insert`, `remove`, `lookupByWeightOffset`, `totalWeight`, `getReference`, copies | Lua thread, workers | odds are the weights; a drawn offset finds a live action | `ActionRegistry`, `Workload` |
| **Workers, workloads** (`workload.cpp`) | thread, connection, statistics, registry | `run`, `wait_completion`, `reconnect_workers` | Lua thread, workers | one thread per worker; joining returns; nothing replaced under a running thread | `Workload` |
| **Postgres process** (`process/postgres.cpp`, `process.hpp`) | child processes, logger threads, pipes | `start`, `stop`, `kill9`, `restart`, helper commands | logger threads, operating system | never two servers, none abandoned, no stale signal; calls return | `Postgres`, `BackgroundProcess` |
| **SQL connections** (`sql_variant/*`) | the session | `executeQuery`, `reconnect`, `SqlFactory::connect` | worker, server | a failed statement or lost session is an error | `DdlDatabase`, `Workload` (outcomes) |
| **Bit flags, random numbers** (`bitflags.hpp`, `random.cpp`) | - | `All`, `AllSet`; `random_number` | actions | - | nondeterministic choices; the width of the draw in `ActionRegistry` |
| **Lua front end, scenarios** (`pstress/src`, `scenarios/`) | - | bindings, scripts | everything | the order of calls | `Script` of `Workload`, callers of `Postgres` |

`PROJECT.json` lists, line by line, what is hard to test in this code and the
properties that cover it.  The hard behaviours are:

- *in the store*: every slot has its own lock, the end of the array moves with every
  CREATE and DROP, `size()` is read without a lock and tested again under one, a DROP
  moves somebody else's table, and an exception in the middle makes `~Reservation`
  complete the operation a second time;
- *between the store and the database*: a statement may fail, or take effect and lose
  its answer; the metadata is published either way; statements are built from a
  snapshot that an ALTER may outdate;
- *between the script and the workers*: the script edits registries, clears
  statistics and replaces connections while worker threads may run;
- *between a caller and a logger thread*: both wait for the same child process.

## 2. Modules

| Module | What it is |
|---|---|
| `TableSet.tla` | Abstract specification: a bounded set of tables; clients reserve room and insert, claim a table and change or drop it.  No slots, locks or counters. |
| `Metadata.tla` | The store and the way actions call it, one action per step of the code; implements `TableSet`. |
| `Server.tla` | Abstract specification: a server is up or down, and each of its lives serves the sessions opened in it. |
| `BackgroundProcess.tla` | A child process, its pipe, and the thread that logs its output. |
| `Postgres.tla` | Starting, polling, signalling and awaiting a server and its helper commands; extends `BackgroundProcess`, implements `Server`. |
| `DdlDatabase.tla` | CREATE and DROP against the abstract store (`TableSet`) and the abstract server (`Server`): metadata and database beside each other. |
| `Columns.tla` | The columns of one table in metadata and database: ALTER, INSERT, UPDATE, DELETE. |
| `ActionRegistry.tla` | The registry as operators on a sequence of factories. |
| `Workload.tla` | Worker threads under a scenario script and a server (`Server`); extends `ActionRegistry`. |
| `MetadataProofs.tla` | Theorems about `Metadata`: types, accounts, ownership, no holes, order of locks. |
| `MetadataBoundsProofs.tla` | ... its counters and limits, and when no behaviour is undefined; extends the former. |
| `MetadataTableSetProofs.tla` | ... tables are unique, and the store implements `TableSet`; extends the former. |
| `DdlDatabaseProofs.tla`, `ColumnsProofs.tla`, `PostgresProofs.tla`, `ActionRegistryProofs.tla`, `WorkloadProofs.tla` | Theorems about the module each is named after. |
| `MC*.tla`, `MC*_*.cfg` | Instances for TLC. |

    Metadata --implements--> TableSet <--uses-- DdlDatabase --uses--> Server
    Postgres --implements--> Server <--uses-- Workload

So `DdlDatabase` and `Workload` build on what `Metadata` and `Postgres` have been shown
to do, without their steps.  `TableSet` is shown for a store that never empties (runs
`ddl`, `three`); `DdlDatabase` lets it empty, which is what the store would do without
finding 1.  Definitions named `X_Something` are variants of `X` with a plausible slip;
each property is checked to fail for one of them.

### Metadata: state and code

| Variable | Code |
|---|---|
| `tables`, `owner`, `tableCount`, `reservedSize` | `InternalData::tables`, `tableLocks`, `tableCount`, `reservedSize` |
| `pc` | where the thread is in `execute()` and `Reservation::complete()` |
| `table`, `index` | `table_` and `index_` of the `Reservation` (`index` also: the slot a read has drawn) |
| `next` | the locals `nextIndex` and `lastIndex` of `complete()`; after the recheck of a DROP, the slot it empties |
| `unwind` | whether `complete()` runs normally, in `~Reservation` because the statement failed, or there because locking a slot twice threw |
| `timeUp` | `duration_in_seconds` has elapsed |

A table is an identity and an abstract definition `def`, which ALTER replaces.

*CREATE*: `CreateCheck` (size against `max_table_count`), `ReserveTest`, `Reserve`,
`ReserveUndo` (`createTable`: test, `++`, test, `--`), `CreateSql`, then the loop of
`complete()`: `CreateRead`, `CreateTestEmpty` (its two reads of `size()`),
`CreateLockLast` (lock the last slot, recheck), `CreateInsert` (lock the next slot,
write, count, unlock).  `CreateLockBeforeFirst` is what happens when the first read
gave 0 and the second did not: `lastIndex` is 2^64-1.

*DROP*: `DropCheck`, `DropPick`, `DropLock`, `DropSql`, then `DropTest` (first read
of `size()`), `DropReadLast` (second read), `DropLockLast` (lock, recheck, move),
`DropCount` (`tableCount--`), `DropVacate` (`reservedSize--`, empty, unlock).
`DropRelock` is the case where the slot to lock is the one the thread holds already.

*ALTER*: `AlterPick`, `AlterLock`, `AlterComplete`.  *DML and custom SQL*:
`DmlCheck` or `CustomStart`, `ReadPick`, `ReadSlot`.  `Cancel` is
`Reservation::cancel`, at the points where a caller has the reservation open.

**Granularity.**  Every `tables[i]` is accessed only under the lock of slot `i`.
Taking a lock commutes to the right of other threads' steps, releasing one to the
left, and accesses under it both ways; the two atomics commute with nothing.  So a
step may contain lock, protected accesses, *one* access to an atomic, and unlock;
every second access to an atomic starts a step of its own.  That is why the two
reads of `size()` in `complete()` are two steps, and so are the two decrements.  The
sets of owned slots at step boundaries are those of the code.

**Undefined behaviour** is an outcome: a slot drawn from the empty range `0 .. -1`
may be any slot or the end of the process (`pc = "crashed"`); `tableLocks[-1]` may
crash, look locked and null, or look locked and occupied; writing through the null
`table()` of a refused reservation ends the process.

**A failed statement** has the same effect on the store as one that succeeds,
because `maybeThrow()` leaves the reservation open and `~Reservation` completes it.
Only DROP has to remember (`unwind`), because a second exception inside the
destructor is `std::terminate`.

**The double lock.**  `std::shared_mutex::lock` by the thread that already owns the
mutex is undefined by the standard.  `RelockThrows` selects what the library does:
libstdc++ over glibc reports the deadlock and throws (TRUE), libc++ - which
`metadata.hpp` recommends - waits for ever (FALSE).

Simplified: the identity and definition of a new table are chosen at `Reserve` (the
code fills the table in before the statement runs; nobody else sees it until the
insertion); ALTER's new definition is chosen when it takes the lock.

### DdlDatabase

`live`, `claimed`, `pending` are the variables of `TableSet`; `database` says which
table's CREATE made the table of each name; `session` is the life of the server a
worker's connection belongs to.  `Create`/`Drop` are the beginning of `execute()` up to
the statement (size test, reservation, name), `CreateSql`/`DropSql` the statement's
effect, `CreateReply`/`DropReply` its answer as `PostgreSQL::executeQuery` and
`LoggedSQL` deliver it (an error becomes a result and `maybeThrow` throws, a lost
session throws at once), `CreateEnd`/`DropEnd` the completion, by `complete()` or
`~Reservation`.  Effect and answer are two steps because the server can be lost between
them.  `ServerFault` stops, starts or crashes it; `Reconnect` is `reconnect_workers()`.
Names are drawn at random in the code, so they may collide.

### Columns

`columns` is `table->columns` as published, `database` what the server has.  One ALTER
at a time holds the slot (`owner`): `Alter` takes the lock and the copy (`draft`),
`AddClause` is a round of the loop over `BitFlags::AllSet().All()` with `addColumn`,
`dropColumn`, `changeColumn` and `changeAccessMethod`, `EndOfClauses` appends the new
columns, `AlterSql` runs the statement, `Publish` completes the reservation.
`clauses` holds the subcommands of each kind in their order: the server sorts them by
kind anyway - it drops first (`Remaining`, `Kept`), then changes types (`Retyped`),
then adds - so the order between kinds tells nothing apart.  These rules and `IsValid`
are PostgreSQL's, external to the repository.
`Snapshot` is the shared-locked copy DML takes, `DmlSql` its statement, `DmlThrows`
`maybeThrow`.  An ALTER can be invalid by itself: no clause may be left, or the first
numeric column - the key, whose type the copy never changes - be changed twice.
Types are two: those that hold numbers and those that hold anything.

### Workload

`thread[w]` is where `RandomWorker::run_thread` is: `TimeUp`/`Draw` (the loop test and
`totalWeight`), `Lookup` (`lookupByWeightOffset`; a throw there is outside the `try`),
`Build` (the builder, through the reference returned), `Execute`, `Count`.  An action
returns, throws, or ends the process: `Metadata` shows how (finding 2, the null table of
`ddl.cpp:80`, a draw from an empty store), here it is an outcome of `Execute`.  `culprit`
is the worker in whose thread the process stopped.  The script
is one call after another (`call`, `NextCall`), each a loop over the workers (`index`):
`Connect` (constructor), `Run`, `Join`, `Reconnect`, `Edit` or `EditThrows`
(`insert`, `remove`, weights), `UseBegin`/`UseEnd` (`use()` copies without a mutex),
`StopServer`, `StartServer`, `Exit` (destructors).  `Script` says which call may follow
which.  Touching a registry while it is being copied, or a factory after it has moved,
is undefined behaviour (`process = "undefined"`).

**Widths.**  A weight is a `size_t`, which Lua may set to anything.  `totalWeight()` adds
the weights up in an `int` (the `0` it gives `std::accumulate`), `lookupByWeightOffset()`
in a `size_t`, and `random_number()` draws an `int`.  So `ActionRegistry` has the widths
as constants, `IntLimit` (2^31 in the code) and `SizeLimit` (2^64): `AsInt` and `AsSize`
convert, `totalWeight` is the narrowed sum, `Reaching` wraps at `SizeLimit`, and a draw
up to a negative number yields any `int`.  `Fits(f)` says that the weights of `f` add up
to an `int`.

### BackgroundProcess and Postgres

Per child: the operating system's process (`proc`, `result`, `unread` lines in its
pipe), boost's stored exit `status`, and the `logger` thread.  `waitpid` by either
thread reaps; the one who comes second gets ECHILD, which `boost::process` reports as
*exited with status 0* (`Waited`); storing the status is a later step.  `Postgres` adds
the thread that calls: `pc` follows `start` (`StartCheck`, `Spawn`, `Ready`,
`Started`), `stop` (`StopCheck`, `Interrupt`, `Grace`, `Last`, `Kill`), `kill9`
(`Kill9`), `waitUntilExits` (`Poll`, `Block`, `Return`), `is_running` and every
`runAndWait` (`Command`: initdb, pg_basebackup, pg_isready, createdb, dropdb,
createuser); `CallerReap` is the reaping `waitpid` in any `running()`.  `restart` is
`Stop` continued by `start`, the destructor `Stop` continued by the end.  A process
comes to its end at any time (`Die`), a signal only records whom it reached.

## 3. What is checked

| Run | Instance | Asks |
|---|---|---|
| `ddl` | 2 workers x CREATE, DROP, ALTER; 5 slots, limits 2..4, 3 tables at the start, 2 definitions | all safety properties of the store and the refinement |
| `three` | 1 CREATE against 2 DROPs; 5 slots, 4 tables | the three-party races on the last slot |
| `empty` | 3 workers x every operation (with `cancel`), 3 slots, empty at the start, no minimum | what survives when the store may be empty or full |
| `join` | 2 workers x CREATE, DROP, fair | every operation in the store ends |
| `firsttables` | 2 CREATEs on an empty store | *violation* of `NoHoles` |
| `twodrops` | 2 DROPs, mutexes that wait | *violation* of `NoSelfDeadlock` |
| `database` | 3 workers x CREATE, DROP; 2 names, 4 identities, 2 lives of the server | every disagreement of metadata and database has its cause |
| `columns` | 2 workers, 4 names, up to 4 columns, 2 ALTERs of up to 2 clauses | metadata and database agree column by column |
| `workload` | 2 workers, `basic.lua`'s order of calls, any edit of a registry, 2 lives, fair | what can bring pstress down, and what holds until then; waits return |
| `remove` | the same with two actions, only `remove` | *violation* of `LookupFinds` |
| `settings` | 1 worker, `pg1468.lua`'s order of calls | *violation* of `SessionsConfigured` |
| `postgres` | 2 children, 2 servers, pipe of 1 line, 1 poll of grace, 1 try of pg_isready, fair | no server lost or doubled; what goes wrong is the logger's doing; calls return |

Properties of `Metadata`:

- `TypeOK` - types; a slot that has been drawn is one of the arrays.
- `NoHoles` - a slot that can be locked holds a table iff it is below `size()`.
- `NoDuplicates` - no table in two slots, except the one a DROP is about to empty.
- `HeldTableStays` - an open DROP or ALTER owns its slot, and the slot keeps its table.
- `Accounting` - `reservedSize` = tables + CREATEs in flight + overshoots still to be
  taken back + DROPs between their two decrements; the arrays are never overbooked.
- `NoWrapAround` - the unsigned counters are never decremented below zero.
- `NoUndefinedBehaviour` - no access outside the arrays, no null table, no empty range.
- `LockOrder` - who waits for a slot holds only lower ones (or that very slot).
- `RelockAbsorbed` - after a double lock throws, the repeated completion finds its
  slot to be the last one; only a DROP whose statement failed can end the process.
- `SizeBounds` - the limits, tested without a lock, are exceeded by at most one
  operation per worker.
- `ImplementsTableSet` - refinement to `TableSet`.  `live` is what the slots hold, the
  slots being vacated excepted; a claim lasts from locking the table until it is gone
  (DROP) or written back (ALTER); `pending` lasts from `Reserve` to `CreateInsert`.
- `WaitCompletionReturns` - once the time is up every worker comes to an end.

Properties of `DdlDatabase`:

- `TypeOK` - types; no action leaves a reservation or a claimed table behind; the store
  is not overbooked.
- `OrphansExplained` - a table that only the database has is one whose DROP was refused
  or lost: no CREATE is forgotten, not even one whose answer was lost.
- `PhantomsExplained` - a table that only the metadata has is one whose CREATE had no
  effect and was completed all the same.
- `ForeignDropsExplained` - a DROP hits the table of another CREATE only if its own,
  of the same name, had failed.

Properties of `Columns`:

- `TypeOK` - types; at least two columns, which DML needs; one worker in an ALTER; no
  name twice in the database.
- `PrimaryKeyFirst` - one primary key, in first place, in the metadata and in every
  snapshot, whatever failed (assumed at `dml.cpp`'s `pkName`).
- `ColumnsFollow` - unless a failed statement was published, the metadata has the
  columns of the database, in order, with their types but for the key's.
- `DmlErrorsExplained` - DML fails on a column only after a failed statement was
  published, or because an ALTER changed the table since the action read it.

Properties of `Workload`:

- `TypeOK` - types; a registry never holds a name twice.
- `DrawsAreWeighted` - every action is selected by as many offsets as it has weight,
  the first by one more (the draw includes both ends), as long as the weights add up to
  an `int`.
- `StopsExplained` - a worker brings the process down in an action; or after a change of
  its own registry as it ran; or in a lookup that throws, when its total has fallen since
  it was read, its registry is empty, or its weights add up to more than an `int`.
- `StatisticsAddUp` - every action of a thread is counted once, unless `run()` cleared
  the statistics under it; then none is counted twice.
- `NoSessionPulled` - no connection is replaced under a running worker.
- `FreshSessions` - a run begins with every worker connected to the running server.
- `RunsStart` - after a wait, `run()` starts a thread in every worker: no thread that has
  ended is left joinable.
- `WaitReturns` - `wait_completion()` returns.

Properties of `Postgres`:

- `TypeOK` - types of caller and children.
- `TheServerIsHeld` - a server that runs is the one `postmaster` points to.
- `ImplementsServer` - refinement: servers start only when none runs.
- `SignalsExplained` - `stop()` signals a dead process id only when the logger has
  reaped the server between a poll and the signal.
- `AnswersExplained` - a command's exit code is mistaken only if the logger has asked
  for it too.
- `LoggerStays` - a logger stops while its process runs only because of an empty line.
  That the process then blocks on a full pipe is in the model (`Write` is disabled), but
  no property is about it.
- `CallsReturn` - every call returns.

**Bounds.**  *Store*: the races on the end of the array involve the last two slots, a
CREATE and a DROP or two DROPs, and for the stale-last races a third operation; five
slots let three tables be dropped and leave room for the overshoot of every CREATE.
Operations repeat without bound: each state space is explored completely.  Identities
are reused once no slot and no reservation refers to them; there are as many as tables
and creations can exist at once.  `NoUndefinedBehaviour` needs
`MaxTables >= MaxTableCount + |Threads| - 1` (otherwise `CreateTable::execute`
dereferences the null table of a refused reservation, `ddl.cpp:80`); the shipped 200
slots (`metadata.hpp:195`) against the default `max_table_count` of 10 satisfy it for
up to 191 workers.  *Database*: two names collide and differ; three workers let one
drop a table while two create its name; `MaxTableCount` 1 is overshot by the other
workers to three tables; operations repeat without bound; `MaxLives` 2 is one crash or
restart, and every further one starts from a state the first can leave.  *Columns*:
from four columns two drops lead to the two a table keeps, from three the second is
skipped; two clauses give every pair of kinds; `MaxAlters` 2 lets an ALTER work on what
a failed one published.  *Workload*: `MaxCalls` 7 takes the script from the constructor
through a run, a restart and a reconnect to the wait of a second run; `MaxEdits` 1,
with time for two actions and for one, lets an edit fall between any two steps of a
worker.  An `int` has 8 values there and a `size_t` 16: the weight 7 alone gives a negative
total, inserted beside the 1 it gives the total 0; the other weights, 0 and 1, fit.
*Postgres*: with two children a command
and a server coexist and identities are reused; one poll, one try and one line
distinguish none, some and all; `MaxStarts` 2 is a restart.

**Symmetry** is used in safety runs only: over identities, definitions, names of
columns, and workers that do the same work.

**Fairness.**  `join`: a worker in the middle of an operation is scheduled when it can
take a step, and the duration elapses; no lock is assumed to be handed out fairly, and
SQL statements return.  `workload`: the main thread and each worker are scheduled
(`WF(ScriptStep)`, `WF(WorkerStep(w))`); actions take time, so at most `MaxActions` fit
in the duration.  `postgres`: a call in progress goes on, logger threads run,
commands end, and SIGKILL ends a server; that SIGINT does is *not* assumed - `stop()`
returns because it kills (`CallsReturn` fails without).

**Deadlock** is checked in every passing run but `empty`: a store that becomes empty
can wedge.  With deadlock checking on, TLC finds two DROPs there, each holding the
slot the other one takes for the last (with the hole left by a CREATE that completed
on a store it had read as empty); `LockOrder` and `RelockAbsorbed` fail for the same
reason, which is why `empty` does not list them.  The end of a process is a state that
stutters (`Stopped`, `Halted`).

### Findings

1. **CREATEs on an empty store** (`firsttables`).  `metadata.cpp:132` takes no outer
   lock and rechecks nothing when `size()` is 0.  Two first CREATEs both write
   `tables[0]` and both count; one table is lost, and `tables[size()-1]` is null,
   against `metadata.hpp:150-151`.  From then on CREATE and DROP retry for ever.
2. **Two DROPs** (`twodrops`).  `complete()` reads `size()` at lines 74 and 95.  If
   another DROP completes in between, the slot it then locks is its own, against
   `metadata.hpp:97-99`.  With libc++ the worker and later everybody else hangs; with
   libstdc++ the action fails with an exception, and `~Reservation` repeats the
   completion - unless it was running in `~Reservation` already, after a failed
   statement, in which case the process is terminated.
3. **Removing an action from a running worker** (`remove`).  `workload.cpp:70-71` looks
   at the registry twice, outside the `try`.  A `remove()` (or smaller weight, or
   `use()`) in between leaves the drawn offset past the end: `lookupByWeightOffset`
   throws out of the thread's function and `std::terminate` ends pstress.
   `basic.lua:103-107` removes an action from a running worker.
4. **Settings after a reconnect** (`settings`).  `PostgreSQL::reconnect()` opens a
   session without the connection callback, so workers go on with default settings,
   against `basic.lua:25` ("called after establishing any database connection").

Also worth knowing:

- The store of a default configuration (`min_table_count` 3) can in principle become
  empty when more than three workers drop at once (section 4).
- The Design section of `metadata.hpp` (59-70) says that the lock is taken after the
  statement; the code holds it from before the statement to the completion.
  `metadata.hpp:28-30` says that metadata changes only after a success; `~Reservation`
  publishes failed statements too (`createFailed`, `dropFailed`, `tainted`).
- A command that failed can be reported as successful, when its logger thread reaps it
  first (`AnswersExplained`); `kill9()` with no server dereferences null; a logger
  thread that is scheduled only after its command has been awaited and released uses
  freed memory (`undefined` in `Postgres`).
- `use()` on a running worker copies a vector that the worker reads.
- Weights that add up to 2^31 or more (`action_registry.cpp:155`) give a total that is too
  small or negative: actions are drawn with other odds, or the draw is undefined and the
  lookup throws outside the `try`, which ends pstress.  Nothing in the repository says
  how large a weight may be.

## 4. What is proved

TLC checks the instances above; the theorems hold for every value of the constants
that satisfies the module's assumption (`ThreadsAssumption`, `ColumnsAssumption`, ...):
finite sets of workers, bounds that are naturals, a null that is no value.  Every
safety property a passing run checks is a theorem.

| Theorem | Says | Under |
|---|---|---|
| **`MetadataProofs`** | | |
| `TypeCorrect` | `[](TypeOK /\ HasSlot)`: types, and slots drawn or being emptied are slots of the arrays | |
| `AccountsAgree` | `[]Accounting` | |
| `HeldTablesStay` | `[]HeldTableStays` | |
| `DenseWhileNonEmpty` | `[]NonEmpty => []NoHoles` | |
| `LocksAscend` | `[]NonEmpty => []LockOrder` | |
| `RelocksAbsorbed` | `[]NonEmpty => []RelockAbsorbed` | |
| `MinimumKept` | `[]NonEmpty` | `KeepsTables` |
| `StaysDense` | `[]NoHoles` | `KeepsTables` |
| `StaysOrdered` | `[](LockOrder /\ RelockAbsorbed)` | `KeepsTables` |
| **`MetadataBoundsProofs`** | | |
| `NoCounterWraps` | `[]NoWrapAround` | |
| `LimitsKept` | `[]SizeBounds` | `StartsWithin` |
| `BehaviourDefined` | `[]NonEmpty => []NoUndefinedBehaviour` | `HasRoom` |
| `StaysDefined` | `[]NoUndefinedBehaviour` | `HasRoom`, `KeepsTables` |
| **`MetadataTableSetProofs`** | | |
| `TablesUnique` | `[]NoDuplicates` | |
| `StoreIsTableSet` | `[]NonEmpty => Promise!Spec` | |
| `StoreImplementsTableSet` | `ImplementsTableSet` | `KeepsTables` |
| **`DdlDatabaseProofs`** | | |
| `DatabaseTypeCorrect` | `[]TypeOK` | |
| `OrphansHaveCause` | `[]OrphansExplained` | |
| `PhantomsHaveCause` | `[]PhantomsExplained` | |
| `ForeignDropsHaveCause` | `[]ForeignDropsExplained` | |
| **`ColumnsProofs`** | | |
| `ColumnsTypeCorrect` | `[]TypeOK` | |
| `PrimaryKeyStaysFirst` | `[]PrimaryKeyFirst` | |
| `MetadataFollows` | `[]ColumnsFollow` | |
| `DmlErrorsHaveCause` | `[]DmlErrorsExplained` | |
| **`PostgresProofs`** | | |
| `PostgresTypeCorrect` | `[]TypeOK` | |
| `ServerStaysHeld` | `[]TheServerIsHeld` | |
| `SignalsHaveCause` | `[]SignalsExplained` | |
| `AnswersHaveCause` | `[]AnswersExplained` | |
| `LoggerKeepsReading` | `[]LoggerStays` | |
| `PostgresImplementsServer` | `ImplementsServer` | |
| **`ActionRegistryProofs`** | | |
| `WeightsAreOdds` | as many offsets select an action as it has weight, one more the first | `Fits` |
| **`WorkloadProofs`** | | |
| `WorkloadTypeCorrect` | `[]TypeOK` | |
| `DrawsStayWeighted` | `[]DrawsAreWeighted` | |
| `StopsHaveCause` | `[]StopsExplained` | |
| `StatisticsStayTrue` | `[]StatisticsAddUp` | |
| `WaitedRunsStart` | `[]RunsStart` | |
| `SessionsStay` | `[]NoSessionPulled` | `WaitsFirst` |
| `SessionsAreFresh` | `[]FreshSessions` | `ReconnectsFirst` |

### The conditions

They are facts about a configuration, a script or a run, not about the code, and none is
there for the provers' sake.

- `NonEmpty` (`tableCount >= 1`) in every state of the run, or `KeepsTables`: there is a
  table at the start and `MinTableCount >=` the number of workers that may drop.  This
  is what the guarantee of `metadata.hpp:150-151` needs and does not say; finding 1 is
  what happens without it.  The instances `ddl` and `three` satisfy `KeepsTables`,
  `empty` and `firsttables` do not.  The default `min_table_count` is 3, so with more
  than three workers that drop the theorems under `KeepsTables` do not apply, those
  under `[]NonEmpty` do.
- `StartsWithin`: the tables made before the run are a number that the limits, with the
  overshoot they allow, permit.  Nothing in the code could repair another one.
- `HasRoom`: `MaxTableCount + |workers that create or drop| <= MaxTables + 1`.  Without
  it `ddl.cpp:80` can dereference the null table of a refused reservation.
- `Fits(f)`: the weights of the registry `f` add up to less than 2^31.  `DrawsAreWeighted`
  and `StopsExplained` have it in their statements.
- `WaitsFirst(quiet)`: `reconnect` is one of a set of calls without `run` that a script
  enters only after constructing the workload or after `wait`.  `ReconnectsFirst(fresh)`:
  `run` is one of a set of calls without `start` and `stop` that it enters only after
  constructing the workload or after `reconnect`.  Both are conditions on the relation
  `Script`; for the two shipped scripts `MCWorkload` names the sets (`ScriptAssumption`,
  which TLC evaluates).

### The arguments

*Store: accounts* (`AccountsInv`).  Types alone are not inductive: a slot drawn below
`tableCount` is a slot only if `tableCount <= MaxTables`, which follows from the
accounts.  `HasSlot` says at which points `index` and `next` are slots.  The accounts
count threads by where they are; `CountMove` says how the cardinality of such a set
changes when one thread moves.

*Store: ownership* (`HeldInv`).  `StepFrame`: a step of one thread changes no slot that
another thread owns.  Each thread's own part is preserved by its own steps (`OwnStep`)
and, by the frame, by everyone else's (`HeldStep`).

*Store: the end of the array* (`DenseInv`).  `Local(t)` is what a thread relies on: its
picked slot is below `tableCount`; at `dropCount` and `createInsert` it owns the last
slot; at `dropVacate` its slot is past the end.  Only those two places change
`tableCount`, and a slot has one owner, so at most one thread is at either
(`LocalOther`).  `Dense` is `NoHoles` with the slots being vacated allowed for; a thread
that finds a slot free knows that it is not one of those (`FreeBelow`).  `NonEmpty`
enters in one place: `CreateTestEmpty` may not skip the last slot's lock.

*Store: the minimum* (`Margin`).  DROPs past the test and before the decrement number at
most the workers that may drop, each passed with `tableCount > MinTableCount`, and each
takes one away.  `LimitsKept` uses the same argument from above (`LoadInv`): whoever is
adding a table was let in below the limit.

*Store: the order of locks* (`LocksInv`, `OrderInv`).  `OwnsOnly`: a thread owns its
picked slot and the one it moves, and no other.  `Ordered`: the slot it waits for was
the last at some time since it took its own, so its own is not above; and a thread whose
lock threw still has the last slot, since nobody else can take the end from it.

*Store: counters* (`Counted`).  `tableCount` is at least the number of occupied slots
that no DROP has still to empty.  This also holds when the store is empty and CREATEs
overwrite each other: then it is larger.  A thread about to decrement has a table in
its slot (`Full`).

*Store: unique tables* (`UniqueInv`).  `NoDuplicates` needs `Distinct`: two open
reservations are not for the same table; what a step stores was stored before or is the
table being inserted (`UniqueStored`).

*Store: refinement*.  `StepMaps` takes each action to one of `TableSet` or to a stutter:
`Reserve` reserves, `CreateInsert` inserts, taking the lock of a slot claims the table
in it, `AlterComplete` changes it.  A DROP removes its table once nobody can find it any
more: in `DropTest`, when its slot is the last, or in `DropLockLast`, when another table
has been moved there (`RemoveMaps`); counting and emptying the slot follow as stutters.
All invariants above are used.

*DdlDatabase* (`DdlInv`).  `StoreInv` restates what `TableSet` promises.  `Traced` and
`Made` follow a table whose CREATE had its effect, `Owned` and `Gone` one whose DROP
had: a name that has known no failed CREATE belongs in the database to the one table of
the store that has it; one that has known no failed DROP belongs to a table the store
knows.  The three properties are read off these.

*Columns* (`ColumnsInv`).  `KeyInv`: the copy of an ALTER never loses its first column,
the columns it adds have no key, and the only type it changes is the key's; that a drop
leaves two columns keeps the copy non-empty.  `FollowInv` ties the copy to `Kept`, what
the drops said so far leave of the database, *as long as the statement can drop them*;
if it cannot, it fails, and publishing the copy taints.  A drop by position in the copy
and by name in the database agree because names in the database differ (`DistinctNames`,
kept by `IsValid`).  `Remaining` is a recursive function; the lemmas about it are proved
from its defining equation and the well-foundedness of the naturals.

*Postgres* (`PostgresInv`).  `Process`: a status is stored, or about to be, only for a
process that was reaped.  `HeldInv`: at each point, what the caller still holds, and
that it lets go of a child only when that has been reaped.  `WaitInv` and `SignalInv`:
what the caller learnt from its own `waitpid` is true unless the logger had asked
before.  The refinement to `Server` follows: `Spawn` starts a server and none runs,
because `postmaster` is null there.

*Registry*.  `Sums(f)[i]`, the weights of the first `i` actions, is monotone, so the
offsets that select action `i` are an interval whose length is its weight (`OffsetsOf`).
Under `Fits` no sum is changed by a conversion (`SmallIsItself`), so the total and the
sums of the lookup are the same numbers (`OffsetsType`, `ReachingSums`).
The induction over `i` is the well-foundedness of `<` on the naturals applied to the set
of counterexamples (`IndexInduction`).

*Workload* (`WorkloadInv`).  Per worker: actions begun = counted + about to be counted,
or more after `run()` has cleared the statistics; an offset drawn is within the total,
if that is an `int`, and an action found is in the registry, until a change of the
registry is recorded.  `QuietInv`, `FreshInv` and `AwaitedInv` carry what the order of the
script's calls establishes: no worker is inside its thread function; every session is of
the running server; every thread has been joined.

### Only model-checked

`WaitCompletionReturns`, `WaitReturns` and `CallsReturn` are liveness properties under
fairness, which the prover does not reach.  The runs that expect a violation are
counterexamples; there is nothing to prove.  What `empty` checks of a store that may be
empty is proved, and `TypeOK` and `NoDuplicates` besides; what else may hold there is
open.

## 5. Not modelled, and the plan

No module uses a RECURSIVE operator, so all can be proved about.  What is left to add:

1. `TableSet` and `Server`: invariants of the abstract specifications themselves, to be
   carried over to `Metadata` and `Postgres` by the refinements.
2. `Columns`: that an ALTER that skips no clause and meets no collision of names is
   valid, so that only the causes listed at `tainted` exist.

Left out for good:

- the MySQL connection (`sql_variant/mysql.cpp`), which is not part of the build;
- the text of SQL statements and of logs, values, lengths, result rows and versions of
  servers: nothing the workload does depends on them;
- what a user's custom SQL does to the database;
- configuration files, command lines and wrappers of the Postgres programs, which are
  written once, by one thread, before a server starts;
- the Lua bindings, which forward, and the operators of `bitflags.hpp` nothing calls;
- calls of `complete()` and `cancel()` on a reservation that is closed already: no caller
  outside the unit tests makes one (`~Reservation`, which does call `complete()` again, is
  modelled);
- `movedToMap`, which is written and never read;
- the loggers: names of logs may collide (a second `init_random_workload` makes
  workers with the names of the first), which throws at construction;
- replication, key management and the scripts that set up servers beyond the order of
  their calls.

## 6. Running

    tlc -workers 2 -config MCMetadata_ddl.cfg MCMetadata
    tlc -workers 2 -config MCWorkload_workload.cfg MCWorkload
    tlapm MetadataTableSetProofs.tla

`ddl`, `empty`, `workload`, `postgres`, `columns` and `database` take one to two
minutes each, the others some seconds.  Each `*Proofs.tla` is checked by itself; a module
that extends another uses its theorems without proving them again, so all eight have to
be run.  The longest takes about a minute.

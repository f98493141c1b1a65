---------------------------- MODULE DdlDatabase ----------------------------
(***************************************************************************)
(* CREATE TABLE and DROP TABLE between the table store, the SQL sessions   *)
(* and a server that may fail: how the metadata and the database drift     *)
(* apart (src/action/ddl.cpp, sql_variant/).                               *)
(*                                                                         *)
(* The store is the set of tables that Metadata.tla was shown to implement *)
(* (TableSet), the server the one that Postgres.tla implements (Server),   *)
(* here with crashes of backends too.  A table of the store is defined by  *)
(* its name.  A statement takes effect in one step and is answered in the  *)
(* next: the session may be lost in between.                               *)
(***************************************************************************)
EXTENDS Integers, FiniteSets

CONSTANTS
    Workers,
    Ids,            \* identities of the tables of the store
    NoId,           \* nullptr
    Names,          \* names of tables; drawn at random, so they may collide
    NoTable,        \* no table of that name in the database
    MaxTables,      \* limits::maximum_table_count
    MinTableCount,  \* DdlConfig::min_table_count
    MaxTableCount,  \* DdlConfig::max_table_count
    MaxLives        \* bound: how often the server begins to serve

ASSUME DdlDatabaseAssumption ==
    /\ {NoId, NoTable} \intersect Ids = {} /\ NoId # NoTable
    /\ Names # {} /\ IsFiniteSet(Workers)
    /\ {MaxTables, MinTableCount, MaxTableCount} \subseteq Nat
    /\ MaxLives \in Nat \ {0}
    /\ MaxTableCount + Cardinality(Workers) <= MaxTables + 1

VARIABLES
    live, claimed, pending,     \* the store, see TableSet
    database,       \* per name, the id of the table whose CREATE made it
    up, life,       \* the server, see Server
    session,        \* per worker, the life its connection was opened in
    pc,             \* where each worker is
    name,           \* per worker, the name in its statement
    createFailed,   \* history: names whose CREATE had no effect
    dropFailed,     \* history: names whose DROP left the table
    foreign         \* history: names whose DROP hit the table of another

storeVars == <<live, claimed, pending>>
serverVars == <<up, life>>
history == <<createFailed, dropFailed, foreign>>
vars == <<storeVars, database, serverVars, session, pc, name, history>>

Store == INSTANCE TableSet
    WITH Clients <- Workers, Defs <- Names, Capacity <- MaxTables
S == INSTANCE Server

size == Cardinality(live)
Goto(w, from, to) == pc[w] = from /\ pc' = [pc EXCEPT ![w] = to]

Init ==
    /\ live = {} /\ claimed = [w \in Workers |-> NoId]
    /\ pending = [w \in Workers |-> NoId]
    /\ database = [n \in Names |-> NoTable]
    /\ up = TRUE /\ life = 1
    /\ session = [w \in Workers |-> 1]
    /\ pc = [w \in Workers |-> "idle"]
    /\ name \in [Workers -> {CHOOSE n \in Names : TRUE}]
    /\ createFailed = {} /\ dropFailed = {} /\ foreign = {}

-----------------------------------------------------------------------------
(* A statement on a connection (PostgreSQL::executeQuery, LoggedSQL).      *)

\* It was answered, with a result or with an error; both are a QueryResult.
Answered(w) == S!Alive(session[w])

\* maybeThrow() throws on an error; on a lost session executeQuery itself
\* throws, for it catches only sql_error.  Either way the action is left.
Replies(w, ok, error, returned, threw) ==
    \/ Answered(w) /\ Goto(w, ok, returned)
    \/ ~Answered(w) /\ Goto(w, ok, threw)
    \/ Goto(w, error, threw)

-----------------------------------------------------------------------------
(* CreateTable::execute                                                    *)

\* Test the size, reserve room and choose a name.
Create(w) ==
    /\ Goto(w, "idle", "create")
    /\ size < MaxTableCount
    /\ \E id \in Ids : Store!Reserve(w, id)
    /\ name' \in {[name EXCEPT ![w] = n] : n \in Names}
    /\ UNCHANGED <<database, serverVars, session, history>>

\* The server makes the table, unless there is one of that name, or it
\* refuses, or the session is dead.
CreateSql(w) ==
    LET n == name[w] IN
    /\ \/ /\ Goto(w, "create", "create ok")
          /\ Answered(w) /\ database[n] = NoTable
          /\ database' = [database EXCEPT ![n] = pending[w]]
          /\ UNCHANGED createFailed
       \/ /\ Goto(w, "create", "create error")
          /\ createFailed' = createFailed \union {n}
          /\ UNCHANGED database
    /\ UNCHANGED <<storeVars, serverVars, session, name, dropFailed, foreign>>

CreateReply(w) ==
    /\ Replies(w, "create ok", "create error", "created", "create threw")
    /\ UNCHANGED <<storeVars, database, serverVars, session, name, history>>

\* As CreateEnd, giving the reservation up when the statement has thrown.
CreateEnd_Cancels(w) ==
    /\ \/ Goto(w, "created", "idle") /\ Store!Insert(w, name[w])
       \/ Goto(w, "create threw", "idle") /\ Store!Cancel(w)
    /\ UNCHANGED <<database, serverVars, session, name, history>>

\* As CreateEnd, without the completion in ~Reservation.
CreateEnd_Leaks(w) ==
    /\ \/ Goto(w, "created", "idle") /\ Store!Insert(w, name[w])
       \/ Goto(w, "create threw", "idle") /\ UNCHANGED storeVars
    /\ UNCHANGED <<database, serverVars, session, name, history>>

\* complete(), or ~Reservation, which completes too.
CreateEnd(w) ==
    /\ Goto(w, "created", "idle") \/ Goto(w, "create threw", "idle")
    /\ Store!Insert(w, name[w])
    /\ UNCHANGED <<database, serverVars, session, name, history>>

-----------------------------------------------------------------------------
(* DropTable::execute                                                      *)

\* As Claim, without the lock of the slot.
Claim_NoLock(w, table) ==
    /\ claimed' = [claimed EXCEPT ![w] = table.id]
    /\ UNCHANGED <<live, pending>>

\* dropTable(): lock the slot.
Claim(w, table) == Store!Claim(w, table)

\* Test the size and draw a table; the store gives its name.
Drop(w) ==
    /\ Goto(w, "idle", "drop")
    /\ size > MinTableCount
    /\ \E table \in live :
           /\ Claim(w, table)
           /\ name' = [name EXCEPT ![w] = table.def]
    /\ UNCHANGED <<database, serverVars, session, history>>

\* The server drops the table that has the name, or there is none, or it
\* refuses, or the session is dead.
DropSql(w) ==
    LET n == name[w] IN
    /\ \/ /\ Goto(w, "drop", "drop ok")
          /\ Answered(w) /\ database[n] # NoTable
          /\ database' = [database EXCEPT ![n] = NoTable]
          /\ foreign' = IF database[n] = claimed[w] THEN foreign
                                                    ELSE foreign \union {n}
          /\ UNCHANGED dropFailed
       \/ /\ Goto(w, "drop", "drop error")
          /\ dropFailed' = IF database[n] = NoTable THEN dropFailed
                                                    ELSE dropFailed \union {n}
          /\ UNCHANGED <<database, foreign>>
    /\ UNCHANGED <<storeVars, serverVars, session, name, createFailed>>

DropReply(w) ==
    /\ Replies(w, "drop ok", "drop error", "dropped", "drop threw")
    /\ UNCHANGED <<storeVars, database, serverVars, session, name, history>>

\* As DropEnd, giving the claim up when the statement has thrown.
DropEnd_Cancels(w) ==
    /\ \/ Goto(w, "dropped", "idle") /\ Store!Remove(w)
       \/ Goto(w, "drop threw", "idle") /\ Store!Cancel(w)
    /\ UNCHANGED <<database, serverVars, session, name, history>>

\* complete(), or ~Reservation, which completes too.  An id may be used again,
\* and a table left behind is nobody's.
DropEnd(w) ==
    /\ Goto(w, "dropped", "idle") \/ Goto(w, "drop threw", "idle")
    /\ Store!Remove(w)
    /\ database' = [n \in Names |->
           IF database[n] = claimed[w] THEN NoId ELSE database[n]]
    /\ UNCHANGED <<serverVars, session, name, history>>

-----------------------------------------------------------------------------
(* The server, and the script that restarts it.                            *)

\* It stops, starts, or loses its backends, and recovers what was committed.
ServerFault ==
    /\ S!Stop \/ (life < MaxLives /\ (S!Start \/ S!Recover))
    /\ UNCHANGED <<storeVars, database, session, pc, name, history>>

\* reconnect_workers(), between two runs; it throws while the server is down.
Reconnect ==
    /\ up /\ \A w \in Workers : pc[w] = "idle"
    /\ session' = [w \in Workers |-> life]
    /\ UNCHANGED <<storeVars, database, serverVars, pc, name, history>>

Next ==
    \/ \E w \in Workers :
           \/ Create(w) \/ CreateSql(w) \/ CreateReply(w) \/ CreateEnd(w)
           \/ Drop(w) \/ DropSql(w) \/ DropReply(w) \/ DropEnd(w)
    \/ ServerFault
    \/ Reconnect

Spec == Init /\ [][Next]_vars

-----------------------------------------------------------------------------
(* Properties.                                                             *)

Creating == {"create", "create ok", "create error", "created", "create threw"}
Dropping == {"drop", "drop ok", "drop error", "dropped", "drop threw"}

\* Every variable has its type; whatever a statement came to, no action leaves
\* a reservation or a locked table behind, and the store is not overbooked.
TypeOK ==
    /\ live \subseteq [id : Ids, def : Names]
    /\ database \in [Names -> Ids \union {NoId, NoTable}]
    /\ S!TypeOK /\ session \in [Workers -> 0 .. MaxLives]
    /\ pc \in [Workers -> {"idle"} \union Creating \union Dropping]
    /\ name \in [Workers -> Names]
    /\ \A w \in Workers :
           /\ pending[w] # NoId <=> pc[w] \in Creating
           /\ claimed[w] # NoId <=> pc[w] \in Dropping
    /\ size + Cardinality(Store!Reserved) <= MaxTables
    /\ \A names \in {createFailed, dropFailed, foreign} : names \subseteq Names

Known(n) == \E table \in live : table.def = n
InFlight(n, places) == \E w \in Workers : name[w] = n /\ pc[w] \in places

\* A table of the database that the store does not know is one whose DROP was
\* refused or lost: no CREATE is ever forgotten, not even one whose answer was
\* lost with the server.
OrphansExplained == \A n \in Names :
    database[n] # NoTable /\ ~Known(n) /\ ~InFlight(n, Creating)
        => n \in dropFailed

\* A table of the store that the database does not have is one whose CREATE
\* had no effect and was completed all the same, or one of the same name: a
\* DROP that took effect is never forgotten.
PhantomsExplained == \A n \in Names :
    Known(n) /\ database[n] = NoTable /\ ~InFlight(n, Dropping)
        => n \in createFailed

\* A DROP hits the table of another CREATE only when its own, of the same
\* name, had failed: two workers never drop one entry of the store.
ForeignDropsExplained == foreign \subseteq createFailed
=============================================================================

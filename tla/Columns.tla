------------------------------ MODULE Columns ------------------------------
(***************************************************************************)
(* The columns of one table, in the metadata and in the database: what     *)
(* ALTER TABLE does to both (src/action/ddl.cpp, AlterTable) and what the  *)
(* generated INSERT, UPDATE and DELETE rely on (src/action/dml.cpp).       *)
(*                                                                         *)
(* An ALTER works on a copy under the lock of the slot (Metadata.tla):     *)
(* one step per clause, one for the statement, one to publish the copy.    *)
(* A DML action reads the columns in one step, under the shared lock, and  *)
(* sends its statement in another, under none.                             *)
(*                                                                         *)
(* The types are those changeColumn tells apart: INT stands for INT and    *)
(* REAL, VARCHAR for the others.  Lengths and values are left out.         *)
(***************************************************************************)
EXTENDS SequencesExt

CONSTANTS
    Workers,
    NoWorker,       \* owner of a free lock
    Names,          \* names of columns; random, so they may collide
    MaxColumns,     \* bound: columns of a table (max_column_count at first)
    MaxClauses,     \* DdlConfig::max_alter_clauses
    MaxAlters       \* bound: how many ALTERs there are

ASSUME ColumnsAssumption ==
    /\ NoWorker \notin Workers
    /\ MaxColumns \in Nat \ {0, 1}
    /\ MaxClauses \in Nat \ {0} /\ MaxAlters \in Nat

Types == {"INT", "VARCHAR"}
Column == [name : Names, type : Types, primary_key : BOOLEAN]

VARIABLES
    columns,        \* table->columns, as the metadata publishes them
    database,       \* the columns the server knows; empty: no such table
    owner,          \* who holds the lock of the slot
    pc,             \* where each worker is
    draft,          \* the columns of the copy the ALTER in progress changes
    added,          \* its newColumns
    clauses,        \* its alterSubcommands, those of each kind in their order
    left,           \* how many more the loop makes
    changingAm,     \* one of them changes the access method
    snapshot,       \* per worker, the columns its DML statement is built from
    altered,        \* history: workers whose table changed after they read it
    alters,         \* history: how many ALTERs have begun
    tainted         \* history: a statement failed and was published anyway

alterVars == <<owner, draft, added, clauses, left, changingAm, alters>>
dmlVars == <<snapshot, altered>>
vars == <<columns, database, pc, alterVars, dmlVars, tainted>>

Goto(w, from, to) == pc[w] = from /\ pc' = [pc EXCEPT ![w] = to]
NamesOf(cols) == {cols[i].name : i \in DOMAIN cols}

DistinctNames(cols) ==
    \A i, j \in DOMAIN cols : cols[i].name = cols[j].name => i = j

NoClauses == [drop |-> <<>>, type |-> <<>>, add |-> <<>>, method |-> <<>>]

\* randomColumn, the serial key of a new table or any other column.
randomColumn(forceSerial) ==
    {c \in Column : /\ c.primary_key = forceSerial
                    /\ forceSerial => c.type = "INT"}

\* CREATE TABLE has run with two columns or more and was published; the
\* server has refused it if two columns have the same name.
Init ==
    /\ \E n \in 2 .. MaxColumns :
           columns \in {cols \in [1 .. n -> Column] :
               \A i \in 1 .. n : cols[i] \in randomColumn(i = 1)}
    /\ database = IF DistinctNames(columns) THEN columns ELSE <<>>
    /\ tainted = (database # columns)
    /\ owner = NoWorker
    /\ pc = [w \in Workers |-> "idle"]
    /\ draft = <<>> /\ added = <<>> /\ clauses = NoClauses
    /\ left = 0 /\ changingAm = FALSE /\ alters = 0
    /\ snapshot = [w \in Workers |-> <<>>]
    /\ altered = {}

-----------------------------------------------------------------------------
(* AlterTable::execute                                                     *)

Alter(w) ==
    /\ Goto(w, "idle", "clauses")
    /\ owner = NoWorker /\ alters < MaxAlters
    /\ owner' = w /\ alters' = alters + 1
    /\ draft' = columns
    /\ left' \in 1 .. MaxClauses
    /\ UNCHANGED <<columns, database, added, clauses, changingAm, dmlVars,
                   tainted>>

Says(kind, what) == clauses' = [clauses EXCEPT ![kind] = Append(@, what)]

\* Not to the copy: later clauses must leave the new column alone.
addColumn == \E c \in randomColumn(FALSE) :
    /\ Len(draft) + Len(added) < MaxColumns
    /\ Says("add", c)
    /\ added' = Append(added, c)
    /\ UNCHANGED <<draft, changingAm>>

\* As dropColumn, with the test one off.
dropColumn_Last ==
    \/ /\ Len(draft) < 2
       /\ UNCHANGED <<clauses, draft, added, changingAm>>
    \/ /\ Len(draft) >= 2
       /\ \E i \in 2 .. Len(draft) :
              /\ Says("drop", draft[i].name)
              /\ draft' = RemoveAt(draft, i)
       /\ UNCHANGED <<added, changingAm>>

\* Any column but the first, of three or more.
dropColumn ==
    \/ /\ Len(draft) < 3
       /\ UNCHANGED <<clauses, draft, added, changingAm>>
    \/ /\ Len(draft) >= 3
       /\ \E i \in 2 .. Len(draft) :
              /\ Says("drop", draft[i].name)
              /\ draft' = RemoveAt(draft, i)
       /\ UNCHANGED <<added, changingAm>>

\* The first numeric column becomes a VARCHAR; the copy is not told.
changeColumn ==
    /\ LET numeric == {i \in DOMAIN draft : draft[i].type = "INT"} IN
       IF numeric = {} THEN UNCHANGED clauses
       ELSE Says("type", draft[Min(numeric)].name)
    /\ UNCHANGED <<draft, added, changingAm>>

changeAccessMethod ==
    /\ IF changingAm THEN UNCHANGED clauses
       ELSE Says("method", "random")
    /\ changingAm' = TRUE
    /\ UNCHANGED <<draft, added>>

AlterSubcommand ==
    {"addColumn", "dropColumn", "changeColumn", "changeAccessMethod"}

\* The commands of the alter_table action, BitFlags::AllSet().All().
possibleCommands == AlterSubcommand

\* One round of the loop: a command drawn at random.
AddClause(w) ==
    /\ pc[w] = "clauses" /\ left > 0
    /\ \E command \in possibleCommands :
           \/ command = "addColumn" /\ addColumn
           \/ command = "dropColumn" /\ dropColumn
           \/ command = "changeColumn" /\ changeColumn
           \/ command = "changeAccessMethod" /\ changeAccessMethod
    /\ left' = left - 1
    /\ UNCHANGED <<columns, database, pc, owner, alters, dmlVars, tainted>>

\* As InsertNew, at the front.
InsertNew_Front == draft' = added \o draft

\* As InsertNew, forgetting the new columns.
InsertNew_None == draft' = draft

\* The new columns come last.
InsertNew == draft' = draft \o added

EndOfClauses(w) ==
    /\ left = 0 /\ Goto(w, "clauses", "sql")
    /\ InsertNew /\ added' = <<>>
    /\ UNCHANGED <<columns, database, owner, clauses, left, changingAm,
                   alters, dmlVars, tainted>>

-----------------------------------------------------------------------------
(* ALTER TABLE, as PostgreSQL runs it: the drops, then the changes of      *)
(* type, then the new columns; all or nothing.                             *)

Position(cols, name) == CHOOSE i \in DOMAIN cols : cols[i].name = name

Without(cols, name) ==
    IF name \in NamesOf(cols) THEN RemoveAt(cols, Position(cols, name)) ELSE cols

\* What the first n drops leave.
Remaining(cols, drops) ==
    LET rest[n \in 0 .. Len(drops)] ==
            IF n = 0 THEN cols ELSE Without(rest[n - 1], drops[n])
    IN  rest

Kept == Remaining(database, clauses.drop)[Len(clauses.drop)]

\* The statement drops and changes columns that are there then, adds ones that
\* are not, and does nothing twice; without a clause it does not parse.
CanDrop(cols, drops) == \A n \in DOMAIN drops :
    drops[n] \in NamesOf(Remaining(cols, drops)[n - 1])

IsValid ==
    /\ database # <<>> /\ clauses # NoClauses
    /\ CanDrop(database, clauses.drop)
    /\ \A i \in DOMAIN clauses.type : clauses.type[i] \in NamesOf(Kept)
    /\ \A i, j \in DOMAIN clauses.type :
           clauses.type[i] = clauses.type[j] => i = j
    /\ Len(clauses.method) <= 1
    /\ DistinctNames(clauses.add)
    /\ NamesOf(clauses.add) \intersect NamesOf(Kept) = {}

Retyped(cols) == [i \in DOMAIN cols |->
    IF \E k \in DOMAIN clauses.type : clauses.type[k] = cols[i].name
    THEN [cols[i] EXCEPT !.type = "VARCHAR"] ELSE cols[i]]

\* The statement succeeds, or fails: the server may refuse a valid one too
\* (a lock or statement timeout, a crash).
AlterSql(w) ==
    /\ Goto(w, "sql", "publish")
    /\ \/ /\ IsValid
          /\ database' = Retyped(Kept) \o clauses.add
          /\ altered' = altered \union
                 {v \in Workers : pc[v] \in {"insert", "update", "delete"}}
          /\ UNCHANGED tainted
       \/ /\ tainted' = (tainted \/ draft # columns)
          /\ UNCHANGED <<database, altered>>
    /\ UNCHANGED <<columns, alterVars, snapshot>>

\* complete(), or ~Reservation after maybeThrow() has thrown: the copy is
\* published either way.
Publish(w) ==
    /\ Goto(w, "publish", "idle")
    /\ columns' = draft
    /\ owner' = NoWorker /\ draft' = <<>>
    /\ clauses' = NoClauses /\ changingAm' = FALSE
    /\ UNCHANGED <<database, added, left, alters, dmlVars, tainted>>

-----------------------------------------------------------------------------
(* InsertData, UpdateOneRow and DeleteData                                 *)

\* As Snapshot, without the shared lock.
Snapshot_NoLock(w) == \E statement \in {"insert", "update", "delete"} :
    /\ Goto(w, "idle", statement)
    /\ snapshot' = [snapshot EXCEPT ![w] = columns]
    /\ altered' = altered \ {w}
    /\ UNCHANGED <<columns, database, alterVars, tainted>>

\* operator[]: the table as it is published when no ALTER is at work.
Snapshot(w) == \E statement \in {"insert", "update", "delete"} :
    /\ Goto(w, "idle", statement)
    /\ owner = NoWorker
    /\ snapshot' = [snapshot EXCEPT ![w] = columns]
    /\ altered' = altered \ {w}
    /\ UNCHANGED <<columns, database, alterVars, tainted>>

\* The columns INSERT and UPDATE give values, and the one that UPDATE and
\* DELETE select rows by.
Assigned(cols) == {i \in DOMAIN cols : ~cols[i].primary_key}
pkName(cols) == cols[1].name

\* The server takes the values: every column is there, once, and has the
\* type the value was made for, or one that takes any.
TakesValues(cols) ==
    /\ Assigned(cols) # {}
    /\ \A i, j \in Assigned(cols) : cols[i].name = cols[j].name => i = j
    /\ \A i \in Assigned(cols) : \E j \in DOMAIN database :
           /\ database[j].name = cols[i].name
           /\ database[j].type \in {cols[i].type, "VARCHAR"}

Succeeds(statement, cols) ==
    /\ database # <<>>
    /\ statement # "delete" => TakesValues(cols)
    /\ statement # "insert" => pkName(cols) \in NamesOf(database)

Outcome(statement, succeeds) ==
    IF succeeds THEN "idle"
    ELSE IF statement = "delete" THEN "delete failed" ELSE "values failed"

DmlSql(w) == \E statement \in {"insert", "update", "delete"} :
    /\ Goto(w, statement, Outcome(statement, Succeeds(statement, snapshot[w])))
    /\ snapshot' = IF pc'[w] = "idle" THEN [snapshot EXCEPT ![w] = <<>>]
                                      ELSE snapshot
    /\ altered' = IF pc'[w] = "idle" THEN altered \ {w} ELSE altered
    /\ UNCHANGED <<columns, database, alterVars, tainted>>

\* maybeThrow(): the worker counts a failed action and goes on.
DmlThrows(w) ==
    /\ pc[w] \in {"delete failed", "values failed"}
    /\ pc' = [pc EXCEPT ![w] = "idle"]
    /\ snapshot' = [snapshot EXCEPT ![w] = <<>>]
    /\ altered' = altered \ {w}
    /\ UNCHANGED <<columns, database, alterVars, tainted>>

Next == \E w \in Workers :
    \/ Alter(w) \/ AddClause(w) \/ EndOfClauses(w) \/ AlterSql(w) \/ Publish(w)
    \/ Snapshot(w) \/ DmlSql(w) \/ DmlThrows(w)

Spec == Init /\ [][Next]_vars

-----------------------------------------------------------------------------
(* Properties.                                                             *)

HowMany(said) ==
    Len(said.drop) + Len(said.type) + Len(said.add) + Len(said.method)

\* Every variable has its type; one worker at a time is in an ALTER, and its
\* clauses are at most as many as the loop makes.
TypeOK ==
    /\ {columns, database, draft, added} \subseteq Seq(Column)
    /\ Len(columns) >= 2 /\ DistinctNames(database)
    /\ owner \in Workers \union {NoWorker}
    /\ pc \in [Workers -> {"idle", "clauses", "sql", "publish", "insert",
                           "update", "delete", "delete failed",
                           "values failed"}]
    /\ \A w \in Workers : pc[w] \in {"clauses", "sql", "publish"} <=> owner = w
    /\ alters \in 0 .. MaxAlters /\ left \in 0 .. MaxClauses
    /\ clauses \in [drop : Seq(Names), type : Seq(Names), add : Seq(Column),
                     method : Seq({"random"})]
    /\ HowMany(clauses) + left <= MaxClauses
    /\ changingAm \in BOOLEAN /\ tainted \in BOOLEAN
    /\ snapshot \in [Workers -> Seq(Column)]
    /\ altered \subseteq Workers

\* A table has a primary key of one column, and it comes first: in the
\* metadata whatever failed, and in every copy a statement is built from
\* (dml.cpp: "assumes we have a single column primary key as the first
\* column. Currently always true").
PrimaryKeyFirst ==
    \A cols \in {columns} \union {snapshot[w] : w \in Workers} :
        \A i \in DOMAIN cols : cols[i].primary_key <=> i = 1

\* As long as no failed statement was published, the columns the metadata
\* shows are those of the database, in the same order, and no type differs
\* but the key's: ALTER's two records of its clauses agree, also when it adds,
\* drops and changes columns in one statement.
ColumnsFollow ==
    owner = NoWorker /\ ~tainted =>
        /\ Len(columns) = Len(database)
        /\ \A i \in DOMAIN columns :
               /\ columns[i].name = database[i].name
               /\ columns[i].type # database[i].type => columns[i].primary_key

\* DML fails on a column only for a reason: a DELETE, because a failed
\* statement was published, an INSERT or UPDATE also because an ALTER has
\* changed the table since the action read it.
DmlErrorsExplained == \A w \in Workers :
    /\ pc[w] = "delete failed" => tainted
    /\ pc[w] = "values failed" => tainted \/ w \in altered
=============================================================================

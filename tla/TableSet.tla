------------------------------ MODULE TableSet ------------------------------
(***************************************************************************)
(* What the table store promises the actions of pstress                    *)
(* (metadata.hpp, "Design"), without slots, locks and counters: a set of   *)
(* tables of bounded size, which clients reserve room in, insert into, and *)
(* whose tables they claim one at a time to change or drop.                *)
(***************************************************************************)
EXTENDS Integers, FiniteSets

CONSTANTS
    Clients,    \* those who call the store
    Ids,        \* identities of tables
    Defs,       \* abstract definitions of tables
    NoId,       \* no claim, no reservation
    Capacity    \* how many tables the store can hold

VARIABLES
    live,       \* the tables the store knows
    claimed,    \* per client, the table it is changing or dropping
    pending     \* per client, the new table it has reserved room for

vars == <<live, claimed, pending>>

LiveIds == {table.id : table \in live}
Reserved == {c \in Clients : pending[c] # NoId}

Init ==
    /\ live \in SUBSET [id : Ids, def : Defs]
    /\ \A a, b \in live : a.id = b.id => a = b
    /\ claimed = [c \in Clients |-> NoId]
    /\ pending = [c \in Clients |-> NoId]

\* Reserve room for a new table: createTable().
Reserve(c, id) ==
    /\ pending[c] = NoId /\ claimed[c] = NoId
    /\ id \in Ids \ LiveIds
    /\ \A other \in Clients : pending[other] # id
    /\ Cardinality(live) + Cardinality(Reserved) < Capacity
    /\ pending' = [pending EXCEPT ![c] = id]
    /\ UNCHANGED <<live, claimed>>

\* Complete a reservation: the new table is known.
Insert(c, def) ==
    /\ pending[c] # NoId
    /\ live' = live \union {[id |-> pending[c], def |-> def]}
    /\ pending' = [pending EXCEPT ![c] = NoId]
    /\ UNCHANGED claimed

\* Claim a table that nobody else has claimed: alterTable(), dropTable().
Claim(c, table) ==
    /\ pending[c] = NoId /\ claimed[c] = NoId
    /\ table \in live
    /\ \A other \in Clients : claimed[other] # table.id
    /\ claimed' = [claimed EXCEPT ![c] = table.id]
    /\ UNCHANGED <<live, pending>>

\* Drop the claimed table.
Remove(c) ==
    /\ claimed[c] # NoId
    /\ live' = {table \in live : table.id # claimed[c]}
    /\ claimed' = [claimed EXCEPT ![c] = NoId]
    /\ UNCHANGED pending

\* Replace the definition of the claimed table.
Update(c, def) ==
    /\ claimed[c] # NoId
    /\ live' = {table \in live : table.id # claimed[c]}
               \union {[id |-> claimed[c], def |-> def]}
    /\ claimed' = [claimed EXCEPT ![c] = NoId]
    /\ UNCHANGED pending

\* Give a reservation or a claim up.
Cancel(c) ==
    /\ pending[c] # NoId \/ claimed[c] # NoId
    /\ pending' = [pending EXCEPT ![c] = NoId]
    /\ claimed' = [claimed EXCEPT ![c] = NoId]
    /\ UNCHANGED live

Next == \E c \in Clients :
    \/ \E id \in Ids : Reserve(c, id)
    \/ \E def \in Defs : Insert(c, def) \/ Update(c, def)
    \/ \E table \in live : Claim(c, table)
    \/ Remove(c)
    \/ Cancel(c)

Spec == Init /\ [][Next]_vars
====

------------------------------- MODULE Server -------------------------------
(***************************************************************************)
(* A PostgreSQL server as the rest of pstress sees it: it is up or down,   *)
(* and each of its lives serves the sessions opened during that life.      *)
(* Postgres.tla shows that the process handling of pstress keeps to it;    *)
(* Workload.tla and DdlDatabase.tla run workers against it.                *)
(***************************************************************************)
EXTENDS Naturals

VARIABLES
    up,         \* a postmaster runs on the data directory
    life        \* how many times the server has begun to serve sessions

serverVars == <<up, life>>

TypeOK == up \in BOOLEAN /\ life \in Nat

Init == up = FALSE /\ life = 0

\* A postmaster is started; the previous one is gone.
Start ==
    /\ ~up
    /\ up' = TRUE
    /\ life' = life + 1

\* It shuts down, is killed, or dies; every session is lost.
Stop ==
    /\ up
    /\ up' = FALSE
    /\ UNCHANGED life

\* A backend crashes: the postmaster ends every session and recovers.
Recover ==
    /\ up
    /\ life' = life + 1
    /\ UNCHANGED up

\* A session opened in life l still answers.
Alive(l) == up /\ l = life

Next == Start \/ Stop \/ Recover

Spec == Init /\ [][Next]_serverVars

\* With the postmaster alone, whose backends do not crash.
PostmasterSpec == Init /\ [][Start \/ Stop]_serverVars
=============================================================================

----------------------------- MODULE MCPostgres -----------------------------
(***************************************************************************)
(* Instances of Postgres for TLC.                                          *)
(***************************************************************************)
EXTENDS Postgres, TLC

Symmetry == Permutations(Children)
=============================================================================

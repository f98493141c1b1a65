----------------------------- MODULE MCColumns -----------------------------
(***************************************************************************)
(* Instances of Columns for TLC.                                           *)
(***************************************************************************)
EXTENDS Columns

Symmetry == Permutations(Workers) \union Permutations(Names)
=============================================================================

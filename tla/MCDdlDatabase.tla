--------------------------- MODULE MCDdlDatabase ---------------------------
(***************************************************************************)
(* Instances of DdlDatabase for TLC.                                       *)
(***************************************************************************)
EXTENDS DdlDatabase, TLC

Symmetry == Permutations(Workers) \union Permutations(Ids)
=============================================================================

----------------------------- MODULE MCMetadata -----------------------------
(***************************************************************************)
(* Instances of Metadata for TLC: who performs which operations, and the   *)
(* symmetries that are sound for the safety runs.                          *)
(***************************************************************************)
EXTENDS Metadata, TLC

CONSTANTS w1, w2, w3

\* Every worker runs the DDL actions of the default registry.
AllDdl == [t \in Threads |-> {"create", "drop", "alter"}]
CreateDrop == [t \in Threads |-> {"create", "drop"}]
CreateOnly == [t \in Threads |-> {"create"}]
DropOnly == [t \in Threads |-> {"drop"}]

\* One worker creates, the others drop.
OneCreates == [t \in Threads |-> IF t = w1 THEN {"create"} ELSE {"drop"}]

\* Every worker performs every operation.
Everything == [t \in Threads |-> Operations]

TableSymmetry == Permutations(TableIds) \union Permutations(Defs)
FullSymmetry == TableSymmetry \union Permutations(Threads)
ExceptFirst == TableSymmetry \union Permutations(Threads \ {w1})
=============================================================================

--------------------------- MODULE ActionRegistry ---------------------------
(***************************************************************************)
(* The registry of weighted actions (include/action/action_registry.hpp,   *)
(* src/action/action_registry.cpp): a vector of factories, from which a    *)
(* worker selects one by a random offset into the weights.                 *)
(*                                                                         *)
(* A registry is a sequence of factories; every operation here runs under  *)
(* the registry's mutex from its first line to its last, and what happens  *)
(* between two of them is the business of Workload.tla.  The builder of a  *)
(* factory is left out: it always yields the action of the factory's name. *)
(***************************************************************************)
EXTENDS Integers, Sequences

CONSTANTS
    Names,      \* names of actions
    Weights,    \* weights given to them, each a size_t
    IntLimit,   \* an int is in -IntLimit .. IntLimit - 1; 2^31 in the code
    SizeLimit   \* a size_t is in 0 .. SizeLimit - 1; 2^64 in the code

ASSUME WeightsAssumption ==
    /\ {IntLimit, SizeLimit} \subseteq Nat \ {0}
    /\ 2 * IntLimit <= SizeLimit /\ SizeLimit % (2 * IntLimit) = 0
    /\ Weights \subseteq 0 .. SizeLimit - 1

\* A number converted to size_t, and to int.
AsSize(n) == n % SizeLimit
AsInt(n) ==
    LET bits == n % (2 * IntLimit)
    IN  IF bits < IntLimit THEN bits ELSE bits - 2 * IntLimit

\* The draw of a size_t from 0 .. max is that of an int: max is narrowed, and
\* below a negative one the distribution may yield any int.
random_number(max) ==
    IF AsInt(max) >= 0 THEN 0 .. AsInt(max)
                       ELSE {AsSize(i) : i \in -IntLimit .. IntLimit - 1}

ActionFactory == [name : Names, weight : Weights]

\* No two factories of a registry have one name.
IsRegistry(factories) ==
    /\ factories \in Seq(ActionFactory)
    /\ \A i, j \in DOMAIN factories :
           factories[i].name = factories[j].name => i = j

Has(factories, name) == \E i \in DOMAIN factories : factories[i].name = name

IndexOf(factories, name) ==
    CHOOSE i \in DOMAIN factories : factories[i].name = name

\* The sums of the weights of the first i factories.
Sums(factories) ==
    LET sum[i \in 0 .. Len(factories)] ==
            IF i = 0 THEN 0 ELSE sum[i - 1] + factories[i].weight
    IN  sum

Weighs(factories) == Sums(factories)[Len(factories)]

\* The weights add up to an int.
Fits(factories) == Weighs(factories) < IntLimit

\* As totalWeight, if the upper bound of the draw were not drawn.
totalWeight_Exclusive(factories) == AsSize(AsInt(Weighs(factories) - 1))

\* The sum is kept in an int.  Narrowing it after each weight, as the code
\* does, or once in the end is the same, since SizeLimit is a multiple of the
\* number of ints.
totalWeight(factories) == AsSize(AsInt(Weighs(factories)))

\* What run_thread may draw.
Offsets(factories) == random_number(totalWeight(factories))

\* As Reaching, with > for >=.
Reaching_Strict(factories, offset) ==
    {i \in DOMAIN factories : AsSize(Sums(factories)[i]) > offset}

\* The factories at or after the offset, of which the first is taken; with
\* none, lookupByWeightOffset throws.  This sum is kept in a size_t.
Reaching(factories, offset) ==
    {i \in DOMAIN factories : AsSize(Sums(factories)[i]) >= offset}

lookupByWeightOffset(factories, offset) ==
    CHOOSE i \in Reaching(factories, offset) :
        \A j \in Reaching(factories, offset) : i <= j

\* As CanInsert, without the search for the name.
CanInsert_Any(factories, factory) == TRUE

\* insert() throws when the name is taken; makeCustomSqlAction and
\* makeCustomTableSqlAction are insert() of a factory they build.
CanInsert(factories, factory) == ~Has(factories, factory.name)
insert(factories, factory) == Append(factories, factory)

\* remove() throws when there is no such name.
remove(factories, name) ==
    LET gone == IndexOf(factories, name)
    IN  SubSeq(factories, 1, gone - 1)
            \o SubSeq(factories, gone + 1, Len(factories))

\* getReference(name).weight = weight, the only use Lua has for a reference.
setWeight(factories, name, weight) ==
    [factories EXCEPT ![IndexOf(factories, name)].weight = weight]
=============================================================================

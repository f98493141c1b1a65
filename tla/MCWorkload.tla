----------------------------- MODULE MCWorkload -----------------------------
(***************************************************************************)
(* Instances of Workload for TLC: the registries and the scenario scripts. *)
(***************************************************************************)
EXTENDS Workload

CONSTANTS alter, custom

\* A node whose registry has one action of weight 1.
OneAction == <<[name |-> alter, weight |-> 1]>>

\* Two actions, as the weights of the default registry relate.
TwoActions == <<[name |-> alter, weight |-> 1], [name |-> custom, weight |-> 1]>>

\* The first worker has time for two actions, the others for one.
TwoOrOne == [w \in Workers |-> IF w = 1 THEN 2 ELSE 1]

\* Any script may return or fail after any call.
MayEnd == (Calls \ {"exit"}) \X {"exit"}

\* scenarios/basic.lua: registries are changed before and during a run; the
\* server is restarted and the workers reconnected between two runs.
BasicScript ==
    {<<"workload", "edit">>, <<"workload", "run">>, <<"edit", "run">>,
     <<"run", "edit">>, <<"run", "wait">>, <<"edit", "wait">>,
     <<"wait", "stop">>, <<"stop", "start">>, <<"start", "reconnect">>,
     <<"reconnect", "run">>} \union MayEnd

\* scenarios/pg1468.lua: the same without changes of a registry.
RestartScript ==
    {<<"workload", "run">>, <<"run", "wait">>, <<"wait", "stop">>,
     <<"stop", "start">>, <<"start", "reconnect">>, <<"reconnect", "run">>}
        \union MayEnd

\* Either script waits before it reconnects, and reconnects before it runs
\* the workers on a new server.
ASSUME ScriptAssumption ==
    /\ WaitsFirst({"stop", "start", "reconnect"})
    /\ ReconnectsFirst({"edit", "run"})
=============================================================================

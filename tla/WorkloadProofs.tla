--------------------------- MODULE WorkloadProofs ---------------------------
(***************************************************************************)
(* Theorems about Workload: for any number of workers, any registries and  *)
(* any script of calls, however the threads, the script and the server     *)
(* interleave.                                                             *)
(***************************************************************************)
EXTENDS Workload, ActionRegistryProofs

-----------------------------------------------------------------------------
(* The inductive invariant.                                                *)

Uncounted(w) == IF thread[w] \in {"succeeded", "threw"} THEN 1 ELSE 0
Counted(w) == successful[w] + failed[w] + Uncounted(w)

\* A worker begins an action only when it has time for it, counts each action
\* once, and what it has drawn and looked up holds until a change of its
\* registry is recorded.
Worker(w) ==
    /\ thread[w] \in {"lookup", "build", "execute"} => performed[w] < MaxActions[w]
    /\ w \in reset => Counted(w) <= performed[w]
    /\ w \notin reset => Counted(w) = performed[w]
    /\ thread[w] = "lookup" /\ w \notin shrunk /\ Fits(registry[w]) =>
           offset[w] <= Weighs(registry[w])
    /\ thread[w] = "build" /\ w \notin stale => Has(registry[w], picked[w])

\* Where the script is, and what it may have done by then.
ScriptInv ==
    /\ call = "workload" => \A w \in Workers : thread[w] = "none"
    /\ copying # {} => call = "edit" /\ index \in Workers
    /\ call = "edit" /\ index \in Workers /\ copying = {} => edits < MaxEdits
    /\ calls = MaxCalls + 1 => call = "exit"
    /\ stale \subseteq meddled

WorkloadInv ==
    /\ TypeOK /\ ScriptInv /\ StopsExplained
    /\ \A w \in Workers : Worker(w)

\* No worker is inside its thread function while the script is in a quiet call.
QuietInv(quiet) ==
    /\ call \in quiet => \A w \in Workers : ~Inside(w)
    /\ call = "wait" => \A w \in Workers : w < index => ~Inside(w)

\* A script that has waited has joined every thread, and starts them in order.
AwaitedInv ==
    /\ awaited /\ call # "run" => \A w \in Workers : thread[w] = "none"
    /\ awaited /\ call = "run" => \A w \in Workers : w >= index => thread[w] = "none"
    /\ call = "wait" => \A w \in Workers : w < index => thread[w] = "none"

\* While no crash has been recorded, the sessions opened so far in a loop over
\* the workers are alive, and all of them are in a fresh call.
FreshInv(fresh) ==
    /\ call \in fresh /\ ~crashed => \A w \in Workers : S!Alive(session[w])
    /\ call \in {"workload", "reconnect"} /\ index > 1 /\ ~crashed =>
           \A w \in Workers : w < index => S!Alive(session[w])

-----------------------------------------------------------------------------
(* Types.                                                                  *)

LEMMA WorkloadConstants ==
    /\ WorkerCount \in Nat \ {0} /\ MaxLives \in Nat \ {0}
    /\ MaxCalls \in Nat /\ MaxEdits \in Nat
    /\ MaxActions \in [Workers -> Nat]
    /\ IsRegistry(Defaults)
    /\ \A c, d : <<c, d>> \in Script => /\ c \in Calls \ {"exit"}
                                        /\ d \in Calls \ {"workload"}
    /\ \A w \in Workers : w \in 1 .. WorkerCount + 1 /\ w + 1 \in 1 .. WorkerCount + 1
BY WorkloadAssumption DEF Workers

\* The place of the script and its counters.
LEMMA ScriptTypes ==
    ASSUME WorkloadInv, [Next]_vars
    PROVE  /\ process' \in {"alive", "exited", "terminated", "undefined"}
           /\ culprit' \in Workers \union {0} /\ awaited' \in BOOLEAN
           /\ call' \in Calls /\ index' \in 1 .. WorkerCount + 1
           /\ calls' \in 0 .. MaxCalls + 1 /\ edits' \in 0 .. MaxEdits
<1> USE DEF processVars, scriptVars, Calls
<1>1. /\ process \in {"alive", "exited", "terminated", "undefined"}
      /\ culprit \in Workers \union {0} /\ awaited \in BOOLEAN
      /\ call \in Calls /\ index \in 1 .. WorkerCount + 1
      /\ calls \in 0 .. MaxCalls + 1 /\ edits \in 0 .. MaxEdits
      /\ ScriptInv
  BY DEF WorkloadInv, TypeOK
<1>2. ASSUME NEW w \in Workers, WorkerStep(w)
      PROVE  process' \in {"alive", "exited", "terminated", "undefined"}
             /\ culprit' \in Workers \union {0}
             /\ UNCHANGED <<call, index, calls, edits, awaited>>
  BY <1>1, <1>2 DEF WorkerStep, TimeUp, Draw, Racing, Lookup, Build, Execute, Count, Stops
<1>3. CASE Connect \/ Run \/ Join \/ Reconnect \/ EditThrows
  <2>1. /\ UNCHANGED <<process, culprit, edits, calls, awaited>>
        /\ \/ index \in Workers /\ index' = index + 1 /\ call' = call
           \/ index' = 1 /\ call' = "exit"
    BY <1>3 DEF Connect, Run, Join, Reconnect, EditThrows, At, Advance, Fails
  <2> QED
    BY <1>1, <2>1, WorkloadConstants
<1>4. CASE Edit \/ UseBegin \/ UseEnd
  BY <1>1, <1>4, WorkloadConstants DEF Edit, UseBegin, UseEnd, At, ScriptInv
<1>5. CASE StopServer \/ StartServer \/ Exit \/ ServerFault \/ UNCHANGED vars
  BY <1>1, <1>5, WorkloadConstants DEF StopServer, StartServer, Exit, ServerFault, vars
<1>6. CASE NextCall
  <2>1. awaited' \in BOOLEAN
    BY <1>6 DEF NextCall
  <2>2. /\ UNCHANGED <<process, culprit, edits>>
        /\ call' \in Calls /\ index' = 1
        /\ calls' \in 0 .. MaxCalls + 1
    BY <1>1, <1>6, WorkloadConstants DEF NextCall, ScriptInv
  <2> QED
    BY <1>1, <2>1, <2>2, WorkloadConstants
<1> QED
  BY <1>1, <1>2, <1>3, <1>4, <1>5, <1>6 DEF Next, ScriptStep, Stopped

\* The threads.
LEMMA ThreadTypes ==
    ASSUME WorkloadInv, [Next]_vars
    PROVE  thread' \in [Workers -> Places]
<1> USE DEF Places
<1>1. thread \in [Workers -> Places]
  BY DEF WorkloadInv, TypeOK
<1>2. ASSUME NEW w \in Workers, WorkerStep(w)
      PROVE  thread' \in [Workers -> Places]
  BY <1>1, <1>2 DEF WorkerStep, TimeUp, Draw, Racing, Lookup, Build, Execute, Count, Goto
<1>3. CASE Run \/ Join
  BY <1>1, <1>3 DEF Run, Join, Goto
<1>4. CASE ~Run /\ ~Join /\ ~\E w \in Workers : WorkerStep(w)
  <2>1. UNCHANGED thread
    BY <1>4 DEF Next, ScriptStep, Stopped, Connect, Reconnect, EditThrows, Edit, UseBegin, UseEnd,
                StopServer, StartServer, Exit, ServerFault, NextCall, vars
  <2> QED
    BY <1>1, <2>1
<1> QED
  BY <1>2, <1>3, <1>4

\* The registries, the offsets drawn and the names picked.
LEMMA RegistryTypes ==
    ASSUME WorkloadInv, [Next]_vars
    PROVE  /\ \A w \in Workers : IsRegistry(registry'[w])
           /\ registry' \in [Workers -> Seq(ActionFactory)]
           /\ offset' \in [Workers -> Nat]
           /\ picked' \in [Workers -> Names \union {NoName}]
<1>1. /\ \A w \in Workers : IsRegistry(registry[w])
      /\ registry \in [Workers -> Seq(ActionFactory)]
      /\ offset \in [Workers -> Nat]
      /\ picked \in [Workers -> Names \union {NoName}]
      /\ copying \subseteq Workers
  BY DEF WorkloadInv, TypeOK
<1> USE DEF registryVars, actionVars
<1>2. ASSUME NEW w \in Workers, WorkerStep(w)
      PROVE  /\ UNCHANGED registry
             /\ offset' \in [Workers -> Nat]
             /\ picked' \in [Workers -> Names \union {NoName}]
  <2>1. CASE TimeUp(w) \/ Build(w) \/ Execute(w) \/ Count(w)
    BY <1>1, <2>1 DEF TimeUp, Build, Execute, Count
  <2>2. CASE Draw(w)
    <3>1. /\ UNCHANGED <<registry, picked>>
          /\ offset' = offset \/ \E o \in Offsets(registry[w]) :
                                   offset' = [offset EXCEPT ![w] = o]
      BY <2>2 DEF Draw, Racing
    <3>2. \A o \in Offsets(registry[w]) : o \in Nat
      BY <1>1, OffsetsType
    <3>3. offset' = offset \/ \E o \in Nat : offset' = [offset EXCEPT ![w] = o]
      BY <3>1, <3>2
    <3> QED
      BY <1>1, <3>1, <3>3
  <2>3. CASE Lookup(w)
    <3> DEFINE i == lookupByWeightOffset(registry[w], offset[w])
    <3>1. /\ UNCHANGED registry
          /\ \/ UNCHANGED <<offset, picked>>
             \/ /\ Reaching(registry[w], offset[w]) # {}
                /\ offset' = [offset EXCEPT ![w] = 0]
                /\ picked' = [picked EXCEPT ![w] = registry[w][i].name]
      BY <2>3 DEF Lookup, Racing
    <3>2. ASSUME Reaching(registry[w], offset[w]) # {}
          PROVE  registry[w][i].name \in Names
      <4>1. i \in 1 .. Len(registry[w])
        BY <1>1, <3>2, LookupIsFirst, RegistryType DEF Reaching
      <4> QED
        BY <1>1, <4>1, RegistryType
    <3> HIDE DEF i
    <3>3. \/ UNCHANGED <<offset, picked>>
          \/ /\ offset' = [offset EXCEPT ![w] = 0]
             /\ \E name \in Names : picked' = [picked EXCEPT ![w] = name]
      BY <3>1, <3>2
    <3>4. offset' \in [Workers -> Nat]
      <4>1. offset \in [Workers -> Nat]
        BY <1>1
      <4>2. offset' = offset \/ offset' = [offset EXCEPT ![w] = 0]
        BY <3>1
      <4> QED
        BY <4>1, <4>2
    <3>5. picked' \in [Workers -> Names \union {NoName}]
      <4>1. picked \in [Workers -> Names \union {NoName}]
        BY <1>1
      <4>2. \E name \in Names \union {NoName} :
                picked' = picked \/ picked' = [picked EXCEPT ![w] = name]
        BY <3>3
      <4> QED
        BY <4>1, <4>2
    <3> QED
      BY <3>1, <3>4, <3>5
  <2> QED
    BY <1>2, <2>1, <2>2, <2>3 DEF WorkerStep
<1>3. ASSUME NEW w \in Workers, NEW f, IsRegistry(f), registry' = [registry EXCEPT ![w] = f],
             UNCHANGED <<offset, picked>>
      PROVE  /\ \A v \in Workers : IsRegistry(registry'[v])
             /\ registry' \in [Workers -> Seq(ActionFactory)]
             /\ offset' \in [Workers -> Nat]
             /\ picked' \in [Workers -> Names \union {NoName}]
  <2>1. f \in Seq(ActionFactory)
    BY <1>3 DEF IsRegistry
  <2> QED
    BY <1>1, <1>3, <2>1
<1>4. CASE Connect
  BY <1>1, <1>3, <1>4, WorkloadConstants DEF Connect, At
<1>5. CASE Edit
  <2>1. PICK w \in Workers :
            /\ UNCHANGED <<offset, picked>>
            /\ \/ \E factory \in ActionFactory : /\ CanInsert(registry[w], factory)
                                                 /\ Change(w, insert(registry[w], factory))
               \/ \E name \in Names : /\ Has(registry[w], name)
                                      /\ Change(w, remove(registry[w], name))
               \/ \E name \in Names, weight \in Weights :
                      /\ Has(registry[w], name)
                      /\ Change(w, setWeight(registry[w], name, weight))
    BY <1>5 DEF Edit
  <2>2. PICK f : IsRegistry(f) /\ registry' = [registry EXCEPT ![w] = f]
    BY <1>1, <2>1, InsertKeeps, RemoveKeeps, SetWeightKeeps DEF Change
  <2> QED
    BY <1>3, <2>1, <2>2
<1>6. CASE UseEnd
  BY <1>1, <1>3, <1>6, WorkloadConstants DEF UseEnd, Change
<1>7. CASE ~Connect /\ ~Edit /\ ~UseEnd /\ ~\E w \in Workers : WorkerStep(w)
  <2>1. UNCHANGED <<registry, offset, picked>>
    BY <1>7 DEF Next, ScriptStep, Stopped, Run, Join, Reconnect, EditThrows, UseBegin,
                StopServer, StartServer, Exit, ServerFault, NextCall, vars
  <2> QED
    BY <1>1, <2>1
<1> QED
  BY <1>1, <1>2, <1>4, <1>5, <1>6, <1>7

\* The sessions, the server, and the sets of workers.
LEMMA ServerTypes ==
    ASSUME WorkloadInv, [Next]_vars
    PROVE  /\ session' \in [Workers -> 0 .. MaxLives]
           /\ up' \in BOOLEAN /\ life' \in 1 .. MaxLives /\ crashed' \in BOOLEAN
<1>1. /\ session \in [Workers -> 0 .. MaxLives]
      /\ up \in BOOLEAN /\ life \in 1 .. MaxLives /\ crashed \in BOOLEAN
  BY DEF WorkloadInv, TypeOK
<1> USE DEF sessionVars, serverVars
<1>2. CASE \E w \in Workers : WorkerStep(w)
  <2>1. UNCHANGED <<session, up, life, crashed>>
    BY <1>2 DEF WorkerStep, TimeUp, Draw, Racing, Lookup, Build, Execute, Count
  <2> QED
    BY <1>1, <2>1
<1>3. CASE Connect \/ Reconnect
  <2>1. session' = session \/ \E w \in Workers : session' = [session EXCEPT ![w] = life]
    BY <1>3 DEF Connect, Reconnect, At
  <2>2. session' \in [Workers -> 0 .. MaxLives]
    BY <1>1, <2>1, WorkloadConstants
  <2>3. UNCHANGED <<up, life>> /\ crashed' = (crashed /\ index > 1)
    BY <1>3 DEF Connect, Reconnect
  <2>4. crashed' \in BOOLEAN
    BY <2>3
  <2> QED
    BY <1>1, <2>2, <2>3, <2>4
<1>4. CASE StopServer \/ StartServer \/ ServerFault
  <2>1. UNCHANGED session /\ (crashed' = crashed \/ crashed' = TRUE)
    BY <1>4 DEF StopServer, StartServer, ServerFault
  <2>2. \/ UNCHANGED <<up, life>>
        \/ S!Stop
        \/ life < MaxLives /\ (S!Start \/ S!Recover)
    BY <1>4, Zenon DEF StopServer, StartServer, ServerFault
  <2>3. /\ up' = up \/ up' = TRUE \/ up' = FALSE
        /\ life' = life \/ (life < MaxLives /\ life' = life + 1)
    BY <2>2 DEF S!Stop, S!Start, S!Recover
  <2>4. up' \in BOOLEAN /\ crashed' \in BOOLEAN
    BY <1>1, <2>1, <2>3, Zenon
  <2>5. life' \in 1 .. MaxLives
    BY <1>1, <2>3, WorkloadConstants
  <2> QED
    BY <1>1, <2>1, <2>4, <2>5
<1>5. CASE ~Connect /\ ~Reconnect /\ ~StopServer /\ ~StartServer /\ ~ServerFault
           /\ ~\E w \in Workers : WorkerStep(w)
  <2>1. UNCHANGED <<session, up, life, crashed>>
    BY <1>5 DEF Next, ScriptStep, Stopped, Run, Join, EditThrows, Edit, UseBegin, UseEnd,
                Exit, NextCall, vars
  <2> QED
    BY <1>1, <2>1
<1> QED
  BY <1>2, <1>3, <1>4, <1>5

LEMMA SetTypes ==
    ASSUME WorkloadInv, [Next]_vars
    PROVE  \A workers \in {configured', copying', reset', stale', shrunk', meddled'} :
               workers \subseteq Workers
<1>1. \A workers \in {configured, copying, reset, stale, shrunk, meddled} :
          workers \subseteq Workers
  BY DEF WorkloadInv, TypeOK
<1> USE DEF sessionVars, statVars, registryVars
<1>2. ASSUME NEW w \in Workers, WorkerStep(w)
      PROVE  UNCHANGED <<configured, copying, reset, stale, meddled>> /\ shrunk' \subseteq shrunk
  BY <1>2 DEF WorkerStep, TimeUp, Draw, Racing, Lookup, Build, Execute, Count
<1>3. CASE Connect \/ Reconnect \/ Run
  BY <1>1, <1>3 DEF Connect, Reconnect, Run, At
<1>4. CASE Edit
  BY <1>1, <1>4 DEF Edit, Change, Invalidate
<1>5. CASE UseBegin
  BY <1>1, <1>5 DEF UseBegin
<1>6. CASE UseEnd
  BY <1>1, <1>6 DEF UseEnd, Change, Invalidate
<1>7. CASE ~Connect /\ ~Reconnect /\ ~Run /\ ~Edit /\ ~UseBegin /\ ~UseEnd
           /\ ~\E w \in Workers : WorkerStep(w)
  <2>1. UNCHANGED <<configured, copying, reset, stale, meddled, shrunk>>
    BY <1>7 DEF Next, ScriptStep, Stopped, Join, EditThrows, StopServer, StartServer, ServerFault,
                Exit, NextCall, vars
  <2> QED
    BY <1>1, <2>1
<1> QED
  BY <1>1, <1>2, <1>3, <1>4, <1>5, <1>6, <1>7

-----------------------------------------------------------------------------
(* The statistics.                                                         *)

Counts(w) ==
    /\ thread[w] \in {"lookup", "build", "execute"} => performed[w] < MaxActions[w]
    /\ performed[w] <= MaxActions[w]
    /\ w \in reset => Counted(w) <= performed[w]
    /\ w \notin reset => Counted(w) = performed[w]

LEMMA CountsOfWorker ==
    ASSUME WorkloadInv, NEW w \in Workers, WorkerStep(w), NEW v \in Workers
    PROVE  /\ {successful', failed', performed'} \subseteq [Workers -> Nat]
           /\ Counts(v)'
<1> USE DEF Counts, Counted, Uncounted, statVars
<1>1. /\ {successful, failed, performed} \subseteq [Workers -> Nat]
      /\ thread \in [Workers -> Places] /\ MaxActions[v] \in Nat
      /\ performed[v] \in 0 .. MaxActions[v]
  BY WorkloadConstants DEF WorkloadInv, TypeOK
<1>2. Counts(v)
  BY <1>1 DEF WorkloadInv, Worker
<1>3. CASE TimeUp(w)
  BY <1>1, <1>2, <1>3 DEF TimeUp, Goto
<1>4. CASE Draw(w)
  BY <1>1, <1>2, <1>4 DEF Draw, Racing, Goto
<1>5. CASE Lookup(w)
  BY <1>1, <1>2, <1>5 DEF Lookup, Racing, Goto
<1>6. CASE Build(w)
  BY <1>1, <1>2, <1>6 DEF Build, Goto
<1>7. CASE Execute(w)
  <2>1. /\ thread[w] = "execute"
        /\ \/ /\ thread' \in {[thread EXCEPT ![w] = "succeeded"],
                              [thread EXCEPT ![w] = "threw"]}
              /\ performed' = [performed EXCEPT ![w] = @ + 1]
           \/ UNCHANGED <<thread, performed>>
        /\ UNCHANGED <<successful, failed, reset>>
    BY <1>7 DEF Execute, Goto
  <2> QED
    BY <1>1, <1>2, <2>1
<1>8. CASE Count(w)
  <2>1. /\ thread' = [thread EXCEPT ![w] = "check"]
        /\ UNCHANGED <<performed, reset>>
        /\ \/ /\ thread[w] = "succeeded" /\ failed' = failed
              /\ successful' = [successful EXCEPT ![w] = @ + 1]
           \/ /\ thread[w] = "threw" /\ successful' = successful
              /\ failed' = [failed EXCEPT ![w] = @ + 1]
    BY <1>8 DEF Count, Goto
  <2> QED
    BY <1>1, <1>2, <2>1
<1> QED
  BY <1>3, <1>4, <1>5, <1>6, <1>7, <1>8 DEF WorkerStep

\* run() clears the statistics of a worker whose thread may be there.
LEMMA CountsOfOthers ==
    ASSUME WorkloadInv, [Next]_vars, ~\E w \in Workers : WorkerStep(w), NEW v \in Workers
    PROVE  /\ {successful', failed', performed'} \subseteq [Workers -> Nat]
           /\ Counts(v)'
<1> USE DEF Counts, Counted, Uncounted, statVars
<1>1. /\ {successful, failed, performed} \subseteq [Workers -> Nat]
      /\ thread \in [Workers -> Places] /\ MaxActions[v] \in Nat
      /\ performed[v] \in 0 .. MaxActions[v]
  BY WorkloadConstants DEF WorkloadInv, TypeOK
<1>2. Counts(v)
  BY <1>1 DEF WorkloadInv, Worker
<1>3. CASE Run
  <2>1. PICK w \in Workers :
            /\ \/ /\ successful' = [successful EXCEPT ![w] = 0]
                  /\ failed' = [failed EXCEPT ![w] = 0]
               \/ /\ thread[w] = "succeeded" /\ successful' = successful
                  /\ failed' = [failed EXCEPT ![w] = 0]
               \/ /\ thread[w] = "threw" /\ failed' = failed
                  /\ successful' = [successful EXCEPT ![w] = 0]
            /\ \/ /\ thread[w] # "none" /\ reset' = reset \union {w}
                  /\ UNCHANGED <<thread, performed>>
               \/ /\ thread[w] = "none" /\ thread' = [thread EXCEPT ![w] = "check"]
                  /\ performed' = [performed EXCEPT ![w] = 0]
                  /\ reset' = reset \ {w}
    BY <1>3 DEF Run, At, Joinable, Goto
  <2>2. {successful', failed', performed'} \subseteq [Workers -> Nat]
    BY <1>1, <2>1
  <2>3. CASE v # w
    BY <1>1, <1>2, <2>1, <2>3
  <2>4. CASE v = w
    BY <1>1, <1>2, <2>1, <2>4
  <2> QED
    BY <2>2, <2>3, <2>4
<1>4. CASE Join
  BY <1>1, <1>2, <1>4 DEF Join, Goto, At
<1>5. CASE ~Run /\ ~Join
  <2>1. UNCHANGED <<thread, successful, failed, performed, reset>>
    BY <1>5 DEF Next, ScriptStep, Stopped, Connect, Reconnect, EditThrows, Edit, UseBegin,
                UseEnd, StopServer, StartServer, ServerFault, Exit, NextCall, vars
  <2> QED
    BY <1>1, <1>2, <2>1
<1> QED
  BY <1>3, <1>4, <1>5

\* What the statistics say, and the bounds that follow from it.
LEMMA CountsKept ==
    ASSUME WorkloadInv, [Next]_vars
    PROVE  /\ {successful', failed', performed'} \subseteq [Workers -> Nat]
           /\ \A w \in Workers : /\ Counts(w)'
                                 /\ {successful'[w], failed'[w], performed'[w]}
                                        \subseteq 0 .. MaxActions[w]
<1>1. ASSUME NEW v \in Workers
      PROVE  {successful', failed', performed'} \subseteq [Workers -> Nat] /\ Counts(v)'
  BY <1>1, CountsOfWorker, CountsOfOthers
<1>2. {successful', failed', performed'} \subseteq [Workers -> Nat]
  <2>1. 1 \in Workers
    BY WorkloadConstants DEF Workers
  <2> QED
    BY <1>1, <2>1
<1>3. ASSUME NEW v \in Workers
      PROVE  {successful'[v], failed'[v], performed'[v]} \subseteq 0 .. MaxActions[v]
  <2>1. Counts(v)' /\ MaxActions[v] \in Nat
    BY <1>1, WorkloadConstants
  <2>2. successful'[v] \in Nat /\ failed'[v] \in Nat /\ performed'[v] \in Nat
    BY <1>2
  <2>3. successful'[v] + failed'[v] <= performed'[v] /\ performed'[v] <= MaxActions[v]
    BY <2>1, <2>2 DEF Counts, Counted, Uncounted
  <2> QED
    BY <2>1, <2>2, <2>3
<1> QED
  BY <1>1, <1>2, <1>3

-----------------------------------------------------------------------------
(* What a worker has drawn and looked up.                                  *)

Refers(w) ==
    /\ thread[w] = "lookup" /\ w \notin shrunk /\ Fits(registry[w]) =>
           offset[w] <= Weighs(registry[w])
    /\ thread[w] = "build" /\ w \notin stale => Has(registry[w], picked[w])

LEMMA RefersOfWorker ==
    ASSUME WorkloadInv, NEW w \in Workers, WorkerStep(w), NEW v \in Workers
    PROVE  Refers(v)'
<1> USE DEF actionVars, registryVars
<1>1. /\ thread \in [Workers -> Places]
      /\ offset \in [Workers -> Nat]
      /\ picked \in [Workers -> Names \union {NoName}]
      /\ IsRegistry(registry[w]) /\ Refers(v)
  BY DEF WorkloadInv, TypeOK, Worker, Refers
<1>2. CASE TimeUp(w)
  BY <1>1, <1>2 DEF TimeUp, Goto, Refers
<1>3. CASE Draw(w)
  <2>1. CASE Racing(w)
    BY <1>1, <2>1 DEF Racing, Refers
  <2>2. CASE /\ \E o \in Offsets(registry[w]) : offset' = [offset EXCEPT ![w] = o]
             /\ Goto(w, "lookup") /\ shrunk' = shrunk \ {w}
             /\ UNCHANGED <<picked, registry, stale>>
    <3>1. PICK o \in Offsets(registry[w]) : offset' = [offset EXCEPT ![w] = o]
      BY <2>2
    <3>2. Weighs(registry[w]) \in Nat
      BY <1>1, SumsType
    <3>3. Fits(registry[w]) => o <= Weighs(registry[w])
      BY <1>1, <3>1, <3>2, OffsetsType
    <3> QED
      BY <1>1, <2>2, <3>1, <3>3 DEF Refers, Goto
  <2> QED
    BY <1>3, <2>1, <2>2 DEF Draw
<1>4. CASE Lookup(w)
  <2> DEFINE i == lookupByWeightOffset(registry[w], offset[w])
  <2>1. CASE Racing(w) \/ UNCHANGED <<thread, offset, picked, registry, shrunk, stale>>
    BY <1>1, <2>1 DEF Racing, Refers
  <2>2. CASE /\ Reaching(registry[w], offset[w]) # {}
             /\ picked' = [picked EXCEPT ![w] = registry[w][i].name]
             /\ offset' = [offset EXCEPT ![w] = 0] /\ Goto(w, "build")
             /\ UNCHANGED <<registry, shrunk, stale>>
    <3>1. i \in DOMAIN registry[w]
      BY <1>1, <2>2, LookupIsFirst DEF Reaching
    <3> HIDE DEF i
    <3>2. Has(registry[w], registry[w][i].name)
      BY <3>1 DEF Has
    <3> QED
      BY <1>1, <2>2, <3>2 DEF Refers, Goto
  <2> QED
    BY <1>4, <2>1, <2>2 DEF Lookup
<1>5. CASE Build(w)
  BY <1>1, <1>5 DEF Build, Goto, Refers
<1>6. CASE Execute(w)
  BY <1>1, <1>6 DEF Execute, Goto, Refers
<1>7. CASE Count(w)
  BY <1>1, <1>7 DEF Count, Goto, Refers
<1> QED
  BY <1>2, <1>3, <1>4, <1>5, <1>6, <1>7 DEF WorkerStep

\* A registry changes under a worker: a total that falls, and a factory that
\* may have moved, are recorded.
LEMMA RefersOfChange ==
    ASSUME WorkloadInv, NEW w \in Workers, NEW f, IsRegistry(f), Change(w, f),
           UNCHANGED <<thread, offset, picked>>,
           \/ Invalidate(w)
           \/ stale' = stale /\ \A name : Has(f, name) <=> Has(registry[w], name),
           NEW v \in Workers
    PROVE  Refers(v)'
<1>1. /\ registry \in [Workers -> Seq(ActionFactory)]
      /\ offset[v] \in Nat
      /\ IsRegistry(registry[v]) /\ IsRegistry(registry[w]) /\ Refers(v)
  BY DEF WorkloadInv, TypeOK, Worker, Refers
<1>2. registry' = [registry EXCEPT ![w] = f] /\ stale \subseteq stale' /\ shrunk \subseteq shrunk'
  BY DEF Change, Invalidate
<1>3. CASE v # w
  BY <1>1, <1>2, <1>3 DEF Refers
<1>4. CASE v = w
  <2>1. registry'[v] = f
    BY <1>1, <1>2, <1>4
  <2>2. ASSUME thread'[v] = "lookup", v \notin shrunk', Fits(registry'[v])
        PROVE  offset'[v] <= Weighs(registry'[v])
    <3>1. Weighs(f) \in Nat /\ Weighs(registry[v]) \in Nat /\ IntLimit \in Nat
      BY <1>1, SumsType, Widths
    <3>2. ~(Weighs(f) < Weighs(registry[v]))
      BY <1>4, <2>2 DEF Change
    <3>3. Fits(registry[v])
      BY <2>1, <2>2, <3>1, <3>2 DEF Fits
    <3>4. offset[v] <= Weighs(registry[v])
      BY <1>1, <1>2, <2>2, <3>3 DEF Refers
    <3> QED
      BY <1>1, <2>1, <3>1, <3>2, <3>4
  <2>3. ASSUME thread'[v] = "build", v \notin stale'
        PROVE  Has(registry'[v], picked'[v])
    BY <1>1, <1>2, <1>4, <2>1, <2>3 DEF Invalidate, Refers
  <2> QED
    BY <2>2, <2>3 DEF Refers
<1> QED
  BY <1>3, <1>4

LEMMA RefersOfOthers ==
    ASSUME WorkloadInv, [Next]_vars, ~\E w \in Workers : WorkerStep(w), NEW v \in Workers
    PROVE  Refers(v)'
<1> USE DEF actionVars, registryVars
<1>1. /\ thread \in [Workers -> Places]
      /\ registry \in [Workers -> Seq(ActionFactory)]
      /\ \A w \in Workers : IsRegistry(registry[w])
      /\ Refers(v) /\ copying \subseteq Workers
  BY DEF WorkloadInv, TypeOK, Worker, Refers
<1>2. CASE Connect
  <2>1. thread'[v] = "none"
    BY <1>2 DEF Connect, At, WorkloadInv, ScriptInv
  <2> QED
    BY <2>1 DEF Refers
<1>3. CASE Edit
  <2>1. PICK w \in Workers :
            /\ UNCHANGED <<thread, offset, picked>>
            /\ \/ /\ \/ \E factory \in ActionFactory : /\ CanInsert(registry[w], factory)
                                                      /\ Change(w, insert(registry[w], factory))
                     \/ \E name \in Names : /\ Has(registry[w], name)
                                            /\ Change(w, remove(registry[w], name))
                  /\ Invalidate(w)
               \/ \E name \in Names, weight \in Weights :
                      /\ Has(registry[w], name) /\ stale' = stale
                      /\ Change(w, setWeight(registry[w], name, weight))
    BY <1>3 DEF Edit
  <2>2. \/ \E f : IsRegistry(f) /\ Change(w, f) /\ Invalidate(w)
        \/ \E f : /\ IsRegistry(f) /\ Change(w, f) /\ stale' = stale
                  /\ \A name : Has(f, name) <=> Has(registry[w], name)
    BY <1>1, <2>1, InsertKeeps, RemoveKeeps, SetWeightKeeps
  <2> QED
    BY <2>1, <2>2, RefersOfChange
<1>4. CASE UseEnd
  BY <1>1, <1>4, RefersOfChange, WorkloadConstants DEF UseEnd
<1>5. CASE Run
  <2>1. /\ thread' = thread \/ \E w \in Workers : Goto(w, "check")
        /\ UNCHANGED <<offset, picked, registry, shrunk, stale>>
    BY <1>5 DEF Run, At
  <2> QED
    BY <1>1, <2>1 DEF Refers, Goto
<1>6. CASE Join
  BY <1>1, <1>6 DEF Join, Goto, Refers
<1>7. CASE ~Connect /\ ~Edit /\ ~UseEnd /\ ~Run /\ ~Join
  <2>1. UNCHANGED <<thread, offset, picked, registry, shrunk, stale>>
    BY <1>7 DEF Next, ScriptStep, Stopped, Reconnect, EditThrows, UseBegin,
                StopServer, StartServer, ServerFault, Exit, NextCall, vars
  <2> QED
    BY <1>1, <2>1 DEF Refers
<1> QED
  BY <1>2, <1>3, <1>4, <1>5, <1>6, <1>7

-----------------------------------------------------------------------------
(* The script, and what brings the process down.                           *)

LEMMA ScriptOfWorker ==
    ASSUME WorkloadInv, NEW w \in Workers, WorkerStep(w)
    PROVE  ScriptInv'
<1>1. /\ call # "workload"
      /\ UNCHANGED <<call, index, calls, edits, copying, stale, meddled>>
  BY DEF WorkerStep, TimeUp, Draw, Racing, Lookup, Build, Execute, Count, scriptVars, registryVars,
         WorkloadInv, ScriptInv
<1> QED
  BY <1>1 DEF WorkloadInv, ScriptInv

LEMMA ScriptOfOthers ==
    ASSUME WorkloadInv, [Next]_vars, ~\E w \in Workers : WorkerStep(w)
    PROVE  ScriptInv'
<1> USE DEF scriptVars, registryVars
<1>1. /\ ScriptInv /\ calls \in 0 .. MaxCalls + 1 /\ MaxCalls \in Nat
      /\ edits \in 0 .. MaxEdits /\ MaxEdits \in Nat /\ WorkerCount \in Nat
      /\ Workers = 1 .. WorkerCount
  BY WorkloadConstants DEF WorkloadInv, TypeOK, Workers
<1>2. CASE Connect \/ Run \/ Join \/ Reconnect
  <2>1. /\ index \in Workers /\ call # "edit" /\ calls' = calls
        /\ \/ call' = call /\ call # "workload"
           \/ call' = call /\ thread' = thread
           \/ call' = "exit"
        /\ UNCHANGED <<copying, stale, meddled>>
    BY <1>2 DEF Connect, Run, Join, Reconnect, At, Advance, Fails
  <2> QED
    BY <1>1, <2>1 DEF ScriptInv
<1>3. CASE Edit
  <2>1. /\ call = "edit" /\ call' = call /\ copying = {} /\ copying' = {} /\ calls' = calls
        /\ index' = WorkerCount + 1
    BY <1>3 DEF Edit, At, Change
  <2>2. stale' \subseteq meddled'
    BY <1>1, <1>3 DEF Edit, Change, Invalidate, Inside, ScriptInv
  <2> QED
    BY <1>1, <2>1, <2>2 DEF ScriptInv
<1>4. CASE EditThrows
  <2>1. /\ copying = {} /\ copying' = {} /\ calls' = calls /\ call' = "exit"
        /\ UNCHANGED <<stale, meddled>>
    BY <1>4 DEF EditThrows, Fails
  <2> QED
    BY <1>1, <2>1 DEF ScriptInv
<1>5. CASE UseBegin
  <2>1. /\ call = "edit" /\ index \in Workers /\ \E w \in Workers : copying' = {w}
        /\ UNCHANGED <<call, index, calls, stale, meddled>>
    BY <1>5 DEF UseBegin, At
  <2> QED
    BY <1>1, <2>1 DEF ScriptInv
<1>6. CASE UseEnd
  <2>1. /\ call = "edit" /\ call' = call /\ copying' = {} /\ calls' = calls
        /\ index' = WorkerCount + 1
    BY <1>1, <1>6 DEF UseEnd, ScriptInv
  <2>2. stale' \subseteq meddled'
    BY <1>1, <1>6 DEF UseEnd, Change, Invalidate, Inside, ScriptInv
  <2> QED
    BY <1>1, <2>1, <2>2 DEF ScriptInv
<1>7. CASE StopServer \/ StartServer
  <2>1. /\ call \in {"stop", "start"} /\ call' = call
        /\ UNCHANGED <<calls, edits, copying, stale, meddled>>
    BY <1>7 DEF StopServer, StartServer, At
  <2> QED
    BY <1>1, <2>1 DEF ScriptInv
<1>8. CASE NextCall
  <2>1. PICK next \in Calls :
            /\ index > WorkerCount /\ <<call, next>> \in Script
            /\ next # "exit" => calls < MaxCalls
            /\ next = "edit" => edits < MaxEdits
            /\ call' = next /\ index' = 1 /\ calls' = calls + 1
            /\ UNCHANGED <<edits, copying, stale, meddled>>
    BY <1>8 DEF NextCall
  <2>2. call # "exit" /\ next # "workload" /\ index \notin Workers
    BY <1>1, <2>1, WorkloadConstants
  <2>3. copying = {}
    BY <1>1, <2>2 DEF ScriptInv
  <2> QED
    BY <1>1, <2>1, <2>2, <2>3 DEF ScriptInv
<1>9. CASE Exit \/ ServerFault \/ UNCHANGED vars
  <2>1. UNCHANGED <<call, index, calls, edits, thread, copying, stale, meddled>>
    BY <1>9 DEF Exit, ServerFault, vars
  <2> QED
    BY <1>1, <2>1 DEF ScriptInv
<1> QED
  BY <1>2, <1>3, <1>4, <1>5, <1>6, <1>7, <1>8, <1>9 DEF Next, ScriptStep, Stopped

LEMMA StopsStep ==
    ASSUME WorkloadInv, [Next]_vars
    PROVE  StopsExplained'
<1> USE DEF processVars, registryVars
<1>0. /\ StopsExplained /\ stale \subseteq meddled
      /\ \A w \in Workers : IsRegistry(registry[w]) /\ Refers(w) /\ offset[w] \in Nat
  BY DEF WorkloadInv, ScriptInv, TypeOK, Worker, Refers
<1>1. ASSUME NEW w \in Workers, WorkerStep(w), process' # "alive"
      PROVE  StopsExplained'
  <2>1. CASE Racing(w)
    <3>1. /\ process' = "undefined" /\ culprit' = w /\ w \in copying
          /\ copying' = copying
      BY <2>1 DEF Racing, Stops
    <3> QED
      BY <3>1 DEF StopsExplained
  <2>2. CASE Lookup(w) /\ ~Racing(w)
    <3>1. /\ thread[w] = "lookup" /\ Reaching(registry[w], offset[w]) = {}
          /\ process' = "terminated" /\ culprit' = w
          /\ UNCHANGED <<thread, registry, shrunk>>
      BY <1>1, <2>2 DEF Lookup, WorkerStep, Stops
    <3>2. w \in shrunk \/ registry[w] = <<>> \/ ~Fits(registry[w])
      <4>1. SUFFICES ASSUME w \notin shrunk, registry[w] # <<>>, Fits(registry[w])
                     PROVE  FALSE
        OBVIOUS
      <4>2. offset[w] <= Weighs(registry[w])
        BY <1>0, <3>1, <4>1 DEF Refers
      <4> QED
        BY <1>0, <3>1, <4>1, <4>2, DrawnIsFound
    <3> QED
      BY <3>1, <3>2 DEF StopsExplained
  <2>3. CASE Build(w)
    <3>1. /\ process' = "undefined" /\ culprit' = w /\ w \in stale \union copying
          /\ UNCHANGED <<copying, meddled>>
      BY <1>1, <2>3 DEF Build, WorkerStep, Stops
    <3> QED
      BY <1>0, <3>1 DEF StopsExplained
  <2>4. CASE Execute(w)
    <3>1. /\ process' \in {"terminated", "undefined"} /\ culprit' = w
          /\ thread[w] = "execute" /\ thread' = thread
      BY <1>1, <2>4 DEF Execute, WorkerStep, Stops
    <3> QED
      BY <3>1 DEF StopsExplained
  <2> QED
    BY <1>1, <2>1, <2>2, <2>3, <2>4 DEF WorkerStep, TimeUp, Draw, Count
<1>2. CASE process' \in {"alive", "exited"}
  BY <1>2 DEF StopsExplained
<1>3. CASE UNCHANGED vars
  BY <1>0, <1>3 DEF vars, StopsExplained
<1>4. CASE ScriptStep \/ ServerFault
  <2>1. process' \in {"alive", "exited"}
    BY <1>4 DEF ScriptStep, ServerFault, Connect, Run, Join, Reconnect, Edit, EditThrows,
                UseBegin, UseEnd, StopServer, StartServer, NextCall, Exit
  <2> QED
    BY <1>2, <2>1
<1> QED
  BY <1>1, <1>2, <1>3, <1>4 DEF Next, Stopped

-----------------------------------------------------------------------------
(* The invariant, and what follows from it.                                *)

LEMMA EmptyRegistry == IsRegistry(<<>>)
BY EmptySeq DEF IsRegistry

LEMMA WorkloadInit == Init => WorkloadInv
<1> SUFFICES ASSUME Init PROVE WorkloadInv
  OBVIOUS
<1>1. TypeOK
  <2>1. /\ registry \in [Workers -> Seq(ActionFactory)]
        /\ \A w \in Workers : IsRegistry(registry[w])
    BY EmptyRegistry, EmptySeq DEF Init
  <2>2. /\ process = "alive" /\ call \in Calls /\ index \in 1 .. WorkerCount + 1
        /\ calls \in 0 .. MaxCalls + 1 /\ edits \in 0 .. MaxEdits
        /\ thread \in [Workers -> Places] /\ culprit \in Workers \union {0}
    BY WorkloadConstants DEF Init, Calls, Places
  <2>3. /\ offset \in [Workers -> Nat]
        /\ picked \in [Workers -> Names \union {NoName}]
        /\ session \in [Workers -> 0 .. MaxLives]
        /\ {successful, failed, performed} \subseteq [Workers -> Nat]
        /\ \A w \in Workers :
               {successful[w], failed[w], performed[w]} \subseteq 0 .. MaxActions[w]
    BY WorkloadConstants DEF Init
  <2>4. /\ \A workers \in {configured, copying, reset, stale, shrunk, meddled} :
               workers \subseteq Workers
        /\ life \in 1 .. MaxLives
    BY WorkloadConstants DEF Init
  <2>5. up \in BOOLEAN /\ crashed \in BOOLEAN /\ awaited \in BOOLEAN
    BY Zenon DEF Init
  <2> QED
    BY <2>1, <2>2, <2>3, <2>4, <2>5 DEF TypeOK
<1>2. ScriptInv
  BY WorkloadConstants DEF Init, ScriptInv
<1>3. StopsExplained
  BY DEF Init, StopsExplained
<1>4. \A w \in Workers : Worker(w)
  BY DEF Init, Worker, Counted, Uncounted
<1> QED
  BY <1>1, <1>2, <1>3, <1>4 DEF WorkloadInv

LEMMA WorkloadStep == WorkloadInv /\ [Next]_vars => WorkloadInv'
<1> SUFFICES ASSUME WorkloadInv, [Next]_vars PROVE WorkloadInv'
  OBVIOUS
<1>1. TypeOK'
  BY ScriptTypes, ThreadTypes, RegistryTypes, ServerTypes, SetTypes, CountsKept DEF TypeOK
<1>2. ScriptInv'
  BY ScriptOfWorker, ScriptOfOthers
<1>3. StopsExplained'
  BY StopsStep
<1>4. ASSUME NEW w \in Workers PROVE Worker(w)'
  <2>1. Refers(w)'
    BY RefersOfWorker, RefersOfOthers
  <2>2. Counts(w)'
    BY CountsKept
  <2> QED
    BY <2>1, <2>2 DEF Worker, Refers, Counts
<1> QED
  BY <1>1, <1>2, <1>3, <1>4 DEF WorkloadInv

LEMMA WorkloadInvariant == Spec => []WorkloadInv
<1> QED
  BY WorkloadInit, WorkloadStep, PTL DEF Spec

\* Every variable of the workload keeps its type; no registry ever holds a name
\* twice, no worker does more than it has time for (insert(), run_thread).
THEOREM WorkloadTypeCorrect == Spec => []TypeOK
<1>1. WorkloadInv => TypeOK
  BY DEF WorkloadInv
<1> QED
  BY <1>1, WorkloadInvariant, PTL

\* In every registry that a script can make, of any length, each action is drawn
\* with its weight, unless the weights add up to more than an int
\* (totalWeight(), lookupByWeightOffset(), run_thread).
THEOREM DrawsStayWeighted == Spec => []DrawsAreWeighted
<1>1. WorkloadInv => DrawsAreWeighted
  BY WeightsAreOdds DEF WorkloadInv, TypeOK, DrawsAreWeighted
<1> QED
  BY <1>1, WorkloadInvariant, PTL

\* A worker brings the process down only in an action, after its registry has
\* changed as it ran, or in a lookup, when its total fell after it was read or
\* its registry is empty or weighs more than an int (run_thread, use()).
THEOREM StopsHaveCause == Spec => []StopsExplained
<1>1. WorkloadInv => StopsExplained
  BY DEF WorkloadInv
<1> QED
  BY <1>1, WorkloadInvariant, PTL

\* The statistics of a worker count each action of its thread once; cleared
\* under a running thread they lose actions and count none twice (run()).
THEOREM StatisticsStayTrue == Spec => []StatisticsAddUp
<1>1. WorkloadInv => StatisticsAddUp
  BY DEF WorkloadInv, Worker, Counted, Uncounted, StatisticsAddUp
<1> QED
  BY <1>1, WorkloadInvariant, PTL

-----------------------------------------------------------------------------
(* Scripts that wait for the workers, and that reconnect them.             *)

LEMMA QuietStep ==
    ASSUME NEW quiet, WaitsFirst(quiet), WorkloadInv, QuietInv(quiet), [Next]_vars
    PROVE  QuietInv(quiet)'
<1> USE DEF scriptVars
<1>1. /\ thread \in [Workers -> Places] /\ Workers = 1 .. WorkerCount
      /\ WorkerCount \in Nat /\ index \in 1 .. WorkerCount + 1
      /\ quiet \subseteq {"edit", "stop", "start", "reconnect"}
  BY WorkloadConstants DEF WorkloadInv, TypeOK, WaitsFirst, Workers
<1>2. ASSUME NEW w \in Workers, WorkerStep(w)
      PROVE  QuietInv(quiet)'
  <2>1. /\ Inside(w) /\ \A v \in Workers : v # w => thread'[v] = thread[v]
        /\ UNCHANGED <<call, index>>
    BY <1>1, <1>2 DEF WorkerStep, TimeUp, Draw, Racing, Lookup, Build, Execute, Count, Goto,
                      Inside
  <2> QED
    BY <2>1 DEF QuietInv, Inside
<1>3. CASE Run
  <2>1. call = "run" /\ call' = call
    BY <1>3 DEF Run, At, Advance
  <2> QED
    BY <1>1, <2>1 DEF QuietInv
<1>4. CASE Join
  <2>1. /\ call \in {"wait", "exit"} /\ call' = call /\ index' = index + 1
        /\ index \in Workers /\ thread' = [thread EXCEPT ![index] = "none"]
    BY <1>4 DEF Join, At, Advance, Goto
  <2> QED
    BY <1>1, <2>1 DEF QuietInv, Inside
<1>5. CASE NextCall
  <2>1. PICK next \in Calls :
            /\ index > WorkerCount /\ <<call, next>> \in Script
            /\ call' = next /\ index' = 1 /\ thread' = thread
    BY <1>5 DEF NextCall
  <2>2. CASE next \in quiet
    <3>1. call \in Calls /\ call \in quiet \union {"workload", "wait"}
      BY <2>1, <2>2, WorkloadConstants DEF WaitsFirst
    <3>2. \A w \in Workers : ~Inside(w)
      BY <1>1, <2>1, <3>1 DEF WorkloadInv, ScriptInv, QuietInv, Inside
    <3> QED
      BY <1>1, <2>1, <3>2 DEF QuietInv, Inside
  <2>3. CASE next \notin quiet
    BY <1>1, <2>1, <2>3 DEF QuietInv
  <2> QED
    BY <2>2, <2>3
<1>6. CASE ~Run /\ ~Join /\ ~NextCall /\ ~\E w \in Workers : WorkerStep(w)
  <2>1. /\ thread' = thread
        /\ call' = "exit" \/ (call' = call /\ (index' = index \/ call # "wait"))
    BY <1>6 DEF Next, ScriptStep, Stopped, Connect, Reconnect, EditThrows, Edit, UseBegin, UseEnd,
                StopServer, StartServer, ServerFault, Exit, At, Advance, Fails, vars,
                WorkloadInv, ScriptInv
  <2> QED
    BY <1>1, <2>1 DEF QuietInv, Inside
<1> QED
  BY <1>2, <1>3, <1>4, <1>5, <1>6

\* reconnect_workers() takes no session from under a worker that executes on
\* it, in any script that has a wait() between run() and reconnect(), as the
\* shipped ones have (scenarios/basic.lua, wait_completion()).
THEOREM SessionsStay ==
    ASSUME NEW quiet, WaitsFirst(quiet)
    PROVE  Spec => []NoSessionPulled
<1>1. Init => QuietInv(quiet)
  <2>1. "workload" \notin quiet
    BY DEF WaitsFirst
  <2> QED
    BY <2>1 DEF Init, QuietInv
<1>2. WorkloadInv /\ QuietInv(quiet) /\ [Next]_vars => QuietInv(quiet)'
  BY QuietStep
<1>3. QuietInv(quiet) => NoSessionPulled
  BY DEF QuietInv, WaitsFirst, NoSessionPulled
<1> QED
  BY <1>1, <1>2, <1>3, WorkloadInvariant, PTL DEF Spec

LEMMA AwaitedStep == WorkloadInv /\ AwaitedInv /\ [Next]_vars => AwaitedInv'
<1> SUFFICES ASSUME WorkloadInv, AwaitedInv, [Next]_vars PROVE AwaitedInv'
  OBVIOUS
<1> USE DEF scriptVars
<1>1. /\ thread \in [Workers -> Places] /\ Workers = 1 .. WorkerCount
      /\ WorkerCount \in Nat /\ index \in 1 .. WorkerCount + 1
      /\ awaited \in BOOLEAN
  BY WorkloadConstants DEF WorkloadInv, TypeOK, Workers
<1>2. ASSUME NEW w \in Workers, WorkerStep(w)
      PROVE  AwaitedInv'
  <2>1. /\ thread[w] # "none" /\ \A v \in Workers : v # w => thread'[v] = thread[v]
        /\ UNCHANGED <<call, index, awaited>>
    BY <1>1, <1>2 DEF WorkerStep, TimeUp, Draw, Racing, Lookup, Build, Execute, Count, Goto
  <2> QED
    BY <2>1 DEF AwaitedInv
<1>3. CASE Run
  <2>1. /\ call = "run" /\ call' = call /\ index' = index + 1 /\ awaited' = awaited
        /\ index \in Workers
        /\ \A v \in Workers : v # index => thread'[v] = thread[v]
    BY <1>1, <1>3 DEF Run, At, Advance, Goto
  <2> QED
    BY <1>1, <2>1 DEF AwaitedInv
<1>4. CASE Join
  <2>1. /\ call \in {"wait", "exit"} /\ call' = call /\ index' = index + 1
        /\ index \in Workers /\ awaited' = awaited
        /\ thread' = [thread EXCEPT ![index] = "none"]
    BY <1>4 DEF Join, At, Advance, Goto
  <2> QED
    BY <1>1, <2>1 DEF AwaitedInv
<1>5. CASE NextCall
  <2>1. /\ index > WorkerCount /\ index' = 1 /\ thread' = thread
        /\ awaited' => call = "wait" \/ (awaited /\ call # "run")
    BY <1>5 DEF NextCall
  <2>2. \A w \in Workers : w < index' <=> FALSE
    BY <1>1, <2>1
  <2>3. ASSUME awaited' PROVE \A w \in Workers : thread[w] = "none"
    <3>1. CASE call = "wait"
      BY <1>1, <2>1, <3>1 DEF AwaitedInv
    <3>2. CASE awaited /\ call # "run"
      BY <3>2 DEF AwaitedInv
    <3> QED
      BY <2>1, <2>3, <3>1, <3>2
  <2> QED
    BY <2>1, <2>2, <2>3 DEF AwaitedInv
<1>6. CASE ~Run /\ ~Join /\ ~NextCall /\ ~\E w \in Workers : WorkerStep(w)
  <2>1. /\ thread' = thread /\ awaited' = awaited
        /\ \/ call' = "exit" /\ call \notin {"run", "wait"}
           \/ call' = call /\ (index' = index \/ call \notin {"run", "wait"})
    BY <1>6 DEF Next, ScriptStep, Stopped, Connect, Reconnect, EditThrows, Edit, UseBegin, UseEnd,
                StopServer, StartServer, ServerFault, Exit, At, Advance, Fails, vars,
                WorkloadInv, ScriptInv
  <2> QED
    BY <1>1, <2>1 DEF AwaitedInv
<1> QED
  BY <1>2, <1>3, <1>4, <1>5, <1>6

\* run() starts a thread in every worker, in any script that waits for the
\* workers between two runs: none is left joinable (run_thread(), join()).
THEOREM WaitedRunsStart == Spec => []RunsStart
<1>1. Init => AwaitedInv
  BY DEF Init, AwaitedInv
<1>2. AwaitedInv => RunsStart
  BY DEF AwaitedInv, RunsStart, Joinable
<1> QED
  BY <1>1, <1>2, AwaitedStep, WorkloadInvariant, PTL DEF Spec

LEMMA FreshStep ==
    ASSUME NEW fresh, ReconnectsFirst(fresh), WorkloadInv, FreshInv(fresh), [Next]_vars
    PROVE  FreshInv(fresh)'
<1> USE DEF scriptVars, sessionVars, serverVars
<1>1. /\ session \in [Workers -> 0 .. MaxLives] /\ Workers = 1 .. WorkerCount
      /\ WorkerCount \in Nat /\ index \in 1 .. WorkerCount + 1
      /\ fresh \subseteq {"run", "edit", "wait"}
  BY WorkloadConstants DEF WorkloadInv, TypeOK, ReconnectsFirst, Workers
<1>2. ASSUME UNCHANGED <<session, up, life, crashed>>, call' \notin {"workload", "reconnect"},
             call' \in fresh => call' = call
      PROVE  FreshInv(fresh)'
  BY <1>2 DEF FreshInv, S!Alive
<1>3. ASSUME NEW w \in Workers, WorkerStep(w)
      PROVE  FreshInv(fresh)'
  <2>1. UNCHANGED <<session, up, life, crashed, call, index>>
    BY <1>3 DEF WorkerStep, TimeUp, Draw, Racing, Lookup, Build, Execute, Count
  <2> QED
    BY <2>1 DEF FreshInv, S!Alive
<1>4. CASE Connect \/ Reconnect
  <2>1. CASE call' = "exit"
    BY <1>1, <2>1 DEF FreshInv
  <2>2. CASE call' # "exit"
    <3>1. /\ call \in {"workload", "reconnect"} /\ call' = call /\ index' = index + 1
          /\ index \in Workers
          /\ up /\ session' = [session EXCEPT ![index] = life]
          /\ crashed' = (crashed /\ index > 1) /\ UNCHANGED <<up, life>>
      BY <1>4, <2>2 DEF Connect, Reconnect, At, Advance, Fails
    <3>2. ASSUME ~crashed', NEW w \in Workers, w < index'
          PROVE  S!Alive(session[w])'
      <4>1. CASE w = index
        BY <1>1, <3>1, <4>1 DEF S!Alive
      <4>2. CASE w < index
        <5>0. index > 1
          BY <1>1, <3>1, <4>2
        <5>1. index > 1 /\ ~crashed
          <6>1. crashed' <=> crashed /\ index > 1
            BY <3>1
          <6> QED
            BY <3>2, <5>0, <6>1
        <5>2. S!Alive(session[w])
          BY <3>1, <4>2, <5>1 DEF FreshInv
        <5>3. session'[w] = session[w]
          BY <1>1, <3>1, <4>2
        <5> QED
          BY <3>1, <5>2, <5>3 DEF S!Alive
      <4> QED
        BY <1>1, <3>1, <3>2, <4>1, <4>2
    <3> QED
      BY <1>1, <3>1, <3>2 DEF FreshInv
  <2> QED
    BY <2>1, <2>2
<1>5. CASE Run \/ Join \/ Edit \/ EditThrows \/ UseBegin
  <2>1. /\ UNCHANGED <<session, up, life, crashed>>
        /\ call' = "exit" \/ (call' = call /\ call \in {"run", "wait", "exit", "edit"})
    BY <1>5 DEF Run, Join, Edit, EditThrows, UseBegin, At, Advance, Fails
  <2> QED
    BY <1>1, <1>2, <2>1
<1>6. CASE UseEnd
  <2>1. UNCHANGED <<session, up, life, crashed, call>> /\ call = "edit"
    BY <1>6 DEF UseEnd, WorkloadInv, ScriptInv
  <2> QED
    BY <1>2, <2>1
<1>7. CASE StopServer \/ StartServer
  <2>1. call' \in {"stop", "start"}
    BY <1>7 DEF StopServer, StartServer, At
  <2> QED
    BY <1>1, <2>1 DEF FreshInv
<1>8. CASE ServerFault
  <2>1. crashed'
    BY <1>8 DEF ServerFault
  <2> QED
    BY <2>1 DEF FreshInv
<1>9. CASE NextCall
  <2>1. PICK next \in Calls :
            /\ index > WorkerCount /\ <<call, next>> \in Script
            /\ call' = next /\ index' = 1
            /\ UNCHANGED <<session, up, life, crashed>>
    BY <1>9 DEF NextCall
  <2>2. CASE next \in fresh /\ ~crashed
    <3>1. call \in Calls /\ call \in fresh \union {"workload", "reconnect"}
      BY <2>1, <2>2, WorkloadConstants DEF ReconnectsFirst
    <3>2. \A w \in Workers : S!Alive(session[w])
      <4>1. index > 1 \/ Workers = {}
        BY <1>1, <2>1
      <4>2. \A w \in Workers : w < index
        BY <1>1, <2>1
      <4> QED
        BY <2>2, <3>1, <4>1, <4>2 DEF FreshInv
    <3> QED
      BY <1>1, <2>1, <3>2 DEF FreshInv, S!Alive
  <2>3. CASE ~(next \in fresh /\ ~crashed)
    BY <1>1, <2>1, <2>3 DEF FreshInv
  <2> QED
    BY <2>2, <2>3
<1>10. CASE Exit \/ UNCHANGED vars
  <2>1. UNCHANGED <<session, up, life, crashed, call, index>>
    BY <1>10 DEF Exit, vars
  <2> QED
    BY <2>1 DEF FreshInv, S!Alive
<1> QED
  BY <1>3, <1>4, <1>5, <1>6, <1>7, <1>8, <1>9, <1>10 DEF Next, ScriptStep, Stopped

\* A run begins with every worker connected to the server that is up, unless a
\* crash came in between, in any script that reconnects the workers between a
\* stop or start of the server and run(), as the shipped ones do
\* (scenarios/basic.lua, reconnect_workers()).
THEOREM SessionsAreFresh ==
    ASSUME NEW fresh, ReconnectsFirst(fresh)
    PROVE  Spec => []FreshSessions
<1>1. Init => FreshInv(fresh)
  <2>1. "workload" \notin fresh
    BY DEF ReconnectsFirst
  <2> QED
    BY <2>1 DEF Init, FreshInv
<1>2. WorkloadInv /\ FreshInv(fresh) /\ [Next]_vars => FreshInv(fresh)'
  BY FreshStep
<1>3. FreshInv(fresh) => FreshSessions
  BY DEF FreshInv, ReconnectsFirst, FreshSessions
<1> QED
  BY <1>1, <1>2, <1>3, WorkloadInvariant, PTL DEF Spec
=============================================================================

------------------------------ MODULE Workload ------------------------------
(***************************************************************************)
(* A workload of random workers (include/workload.hpp, src/workload.cpp)   *)
(* under the scenario script that drives it on the main thread             *)
(* (src/pstress/src/main.cpp, scenarios/): the life of the worker threads, *)
(* their registries of actions, their SQL sessions and their statistics.   *)
(*                                                                         *)
(* Granularity.  totalWeight, lookupByWeightOffset, insert and remove run  *)
(* under the mutex of the registry and are one step each; use() copies     *)
(* without it and takes two.  The reference that lookupByWeightOffset      *)
(* returns is used in a step of its own, after the mutex is released.      *)
(* What an action does to the tables is in Metadata.tla.                   *)
(***************************************************************************)
EXTENDS ActionRegistry, FiniteSets

CONSTANTS
    WorkerCount,    \* WorkloadParams::number_of_workers
    Defaults,       \* the registry of the node, which every worker copies
    Script,         \* which call of the script may come after which
    Edits,          \* what the script does to a registry: "insert", "remove",
                    \* "weight", "use"
    MaxActions,     \* per worker, how many actions fit in duration_in_seconds
    MaxCalls,       \* bound: how many calls the script makes
    MaxEdits,       \* bound: how many of them change a registry
    MaxLives        \* bound: how often the server begins to serve

Calls == {"workload", "run", "edit", "wait", "stop", "start", "reconnect",
          "exit"}

\* A script makes one workload, this one, and makes no call after its end.
ASSUME WorkloadAssumption ==
    /\ WorkerCount \in Nat \ {0}
    /\ IsRegistry(Defaults)
    /\ Script \subseteq (Calls \ {"exit"}) \X (Calls \ {"workload"})
    /\ Edits \subseteq {"insert", "remove", "weight", "use"}
    /\ MaxActions \in [1 .. WorkerCount -> Nat]
    /\ {MaxCalls, MaxEdits} \subseteq Nat /\ MaxLives \in Nat \ {0}

Workers == 1 .. WorkerCount

VARIABLES
    process,        \* "alive", "exited", "terminated" (std::terminate) or
                    \* "undefined" (undefined behaviour: anything may follow)
    culprit,        \* the worker in whose thread the process stopped, or 0
    call,           \* the call the script is in
    index,          \* the worker that the loop of the call has come to
    calls, edits,   \* how many calls and changes the script has made
    thread,         \* per worker, where its thread is; "none": not joinable
    registry,       \* per worker, its copy of the registry
    offset,         \* per worker, the offset it has drawn
    picked,         \* per worker, the name of the factory it refers to
    copying,        \* the workers whose registry use() is copying into
    session,        \* per worker, the life of the server it is connected to
    configured,     \* the workers whose session has seen on_connect
    successful,     \* per worker, successfulActions
    failed,         \* per worker, failedActions
    up, life,       \* the server
    performed,      \* history: per worker, the actions of its current thread
    reset,          \* history: workers whose statistics a running thread lost
    stale,          \* workers whose reference an erase or a move invalidated
    shrunk,         \* history: workers whose total fell after they read it
    meddled,        \* history: workers whose registry changed as they ran
    awaited,        \* history: every run() so far was followed by a wait
    crashed         \* history: the server died since the sessions were opened

processVars == <<process, culprit>>
scriptVars == <<call, index, calls, edits, awaited>>
sessionVars == <<session, configured>>
statVars == <<successful, failed, performed, reset>>
actionVars == <<offset, picked>>
registryVars == <<registry, copying, stale, shrunk, meddled>>
serverVars == <<up, life, crashed>>
vars == <<processVars, scriptVars, thread, sessionVars, statVars, actionVars,
          registryVars, serverVars>>

S == INSTANCE Server

Joinable(w) == thread[w] # "none"
Inside(w) == thread[w] \notin {"none", "ended"}
NoName == "none"

Init ==
    /\ process = "alive" /\ culprit = 0
    /\ call = "workload" /\ index = 1 /\ calls = 0 /\ edits = 0
    /\ awaited = TRUE
    /\ thread = [w \in Workers |-> "none"]
    /\ registry = [w \in Workers |-> <<>>]
    /\ offset = [w \in Workers |-> 0]
    /\ picked = [w \in Workers |-> NoName]
    /\ session = [w \in Workers |-> 0]
    /\ configured = {} /\ copying = {}
    /\ successful = [w \in Workers |-> 0]
    /\ failed = [w \in Workers |-> 0]
    /\ performed = [w \in Workers |-> 0]
    /\ reset = {} /\ stale = {} /\ shrunk = {} /\ meddled = {}
    /\ up = TRUE /\ life = 1 /\ crashed = FALSE

-----------------------------------------------------------------------------
(* The thread of a worker, RandomWorker::run_thread.                       *)

Goto(w, place) == thread' = [thread EXCEPT ![w] = place]
Stops(w, how) == process' = how /\ culprit' = w

\* use() is writing the vector the worker reads.
Racing(w) ==
    /\ w \in copying
    /\ Stops(w, "undefined")
    /\ UNCHANGED <<scriptVars, thread, sessionVars, statVars, actionVars,
                   registryVars, serverVars>>

\* As TimeUp, with a duration that never passes.
TimeUp_Never(w) == thread[w] = "check" /\ UNCHANGED vars

\* The duration is over: the thread function returns.
TimeUp(w) ==
    /\ thread[w] = "check"
    /\ Goto(w, "ended")
    /\ UNCHANGED <<processVars, scriptVars, sessionVars, statVars, actionVars,
                   registryVars, serverVars>>

\* Otherwise draw an offset from 0 .. totalWeight(), both included.
Draw(w) ==
    /\ thread[w] = "check" /\ performed[w] < MaxActions[w]
    /\ \/ Racing(w)
       \/ /\ w \notin copying
          /\ \E o \in Offsets(registry[w]) :
                 offset' = [offset EXCEPT ![w] = o]
          /\ Goto(w, "lookup")
          /\ shrunk' = shrunk \ {w}
          /\ UNCHANGED <<processVars, scriptVars, sessionVars, statVars, picked,
                         registry, copying, stale, meddled, serverVars>>

\* Look the factory up; an exception here is outside the try block.
Lookup(w) ==
    /\ thread[w] = "lookup"
    /\ \/ Racing(w)
       \/ /\ w \notin copying
          /\ Reaching(registry[w], offset[w]) # {}
          /\ picked' = [picked EXCEPT ![w] =
                registry[w][lookupByWeightOffset(registry[w], offset[w])].name]
          /\ offset' = [offset EXCEPT ![w] = 0]
          /\ Goto(w, "build")
          /\ UNCHANGED <<processVars, scriptVars, sessionVars, statVars,
                         registryVars, serverVars>>
       \/ /\ w \notin copying
          /\ Reaching(registry[w], offset[w]) = {}
          /\ Stops(w, "terminated")
          /\ UNCHANGED <<scriptVars, thread, sessionVars, statVars, actionVars,
                         registryVars, serverVars>>

\* Call the builder through the reference, which an insert, a remove or a
\* copy may have left pointing anywhere.
Build(w) ==
    /\ thread[w] = "build"
    /\ \/ /\ w \in stale \union copying
          /\ Stops(w, "undefined")
          /\ UNCHANGED <<thread, picked>>
       \/ /\ w \notin stale \union copying
          /\ Goto(w, "execute")
          /\ picked' = [picked EXCEPT ![w] = NoName]
          /\ UNCHANGED processVars
    /\ UNCHANGED <<scriptVars, sessionVars, statVars, offset,
                   registryVars, serverVars>>

\* Execute the action: it returns or throws, whatever the server does, or it
\* ends the process as Metadata.tla has it: ~Reservation of a failed DROP
\* throws again, the table of a refused CREATE is null, a slot is drawn from an
\* empty store.
Execute(w) ==
    /\ thread[w] = "execute"
    /\ \/ /\ Goto(w, "succeeded") \/ Goto(w, "threw")
          /\ performed' = [performed EXCEPT ![w] = @ + 1]
          /\ UNCHANGED processVars
       \/ /\ Stops(w, "terminated") \/ Stops(w, "undefined")
          /\ UNCHANGED <<thread, performed>>
    /\ UNCHANGED <<scriptVars, sessionVars, successful, failed, reset,
                   actionVars, registryVars, serverVars>>

\* As Count, with successfulActions incremented before the action ran.
Count_Before(w) ==
    /\ thread[w] \in {"succeeded", "threw"}
    /\ successful' = [successful EXCEPT ![w] = @ + 1]
    /\ failed' = IF thread[w] = "threw" THEN [failed EXCEPT ![w] = @ + 1]
                                       ELSE failed
    /\ Goto(w, "check")
    /\ UNCHANGED <<processVars, scriptVars, sessionVars, performed, reset,
                   actionVars, registryVars, serverVars>>

\* Count it.
Count(w) ==
    /\ \/ /\ thread[w] = "succeeded"
          /\ successful' = [successful EXCEPT ![w] = @ + 1]
          /\ UNCHANGED failed
       \/ /\ thread[w] = "threw"
          /\ failed' = [failed EXCEPT ![w] = @ + 1]
          /\ UNCHANGED successful
    /\ Goto(w, "check")
    /\ UNCHANGED <<processVars, scriptVars, sessionVars, performed, reset,
                   actionVars, registryVars, serverVars>>

WorkerStep(w) ==
    /\ process = "alive"
    /\ \/ TimeUp(w) \/ Draw(w) \/ Lookup(w) \/ Build(w)
       \/ Execute(w) \/ Count(w)

-----------------------------------------------------------------------------
(* The script.  A call that loops over the workers does one per step.      *)

At(c) == call = c /\ index \in Workers
Advance == index' = index + 1 /\ UNCHANGED <<call, calls, edits, awaited>>

\* An exception leaves main() of the script, and pstress exits.
Fails == call' = "exit" /\ index' = 1 /\ UNCHANGED <<calls, edits, awaited>>

\* SqlFactory::connect: open a session and hand it to on_connect.  In the
\* constructor of the workload, which also copies the registry.
Connect ==
    /\ At("workload")
    /\ \/ /\ up
          /\ session' = [session EXCEPT ![index] = life]
          /\ configured' = configured \union {index}
          /\ registry' = [registry EXCEPT ![index] = Defaults]
          /\ Advance
       \/ /\ ~up
          /\ Fails
          /\ UNCHANGED <<sessionVars, registry>>
    /\ crashed' = (crashed /\ index > 1)
    /\ UNCHANGED <<processVars, thread, statVars, actionVars, copying, stale,
                   shrunk, meddled, up, life>>

\* run(): clear the statistics, then start the thread unless it is there.
\* The clearing races with the increment of a thread that is counting.
Run ==
    /\ At("run")
    /\ LET w == index IN
       /\ \/ /\ successful' = [successful EXCEPT ![w] = 0]
             /\ failed' = [failed EXCEPT ![w] = 0]
          \/ /\ thread[w] = "succeeded"
             /\ failed' = [failed EXCEPT ![w] = 0]
             /\ UNCHANGED successful
          \/ /\ thread[w] = "threw"
             /\ successful' = [successful EXCEPT ![w] = 0]
             /\ UNCHANGED failed
       /\ \/ /\ Joinable(w)
             /\ reset' = reset \union {w}
             /\ UNCHANGED <<thread, performed>>
          \/ /\ ~Joinable(w)
             /\ Goto(w, "check")
             /\ performed' = [performed EXCEPT ![w] = 0]
             /\ reset' = reset \ {w}
    /\ Advance
    /\ UNCHANGED <<processVars, sessionVars, actionVars, registryVars, serverVars>>

\* As Join, without waiting for the thread.
Join_NoWait ==
    /\ At("wait") \/ At("exit")
    /\ Advance
    /\ UNCHANGED <<processVars, thread, sessionVars, statVars, actionVars,
                   registryVars, serverVars>>

\* As Join, for threads that still run only.
Join_LeavesEnded ==
    /\ At("wait") \/ At("exit")
    /\ thread[index] \in {"none", "ended"}
    /\ Advance
    /\ UNCHANGED <<processVars, thread, sessionVars, statVars, actionVars,
                   registryVars, serverVars>>

\* join() of one worker, in wait_completion() and in ~RandomWorker.
Join ==
    /\ At("wait") \/ At("exit")
    /\ thread[index] \in {"none", "ended"}
    /\ Goto(index, "none")
    /\ Advance
    /\ UNCHANGED <<processVars, sessionVars, statVars, actionVars, registryVars,
                   serverVars>>

\* As Reconnect, which indexes the workers from one.
Reconnect_SkipsFirst ==
    /\ At("reconnect")
    /\ session' = [session EXCEPT ![index] = IF index > 1 THEN life ELSE @]
    /\ configured' = configured \ {index}
    /\ Advance
    /\ crashed' = (crashed /\ index > 1)
    /\ UNCHANGED <<processVars, thread, statVars, actionVars, registryVars,
                   up, life>>

\* reconnect() of one worker: a new session, without on_connect.
Reconnect ==
    /\ At("reconnect")
    /\ \/ /\ up
          /\ session' = [session EXCEPT ![index] = life]
          /\ configured' = configured \ {index}
          /\ Advance
       \/ /\ ~up
          /\ Fails
          /\ UNCHANGED sessionVars
    /\ crashed' = (crashed /\ index > 1)
    /\ UNCHANGED <<processVars, thread, statVars, actionVars, registryVars,
                   up, life>>

\* The script changes the registry of one worker: insert and remove move the
\* factories about, a weight is written through a reference.
Change(w, factories) ==
    /\ registry' = [registry EXCEPT ![w] = factories]
    /\ meddled' = IF Inside(w) THEN meddled \union {w} ELSE meddled
    /\ shrunk' = IF /\ thread[w] = "lookup"
                    /\ Weighs(factories) < Weighs(registry[w])
                 THEN shrunk \union {w} ELSE shrunk

\* A factory referred to is erased, moved or assigned over.
Invalidate(w) ==
    stale' = IF thread[w] = "build" THEN stale \union {w} ELSE stale

Edit == \E w \in Workers :
    /\ At("edit") /\ copying = {}
    /\ \/ /\ \/ \E factory \in ActionFactory :
                   /\ "insert" \in Edits /\ CanInsert(registry[w], factory)
                   /\ Change(w, insert(registry[w], factory))
             \/ \E name \in Names :
                   /\ "remove" \in Edits /\ Has(registry[w], name)
                   /\ Change(w, remove(registry[w], name))
          /\ Invalidate(w)
       \/ \E name \in Names, weight \in Weights :
             /\ "weight" \in Edits /\ Has(registry[w], name)
             /\ Change(w, setWeight(registry[w], name, weight))
             /\ UNCHANGED stale
    /\ edits' = edits + 1
    /\ index' = WorkerCount + 1
    /\ UNCHANGED <<processVars, call, calls, awaited, thread, sessionVars,
                   statVars, actionVars, copying, serverVars>>

\* The name is taken, or there is none such: an ActionException.
EditThrows == \E w \in Workers, name \in Names :
    /\ At("edit") /\ copying = {}
    /\ \/ "insert" \in Edits /\ ~CanInsert(registry[w], [name |-> name])
       \/ {"remove", "weight"} \intersect Edits # {} /\ ~Has(registry[w], name)
    /\ Fails
    /\ UNCHANGED <<processVars, thread, sessionVars, statVars, actionVars,
                   registryVars, serverVars>>

\* use(): assign the default registry, without a mutex.
UseBegin == \E w \in Workers :
    /\ At("edit") /\ "use" \in Edits /\ copying = {}
    /\ copying' = {w}
    /\ edits' = edits + 1
    /\ UNCHANGED <<processVars, call, index, calls, awaited, thread,
                   sessionVars, statVars, actionVars, registry, stale, shrunk, meddled, serverVars>>

UseEnd == \E w \in copying :
    /\ Change(w, Defaults)
    /\ copying' = {}
    /\ Invalidate(w)
    /\ index' = WorkerCount + 1
    /\ UNCHANGED <<processVars, call, calls, edits, awaited, thread,
                   sessionVars, statVars, actionVars, serverVars>>

\* The script stops the server (stop, kill9, the first half of restart)...
StopServer ==
    /\ At("stop")
    /\ IF up THEN S!Stop ELSE UNCHANGED <<up, life>>
    /\ index' = WorkerCount + 1
    /\ UNCHANGED <<processVars, call, calls, edits, awaited, thread,
                   sessionVars, statVars, actionVars, registryVars, crashed>>

\* ... and starts it again, which may fail; basic.lua does not look.
StartServer ==
    /\ At("start")
    /\ \/ ~up /\ life < MaxLives /\ S!Start
       \/ UNCHANGED <<up, life>>
    /\ index' = WorkerCount + 1
    /\ UNCHANGED <<processVars, call, calls, edits, awaited, thread,
                   sessionVars, statVars, actionVars, registryVars, crashed>>

\* The call is over and the next one begins.
NextCall == \E next \in Calls :
    /\ index > WorkerCount
    /\ <<call, next>> \in Script
    /\ next # "exit" => calls < MaxCalls
    /\ next = "edit" => edits < MaxEdits
    /\ call' = next /\ index' = 1 /\ calls' = calls + 1
    /\ awaited' = (call = "wait" \/ (awaited /\ call # "run"))
    /\ UNCHANGED <<processVars, edits, thread, sessionVars, statVars, actionVars,
                   registryVars, serverVars>>

\* Every worker is destroyed: main returns.
Exit ==
    /\ call = "exit" /\ index > WorkerCount
    /\ process' = "exited" /\ UNCHANGED culprit
    /\ UNCHANGED <<scriptVars, thread, sessionVars, statVars, actionVars,
                   registryVars, serverVars>>

ScriptStep ==
    /\ process = "alive"
    /\ \/ Connect \/ Run \/ Join \/ Reconnect
       \/ Edit \/ EditThrows \/ UseBegin \/ UseEnd
       \/ StopServer \/ StartServer \/ NextCall \/ Exit

\* The server dies or loses its sessions by itself, or ~Postgres stops it
\* while the workers are destroyed.
ServerFault ==
    /\ process = "alive"
    /\ S!Stop \/ (life < MaxLives /\ S!Recover)
    /\ crashed' = TRUE
    /\ UNCHANGED <<processVars, scriptVars, thread, sessionVars, statVars,
                   actionVars, registryVars>>

Stopped == process # "alive" /\ UNCHANGED vars

Next == ScriptStep \/ (\E w \in Workers : WorkerStep(w)) \/ ServerFault
            \/ Stopped

\* The scheduler runs the main thread and every worker.  Actions take time,
\* so a worker comes to the end of its duration.
Fairness == WF_vars(ScriptStep) /\ \A w \in Workers : WF_vars(WorkerStep(w))

Spec == Init /\ [][Next]_vars
FairSpec == Spec /\ Fairness

-----------------------------------------------------------------------------
(* How the shipped scripts order their calls.                              *)

\* Between run() and a call among quiet there is always a wait().
WaitsFirst(quiet) ==
    /\ quiet \subseteq {"edit", "stop", "start", "reconnect"}
    /\ "reconnect" \in quiet
    /\ \A c, d \in Calls : <<c, d>> \in Script /\ d \in quiet =>
           c \in quiet \union {"workload", "wait"}

\* Between a stop or a start of the server and a call among fresh there is
\* always a reconnect().
ReconnectsFirst(fresh) ==
    /\ fresh \subseteq {"run", "edit", "wait"}
    /\ "run" \in fresh
    /\ \A c, d \in Calls : <<c, d>> \in Script /\ d \in fresh =>
           c \in fresh \union {"workload", "reconnect"}

-----------------------------------------------------------------------------
(* Properties.                                                             *)

Places == {"none", "check", "lookup", "build", "execute", "succeeded",
           "threw", "ended"}

\* Every variable has its type, and a registry never holds a name twice.
TypeOK ==
    /\ process \in {"alive", "exited", "terminated", "undefined"}
    /\ culprit \in Workers \union {0}
    /\ call \in Calls /\ index \in 1 .. WorkerCount + 1
    /\ calls \in 0 .. MaxCalls + 1 /\ edits \in 0 .. MaxEdits
    /\ awaited \in BOOLEAN
    /\ thread \in [Workers -> Places]
    /\ registry \in [Workers -> Seq(ActionFactory)]
    /\ \A w \in Workers : IsRegistry(registry[w])
    /\ offset \in [Workers -> Nat]
    /\ picked \in [Workers -> Names \union {NoName}]
    /\ session \in [Workers -> 0 .. MaxLives]
    /\ {successful, failed, performed} \subseteq [Workers -> Nat]
    /\ \A w \in Workers :
           {successful[w], failed[w], performed[w]} \subseteq 0 .. MaxActions[w]
    /\ \A workers \in {configured, copying, reset, stale, shrunk, meddled} :
           workers \subseteq Workers
    /\ up \in BOOLEAN /\ life \in 1 .. MaxLives /\ crashed \in BOOLEAN

\* Whatever the script has made of a registry, its weights are the odds: of
\* the offsets that can be drawn as many select an action as it has weight,
\* and one more, the 0, the first (lookupByWeightOffset, run_thread).  That is,
\* as long as their sum is an int, which is what totalWeight adds them up in.
DrawsAreWeighted == \A w \in Workers : Fits(registry[w]) =>
    \A i \in DOMAIN registry[w] :
        Cardinality({o \in Offsets(registry[w]) :
                         /\ Reaching(registry[w], o) # {}
                         /\ lookupByWeightOffset(registry[w], o) = i})
            = registry[w][i].weight + (IF i = 1 THEN 1 ELSE 0)

\* A worker brings the process down in an action, or because its registry has
\* changed while it ran; or else its lookup throws, and then its total fell
\* after it was read, or its registry is empty, or the sum of its weights is
\* no int (run_thread): not because the server is dead, the script has come to
\* its end, or somebody else's registry changes.
StopsExplained ==
    /\ process \in {"undefined", "terminated"} => culprit \in Workers
    /\ process = "undefined" =>
           thread[culprit] = "execute" \/ culprit \in meddled \union copying
    /\ process = "terminated" =>
           \/ thread[culprit] = "execute"
           \/ /\ thread[culprit] = "lookup"
              /\ \/ culprit \in shrunk
                 \/ registry[culprit] = <<>>
                 \/ ~Fits(registry[culprit])

\* The statistics of a worker count each action of its thread once, unless
\* run() has cleared them under it; then they count no action twice.
StatisticsAddUp == \A w \in Workers :
    LET uncounted == IF thread[w] \in {"succeeded", "threw"} THEN 1 ELSE 0
        counted == successful[w] + failed[w] + uncounted
    IN  IF w \in reset THEN counted <= performed[w]
                       ELSE counted = performed[w]

\* reconnect_workers() never takes a session from under a worker that is
\* executing on it: the script has waited for every thread.
NoSessionPulled ==
    call = "reconnect" => \A w \in Workers : ~Inside(w)

\* A run begins with every worker connected to the server that is up, unless
\* the server has failed since the script connected them.
FreshSessions ==
    call = "run" /\ ~crashed => \A w \in Workers : S!Alive(session[w])

\* run() starts a thread in every worker if the script has waited since the
\* last run(): a thread that has ended, and is still joinable, would keep
\* run_thread() from starting another.
RunsStart ==
    call = "run" /\ awaited => \A w \in Workers : w >= index => ~Joinable(w)

\* wait_completion() returns, as long as the process lives.
WaitReturns == call = "wait" ~> (call # "wait" \/ process # "alive")

\* scenarios/basic.lua removes an action from a running worker and expects
\* the worker to go on without it: its next lookup finds another one.
LookupFinds == process = "terminated" => thread[culprit] # "lookup"

\* scenarios/basic.lua: on_connect is called "after establishing any database
\* connection", so every action runs on a session that has seen it.
SessionsConfigured == \A w \in Workers : Inside(w) => w \in configured
=============================================================================

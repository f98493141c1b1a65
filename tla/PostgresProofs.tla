--------------------------- MODULE PostgresProofs ---------------------------
(***************************************************************************)
(* Theorems about Postgres: however the calls of the one thread and the    *)
(* logger threads interleave, for any number of processes, retries and     *)
(* seconds of grace.                                                       *)
(***************************************************************************)
EXTENDS Postgres, TLAPS

-----------------------------------------------------------------------------
(* The inductive invariant.                                                *)

\* The logger has seen its child end, or has stopped looking.
Seen(c) == logger[c] \in {"check", "store", "done"}

\* What the records of a child say of its process: a status is known, or about
\* to be, only of a process that was reaped.
Process(c) ==
    /\ kind[c] = "none" => /\ proc[c] = "none" /\ status[c] = "active"
                           /\ logger[c] = "none" /\ reaper[c] = "none"
    /\ kind[c] # "none" => proc[c] # "none"
    /\ status[c] # "active" => proc[c] = "reaped"
    /\ logger[c] \in {"check", "store"} => proc[c] = "reaped"
    /\ found[c] # "active" => logger[c] \in {"check", "store"}
    /\ reaper[c] # "none" => proc[c] = "reaped"
    /\ proc[c] = "running" /\ logger[c] = "done" => emptied[c]

\* What the caller holds in each place, and that it lets go of a process only
\* when it has ended.
HeldInv ==
    /\ postmaster \in Children => kind[postmaster] = "server"
    /\ target \in Children <=> pc \in {"poll", "block", "return"}
    /\ target \in Children => kind[target] # "none"
    /\ target \in Children /\ kind[target] = "server" => target = postmaster
    /\ pc \in {"new", "built", "spawn"} => postmaster = NoChild
    /\ pc \in {"ready", "started", "interrupt", "grace", "last", "kill"} =>
           postmaster \in Children
    /\ pc \in {"stop", "interrupt", "grace", "last", "kill"} =>
           after \in {"idle", "start", "gone"}
    /\ pc \in {"poll", "block", "return"} =>
           /\ after = "built" => kind[target] = "command" /\ postmaster = NoChild
           /\ after = "ready" => kind[target] = "command" /\ postmaster \in Children
    /\ \A c \in Children : kind[c] # "none" /\ ~Held(c) => proc[c] = "reaped"
    /\ pc = "return" => proc[target] = "reaped"

\* The child whose status the caller's own waitpid may have left in waited.
Awaited == IF pc \in {"poll", "block"} THEN target ELSE postmaster

\* A status was taken from a process that the caller itself reaped, or else the
\* logger has looked too.
WaitInv ==
    /\ waited # "active" =>
         /\ pc \in Polling \union {"block"}
         /\ Awaited \in Children /\ proc[Awaited] = "reaped"
         /\ waited # result[Awaited] => Seen(Awaited)
    /\ \A c \in Children :
         /\ proc[c] = "reaped" /\ status[c] = "active" =>
                Seen(c) \/ (waited # "active" /\ c = Awaited)
         /\ status[c] \notin {"active", result[c]} => Seen(c)

\* Between the poll that found the server running and the signal, only the logger
\* can have reaped it.
SignalInv ==
    /\ pc \in {"interrupt", "kill"} /\ proc[postmaster] = "reaped" =>
           reaper[postmaster] = "logger"
    /\ SignalsExplained

PostgresInv ==
    /\ TypeOK /\ HeldInv /\ WaitInv /\ SignalInv
    /\ \A c \in Children : Process(c)

-----------------------------------------------------------------------------
(* The records of the children.                                            *)

ChildStep(c) == Logs(c) \/ Dies(c) \/ Writes(c) \/ Destroyed(c)

\* What a step of the caller does to the children: it starts one, reaps one,
\* stores a status, or sends a signal at most.
LEMMA CallerEffect ==
    ASSUME CallerStep
    PROVE  \/ \E c \in Children, k \in {"server", "command"} : Launch(c, k)
           \/ CallerReap
           \/ pc \in Polling /\ SaysExited
           \/ Block
           \/ UNCHANGED <<kind, proc, result, unread, status, logger, found, reaper,
                          emptied>>
<1> USE DEF childVars
<1>1. CASE Command
  BY <1>1 DEF Command
<1>2. CASE CommandThrows \/ Start \/ Stop \/ Built \/ Ready \/ Return
  BY <1>2 DEF CommandThrows, Start, Stop, Built, Ready, Return
<1>3. CASE Kill9 \/ Interrupt \/ Kill
  BY <1>3 DEF Kill9, Interrupt, Kill, Signal
<1>4. CASE IsRunning \/ StartCheck \/ Started \/ StopCheck \/ Grace \/ Last \/ Poll
  BY <1>4 DEF Polling, IsRunning, StartCheck, Started, StopCheck, Grace, Last, Poll, SaysRunning
<1>5. CASE Spawn
  BY <1>5 DEF Spawn
<1> QED
  BY <1>1, <1>2, <1>3, <1>4, <1>5 DEF CallerStep, Call

LEMMA ProcessCaller ==
    ASSUME PostgresInv, CallerStep, NEW c \in Children
    PROVE  Process(c)'
<1> USE DEF PostgresInv, TypeOK, ChildTypeOK, Process, Statuses
<1>0. Process(c)
  OBVIOUS
<1>1. ASSUME NEW d \in Children, NEW k \in {"server", "command"}, Launch(d, k)
      PROVE  Process(c)'
  BY <1>0, <1>1 DEF Launch
<1>2. CASE CallerReap
  <2>1. /\ Polled \in Children /\ proc[Polled] \in {"zombie", "reaped"}
        /\ proc' = [proc EXCEPT ![Polled] = "reaped"]
        /\ UNCHANGED <<kind, status, logger, found, emptied>>
        /\ kind[Polled] # "none"
        /\ reaper' = [reaper EXCEPT ![Polled] =
               IF @ = "none" /\ kind[Polled] = "server" THEN "caller" ELSE @]
    BY <1>2 DEF CallerReap, Polled, Reap, Exited
  <2> QED
    BY <1>0, <2>1
<1>3. CASE pc \in Polling /\ SaysExited
  <2>1. /\ Polled \in Children
        /\ status' = [status EXCEPT ![Polled] = IF @ = "active" THEN waited ELSE @]
        /\ UNCHANGED <<kind, proc, logger, found, reaper, emptied>>
        /\ waited # "active" \/ status[Polled] # "active"
    BY <1>3 DEF SaysExited, Polled
  <2>2. proc[Polled] = "reaped"
    BY <1>3, <2>1 DEF WaitInv, Awaited, Polled, Polling
  <2> QED
    BY <1>0, <2>1, <2>2
<1>4. CASE Block
  BY <1>0, <1>4 DEF Block, Reap, childVars, HeldInv, WaitInv, Awaited
<1>5. CASE UNCHANGED <<kind, proc, result, unread, status, logger, found, reaper, emptied>>
  BY <1>0, <1>5
<1> QED
  BY <1>1, <1>2, <1>3, <1>4, <1>5, CallerEffect

LEMMA ProcessChild ==
    ASSUME PostgresInv, NEW d \in Children, ChildStep(d), NEW c \in Children
    PROVE  Process(c)'
<1> USE DEF PostgresInv, TypeOK, ChildTypeOK, Process, Statuses
<1>0. Process(c) /\ Process(d)
  OBVIOUS
<1>1. CASE LoggerStep(d)
  <2>1. CASE LoggerPoll(d)
    BY <1>0, <2>1 DEF LoggerPoll, LogAt, Reap, Exited
  <2>2. CASE LoggerCheck(d)
    <3>1. /\ logger[d] = "check"
          /\ \/ logger' = [logger EXCEPT ![d] = "store"] /\ found' = found
             \/ /\ logger' = [logger EXCEPT ![d] = "done"]
                /\ found' = [found EXCEPT ![d] = "active"]
          /\ UNCHANGED <<kind, proc, status, reaper, emptied>>
      BY <2>2 DEF LoggerCheck, LogAt
    <3> QED
      BY <1>0, <3>1
  <2>3. CASE LoggerStore(d)
    <3>1. /\ logger[d] = "store"
          /\ logger' = [logger EXCEPT ![d] = "done"]
          /\ found' = [found EXCEPT ![d] = "active"]
          /\ status' = [status EXCEPT ![d] = found[d]]
          /\ UNCHANGED <<kind, proc, reaper, emptied>>
      BY <2>3 DEF LoggerStore, LogAt
    <3> QED
      BY <1>0, <3>1
  <2>4. CASE LoggerRead(d)
    <3>1. /\ logger[d] = "read"
          /\ \E place \in {"poll", "done"} : logger' = [logger EXCEPT ![d] = place]
          /\ UNCHANGED <<kind, proc, status, found, reaper>>
      BY <2>4 DEF LoggerRead, LogAt
    <3>2. /\ proc[d] = "running" /\ logger'[d] = "done" => emptied'[d]
          /\ c # d => emptied'[c] = emptied[c]
      <4>1. CASE emptied' = emptied /\ logger' = [logger EXCEPT ![d] = "poll"]
        BY <4>1
      <4>2. CASE emptied' = emptied /\ Exited(d)
        BY <4>2 DEF Exited
      <4>3. CASE emptied' = [emptied EXCEPT ![d] = (proc[d] = "running")]
        <5>1. d \in DOMAIN emptied /\ c \in DOMAIN emptied
          OBVIOUS
        <5>2. emptied'[d] = (proc[d] = "running") /\ (c # d => emptied'[c] = emptied[c])
          BY <4>3, <5>1, Zenon
        <5> QED
          BY <5>2, Zenon
      <4> QED
        BY <2>4, <4>1, <4>2, <4>3 DEF LoggerRead, LogAt
    <3> QED
      BY <1>0, <3>1, <3>2
  <2> QED
    BY <1>1, <2>1, <2>2, <2>3, <2>4 DEF LoggerStep
<1>2. CASE LoggerStart(d, Held(d))
  <2>1. ~Held(d) => proc[d] # "running"
    BY <1>0, <1>2 DEF LoggerStart, HeldInv
  <2>2. /\ logger[d] = "starting"
        /\ \/ Held(d) /\ logger' = [logger EXCEPT ![d] = "poll"]
           \/ ~Held(d) /\ logger' = [logger EXCEPT ![d] = "done"]
        /\ UNCHANGED <<kind, proc, status, found, reaper, emptied>>
    BY <1>2 DEF LoggerStart, LogAt
  <2> QED
    BY <1>0, <2>1, <2>2
<1>3. CASE Die(d) \/ Write(d)
  BY <1>0, <1>3 DEF Die, Write
<1>4. CASE Destroy(d, Held(d))
  BY <1>0, <1>4 DEF Destroy
<1> QED
  BY <1>1, <1>2, <1>3, <1>4 DEF ChildStep, Logs, Dies, Writes, Destroyed

-----------------------------------------------------------------------------
(* What the caller holds.                                                  *)

\* SaysExited and Block find the process reaped.
LEMMA ExitedIsReaped ==
    ASSUME PostgresInv, pc \in Polling, SaysExited
    PROVE  /\ Polled \in Children /\ proc[Polled] = "reaped"
           /\ proc' = proc /\ kind' = kind
<1>1. Polled \in Children
  BY DEF SaysExited, Polled, PostgresInv, TypeOK
<1>2. CASE waited # "active"
  BY <1>1, <1>2 DEF PostgresInv, WaitInv, Awaited, Polled, Polling, SaysExited
<1>3. CASE status[Polled] # "active"
  BY <1>1, <1>3 DEF PostgresInv, Process, SaysExited
<1> QED
  BY <1>1, <1>2, <1>3 DEF SaysExited

LEMMA HeldCaller ==
    ASSUME PostgresInv, CallerStep
    PROVE  HeldInv'
<1> USE DEF PostgresInv, HeldInv, Held
<1>0. /\ {postmaster, target} \subseteq Children \union {NoChild}
      /\ NoChild \notin Children
      /\ after \in {"built", "idle", "start", "ready", "gone"}
      /\ kind \in [Children -> {"none", "server", "command"}]
      /\ proc \in [Children -> {"none", "running", "zombie", "reaped"}]
  BY BackgroundProcessAssumption DEF TypeOK, ChildTypeOK
<1>1. CASE Command
  BY <1>0, <1>1 DEF Command, Launch, Process
<1>2. CASE CommandThrows \/ Built \/ Start \/ Stop \/ Ready
  BY <1>0, <1>2 DEF CommandThrows, Built, Start, Stop, Ready, childVars
<1>3. CASE Started \/ IsRunning
  BY <1>0, <1>3 DEF Started, IsRunning, SaysRunning, SaysExited, childVars
<1>4. CASE CallerReap
  BY <1>0, <1>4 DEF CallerReap, Reap, Exited, Polling, Polled
<1>5. CASE StartCheck \/ StopCheck
  <2>1. /\ pc \in {"start", "stop"} /\ after' = after /\ target' = target
        /\ \/ /\ postmaster' = postmaster /\ proc' = proc /\ kind' = kind
              /\ \/ pc = "start" /\ postmaster = NoChild /\ pc' = "spawn"
                 \/ pc = "start" /\ pc' = "idle"
                 \/ pc = "stop" /\ pc' = after
                 \/ pc = "stop" /\ postmaster # NoChild /\ pc' = "interrupt"
           \/ /\ postmaster' = NoChild /\ SaysExited
              /\ \/ pc = "start" /\ pc' = "spawn"
                 \/ pc = "stop" /\ pc' = after
    BY <1>5 DEF StartCheck, StopCheck, SaysRunning, Polled, childVars
  <2>2. CASE postmaster' = postmaster /\ proc' = proc /\ kind' = kind
    BY <1>0, <2>1, <2>2
  <2>3. CASE postmaster' = NoChild /\ SaysExited
    <3>1. /\ postmaster \in Children /\ proc[postmaster] = "reaped"
          /\ proc' = proc /\ kind' = kind
      BY <2>1, <2>3, ExitedIsReaped DEF Polled, Polling
    <3> QED
      BY <1>0, <2>1, <2>3, <3>1
  <2> QED
    BY <2>1, <2>2, <2>3
<1>6. CASE Spawn
  BY <1>0, <1>6 DEF Spawn, Launch, Process, childVars
<1>7. CASE Interrupt \/ Kill \/ Kill9
  BY <1>0, <1>7 DEF Interrupt, Kill, Kill9, Signal, childVars
<1>8. CASE Grace \/ Last
  BY <1>0, <1>8 DEF Grace, Last, SaysRunning, SaysExited, childVars
<1>9. CASE Poll
  BY <1>0, <1>9, ExitedIsReaped DEF Poll, SaysRunning, Polling, Polled, childVars
<1>10. CASE Block
  BY <1>0, <1>10 DEF Block, Reap, Process, WaitInv, Awaited, childVars
<1>11. CASE Return
  <2>1. /\ pc = "return" /\ proc' = proc /\ kind' = kind
        /\ postmaster' = IF target = postmaster THEN NoChild ELSE postmaster
        /\ target' = NoChild /\ pc' = after /\ after' = "idle"
    BY <1>11 DEF Return, childVars
  <2> QED
    BY <1>0, <2>1
<1> QED
  BY <1>1, <1>2, <1>3, <1>4, <1>5, <1>6, <1>7, <1>8, <1>9, <1>10, <1>11
     DEF CallerStep, Call

\* A process that ends, writes or is logged stays with whoever holds it.
LEMMA HeldChild ==
    ASSUME PostgresInv, NEW d \in Children, ChildStep(d)
    PROVE  HeldInv'
<1> USE DEF PostgresInv, HeldInv, Held
<1>0. /\ {postmaster, target} \subseteq Children \union {NoChild}
      /\ NoChild \notin Children
      /\ kind \in [Children -> {"none", "server", "command"}]
      /\ proc \in [Children -> {"none", "running", "zombie", "reaped"}]
  BY BackgroundProcessAssumption DEF TypeOK, ChildTypeOK
<1>1. UNCHANGED <<pc, after, postmaster, target>>
  BY DEF ChildStep, Logs, Dies, Writes, Destroyed, callerVars
<1>2. CASE Logs(d)
  <2>1. kind' = kind /\ (proc' = proc \/ proc' = [proc EXCEPT ![d] = "reaped"])
    BY <1>2 DEF Logs, LoggerStep, LoggerPoll, LoggerCheck, LoggerStore, LoggerRead,
                LoggerStart, Reap
  <2> QED
    BY <1>0, <1>1, <2>1
<1>3. CASE Dies(d)
  BY <1>0, <1>1, <1>3 DEF Dies, Die
<1>4. CASE Writes(d)
  BY <1>0, <1>1, <1>4 DEF Writes, Write
<1>5. CASE Destroyed(d)
  BY <1>0, <1>1, <1>5 DEF Destroyed, Destroy
<1> QED
  BY <1>2, <1>3, <1>4, <1>5 DEF ChildStep

-----------------------------------------------------------------------------
(* Types.                                                                  *)

LEMMA SignalledType ==
    ASSUME PostgresInv, CallerStep \/ \E d \in Children : ChildStep(d)
    PROVE  signalled' \in [Children -> BOOLEAN]
<1>1. signalled \in [Children -> BOOLEAN]
  BY DEF PostgresInv, TypeOK, ChildTypeOK
<1>2. ASSUME NEW d, NEW kills \in BOOLEAN, Signal(d, kills)
      PROVE  signalled' \in [Children -> BOOLEAN]
  <2> DEFINE b == signalled[d] \/ (kills /\ proc[d] = "running")
  <2>1. signalled' = [signalled EXCEPT ![d] = b] /\ b \in BOOLEAN
    BY <1>2, Zenon DEF Signal
  <2> QED
    BY <1>1, <2>1, Zenon
<1>3. CASE Interrupt \/ Kill \/ Kill9
  BY <1>1, <1>2, <1>3 DEF Interrupt, Kill, Kill9, childVars
<1>4. CASE \E d \in Children : Destroyed(d)
  BY <1>1, <1>4 DEF Destroyed, Destroy
<1>5. CASE UNCHANGED signalled
  BY <1>1, <1>5
<1>6. CASE CallerStep /\ ~(Interrupt \/ Kill \/ Kill9)
  <2>1. UNCHANGED signalled
    BY <1>6 DEF CallerStep, Call, Command, CommandThrows, Start, Stop, IsRunning, CallerReap,
       Built, StartCheck, Spawn, Ready, Started, StopCheck, Grace, Last, Poll, Block, Return,
       Launch, SaysRunning, SaysExited, childVars
  <2> QED
    BY <1>5, <2>1
<1>7. CASE \E d \in Children : Logs(d) \/ Dies(d) \/ Writes(d)
  <2>1. UNCHANGED signalled
    BY <1>7 DEF Logs, LoggerStep, LoggerPoll, LoggerCheck, LoggerStore, LoggerRead,
       LoggerStart, Dies, Die, Writes, Write
  <2> QED
    BY <1>5, <2>1
<1> QED
  BY <1>3, <1>4, <1>6, <1>7 DEF ChildStep

LEMMA ChildTypes ==
    ASSUME PostgresInv, CallerStep \/ \E d \in Children : ChildStep(d)
    PROVE  ChildTypeOK'
<1> USE DEF Statuses
<1>1. /\ kind \in [Children -> {"none", "server", "command"}]
      /\ proc \in [Children -> {"none", "running", "zombie", "reaped"}]
      /\ result \in [Children -> {"success", "failure"}]
      /\ unread \in [Children -> 0 .. PipeSize]
      /\ status \in [Children -> Statuses] /\ found \in [Children -> Statuses]
      /\ logger \in [Children -> {"none", "starting", "poll", "check", "store",
                                  "read", "done"}]
      /\ reaper \in [Children -> {"none", "caller", "logger"}]
      /\ emptied \in [Children -> BOOLEAN]
      /\ waited \in Statuses /\ PipeSize \in Nat
  BY BackgroundProcessAssumption DEF PostgresInv, TypeOK, ChildTypeOK
<1>2. CASE CallerStep
  <2>1. ASSUME NEW c \in Children, NEW k \in {"server", "command"}, Launch(c, k)
        PROVE  ChildTypeOK'
    BY <1>1, <1>2, <2>1, SignalledType DEF ChildTypeOK, Launch
  <2>2. CASE CallerReap
    BY <1>1, <1>2, <2>2, SignalledType DEF ChildTypeOK, CallerReap, Reap
  <2>3. CASE SaysExited
    BY <1>1, <1>2, <2>3, SignalledType DEF ChildTypeOK, SaysExited
  <2>4. CASE Block
    BY <1>1, <1>2, <2>4, SignalledType DEF ChildTypeOK, Block, Reap, childVars
  <2>5. CASE UNCHANGED <<kind, proc, result, unread, status, logger, found, reaper,
                         emptied>>
    BY <1>1, <1>2, <2>5, SignalledType DEF ChildTypeOK
  <2> QED
    BY <1>2, <2>1, <2>2, <2>3, <2>4, <2>5, CallerEffect
<1>3. ASSUME NEW d \in Children, ChildStep(d) PROVE ChildTypeOK'
  <2>1. signalled' \in [Children -> BOOLEAN]
    BY <1>3, SignalledType
  <2>2. CASE LoggerPoll(d)
    BY <1>1, <2>1, <2>2 DEF ChildTypeOK, LoggerPoll, LogAt, Reap, Waited
  <2>3. CASE LoggerCheck(d) \/ LoggerStore(d)
    BY <1>1, <2>1, <2>3 DEF ChildTypeOK, LoggerCheck, LoggerStore, LogAt
  <2>4. CASE LoggerRead(d)
    <3>1. /\ \E place \in {"poll", "done"} : logger' = [logger EXCEPT ![d] = place]
          /\ UNCHANGED <<kind, proc, result, status, found, reaper>>
      BY <2>4 DEF LoggerRead, LogAt
    <3>2. unread' \in [Children -> 0 .. PipeSize]
      BY <1>1, <2>4 DEF LoggerRead
    <3>3. emptied' \in [Children -> BOOLEAN]
      <4>1. emptied' = emptied \/ emptied' = [emptied EXCEPT ![d] = (proc[d] = "running")]
        BY <2>4, Zenon DEF LoggerRead
      <4>2. (proc[d] = "running") \in BOOLEAN
        OBVIOUS
      <4> QED
        BY <1>1, <4>1, <4>2, Zenon
    <3>4. logger' \in [Children -> {"none", "starting", "poll", "check", "store", "read",
                                    "done"}]
      BY <1>1, <3>1
    <3>5. /\ kind' = kind /\ proc' = proc /\ result' = result /\ status' = status
          /\ found' = found /\ reaper' = reaper
      BY <3>1
    <3> HIDE DEF Statuses
    <3> QED
      BY <1>1, <2>1, <3>2, <3>3, <3>4, <3>5, Zenon DEF ChildTypeOK
  <2>5. CASE LoggerStart(d, Held(d))
    BY <1>1, <2>1, <2>5 DEF ChildTypeOK, LoggerStart, LogAt
  <2>6. CASE Die(d)
    BY <1>1, <2>1, <2>6 DEF ChildTypeOK, Die
  <2>7. CASE Write(d)
    BY <1>1, <2>1, <2>7 DEF ChildTypeOK, Write
  <2>8. CASE Destroy(d, Held(d))
    BY <1>1, <2>1, <2>8 DEF ChildTypeOK, Destroy
  <2> QED
    BY <1>3, <2>2, <2>3, <2>4, <2>5, <2>6, <2>7, <2>8
       DEF ChildStep, Logs, LoggerStep, Dies, Writes, Destroyed
<1> QED
  BY <1>2, <1>3

\* The places of the caller, and the calls they return to.
LEMMA PlaceTypes ==
    ASSUME PostgresInv, CallerStep
    PROVE  /\ pc' \in Polling \union {"new", "built", "idle", "gone", "spawn", "ready",
                                      "interrupt", "kill", "block", "return"}
           /\ after' \in {"built", "idle", "start", "ready", "gone"}
<1> USE DEF Polling
<1>1. /\ pc \in Polling \union {"new", "built", "idle", "gone", "spawn", "ready",
                                "interrupt", "kill", "block", "return"}
      /\ after \in {"built", "idle", "start", "ready", "gone"}
  BY DEF PostgresInv, TypeOK
<1>2. CASE Call
  BY <1>1, <1>2 DEF Call, Command, CommandThrows, Start, Stop, Kill9, IsRunning
<1>3. CASE CallerReap \/ Built \/ StartCheck \/ Spawn \/ Ready \/ Started
  BY <1>1, <1>3 DEF CallerReap, Built, StartCheck, Spawn, Ready, Started
<1>4. CASE StopCheck \/ Interrupt \/ Grace \/ Last \/ Kill
  BY <1>1, <1>4 DEF StopCheck, Interrupt, Grace, Last, Kill
<1>5. CASE Poll \/ Block \/ Return
  BY <1>1, <1>5 DEF Poll, Block, Return
<1> QED
  BY <1>2, <1>3, <1>4, <1>5 DEF CallerStep

\* The children it refers to and what it knows of them.
LEMMA CallerTypes ==
    ASSUME PostgresInv, CallerStep
    PROVE  /\ {postmaster', target'} \subseteq Children \union {NoChild}
           /\ waited' \in Statuses /\ answer' \in Statuses
<1> USE DEF Statuses
<1>1. /\ {postmaster, target} \subseteq Children \union {NoChild}
      /\ waited \in Statuses /\ answer \in Statuses
      /\ status \in [Children -> Statuses]
      /\ result \in [Children -> {"success", "failure"}]
      /\ target \in Children <=> pc \in {"poll", "block", "return"}
  BY DEF PostgresInv, TypeOK, ChildTypeOK, HeldInv
<1>2. CASE Call
  BY <1>1, <1>2 DEF Call, Command, CommandThrows, Start, Stop, Kill9, IsRunning,
                    SaysRunning, SaysExited
<1>3. CASE CallerReap
  BY <1>1, <1>3 DEF CallerReap, Waited, Polled
<1>4. CASE Built \/ StartCheck \/ Spawn \/ Ready \/ Started
  BY <1>1, <1>4 DEF Built, StartCheck, Spawn, Ready, Started, SaysRunning, SaysExited
<1>5. CASE StopCheck \/ Interrupt \/ Grace \/ Last \/ Kill
  BY <1>1, <1>5 DEF StopCheck, Interrupt, Grace, Last, Kill, SaysRunning, SaysExited
<1>6. CASE Poll \/ Block \/ Return
  BY <1>1, <1>6 DEF Poll, Block, Return, SaysRunning, SaysExited
<1> QED
  BY <1>2, <1>3, <1>4, <1>5, <1>6 DEF CallerStep

\* Its counters and its histories.
LEMMA CounterTypes ==
    ASSUME PostgresInv, CallerStep
    PROVE  /\ count' \in (0 .. GracePeriod) \union (0 .. ReadyTries)
           /\ starts' \in 0 .. MaxStarts
           /\ stray' \in {"none", "interrupt", "kill", "idle"}
                          \X {"none", "caller", "logger"}
           /\ undefined' \in {"no", "null", "dangling"}
<1>1. /\ {postmaster, target} \subseteq Children \union {NoChild}
      /\ count \in (0 .. GracePeriod) \union (0 .. ReadyTries)
      /\ starts \in 0 .. MaxStarts
      /\ stray \in {"none", "interrupt", "kill", "idle"}
                     \X {"none", "caller", "logger"}
      /\ undefined \in {"no", "null", "dangling"}
      /\ reaper \in [Children -> {"none", "caller", "logger"}]
      /\ pc \in {"interrupt", "kill"} => postmaster \in Children
      /\ {GracePeriod, ReadyTries, MaxStarts} \subseteq Nat
  BY PostgresAssumption DEF PostgresInv, TypeOK, ChildTypeOK, HeldInv
<1>2. ASSUME NEW d \in Children, NEW kills, Signal(d, kills),
             pc \in {"interrupt", "kill", "idle"}
      PROVE  stray' \in {"none", "interrupt", "kill", "idle"}
                          \X {"none", "caller", "logger"}
  BY <1>1, <1>2 DEF Signal
<1>3. CASE Command \/ CommandThrows \/ Start \/ Stop \/ IsRunning
  BY <1>1, <1>3 DEF Command, CommandThrows, Start, Stop, IsRunning
<1>4. CASE Kill9 \/ Interrupt \/ Kill
  <2>1. stray' = stray \/ \E d \in Children, kills \in BOOLEAN :
            Signal(d, kills) /\ pc \in {"interrupt", "kill", "idle"}
    BY <1>1, <1>4 DEF Kill9, Interrupt, Kill
  <2>2. stray' \in {"none", "interrupt", "kill", "idle"} \X {"none", "caller", "logger"}
    BY <1>1, <1>2, <2>1
  <2>3. count' \in {count, 0} /\ starts' = starts /\ undefined' \in {undefined, "null"}
    BY <1>4 DEF Kill9, Interrupt, Kill
  <2> QED
    BY <1>1, <2>2, <2>3
<1>5. CASE CallerReap \/ Built \/ StartCheck \/ Spawn \/ Ready \/ Started
  BY <1>1, <1>5 DEF CallerReap, Built, StartCheck, Spawn, Ready, Started
<1>6. CASE StopCheck \/ Grace \/ Last
  BY <1>1, <1>6 DEF StopCheck, Grace, Last
<1>7. CASE Poll \/ Block \/ Return
  BY <1>1, <1>7 DEF Poll, Block, Return, NoStray
<1> QED
  BY <1>3, <1>4, <1>5, <1>6, <1>7 DEF CallerStep, Call

LEMMA TypeStep ==
    ASSUME PostgresInv, CallerStep \/ \E d \in Children : ChildStep(d)
    PROVE  TypeOK'
<1>1. CASE CallerStep
  BY <1>1, ChildTypes, PlaceTypes, CallerTypes, CounterTypes DEF TypeOK, Polling, Statuses
<1>2. ASSUME NEW d \in Children, ChildStep(d) PROVE TypeOK'
  <2>1. /\ UNCHANGED <<pc, after, postmaster, target, waited, answer, count, starts, stray>>
        /\ undefined' \in {undefined, "no", "dangling"}
    BY <1>2 DEF ChildStep, Logs, Dies, Writes, Destroyed, callerVars
  <2> QED
    BY <1>2, <2>1, ChildTypes DEF PostgresInv, TypeOK, Polling, Statuses
<1> QED
  BY <1>1, <1>2

-----------------------------------------------------------------------------
(* The status of a child, and the signals.                                 *)

\* A status that the caller has taken is stored before anything else happens to
\* it; only the last second of grace may pass in between.
LEMMA CallerWaits ==
    ASSUME PostgresInv, CallerStep, ~CallerReap, ~(pc \in Polling /\ SaysExited), ~Block
    PROVE  /\ waited' = waited
           /\ \/ waited = "active"
              \/ /\ pc = "grace" /\ pc' = "last"
                 /\ UNCHANGED <<childVars, postmaster, target>>
<1> USE DEF PostgresInv, WaitInv, Polling
<1>1. CASE Call \/ Built
  BY <1>1 DEF Call, Command, CommandThrows, Start, Stop, Kill9, IsRunning, Built,
              SaysRunning
<1>2. CASE StartCheck \/ StopCheck
  <2>1. waited' = waited /\ (postmaster = NoChild \/ waited = "active")
    BY <1>2 DEF StartCheck, StopCheck, SaysRunning
  <2>2. pc \notin {"poll", "block"}
    BY <1>2 DEF StartCheck, StopCheck
  <2> QED
    BY <2>1, <2>2, BackgroundProcessAssumption DEF Awaited
<1>3. CASE Spawn \/ Ready \/ Interrupt \/ Kill \/ Return
  BY <1>3 DEF Spawn, Ready, Interrupt, Kill, Return
<1>4. CASE Started \/ Last \/ Poll
  BY <1>4 DEF Started, Last, Poll, SaysRunning
<1>5. CASE Grace
  BY <1>5 DEF Grace, SaysRunning
<1> QED
  BY <1>1, <1>2, <1>3, <1>4, <1>5 DEF CallerStep

LEMMA WaitCaller ==
    ASSUME PostgresInv, CallerStep
    PROVE  WaitInv'
<1>0. /\ Statuses = {"active", "success", "failure"}
      /\ proc \in [Children -> {"none", "running", "zombie", "reaped"}]
      /\ result \in [Children -> {"success", "failure"}]
      /\ status \in [Children -> Statuses] /\ waited \in Statuses
      /\ target \in Children <=> pc \in {"poll", "block", "return"}
  BY DEF PostgresInv, TypeOK, ChildTypeOK, HeldInv, Statuses
<1>1. WaitInv
  BY DEF PostgresInv
<1>2. CASE CallerReap
  <2>1. /\ pc \in Polling /\ Polled \in Children
        /\ UNCHANGED <<pc, target, postmaster, result, status, logger>>
        /\ waited = "active" /\ status[Polled] = "active"
        /\ proc[Polled] \in {"zombie", "reaped"}
        /\ proc' = [proc EXCEPT ![Polled] = "reaped"]
        /\ waited' = IF proc[Polled] = "zombie" THEN result[Polled] ELSE "success"
    BY <1>2 DEF CallerReap, Polled, Reap, Exited, Waited, PostgresInv, TypeOK
  <2>2. Awaited = Polled /\ Awaited' = Polled
    BY <2>1 DEF Awaited, Polled, Polling
  <2>3. proc[Polled] = "reaped" => Seen(Polled)
    BY <1>1, <2>1 DEF WaitInv
  <2> QED
    BY <1>0, <1>1, <2>1, <2>2, <2>3 DEF WaitInv, Seen, Polling
<1>3. CASE pc \in Polling /\ SaysExited
  <2>1. /\ Polled \in Children /\ waited' = "active"
        /\ UNCHANGED <<proc, result, logger>>
        /\ status' = [status EXCEPT ![Polled] = IF @ = "active" THEN waited ELSE @]
        /\ waited # "active" \/ status[Polled] # "active"
    BY <1>3, ExitedIsReaped DEF SaysExited
  <2>2. Awaited = Polled
    BY <1>3 DEF Awaited, Polled, Polling
  <2> QED
    BY <1>0, <1>1, <2>1, <2>2 DEF WaitInv, Seen
<1>4. CASE Block
  <2>1. pc = "block" /\ target' = target /\ Awaited = target /\ target \in Children
    BY <1>0, <1>4 DEF Block, Awaited
  <2>2. CASE UNCHANGED <<childVars, waited>> /\ waited = "active"
    BY <1>1, <2>2 DEF WaitInv, Seen, childVars
  <2>3. CASE /\ waited = "active" /\ status[target] = "active" /\ proc[target] = "zombie"
             /\ Reap(target, "caller") /\ waited' = result[target]
             /\ UNCHANGED <<result, status, logger, pc>>
    BY <1>0, <1>1, <2>1, <2>3 DEF WaitInv, Seen, Awaited, Reap
  <2>4. CASE /\ waited # "active" /\ waited' = "active"
             /\ status' = [status EXCEPT ![target] = waited]
             /\ UNCHANGED <<proc, result, logger>>
    BY <1>0, <1>1, <2>1, <2>4 DEF WaitInv, Seen
  <2> QED
    BY <1>4, <2>2, <2>3, <2>4 DEF Block
<1>5. CASE ~CallerReap /\ ~(pc \in Polling /\ SaysExited) /\ ~Block
  <2>1. CASE waited = "active"
    <3>1. waited' = "active"
      BY <1>5, <2>1, CallerWaits
    <3>2. ASSUME NEW c \in Children, NEW k \in {"server", "command"}, Launch(c, k)
          PROVE  WaitInv'
      <4>1. kind[c] = "none" /\ status[c] = "active" /\ proc'[c] = "running"
        BY <1>0, <3>2 DEF Launch, PostgresInv, Process
      <4> QED
        BY <1>0, <1>1, <2>1, <3>1, <3>2, <4>1 DEF WaitInv, Seen, Launch, PostgresInv, Process
    <3>3. CASE UNCHANGED <<proc, result, status, logger>>
      BY <1>1, <2>1, <3>1, <3>3 DEF WaitInv, Seen
    <3> QED
      BY <1>5, <3>2, <3>3, CallerEffect
  <2>2. CASE waited # "active"
    <3>1. /\ pc = "grace" /\ pc' = "last" /\ waited' = waited
          /\ UNCHANGED <<proc, result, status, logger, postmaster, target>>
      BY <1>5, <2>2, CallerWaits DEF childVars
    <3> QED
      BY <1>1, <3>1 DEF WaitInv, Seen, Awaited, Polling
  <2> QED
    BY <2>1, <2>2
<1> QED
  BY <1>2, <1>3, <1>4, <1>5

LEMMA WaitChild ==
    ASSUME PostgresInv, NEW d \in Children, ChildStep(d)
    PROVE  WaitInv'
<1>0. /\ Statuses = {"active", "success", "failure"}
      /\ proc \in [Children -> {"none", "running", "zombie", "reaped"}]
      /\ result \in [Children -> {"success", "failure"}]
      /\ status \in [Children -> Statuses] /\ found \in [Children -> Statuses]
      /\ logger \in [Children -> {"none", "starting", "poll", "check", "store", "read",
                                  "done"}]
      /\ WaitInv /\ Process(d)
      /\ waited # "active" => Awaited \in {postmaster, target}
  BY DEF PostgresInv, TypeOK, ChildTypeOK, Statuses, Awaited
<1>1. UNCHANGED <<pc, postmaster, target, waited>> /\ Awaited' = Awaited
  BY DEF ChildStep, Logs, Dies, Writes, Destroyed, callerVars, Awaited
<1>2. CASE LoggerPoll(d)
  <2>1. CASE UNCHANGED <<proc, result, status>> /\ logger[d] = "poll"
             /\ \E place \in {"done", "read"} : logger' = [logger EXCEPT ![d] = place]
    BY <1>0, <1>1, <2>1 DEF WaitInv, Seen
  <2>2. CASE /\ UNCHANGED <<result, status>> /\ logger' = [logger EXCEPT ![d] = "check"]
             /\ proc' = [proc EXCEPT ![d] = "reaped"]
    BY <1>0, <1>1, <2>2 DEF WaitInv, Seen
  <2> QED
    BY <1>2, <2>1, <2>2 DEF LoggerPoll, LogAt, Reap
<1>3. CASE LoggerCheck(d)
  <2>1. /\ UNCHANGED <<proc, result, status>> /\ logger[d] = "check"
        /\ \E place \in {"done", "store"} : logger' = [logger EXCEPT ![d] = place]
    BY <1>3 DEF LoggerCheck, LogAt
  <2> QED
    BY <1>0, <1>1, <2>1 DEF WaitInv, Seen
<1>4. CASE LoggerStore(d)
  <2>1. /\ UNCHANGED <<proc, result>> /\ logger' = [logger EXCEPT ![d] = "done"]
        /\ status' = [status EXCEPT ![d] = found[d]]
    BY <1>4 DEF LoggerStore, LogAt
  <2> QED
    BY <1>0, <1>1, <2>1 DEF WaitInv, Seen
<1>5. CASE LoggerRead(d) \/ LoggerStart(d, Held(d))
  <2>1. /\ UNCHANGED <<proc, result, status>> /\ logger[d] \in {"read", "starting"}
        /\ \E place \in {"done", "poll"} : logger' = [logger EXCEPT ![d] = place]
    BY <1>5 DEF LoggerRead, LoggerStart, LogAt
  <2> QED
    BY <1>0, <1>1, <2>1 DEF WaitInv, Seen
<1>6. CASE Die(d)
  <2>1. /\ proc[d] = "running" /\ status[d] = "active"
        /\ proc' = [proc EXCEPT ![d] = "zombie"]
        /\ \E r \in {"success", "failure"} : result' = [result EXCEPT ![d] = r]
        /\ UNCHANGED <<status, logger>>
    BY <1>0, <1>6 DEF Die, Process
  <2> QED
    BY <1>0, <1>1, <2>1 DEF WaitInv, Seen
<1>7. CASE Write(d)
  BY <1>0, <1>1, <1>7 DEF Write, WaitInv, Seen
<1>8. CASE Destroy(d, Held(d))
  <2>1. /\ d \notin {postmaster, target}
        /\ proc' = [proc EXCEPT ![d] = "none"] /\ result' = [result EXCEPT ![d] = "success"]
        /\ status' = [status EXCEPT ![d] = "active"]
        /\ logger' = [logger EXCEPT ![d] = "none"]
    BY <1>8 DEF Destroy, Held
  <2> QED
    BY <1>0, <1>1, <2>1 DEF WaitInv, Seen
<1> QED
  BY <1>2, <1>3, <1>4, <1>5, <1>6, <1>7, <1>8
     DEF ChildStep, Logs, LoggerStep, Dies, Writes, Destroyed

LEMMA SignalCaller ==
    ASSUME PostgresInv, CallerStep
    PROVE  SignalInv'
<1>0. /\ reaper \in [Children -> {"none", "caller", "logger"}]
      /\ SignalInv /\ HeldInv /\ stray = <<stray[1], stray[2]>>
  BY DEF PostgresInv, TypeOK, ChildTypeOK
<1> USE DEF SignalInv, SignalsExplained, NoStray
<1>1. CASE Interrupt \/ Kill
  <2>1. /\ pc \in {"interrupt", "kill"} /\ pc' \in {"grace", "poll"}
        /\ stray' = stray \/ stray' = <<pc, "logger">>
    BY <1>0, <1>1 DEF Interrupt, Kill, Signal
  <2> QED
    BY <1>0, <2>1
<1>2. CASE Kill9
  <2>1. /\ pc = "idle" /\ pc' \in {"idle", "poll"}
        /\ stray' = stray \/ \E r : stray' = <<pc, r>>
    BY <1>2 DEF Kill9, Signal
  <2> QED
    BY <1>0, <2>1
<1>3. CASE StopCheck \/ Last
  <2>1. /\ stray' = stray
        /\ \/ /\ pc' \in {"interrupt", "kill"} /\ postmaster' = postmaster
              /\ proc[postmaster] = "running" /\ proc' = proc
           \/ pc' \notin {"interrupt", "kill"}
    BY <1>0, <1>3 DEF StopCheck, Last, HeldInv, SaysRunning, Polled, childVars
  <2> QED
    BY <1>0, <2>1
<1>4. CASE Return
  BY <1>0, <1>4 DEF Return, PostgresInv, TypeOK
<1>5. CASE Command \/ CommandThrows \/ Start \/ Stop \/ IsRunning
  BY <1>0, <1>5 DEF Command, CommandThrows, Start, Stop, IsRunning
<1>6. CASE CallerReap \/ Built \/ StartCheck \/ Spawn \/ Ready \/ Started
  BY <1>0, <1>6 DEF CallerReap, Polling, Built, StartCheck, Spawn, Ready, Started
<1>7. CASE Grace \/ Poll \/ Block
  BY <1>0, <1>7 DEF Grace, Poll, Block
<1> QED
  BY <1>1, <1>2, <1>3, <1>4, <1>5, <1>6, <1>7 DEF CallerStep, Call

LEMMA SignalChild ==
    ASSUME PostgresInv, NEW d \in Children, ChildStep(d)
    PROVE  SignalInv'
<1>0. /\ reaper \in [Children -> {"none", "caller", "logger"}]
      /\ proc \in [Children -> {"none", "running", "zombie", "reaped"}]
      /\ SignalInv
      /\ pc \in {"interrupt", "kill"} =>
             postmaster \in Children /\ kind[postmaster] = "server" /\ Process(postmaster)
  BY DEF PostgresInv, TypeOK, ChildTypeOK, HeldInv
<1>1. UNCHANGED <<pc, postmaster, stray>>
  BY DEF ChildStep, Logs, Dies, Writes, Destroyed, callerVars
<1>2. CASE LoggerPoll(d)
  <2>1. \/ UNCHANGED <<proc, reaper>>
        \/ /\ proc' = [proc EXCEPT ![d] = "reaped"]
           /\ reaper' = [reaper EXCEPT ![d] =
                  IF @ = "none" /\ kind[d] = "server" THEN "logger" ELSE @]
    BY <1>2 DEF LoggerPoll, Reap
  <2> QED
    BY <1>0, <1>1, <2>1 DEF SignalInv, SignalsExplained, Process
<1>3. CASE LoggerCheck(d) \/ LoggerStore(d) \/ LoggerRead(d) \/ LoggerStart(d, Held(d))
           \/ Write(d)
  BY <1>0, <1>1, <1>3
     DEF LoggerCheck, LoggerStore, LoggerRead, LoggerStart, Write, SignalInv, SignalsExplained
<1>4. CASE Die(d)
  BY <1>0, <1>1, <1>4 DEF Die, SignalInv, SignalsExplained
<1>5. CASE Destroy(d, Held(d))
  BY <1>0, <1>1, <1>5 DEF Destroy, Held, SignalInv, SignalsExplained
<1> QED
  BY <1>2, <1>3, <1>4, <1>5
     DEF ChildStep, Logs, LoggerStep, Dies, Writes, Destroyed

-----------------------------------------------------------------------------
(* The invariant, and what follows from it.                                *)

LEMMA PostgresInit == Init => PostgresInv
<1> SUFFICES ASSUME Init PROVE PostgresInv
  OBVIOUS
<1>1. ChildTypeOK
  BY BackgroundProcessAssumption DEF Init, ChildInit, ChildTypeOK, Statuses
<1>2. TypeOK
  BY <1>1, PostgresAssumption DEF Init, TypeOK, Polling, Statuses, NoStray
<1>3. HeldInv
  BY BackgroundProcessAssumption DEF Init, ChildInit, HeldInv, Held
<1>4. WaitInv /\ SignalInv
  BY DEF Init, ChildInit, WaitInv, SignalInv, SignalsExplained, NoStray
<1>5. \A c \in Children : Process(c)
  BY DEF Init, ChildInit, Process
<1> QED
  BY <1>2, <1>3, <1>4, <1>5 DEF PostgresInv

LEMMA PostgresStep == PostgresInv /\ [Next]_vars => PostgresInv'
<1> SUFFICES ASSUME PostgresInv, [Next]_vars PROVE PostgresInv'
  OBVIOUS
<1>1. CASE CallerStep
  BY <1>1, TypeStep, HeldCaller, WaitCaller, SignalCaller, ProcessCaller DEF PostgresInv
<1>2. CASE \E d \in Children : ChildStep(d)
  <2>1. PICK d \in Children : ChildStep(d)
    BY <1>2
  <2> QED
    BY <2>1, TypeStep, HeldChild, WaitChild, SignalChild, ProcessChild DEF PostgresInv
<1>3. CASE UNCHANGED vars
  BY <1>3 DEF vars, childVars, callerVars, PostgresInv, TypeOK, ChildTypeOK, HeldInv, Held,
     WaitInv, Awaited, Seen, SignalInv, SignalsExplained, Process
<1> QED
  BY <1>1, <1>2, <1>3 DEF Next, Halted, ChildStep

LEMMA PostgresInvariant == Spec => []PostgresInv
<1> QED
  BY PostgresInit, PostgresStep, PTL DEF Spec

\* Every variable of the process handling keeps its type: no counter of polls,
\* tries or starts passes its limit (stop(), wait_ready()).
THEOREM PostgresTypeCorrect == Spec => []TypeOK
<1>1. PostgresInv => TypeOK
  BY DEF PostgresInv
<1> QED
  BY <1>1, PostgresInvariant, PTL

\* A server that runs is always the one postmaster points to, whoever of the
\* caller and the logger reaps it and whichever call is interrupted where: no
\* server is forgotten and none is started beside another (start(), stop()).
THEOREM ServerStaysHeld == Spec => []TheServerIsHeld
<1>1. PostgresInv => TheServerIsHeld
  <2> SUFFICES ASSUME PostgresInv, NEW c \in Children,
                      kind[c] = "server", proc[c] = "running"
               PROVE  c = postmaster
    BY DEF TheServerIsHeld
  <2> QED
    BY DEF PostgresInv, HeldInv, Held
<1> QED
  BY <1>1, PostgresInvariant, PTL

\* When stop() signals a process id that is already free, it is because the
\* logger thread has reaped the server since the poll (stop(), setupLogger).
THEOREM SignalsHaveCause == Spec => []SignalsExplained
<1>1. PostgresInv => SignalsExplained
  BY DEF PostgresInv, SignalInv
<1> QED
  BY <1>1, PostgresInvariant, PTL

\* A command's exit code is wrong only if the logger thread too has asked for
\* it: with one thread at the child, every answer is the right one
\* (runAndWait(), child.running()).
THEOREM AnswersHaveCause == Spec => []AnswersExplained
<1>1. PostgresInv => AnswersExplained
  <2> SUFFICES ASSUME PostgresInv, pc = "return", status[target] # result[target]
               PROVE  Seen(target)
    BY DEF AnswersExplained, Seen
  <2>1. target \in Children /\ proc[target] = "reaped"
    BY DEF PostgresInv, HeldInv
  <2>2. waited = "active"
    BY DEF PostgresInv, WaitInv, Polling
  <2>3. CASE status[target] = "active"
    BY <2>1, <2>2, <2>3 DEF PostgresInv, WaitInv
  <2>4. CASE status[target] # "active"
    BY <2>1, <2>4 DEF PostgresInv, WaitInv
  <2> QED
    BY <2>3, <2>4
<1> QED
  BY <1>1, PostgresInvariant, PTL

\* The logger stops reading the output of a running process only because of an
\* empty line in it (setupLogger).
THEOREM LoggerKeepsReading == Spec => []LoggerStays
<1>1. PostgresInv => LoggerStays
  BY DEF PostgresInv, Process, LoggerStays
<1> QED
  BY <1>1, PostgresInvariant, PTL

-----------------------------------------------------------------------------
(* To the rest of pstress it is a server that starts and stops.            *)

Serves(c) == kind[c] = "server" /\ proc[c] = "running"

\* A step that leaves every server running or down is no step of Server.
LEMMA SameServers ==
    ASSUME \A c \in Children : Serves(c)' <=> Serves(c), UNCHANGED starts
    PROVE  UNCHANGED S!serverVars
<1>1. Running' <=> Running
  BY DEF Running, Serves
<1>2. Running \in BOOLEAN /\ Running' \in BOOLEAN
  BY DEF Running
<1>3. Running' = Running
  BY <1>1, <1>2, Zenon
<1> QED
  BY <1>3, Zenon DEF S!serverVars

LEMMA ServerCaller ==
    ASSUME PostgresInv, CallerStep
    PROVE  [S!Start \/ S!Stop]_S!serverVars
<1>0. /\ kind \in [Children -> {"none", "server", "command"}]
      /\ proc \in [Children -> {"none", "running", "zombie", "reaped"}]
      /\ HeldInv /\ \A c \in Children : Process(c)
  BY DEF PostgresInv, TypeOK, ChildTypeOK
<1>1. CASE Spawn
  <2>1. CASE UNCHANGED <<childVars, starts>>
    BY <2>1, SameServers DEF childVars, Serves
  <2>2. ASSUME NEW c \in Children, Launch(c, "server"), starts' = starts + 1
        PROVE  S!Start
    <3>1. \A e \in Children : ~(kind[e] = "server" /\ proc[e] = "running")
      BY <1>0, <1>1, BackgroundProcessAssumption DEF Spawn, HeldInv, Held
    <3>2. kind'[c] = "server" /\ proc'[c] = "running"
      BY <1>0, <2>2 DEF Launch
    <3>3. ~Running /\ Running'
      BY <3>1, <3>2 DEF Running
    <3>4. Running' = TRUE
      <4>1. Running' \in BOOLEAN
        BY DEF Running
      <4> QED
        BY <3>3, <4>1, Zenon
    <3> QED
      BY <2>2, <3>3, <3>4 DEF S!Start
  <2> QED
    BY <1>1, <2>1, <2>2 DEF Spawn
<1>2. CASE Command
  <2>1. PICK c \in Children : Launch(c, "command") /\ starts' = starts
    BY <1>2 DEF Command
  <2>2. \A e \in Children : Serves(e)' <=> Serves(e)
    BY <1>0, <2>1 DEF Launch, Serves
  <2> QED
    BY <2>1, <2>2, SameServers
<1>3. CASE ~Spawn /\ ~Command
  <2>1. starts' = starts
    BY <1>3 DEF CallerStep, Call, CommandThrows, Start, Stop, Kill9, IsRunning, CallerReap, Built,
                StartCheck, Ready, Started, StopCheck, Interrupt, Grace, Last, Kill, Poll,
                Block, Return
  <2>2. CASE CallerReap
    <3>1. /\ Polled \in Children /\ proc[Polled] \in {"zombie", "reaped"} /\ kind' = kind
          /\ proc' = [proc EXCEPT ![Polled] = "reaped"]
      BY <2>2 DEF CallerReap, Reap, Exited, Polled, PostgresInv, TypeOK
    <3>2. \A e \in Children : Serves(e)' <=> Serves(e)
      BY <1>0, <3>1 DEF Serves
    <3> QED
      BY <2>1, <3>2, SameServers
  <2>3. CASE Block
    <3>1. \A e \in Children : Serves(e)' <=> Serves(e)
      BY <1>0, <2>3 DEF Block, Reap, childVars, HeldInv, Serves
    <3> QED
      BY <2>1, <3>1, SameServers
  <2>4. CASE ~CallerReap /\ ~Block
    <3>1. UNCHANGED <<kind, proc>>
      BY <1>3, <2>4
         DEF CallerStep, Call, CommandThrows, Start, Stop, Kill9, IsRunning, Built,
             StartCheck, Ready, Started, StopCheck, Interrupt, Grace, Last, Kill, Poll,
             Return, SaysRunning, SaysExited, Signal, childVars
    <3> QED
      BY <2>1, <3>1, SameServers DEF Serves
  <2> QED
    BY <2>2, <2>3, <2>4
<1> QED
  BY <1>1, <1>2, <1>3

LEMMA ServerChild ==
    ASSUME PostgresInv, NEW d \in Children, ChildStep(d)
    PROVE  [S!Start \/ S!Stop]_S!serverVars
<1>0. /\ kind \in [Children -> {"none", "server", "command"}]
      /\ proc \in [Children -> {"none", "running", "zombie", "reaped"}]
      /\ HeldInv
  BY DEF PostgresInv, TypeOK, ChildTypeOK
<1>1. starts' = starts
  BY DEF ChildStep, Logs, Dies, Writes, Destroyed, callerVars
<1>2. CASE Dies(d) /\ kind[d] = "server"
  <2>1. /\ proc[d] = "running" /\ kind' = kind
        /\ proc' = [proc EXCEPT ![d] = "zombie"]
    BY <1>2 DEF Dies, Die
  <2>2. \A e \in Children : Serves(e) => e = d
    BY <1>0, <1>2, <2>1 DEF HeldInv, Held, Serves
  <2>3. \A e \in Children : ~Serves(e)'
    BY <1>0, <2>1, <2>2 DEF Serves
  <2>4. Running /\ ~Running'
    BY <1>2, <2>1, <2>3 DEF Running, Serves
  <2>5. Running' = FALSE
    <3>1. Running' \in BOOLEAN
      BY DEF Running
    <3> QED
      BY <2>4, <3>1, Zenon
  <2> QED
    BY <1>1, <2>4, <2>5 DEF S!Stop
<1>3. CASE ~(Dies(d) /\ kind[d] = "server")
  <2>1. \/ UNCHANGED <<kind, proc>>
        \/ /\ kind' = kind /\ proc[d] = "running" /\ kind[d] # "server"
           /\ proc' = [proc EXCEPT ![d] = "zombie"]
        \/ /\ kind' = kind /\ proc[d] \in {"zombie", "reaped"}
           /\ proc' = [proc EXCEPT ![d] = "reaped"]
        \/ /\ kind' = [kind EXCEPT ![d] = "none"] /\ proc[d] = "reaped"
           /\ proc' = [proc EXCEPT ![d] = "none"]
    BY <1>3 DEF ChildStep, Logs, LoggerStep, LoggerPoll, LoggerCheck, LoggerStore, LoggerRead,
                LoggerStart, Reap, Exited, Dies, Die, Writes, Write, Destroyed, Destroy
  <2>2. \A e \in Children : Serves(e)' <=> Serves(e)
    BY <1>0, <2>1 DEF Serves
  <2> QED
    BY <1>1, <2>2, SameServers
<1> QED
  BY <1>2, <1>3

\* The process handling implements the server that the workers run against: a
\* life of it begins only when none is running, and it ends before the next
\* begins (start(), stop(), kill9(), restart()).
THEOREM PostgresImplementsServer == Spec => ImplementsServer
<1>1. Init => S!Init
  <2> SUFFICES ASSUME Init PROVE S!Init
    OBVIOUS
  <2>1. ~Running /\ starts = 0
    BY DEF Init, ChildInit, Running
  <2>2. Running = FALSE
    BY <2>1, Zenon DEF Running
  <2> QED
    BY <2>1, <2>2 DEF S!Init
<1>2. PostgresInv /\ [Next]_vars => [S!Start \/ S!Stop]_S!serverVars
  <2> SUFFICES ASSUME PostgresInv, [Next]_vars PROVE [S!Start \/ S!Stop]_S!serverVars
    OBVIOUS
  <2>1. CASE CallerStep
    BY <2>1, ServerCaller
  <2>2. CASE \E d \in Children : ChildStep(d)
    BY <2>2, ServerChild
  <2>3. CASE UNCHANGED vars
    <3>1. UNCHANGED <<kind, proc, starts>>
      BY <2>3 DEF vars, childVars, callerVars
    <3> QED
      BY <3>1, SameServers DEF Serves
  <2> QED
    BY <2>1, <2>2, <2>3 DEF Next, Halted, ChildStep
<1> QED
  BY <1>1, <1>2, PostgresInvariant, PTL DEF Spec, ImplementsServer, S!PostmasterSpec
=============================================================================

------------------------------ MODULE Postgres ------------------------------
(***************************************************************************)
(* A PostgreSQL server that pstress starts, stops and kills                *)
(* (include/process/postgres.hpp, src/process/postgres.cpp).  One thread   *)
(* calls the object; every child has a logger thread (BackgroundProcess).  *)
(* Configuration files, command lines and wrappers are left out.           *)
(***************************************************************************)
EXTENDS BackgroundProcess

CONSTANTS
    GracePeriod,    \* graceful_wait_period, in polls
    ReadyTries,     \* the 5 of start(): how often wait_ready asks pg_isready
    MaxStarts       \* bound: how many servers are started

ASSUME PostgresAssumption == {GracePeriod, ReadyTries, MaxStarts} \subseteq Nat

VARIABLES
    pc,             \* where the calling thread is
    after,          \* where it goes when the call in progress returns
    postmaster,     \* the child postmaster points to
    target,         \* the child that waitUntilExits waits for
    waited,         \* what the caller's own waitpid gave, "active" if nothing
    answer,         \* what the last command returned
    count,          \* seconds waited by stop(), or tries of wait_ready()
    starts,         \* history: servers started
    stray,          \* history: where the call in progress last signalled a
                    \* process id already reaped, and who had reaped it
    undefined       \* a null or dangling pointer has been used

callerVars == <<pc, after, postmaster, target, waited, answer, count, starts,
                stray, undefined>>
vars == <<childVars, callerVars>>

NoStray == <<"none", "none">>

Init ==
    /\ ChildInit
    /\ pc = "new" /\ after = "idle"
    /\ postmaster = NoChild /\ target = NoChild
    /\ waited = "active" /\ answer = "active" /\ count = 0
    /\ starts = 0 /\ stray = NoStray /\ undefined = "no"

-----------------------------------------------------------------------------
(* child.running() of the caller.  It is asked in these places:            *)

Polling == {"start", "started", "stop", "grace", "last", "poll", "is_running"}
Polled == IF pc = "poll" THEN target ELSE postmaster

\* The process has ended: reap it ...
CallerReap ==
    /\ pc \in Polling /\ Polled # NoChild
    /\ pc = "grace" => count < GracePeriod
    /\ waited = "active" /\ status[Polled] = "active" /\ Exited(Polled)
    /\ Reap(Polled, "caller")
    /\ waited' = Waited(Polled)
    /\ UNCHANGED <<kind, result, signalled, unread, status, logger, found,
                   emptied, pc, after, postmaster, target, answer, count,
                   starts, stray, undefined>>

\* ... and store its status, unless there is one: running() is false.
SaysExited ==
    /\ Polled # NoChild
    /\ waited # "active" \/ status[Polled] # "active"
    /\ status' = [status EXCEPT ![Polled] = IF @ = "active" THEN waited ELSE @]
    /\ waited' = "active"
    /\ UNCHANGED <<kind, proc, result, signalled, unread, logger, found,
                   reaper, emptied>>

SaysRunning ==
    /\ Polled # NoChild
    /\ waited = "active"
    /\ status[Polled] = "active" /\ proc[Polled] = "running"
    /\ UNCHANGED <<childVars, waited>>

\* ::kill(child.id(), ...).  The id of a process that was reaped may by now
\* belong to any other process.
Signal(c, kills) ==
    /\ signalled' = [signalled EXCEPT ![c] = @ \/ (kills /\ proc[c] = "running")]
    /\ stray' = IF proc[c] = "reaped" THEN <<pc, reaper[c]>> ELSE stray
    /\ UNCHANGED <<kind, proc, result, unread, status, logger, found, reaper,
                   emptied>>

Held(c) == c \in {postmaster, target}

-----------------------------------------------------------------------------
(* runAndWait: initdb and pg_basebackup in the constructors, pg_isready in *)
(* wait_ready, and createdb, dropdb, createuser.                           *)

Command == \E c \in Children :
    /\ pc \in {"new", "ready", "idle"}
    /\ pc = "ready" => answer # "success" /\ count < ReadyTries
    /\ Launch(c, "command")
    /\ target' = c /\ pc' = "poll"
    /\ after' = IF pc = "new" THEN "built" ELSE pc
    /\ count' = IF pc = "ready" THEN count + 1 ELSE count
    /\ UNCHANGED <<postmaster, waited, answer, starts, stray, undefined>>

\* The program cannot be started: an exception leaves the call.
CommandThrows ==
    /\ pc \in {"new", "ready", "idle"}
    /\ pc = "ready" => answer # "success" /\ count < ReadyTries
    /\ pc' = IF pc = "new" THEN "gone" ELSE "idle"
    /\ UNCHANGED <<childVars, after, postmaster, target, waited, answer, count,
                   starts, stray, undefined>>

\* The constructor throws when initdb has failed.
Built ==
    /\ pc = "built"
    /\ pc' = IF answer = "success" THEN "idle" ELSE "gone"
    /\ answer' = "active"
    /\ UNCHANGED <<childVars, after, postmaster, target, waited, count,
                   starts, stray, undefined>>

-----------------------------------------------------------------------------
(* start()                                                                 *)

Start ==
    /\ pc = "idle"
    /\ pc' = "start" /\ after' = "idle"
    /\ UNCHANGED <<childVars, postmaster, target, waited, answer, count,
                   starts, stray, undefined>>

\* As StartCheck, without the test of running().
StartCheck_NoTest ==
    /\ pc = "start"
    /\ pc' = "spawn" /\ postmaster' = NoChild
    /\ UNCHANGED <<childVars, waited, after, target, answer, count, starts,
                   stray, undefined>>

\* A postmaster that still runs is left alone.
StartCheck ==
    /\ pc = "start"
    /\ \/ /\ postmaster = NoChild
          /\ pc' = "spawn"
          /\ UNCHANGED <<childVars, waited, postmaster>>
       \/ /\ SaysRunning
          /\ pc' = "idle"
          /\ UNCHANGED postmaster
       \/ /\ SaysExited
          /\ pc' = "spawn"
          /\ postmaster' = NoChild
    /\ UNCHANGED <<after, target, answer, count, starts, stray, undefined>>

Spawn ==
    /\ pc = "spawn"
    /\ \/ \E c \in Children :
             /\ starts < MaxStarts
             /\ Launch(c, "server")
             /\ postmaster' = c
             /\ starts' = starts + 1
             /\ pc' = "ready" /\ answer' = "active" /\ count' = 0
       \/ /\ pc' = "idle"       \* BackgroundProcess::run throws
          /\ UNCHANGED <<childVars, postmaster, answer, count, starts>>
    /\ UNCHANGED <<after, target, waited, stray, undefined>>

\* wait_ready() has an answer or gives up; start() does not look at it.
Ready ==
    /\ pc = "ready"
    /\ answer = "success" \/ count = ReadyTries
    /\ pc' = "started"
    /\ UNCHANGED <<childVars, after, postmaster, target, waited, answer, count,
                   starts, stray, undefined>>

Started ==
    /\ pc = "started"
    /\ SaysRunning \/ SaysExited
    /\ pc' = "idle" /\ count' = 0 /\ answer' = "active"
    /\ UNCHANGED <<after, postmaster, target, starts, stray, undefined>>

-----------------------------------------------------------------------------
(* stop(), alone, as the first half of restart(), or in the destructor.    *)

Stop == \E next \in {"idle", "start", "gone"} :
    /\ pc = "idle"
    /\ pc' = "stop" /\ after' = next
    /\ UNCHANGED <<childVars, postmaster, target, waited, answer, count,
                   starts, stray, undefined>>

StopCheck ==
    /\ pc = "stop"
    /\ \/ /\ postmaster = NoChild
          /\ pc' = after
          /\ UNCHANGED <<childVars, waited, postmaster>>
       \/ /\ SaysExited
          /\ pc' = after
          /\ postmaster' = NoChild
       \/ /\ SaysRunning
          /\ pc' = "interrupt"
          /\ UNCHANGED postmaster
    /\ UNCHANGED <<after, target, answer, count, starts, stray, undefined>>

Interrupt ==
    /\ pc = "interrupt"
    /\ Signal(postmaster, FALSE)
    /\ pc' = "grace" /\ count' = 0
    /\ UNCHANGED <<after, postmaster, target, waited, answer, starts, undefined>>

\* As Grace, with <= for <.
Grace_OneMore ==
    /\ pc = "grace"
    /\ \/ /\ count <= GracePeriod /\ SaysRunning
          /\ count' = count + 1
          /\ UNCHANGED pc
       \/ /\ count > GracePeriod
          /\ pc' = "last"
          /\ UNCHANGED <<childVars, waited, count>>
    /\ UNCHANGED <<after, postmaster, target, answer, starts, stray, undefined>>

\* Wait for it to shut down, one poll a second.
Grace ==
    /\ pc = "grace"
    /\ \/ /\ count < GracePeriod /\ SaysRunning
          /\ count' = count + 1
          /\ UNCHANGED pc
       \/ /\ count < GracePeriod /\ SaysExited
          /\ pc' = "last"
          /\ UNCHANGED count
       \/ /\ count = GracePeriod
          /\ pc' = "last"
          /\ UNCHANGED <<childVars, waited, count>>
    /\ UNCHANGED <<after, postmaster, target, answer, starts, stray, undefined>>

\* As Last, without the SIGKILL ...
Last_NoKill ==
    /\ pc = "last"
    /\ SaysRunning \/ SaysExited
    /\ pc' = "poll" /\ target' = postmaster
    /\ count' = 0
    /\ UNCHANGED <<after, postmaster, answer, starts, stray, undefined>>

\* ... and with a SIGKILL in any case.
Last_NoTest ==
    /\ pc = "last"
    /\ pc' = "kill" /\ count' = 0
    /\ UNCHANGED <<childVars, after, postmaster, target, waited, answer, starts,
                   stray, undefined>>

\* Does it still run?  Then kill it.
Last ==
    /\ pc = "last"
    /\ \/ SaysRunning /\ pc' = "kill" /\ UNCHANGED target
       \/ SaysExited /\ pc' = "poll" /\ target' = postmaster
    /\ count' = 0
    /\ UNCHANGED <<after, postmaster, answer, starts, stray, undefined>>

Kill ==
    /\ pc = "kill"
    /\ Signal(postmaster, TRUE)
    /\ pc' = "poll" /\ target' = postmaster
    /\ UNCHANGED <<after, postmaster, waited, answer, count, starts, undefined>>

\* kill9(), which does not ask whether there is a postmaster.
Kill9 ==
    /\ pc = "idle"
    /\ \/ /\ postmaster = NoChild
          /\ undefined' = "null"
          /\ UNCHANGED <<childVars, pc, after, target, stray>>
       \/ /\ postmaster # NoChild
          /\ Signal(postmaster, TRUE)
          /\ pc' = "poll" /\ target' = postmaster /\ after' = "idle"
          /\ UNCHANGED undefined
    /\ UNCHANGED <<postmaster, waited, answer, count, starts>>

IsRunning ==
    /\ \/ /\ pc = "idle" /\ postmaster # NoChild
          /\ pc' = "is_running"
          /\ UNCHANGED <<childVars, waited>>
       \/ /\ pc = "is_running"
          /\ SaysRunning \/ SaysExited
          /\ pc' = "idle"
    /\ UNCHANGED <<after, postmaster, target, answer, count, starts, stray,
                   undefined>>

-----------------------------------------------------------------------------
(* waitUntilExits()                                                        *)

\* As Poll, without the wait().
Poll_NoWait ==
    /\ pc = "poll"
    /\ SaysRunning \/ SaysExited
    /\ pc' = "return"
    /\ UNCHANGED <<after, postmaster, target, answer, count, starts, stray,
                   undefined>>

Poll ==
    /\ pc = "poll"
    /\ \/ SaysRunning /\ pc' = "block"
       \/ SaysExited /\ pc' = "return"
    /\ UNCHANGED <<after, postmaster, target, answer, count, starts, stray,
                   undefined>>

\* As Block, losing the status it has waited for.
Block_NoStore ==
    /\ pc = "block" /\ Exited(target)
    /\ Reap(target, "caller")
    /\ pc' = "return"
    /\ UNCHANGED <<kind, result, signalled, unread, status, logger, found,
                   emptied, after, postmaster, target, waited, answer, count,
                   starts, stray, undefined>>

\* child.wait(), which stores what it reaps.  If the logger has reaped the
\* process it throws, and that is ignored.
Block ==
    /\ pc = "block"
    /\ \/ /\ status[target] # "active" \/ proc[target] = "reaped"
          /\ waited = "active"
          /\ pc' = "return"
          /\ UNCHANGED <<childVars, waited>>
       \/ /\ waited = "active" /\ status[target] = "active"
          /\ proc[target] = "zombie"
          /\ Reap(target, "caller")
          /\ waited' = result[target]
          /\ UNCHANGED <<kind, result, signalled, unread, status, logger,
                         found, emptied, pc>>
       \/ /\ waited # "active"
          /\ status' = [status EXCEPT ![target] = waited]
          /\ waited' = "active"
          /\ pc' = "return"
          /\ UNCHANGED <<kind, proc, result, signalled, unread, logger, found,
                         reaper, emptied>>
    /\ UNCHANGED <<after, postmaster, target, answer, count, starts, stray,
                   undefined>>

\* Take the exit code, of a command; let go of the child.
Return ==
    /\ pc = "return"
    /\ answer' = IF after \in {"built", "ready"} THEN status[target] ELSE "active"
    /\ postmaster' = IF target = postmaster THEN NoChild ELSE postmaster
    /\ target' = NoChild
    /\ pc' = after /\ after' = "idle" /\ stray' = NoStray
    /\ UNCHANGED <<childVars, waited, count, starts, undefined>>

-----------------------------------------------------------------------------

Call == Command \/ CommandThrows \/ Start \/ Stop \/ Kill9 \/ IsRunning

CallerStep ==
    /\ undefined = "no"
    /\ \/ Call \/ CallerReap \/ Built
       \/ StartCheck \/ Spawn \/ Ready \/ Started
       \/ StopCheck \/ Interrupt \/ Grace \/ Last \/ Kill
       \/ Poll \/ Block \/ Return

\* A logger thread; one that starts after its child was let go uses freed
\* memory.
Logs(c) ==
    /\ undefined = "no"
    /\ \/ /\ LoggerStep(c)
          /\ UNCHANGED callerVars
       \/ /\ LoggerStart(c, Held(c))
          /\ undefined' = IF Held(c) THEN "no" ELSE "dangling"
          /\ UNCHANGED <<pc, after, postmaster, target, waited, answer, count,
                         starts, stray>>

Dies(c) == undefined = "no" /\ Die(c) /\ UNCHANGED callerVars
Destroyed(c) ==
    undefined = "no" /\ Destroy(c, Held(c)) /\ UNCHANGED callerVars
Writes(c) == undefined = "no" /\ Write(c) /\ UNCHANGED callerVars

Halted == (undefined # "no" \/ pc = "gone") /\ UNCHANGED vars

Next ==
    \/ CallerStep
    \/ \E c \in Children : Logs(c) \/ Dies(c) \/ Writes(c) \/ Destroyed(c)
    \/ Halted

\* A call that has begun goes on, threads are scheduled, commands end, and
\* SIGKILL ends a server.  That SIGINT does is not assumed.
Fairness ==
    /\ WF_vars(CallerStep /\ pc # "idle")
    /\ \A c \in Children :
        /\ WF_vars(Logs(c)) /\ WF_vars(Destroyed(c))
        /\ WF_vars(Dies(c) /\ (kind[c] = "command" \/ signalled[c]))

Spec == Init /\ [][Next]_vars
FairSpec == Spec /\ Fairness

-----------------------------------------------------------------------------
(* Properties.                                                             *)

TypeOK ==
    /\ ChildTypeOK
    /\ pc \in Polling \union {"new", "built", "idle", "gone", "spawn", "ready",
                              "interrupt", "kill", "block", "return"}
    /\ after \in {"built", "idle", "start", "ready", "gone"}
    /\ {postmaster, target} \subseteq Children \union {NoChild}
    /\ {waited, answer} \subseteq Statuses
    /\ count \in (0 .. GracePeriod) \union (0 .. ReadyTries)
    /\ starts \in 0 .. MaxStarts
    /\ stray \in {"none", "interrupt", "kill", "idle"}
                   \X {"none", "caller", "logger"}
    /\ undefined \in {"no", "null", "dangling"}

\* A server that runs is the one postmaster points to: no call lets go of a
\* server before it has ended, nor starts a second one, whoever reaps it.
TheServerIsHeld == \A c \in Children :
    kind[c] = "server" /\ proc[c] = "running" => c = postmaster

\* To the rest of pstress this is a server that starts, only when it is down,
\* and stops (Server).
Running == \E c \in Children : kind[c] = "server" /\ proc[c] = "running"
S == INSTANCE Server WITH up <- Running, life <- starts
ImplementsServer == S!PostmasterSpec

\* stop() sends no signal to a process that its own polls have seen end:
\* only the logger can reap the server between a poll and the signal.
SignalsExplained == stray[1] \in {"interrupt", "kill"} => stray[2] = "logger"

\* A command is believed to have succeeded when it failed, or the reverse,
\* only if the logger too has asked for its exit.
AnswersExplained ==
    pc = "return" /\ status[target] # result[target]
        => logger[target] \in {"check", "store", "done"}

\* The logger stops reading the output of a process that still runs only
\* because of an empty line.
LoggerStays == \A c \in Children :
    proc[c] = "running" /\ logger[c] = "done" => emptied[c]

\* Every call returns.
CallsReturn == pc # "idle" ~> (pc \in {"idle", "gone"} \/ undefined # "no")
=============================================================================

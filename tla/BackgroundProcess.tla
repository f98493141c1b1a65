------------------------- MODULE BackgroundProcess -------------------------
(***************************************************************************)
(* A child process and the thread that logs its output                     *)
(* (include/process/process.hpp, BackgroundProcess), over                  *)
(* boost::process::child and the operating system.  The thread that made   *)
(* the child and the logger thread both ask child.running(), and whoever   *)
(* calls waitpid first reaps it.                                           *)
(*                                                                         *)
(* child.running() with an exit status not yet known is waitpid(WNOHANG):  *)
(* a process that was reaped by the other thread (ECHILD) has exited with  *)
(* status 0, as far as boost is concerned.  The status is stored in a      *)
(* later step, if there is none by then.                                   *)
(***************************************************************************)
EXTENDS Integers, FiniteSets

CONSTANTS
    Children,       \* identities of the child processes, used again
    NoChild,        \* nullptr
    PipeSize        \* lines the output pipe holds

ASSUME BackgroundProcessAssumption ==
    NoChild \notin Children /\ PipeSize \in Nat \ {0}

VARIABLES
    kind,           \* "none", "server" or "command"
    proc,           \* the process: "none", "running", "zombie" or "reaped"
    result,         \* how it ended: "success" or "failure"
    signalled,      \* it has been sent SIGKILL
    unread,         \* lines in the pipe outerr, while somebody may read them
    status,         \* child's exit status: "active" while not known
    logger,         \* where loggerThd is
    found,          \* the status the logger's waitpid gave
    reaper,         \* history: who reaped a server, "caller" or "logger"
    emptied         \* history: an empty line has ended the log of a process
                    \* that runs

childVars == <<kind, proc, result, signalled, unread, status, logger, found,
               reaper, emptied>>

Statuses == {"active", "success", "failure"}
Exited(c) == proc[c] \in {"zombie", "reaped"}

ChildTypeOK ==
    /\ kind \in [Children -> {"none", "server", "command"}]
    /\ proc \in [Children -> {"none", "running", "zombie", "reaped"}]
    /\ result \in [Children -> {"success", "failure"}]
    /\ signalled \in [Children -> BOOLEAN]
    /\ unread \in [Children -> 0 .. PipeSize]
    /\ status \in [Children -> Statuses] /\ found \in [Children -> Statuses]
    /\ logger \in [Children -> {"none", "starting", "poll", "check", "store",
                                "read", "done"}]
    /\ reaper \in [Children -> {"none", "caller", "logger"}]
    /\ emptied \in [Children -> BOOLEAN]

ChildInit ==
    /\ kind = [c \in Children |-> "none"]
    /\ proc = [c \in Children |-> "none"]
    /\ result = [c \in Children |-> "success"]
    /\ signalled = [c \in Children |-> FALSE]
    /\ unread = [c \in Children |-> 0]
    /\ status = [c \in Children |-> "active"]
    /\ logger = [c \in Children |-> "none"]
    /\ found = [c \in Children |-> "active"]
    /\ reaper = [c \in Children |-> "none"]
    /\ emptied = [c \in Children |-> FALSE]

\* run(): start the process, then its logger thread.
Launch(c, k) ==
    /\ kind[c] = "none"
    /\ kind' = [kind EXCEPT ![c] = k]
    /\ proc' = [proc EXCEPT ![c] = "running"]
    /\ logger' = [logger EXCEPT ![c] = "starting"]
    /\ UNCHANGED <<result, signalled, unread, status, found, reaper, emptied>>

\* Nobody holds the object any more: the caller has let go of it (held) and
\* so has the logger thread.
Destroy(c, held) ==
    /\ kind[c] # "none" /\ ~held
    /\ proc[c] = "reaped" /\ logger[c] = "done"
    /\ kind' = [kind EXCEPT ![c] = "none"]
    /\ proc' = [proc EXCEPT ![c] = "none"]
    /\ result' = [result EXCEPT ![c] = "success"]
    /\ signalled' = [signalled EXCEPT ![c] = FALSE]
    /\ unread' = [unread EXCEPT ![c] = 0]
    /\ status' = [status EXCEPT ![c] = "active"]
    /\ logger' = [logger EXCEPT ![c] = "none"]
    /\ found' = [found EXCEPT ![c] = "active"]
    /\ reaper' = [reaper EXCEPT ![c] = "none"]
    /\ emptied' = [emptied EXCEPT ![c] = FALSE]

-----------------------------------------------------------------------------
(* The process itself.                                                     *)

Write(c) ==
    /\ proc[c] = "running" /\ unread[c] < PipeSize /\ logger[c] # "done"
    /\ unread' = [unread EXCEPT ![c] = @ + 1]
    /\ UNCHANGED <<kind, proc, result, signalled, status, logger, found,
                   reaper, emptied>>

\* It ends: a command when it is done, a server when SIGINT has shut it down
\* or when it crashes or is killed.  Nobody looks at how a server ended.
Die(c) ==
    /\ proc[c] = "running"
    /\ proc' = [proc EXCEPT ![c] = "zombie"]
    /\ \E r \in {"success", "failure"} :
           /\ kind[c] = "server" => r = "failure"
           /\ result' = [result EXCEPT ![c] = r]
    /\ emptied' = [emptied EXCEPT ![c] = FALSE]
    /\ UNCHANGED <<kind, signalled, unread, status, logger, found, reaper>>

-----------------------------------------------------------------------------
(* waitpid, and what boost makes of it.                                    *)

Reap(c, who) ==
    /\ proc' = [proc EXCEPT ![c] = "reaped"]
    /\ reaper' = [reaper EXCEPT ![c] =
                     IF @ = "none" /\ kind[c] = "server" THEN who ELSE @]

\* The status waitpid leaves: of a process reaped before, the initial 0.
Waited(c) == IF proc[c] = "zombie" THEN result[c] ELSE "success"

-----------------------------------------------------------------------------
(* The logger thread, setupLogger.                                         *)

LogAt(c, place) == logger' = [logger EXCEPT ![c] = place]

\* It takes its own shared_ptr, if the object still exists.
LoggerStart(c, held) ==
    /\ logger[c] = "starting"
    /\ LogAt(c, IF held THEN "poll" ELSE "done")
    /\ UNCHANGED <<kind, proc, result, signalled, unread, status, found,
                   reaper, emptied>>

\* child.running()
LoggerPoll(c) ==
    /\ logger[c] = "poll"
    /\ \/ /\ status[c] # "active"
          /\ LogAt(c, "done")
          /\ UNCHANGED <<proc, reaper, found>>
       \/ /\ status[c] = "active" /\ proc[c] = "running"
          /\ LogAt(c, "read")
          /\ UNCHANGED <<proc, reaper, found>>
       \/ /\ status[c] = "active" /\ Exited(c)
          /\ Reap(c, "logger")
          /\ found' = [found EXCEPT ![c] = Waited(c)]
          /\ LogAt(c, "check")
    /\ UNCHANGED <<kind, result, signalled, unread, status, emptied>>

LoggerCheck(c) ==
    /\ logger[c] = "check"
    /\ \/ /\ status[c] = "active"
          /\ LogAt(c, "store")
          /\ UNCHANGED found
       \/ /\ status[c] # "active"
          /\ LogAt(c, "done")
          /\ found' = [found EXCEPT ![c] = "active"]
    /\ UNCHANGED <<kind, proc, result, signalled, unread, status, reaper,
                   emptied>>

LoggerStore(c) ==
    /\ logger[c] = "store"
    /\ status' = [status EXCEPT ![c] = found[c]]
    /\ found' = [found EXCEPT ![c] = "active"]
    /\ LogAt(c, "done")
    /\ UNCHANGED <<kind, proc, result, signalled, unread, reaper, emptied>>

\* As LoggerRead, reading one line only.
LoggerRead_Once(c) ==
    /\ logger[c] = "read"
    /\ unread[c] > 0 \/ Exited(c)
    /\ LogAt(c, "done")
    /\ unread' = [unread EXCEPT ![c] = 0]
    /\ UNCHANGED <<kind, proc, result, signalled, status, found, reaper,
                   emptied>>

\* getline waits for a line or the end of the output; the loop ends there or
\* at an empty line.
LoggerRead(c) ==
    /\ logger[c] = "read"
    /\ \/ /\ unread[c] > 0
          /\ \/ /\ LogAt(c, "poll")
                /\ unread' = [unread EXCEPT ![c] = @ - 1]
                /\ UNCHANGED emptied
             \/ /\ LogAt(c, "done")
                /\ unread' = [unread EXCEPT ![c] = 0]
                /\ emptied' = [emptied EXCEPT ![c] = (proc[c] = "running")]
       \/ /\ unread[c] = 0 /\ Exited(c)
          /\ LogAt(c, "done")
          /\ UNCHANGED <<unread, emptied>>
    /\ UNCHANGED <<kind, proc, result, signalled, status, found, reaper>>

LoggerStep(c) ==
    LoggerPoll(c) \/ LoggerCheck(c) \/ LoggerStore(c) \/ LoggerRead(c)
=============================================================================

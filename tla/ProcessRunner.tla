--------------------------- MODULE ProcessRunner ----------------------------
(***************************************************************************)
(* process::PosixProcessRunner                                             *)
(* (src/core/process/posix_process_runner.cpp): one reactor thread that    *)
(* spawns the children of all tasks, reads their pipes, enforces timeouts, *)
(* terminates them on request, reaps them and reports each of them once.   *)
(* Callers (the scheduler thread, the thread that destroys the runner)     *)
(* talk to it through a queue guarded by a mutex and a wakeup pipe.        *)
(*                                                                         *)
(* The operating system is modelled as far as the reactor depends on it: a *)
(* child closes its pipes before it can be waited for, may close them long *)
(* before it ends, may leave a grandchild that keeps them open, may ignore *)
(* SIGTERM and never survives SIGKILL; a signal sent to a child that has   *)
(* ended but was not reaped does nothing.  Output is a sequence of pieces, *)
(* "text" or a "line" that ends with a newline.  Time is reduced to which  *)
(* of the reactor's timers have expired.                                   *)
(***************************************************************************)
EXTENDS Domain, Sequences, FiniteSets

CONSTANTS
    Handles,         \* the handles of the processes launched
    Fds,             \* the pipes of a child: stdout, stderr
    WritesTo,        \* those that are written to
    HasTimeout,      \* the handles whose spec has a timeout
    MaySpawnFail,    \* those whose spawn may fail
    MayClose,        \* those whose process may close a pipe and run on
    MayFork,         \* those that may leave a grandchild with their pipes
    Ends,            \* the ways in which processes end by themselves
    AsCancellation,  \* the values of as_cancellation that callers pass
    MaxWrites,       \* bound: pieces of output written to a pipe
    MaxPartial       \* kMaxPartialLine, in pieces

ASSUME RunnerAssumption ==
    /\ IsFiniteSet(Handles) /\ IsFiniteSet(Fds)
    /\ WritesTo \subseteq Fds
    /\ HasTimeout \subseteq Handles /\ MaySpawnFail \subseteq Handles
    /\ MayClose \subseteq Handles /\ MayFork \subseteq Handles
    /\ Ends \subseteq {"exited_zero", "exited_nonzero", "signalled"}
    /\ AsCancellation \subseteq BOOLEAN
    /\ MaxWrites \in Nat /\ MaxPartial \in Nat

VARIABLES
    pc,            \* where the reactor's run() is
    queue,         \* queue_, the commands waiting
    local,         \* what is left of the commands drain_commands took
    wakeup,        \* the wakeup pipe holds a byte
    todo,          \* the children reap_children has not come to yet
    cur,           \* the child it is working on
    shutting_down, \* shutting_down_; running_ is its negation
    active,        \* active_
    children,      \* the keys of children_
    child,         \* their Child records
    launched, asked, destroyed,  \* the calls made so far
    report,        \* the outcome passed to on_exit
    os,            \* the process: none, alive, exiting, zombie or reaped
    status,        \* how it ended
    sig,           \* the last signal it got from the runner while alive
    own, heir,     \* the write ends it has open, and its grandchild has
    pipe,          \* the pieces in each pipe
    partial,       \* the pieces of an unfinished line
    wrote,         \* the pieces written to each pipe so far
    emitted,       \* the pieces passed to on_stdout or on_stderr
    expired        \* the timers that have expired

output == <<pipe, partial, wrote, emitted>>
process == <<os, status, sig, own, heir>>
calls == <<launched, asked, destroyed>>
loop == <<pc, local, todo, cur, shutting_down>>
vars == <<loop, queue, wakeup, active, children, child, calls, report, process,
          output, expired>>

-----------------------------------------------------------------------------
Command == [type : {"launch"}, handle : Handles]
             \cup [type : {"terminate"}, handle : Handles, cancel : BOOLEAN]
             \cup [type : {"shutdown"}]

Child == [exited : BOOLEAN, open : SUBSET Fds, pipes_closed : BOOLEAN,
          term_stage : 0..2, forced : {"no", "timed_out", "cancelled"}]

NewChild == [exited |-> FALSE, open |-> Fds, pipes_closed |-> FALSE,
             term_stage |-> 0, forced |-> "no"]

(* How a process can end: with code zero, another code, or by a signal.    *)
Status == {"exited_zero", "exited_nonzero", "signalled"}

Timer == {"deadline", "grace", "settle"} \X Handles

TypeOK ==
    /\ pc \in {"swap", "drain", "cmds", "reap", "waitpid",
               "finalize", "poll", "stopped"}
    /\ queue \in Seq(Command) /\ local \in Seq(Command)
    /\ wakeup \in BOOLEAN /\ shutting_down \in BOOLEAN
    /\ todo \subseteq children /\ cur \in children \cup {"none"}
    /\ active \in Nat
    /\ children \subseteq Handles /\ child \in [Handles -> Child]
    /\ launched \subseteq Handles /\ asked \subseteq launched
    /\ destroyed \in BOOLEAN
    /\ report \in [Handles -> ProcessOutcome \cup {"none"}]
    /\ os \in [Handles -> {"none", "alive", "exiting", "zombie", "reaped"}]
    /\ status \in [Handles -> Status]
    /\ sig \in [Handles -> {"none", "TERM", "KILL"}]
    /\ own \in [Handles -> SUBSET Fds] /\ heir \in [Handles -> SUBSET Fds]
    /\ pipe \in [Handles -> [Fds -> Seq({"text", "line"})]]
    /\ partial \in [Handles -> [Fds -> Nat]]
    /\ wrote \in [Handles -> [Fds -> 0..MaxWrites]]
    /\ emitted \in [Handles -> [Fds -> 0..MaxWrites]]
    /\ expired \subseteq Timer

Init ==
    /\ pc = "swap"
    /\ queue = <<>> /\ local = <<>>
    /\ wakeup = FALSE
    /\ todo = {} /\ cur = "none"
    /\ shutting_down = FALSE
    /\ active = 0
    /\ children = {} /\ child = [h \in Handles |-> NewChild]
    /\ launched = {} /\ asked = {} /\ destroyed = FALSE
    /\ report = [h \in Handles |-> "none"]
    /\ os = [h \in Handles |-> "none"]
    /\ status = [h \in Handles |-> "exited_zero"]
    /\ sig = [h \in Handles |-> "none"]
    /\ own = [h \in Handles |-> {}] /\ heir = [h \in Handles |-> {}]
    /\ pipe = [h \in Handles |-> [fd \in Fds |-> <<>>]]
    /\ partial = [h \in Handles |-> [fd \in Fds |-> 0]]
    /\ wrote = [h \in Handles |-> [fd \in Fds |-> 0]]
    /\ emitted = [h \in Handles |-> [fd \in Fds |-> 0]]
    /\ expired = {}

-----------------------------------------------------------------------------
(* The callers.  Each call pushes its command and writes the wakeup byte.  *)
(* The byte is written after the mutex is released; a reactor that takes   *)
(* the command in between only finds a byte for nothing later, so pushing  *)
(* and waking are one step.                                                *)

Push(cmd) == queue' = Append(queue, cmd) /\ wakeup' = TRUE

launch(h) ==
    /\ ~destroyed /\ ~shutting_down
    /\ h \notin launched
    /\ launched' = launched \cup {h}
    /\ active' = active + 1
    /\ Push([type |-> "launch", handle |-> h])
    /\ UNCHANGED <<loop, children, child, asked, destroyed, report, process,
                   output, expired>>

(* The scheduler asks once per handle, at any time after launch().         *)
request_terminate(h, as_cancellation) ==
    /\ ~destroyed
    /\ h \in launched \ asked
    /\ asked' = asked \cup {h}
    /\ Push([type |-> "terminate", handle |-> h, cancel |-> as_cancellation])
    /\ UNCHANGED <<loop, active, children, child, launched, destroyed, report,
                   process, output, expired>>

(* The destructor; nobody else uses the runner from then on.               *)
Destroy ==
    /\ ~destroyed
    /\ destroyed' = TRUE
    /\ Push([type |-> "shutdown"])
    /\ UNCHANGED <<loop, active, children, child, launched, asked, report,
                   process, output, expired>>

-----------------------------------------------------------------------------
(* Signals and output *)

Writers(h) == own[h] \cup heir[h]

(* kill(pid, s) for the children in hit: only a live process notices.      *)
Kill(hit, s) ==
    sig' = [h \in Handles |-> IF h \in hit /\ os[h] = "alive" THEN s ELSE sig[h]]

(* The place of the last newline in what was read.                         *)
LastLine(s) ==
    CHOOSE i \in 0..Len(s) :
        /\ i > 0 => s[i] = "line"
        /\ \A j \in (i + 1)..Len(s) : s[j] # "line"

(* emit_lines: what stays behind as an unfinished line after s was read.   *)
Unfinished(s, before) ==
    LET rest == IF LastLine(s) = 0 THEN before + Len(s) ELSE Len(s) - LastLine(s)
    IN  IF rest > MaxPartial THEN 0 ELSE rest

(* An unfinished line is dropped at end of file.                           *)
BugDrainFds(F) ==
    LET eof(h, fd) == fd \notin Writers(h)
        kept(h, fd) == Unfinished(pipe[h][fd], partial[h][fd])
    IN
    /\ pipe' = [h \in Handles |-> [fd \in Fds |->
                  IF <<h, fd>> \in F THEN <<>> ELSE pipe[h][fd]]]
    /\ partial' = [h \in Handles |-> [fd \in Fds |->
                  IF <<h, fd>> \notin F THEN partial[h][fd]
                  ELSE IF eof(h, fd) THEN 0 ELSE kept(h, fd)]]
    /\ emitted' = [h \in Handles |-> [fd \in Fds |->
                  IF <<h, fd>> \in F
                  THEN emitted[h][fd] + partial[h][fd] + Len(pipe[h][fd]) - kept(h, fd)
                  ELSE emitted[h][fd]]]
    /\ UNCHANGED wrote

(* drain_fd for the pipes in F: everything that can be read is read, and   *)
(* at end of file the unfinished line is emitted too.                      *)
DrainFds(F) ==
    LET kept(h, fd) == IF fd \in Writers(h)
                       THEN Unfinished(pipe[h][fd], partial[h][fd]) ELSE 0
    IN
    /\ pipe' = [h \in Handles |-> [fd \in Fds |->
                  IF <<h, fd>> \in F THEN <<>> ELSE pipe[h][fd]]]
    /\ partial' = [h \in Handles |-> [fd \in Fds |->
                  IF <<h, fd>> \in F THEN kept(h, fd) ELSE partial[h][fd]]]
    /\ emitted' = [h \in Handles |-> [fd \in Fds |->
                  IF <<h, fd>> \in F
                  THEN emitted[h][fd] + partial[h][fd] + Len(pipe[h][fd]) - kept(h, fd)
                  ELSE emitted[h][fd]]]
    /\ UNCHANGED wrote

(* The pipes that are still open after those of F were drained.            *)
StillOpen(h, F) ==
    {fd \in child[h].open : <<h, fd>> \in F => fd \in Writers(h)}

-----------------------------------------------------------------------------
(* The reactor thread: run() *)

(* drain_commands takes the queue, the mutex held ...                      *)
SwapQueue ==
    /\ pc = "swap"
    /\ local' = queue /\ queue' = <<>>
    /\ pc' = "drain"
    /\ UNCHANGED <<todo, cur, shutting_down, wakeup, active, children, child,
                   calls, report, process, output, expired>>

(* ... and empties the wakeup pipe when the mutex is released.             *)
DrainWakeup ==
    /\ pc = "drain"
    /\ wakeup' = FALSE
    /\ pc' = "cmds"
    /\ UNCHANGED <<local, todo, cur, shutting_down, queue, active, children,
                   child, calls, report, process, output, expired>>

NextCommand(type) ==
    /\ pc = "cmds"
    /\ local # <<>>
    /\ Head(local).type = type
    /\ local' = Tail(local)

(* handle_launch: the child runs, its pipes open and its clock started.    *)
HandleLaunch ==
    /\ NextCommand("launch")
    /\ LET h == Head(local).handle IN
         /\ children' = children \cup {h}
         /\ child' = [child EXCEPT ![h] = NewChild]
         /\ os' = [os EXCEPT ![h] = "alive"]
         /\ own' = [own EXCEPT ![h] = Fds]
    /\ UNCHANGED <<pc, todo, cur, shutting_down, queue, wakeup, active, calls,
                   report, status, sig, heir, output, expired>>

(* handle_launch's four failures (an invalid spec, pipe(), fork(), and     *)
(* chdir() or exec in the child, which is reaped at once).                 *)
SpawnFailure ==
    /\ NextCommand("launch")
    /\ LET h == Head(local).handle IN
         /\ h \in MaySpawnFail
         /\ report' = [report EXCEPT ![h] = "spawn_failed"]
         /\ active' = active - 1
    /\ UNCHANGED <<pc, todo, cur, shutting_down, queue, wakeup, children, child,
                   calls, process, output, expired>>

(* The child can still be asked: it is known, not reaped, not asked yet.   *)
Terminable(h) == h \in children /\ ~child[h].exited /\ child[h].term_stage = 0

(* The two outcomes are mixed up.                                          *)
BugHandleTerminate ==
    /\ NextCommand("terminate")
    /\ LET h == Head(local).handle IN
         IF Terminable(h)
         THEN /\ Kill({h}, "TERM")
              /\ child' = [child EXCEPT ![h] = [@ EXCEPT !.term_stage = 1,
                   !.forced = IF Head(local).cancel THEN "timed_out" ELSE "cancelled"]]
         ELSE UNCHANGED <<sig, child>>
    /\ UNCHANGED <<pc, todo, cur, shutting_down, queue, wakeup, active, children,
                   calls, report, os, status, own, heir, output, expired>>

(* handle_terminate.                                                       *)
HandleTerminate ==
    /\ NextCommand("terminate")
    /\ LET h == Head(local).handle IN
         IF Terminable(h)
         THEN /\ Kill({h}, "TERM")
              /\ child' = [child EXCEPT ![h] = [@ EXCEPT !.term_stage = 1,
                   !.forced = IF Head(local).cancel THEN "cancelled" ELSE "timed_out"]]
         ELSE UNCHANGED <<sig, child>>
    /\ UNCHANGED <<pc, todo, cur, shutting_down, queue, wakeup, active, children,
                   calls, report, os, status, own, heir, output, expired>>

(* Shutdown: every child that was not reaped is killed at once.            *)
HandleShutdown ==
    /\ NextCommand("shutdown")
    /\ shutting_down' = TRUE
    /\ LET hit == {h \in children : ~child[h].exited} IN
         /\ Kill(hit, "KILL")
         /\ child' = [h \in Handles |->
              IF h \in hit THEN [child[h] EXCEPT !.forced = "cancelled", !.term_stage = 2]
              ELSE child[h]]
    /\ UNCHANGED <<pc, todo, cur, queue, wakeup, active, children, calls, report,
                   os, status, own, heir, output, expired>>

(* A runner that is shut down does not wait for the children it killed.    *)
BugEndCommands ==
    /\ pc = "cmds"
    /\ local = <<>>
    /\ pc' = IF shutting_down THEN "stopped" ELSE "reap"
    /\ todo' = {h \in children : ~child[h].exited}
    /\ UNCHANGED <<local, cur, shutting_down, queue, wakeup, active, children,
                   child, calls, report, process, output, expired>>

(* The commands are done: leave the loop or start reap_children.           *)
EndCommands ==
    /\ pc = "cmds"
    /\ local = <<>>
    /\ pc' = IF shutting_down /\ children = {} THEN "stopped" ELSE "reap"
    /\ todo' = {h \in children : ~child[h].exited}
    /\ UNCHANGED <<local, cur, shutting_down, queue, wakeup, active, children,
                   child, calls, report, process, output, expired>>

(* reap_children, for one child: its pipes are drained ...                 *)
ReapDrain(h) ==
    /\ pc = "reap"
    /\ h \in todo
    /\ pc' = "waitpid" /\ cur' = h
    /\ LET F == {h} \X child[h].open IN
         /\ DrainFds(F)
         /\ child' = [child EXCEPT ![h] = [@ EXCEPT !.open = StillOpen(h, F),
              !.pipes_closed = child[h].pipes_closed \/ StillOpen(h, F) = {}]]
    /\ UNCHANGED <<local, todo, shutting_down, queue, wakeup, active, children,
                   calls, report, process, expired>>

(* ... and only then it is waited for, without blocking.                   *)
ReapWait ==
    /\ pc = "waitpid"
    /\ pc' = "reap" /\ cur' = "none"
    /\ todo' = todo \ {cur}
    /\ IF os[cur] = "zombie"
       THEN /\ os' = [os EXCEPT ![cur] = "reaped"]
            /\ child' = [child EXCEPT ![cur].exited = TRUE]
       ELSE UNCHANGED <<os, child>>
    /\ UNCHANGED <<local, shutting_down, queue, wakeup, active, children, calls,
                   report, status, sig, own, heir, output, expired>>

(* A child that was reaped in this round is not left out.                  *)
BugOverdue(h) ==
    h \in children /\ child[h].term_stage = 0 /\ <<"deadline", h>> \in expired

Overdue(h) ==
    /\ h \in children /\ ~child[h].exited /\ child[h].term_stage = 0
    /\ <<"deadline", h>> \in expired

GraceOver(h) ==
    /\ h \in children /\ ~child[h].exited /\ child[h].term_stage = 1
    /\ <<"grace", h>> \in expired

(* enforce_deadlines.                                                      *)
EnforceDeadlines ==
    /\ pc = "reap"
    /\ todo = {}
    /\ pc' = "finalize"
    /\ sig' = [h \in Handles |->
         IF os[h] # "alive" THEN sig[h]
         ELSE IF Overdue(h) THEN "TERM"
         ELSE IF GraceOver(h) THEN "KILL" ELSE sig[h]]
    /\ child' = [h \in Handles |->
         IF Overdue(h)
         THEN [child[h] EXCEPT !.term_stage = 1, !.forced = "timed_out"]
         ELSE IF GraceOver(h) THEN [child[h] EXCEPT !.term_stage = 2] ELSE child[h]]
    /\ UNCHANGED <<local, todo, cur, shutting_down, queue, wakeup, active,
                   children, calls, report, os, status, own, heir, output, expired>>

(* A child is done when it was reaped and both its pipes are at their end. *)
Finished == {h \in children : child[h].exited /\ child[h].open = {}}

Outcome(h) == IF child[h].forced # "no" THEN child[h].forced ELSE status[h]

(* finalize_children, and the second test of the loop.                     *)
FinalizeChildren ==
    /\ pc = "finalize"
    /\ report' = [h \in Handles |-> IF h \in Finished THEN Outcome(h) ELSE report[h]]
    /\ children' = children \ Finished
    /\ active' = active - Cardinality(Finished)
    /\ pc' = IF shutting_down /\ children' = {} THEN "stopped" ELSE "poll"
    /\ UNCHANGED <<local, todo, cur, shutting_down, queue, wakeup, child, calls,
                   process, output, expired>>

(* poll() reports the pipes that have data or no writer left.              *)
Readable ==
    {x \in children \X Fds :
        LET h == x[1]
            fd == x[2]
        IN  fd \in child[h].open /\ (pipe[h][fd] # <<>> \/ fd \notin Writers(h))}

(* The grace period is forgotten.                                          *)
BugTimers ==
    {x \in Timer :
        LET k == x[1]
            h == x[2]
        IN  /\ h \in children
            /\ \/ k = "deadline" /\ h \in HasTimeout /\ ~child[h].exited
                    /\ child[h].term_stage = 0
               \/ k = "settle" /\ child[h].pipes_closed /\ ~child[h].exited}

(* next_timeout_ms: the timers it considers, with no one poll() blocks.    *)
Timers ==
    {x \in Timer :
        LET k == x[1]
            h == x[2]
        IN  /\ h \in children
            /\ \/ k = "deadline" /\ h \in HasTimeout /\ ~child[h].exited
                    /\ child[h].term_stage = 0
               \/ k = "grace" /\ child[h].term_stage = 1
               \/ k = "settle" /\ child[h].pipes_closed /\ ~child[h].exited}

(* poll_once, when there is something to read: the pipes are drained.      *)
PollReady ==
    /\ pc = "poll"
    /\ wakeup \/ Readable # {}
    /\ pc' = "swap"
    /\ DrainFds(Readable)
    /\ child' = [h \in Handles |->
         IF h \in children THEN [child[h] EXCEPT !.open = StillOpen(h, Readable)]
         ELSE child[h]]
    /\ UNCHANGED <<local, todo, cur, shutting_down, queue, wakeup, active,
                   children, calls, report, process, expired>>

(* poll_once, when poll() times out (after a second at most) or is         *)
(* interrupted by a signal to the engine.                                  *)
PollNothing ==
    /\ pc = "poll"
    /\ ~wakeup /\ Readable = {}
    /\ pc' = "swap"
    /\ UNCHANGED <<local, todo, cur, shutting_down, queue, wakeup, active,
                   children, child, calls, report, process, output, expired>>

Reactor ==
    \/ SwapQueue \/ DrainWakeup
    \/ HandleLaunch \/ SpawnFailure \/ HandleTerminate \/ HandleShutdown
    \/ EndCommands \/ (\E h \in children : ReapDrain(h)) \/ ReapWait
    \/ EnforceDeadlines \/ FinalizeChildren \/ PollReady
    \/ (Timers # {} /\ PollNothing)

-----------------------------------------------------------------------------
(* The operating system *)

system == <<loop, queue, wakeup, active, children, child, calls, report>>

(* A piece of output, of the child or of its grandchild.                   *)
Write(h, fd, piece) ==
    /\ fd \in Writers(h) \cap WritesTo
    /\ wrote[h][fd] < MaxWrites
    /\ pipe' = [pipe EXCEPT ![h][fd] = Append(@, piece)]
    /\ wrote' = [wrote EXCEPT ![h][fd] = @ + 1]
    /\ UNCHANGED <<system, process, partial, emitted, expired>>

(* The child closes one of its pipes and runs on.                          *)
CloseFd(h, fd) ==
    /\ h \in MayClose /\ os[h] = "alive" /\ fd \in own[h]
    /\ own' = [own EXCEPT ![h] = @ \ {fd}]
    /\ UNCHANGED <<system, os, status, sig, heir, output, expired>>

(* The child starts a process of its own, which inherits its pipes ...     *)
Fork(h) ==
    /\ h \in MayFork /\ os[h] = "alive" /\ heir[h] = {}
    /\ heir' = [heir EXCEPT ![h] = own[h]]
    /\ UNCHANGED <<system, os, status, sig, own, output, expired>>

(* ... and which ends whenever it likes; no signal of the runner gets there.*)
GrandchildEnds(h) ==
    /\ heir[h] # {}
    /\ heir' = [heir EXCEPT ![h] = {}]
    /\ UNCHANGED <<system, os, status, sig, own, output, expired>>

(* The child ends: its pipes are closed first ...                          *)
Exit(h, s) ==
    /\ os[h] = "alive"
    /\ IF sig[h] = "KILL" THEN s = "signalled"
       ELSE s \in Ends \/ (sig[h] = "TERM" /\ s = "signalled")
    /\ os' = [os EXCEPT ![h] = "exiting"]
    /\ status' = [status EXCEPT ![h] = s]
    /\ own' = [own EXCEPT ![h] = {}]
    /\ UNCHANGED <<system, sig, heir, output, expired>>

(* ... and then it can be waited for.                                      *)
BecomeZombie(h) ==
    /\ os[h] = "exiting"
    /\ os' = [os EXCEPT ![h] = "zombie"]
    /\ UNCHANGED <<system, status, sig, own, heir, output, expired>>

(* A moment the reactor may look for passes: the deadline of a child, the  *)
(* end of its grace period, 20 ms after its pipes were closed.             *)
Expire(x) ==
    LET k == x[1]
        h == x[2]
    IN
    /\ x \notin expired /\ h \in children /\ ~child[h].exited
    /\ k = "deadline" => h \in HasTimeout /\ child[h].term_stage = 0
    /\ k = "grace" => child[h].term_stage = 1
    /\ k = "settle" => child[h].pipes_closed
    /\ expired' = expired \cup {x}
    /\ UNCHANGED <<system, process, output>>

Environment ==
    \/ \E h \in Handles :
         \/ \E fd \in Fds : CloseFd(h, fd) \/ \E p \in {"text", "line"} : Write(h, fd, p)
         \/ Fork(h) \/ GrandchildEnds(h) \/ BecomeZombie(h)
         \/ \E s \in Status : Exit(h, s)
    \/ \E x \in Timer : Expire(x)

Callers ==
    \/ \E h \in Handles : launch(h) \/ \E c \in AsCancellation : request_terminate(h, c)
    \/ Destroy

(* The reactor thread has ended and was joined.                            *)
Stopped == pc = "stopped" /\ UNCHANGED vars

Next == Reactor \/ PollNothing \/ Environment \/ Callers \/ Stopped

Spec == Init /\ [][Next]_vars

(* The reactor runs, time passes, SIGKILL ends a child and a child that is *)
(* ending becomes a zombie.  Nothing else is assumed: a child may run      *)
(* forever and ignore SIGTERM, a grandchild may keep the pipes forever,    *)
(* and an interrupted poll() is never relied on.                           *)
Fairness ==
    /\ WF_vars(Reactor)
    /\ \A x \in Timer : WF_vars(Expire(x))
    /\ \A h \in Handles :
         /\ WF_vars(sig[h] = "KILL" /\ Exit(h, "signalled"))
         /\ WF_vars(BecomeZombie(h))

FairSpec == Spec /\ Fairness

-----------------------------------------------------------------------------
(* Properties *)

(* The places of the launch commands of h in a queue.                      *)
LaunchesOf(q, h) == {i \in DOMAIN q : q[i].type = "launch" /\ q[i].handle = h}

(* A launched process is in exactly one place until it is reported: one    *)
(* command in the queue, one command taken from it, or the table of        *)
(* children; and active_ counts exactly these processes.                   *)
LaunchAccounted ==
    /\ active = Cardinality({h \in launched : report[h] = "none"})
    /\ \A h \in Handles :
         Cardinality(LaunchesOf(queue, h)) + Cardinality(LaunchesOf(local, h))
           + (IF h \in children THEN 1 ELSE 0)
             = IF h \in launched /\ report[h] = "none" THEN 1 ELSE 0

(* on_exit comes after the last line of both streams, when no writer is    *)
(* left, and after the child was reaped: nothing is lost, nothing follows. *)
ExitComesLast ==
    \A h \in Handles : report[h] \notin {"none", "spawn_failed"} =>
        /\ os[h] = "reaped"
        /\ Writers(h) = {}
        /\ emitted[h] = wrote[h]

(* An exit or a crash is only reported of a process that ended like that   *)
(* and that the runner never signalled; a timeout only when it was over or *)
(* a caller asked for it to be called one.                                 *)
OutcomeTrue ==
    \A h \in Handles :
        /\ report[h] \in Status => report[h] = status[h] /\ sig[h] = "none"
        /\ report[h] = "timed_out" => <<"deadline", h>> \in expired
                                        \/ (FALSE \in AsCancellation /\ h \in asked)

(* What on_exit says (finalize_children) is true and complete.             *)
ReportExact == TypeOK /\ ExitComesLast /\ OutcomeTrue

(* The runner signals only processes it has not reaped: a process id that  *)
(* may belong to somebody else by now is never the target of kill().       *)
SignalsOnlyItsOwn ==
    [][\A h \in Handles : child'[h].term_stage > child[h].term_stage
            => os[h] \in {"alive", "exiting", "zombie"}]_vars

(* When the reactor has ended, no process it started is left: none alive,  *)
(* none unreaped, none unreported.                                         *)
StoppedClean ==
    pc = "stopped" =>
        /\ \A h \in Handles : os[h] \in {"none", "reaped"}
        /\ active = 0 /\ queue = <<>>

(* No process is lost between launch() and its report (launch, drain_      *)
(* commands, finalize_children), nor when the runner is destroyed.         *)
NothingLost == LaunchAccounted /\ StoppedClean

(* The contract the scheduler relies on.                                   *)
C == INSTANCE RunnerContract
ImplementsContract == C!Contract

(* No grandchild of h keeps its pipes for ever.                            *)
Alone(h) == <>[](heir[h] = {})

(* A process that outlives its timeout, or that the reactor has begun to   *)
(* terminate, is reported, even one that ignores SIGTERM: SIGKILL follows, *)
(* unless a grandchild keeps its pipes.                                    *)
TerminationEnds ==
    \A h \in Handles : Alone(h) =>
        (h \in children /\ (<<"deadline", h>> \in expired \/ child[h].term_stage >= 1))
            ~> report[h] # "none"

-----------------------------------------------------------------------------
(* What the documentation says and the code does not do *)

(* process_runner.hpp: "Ask the process to stop: SIGTERM now, SIGKILL      *)
(* after a short grace period."                                            *)
TerminateHonoured ==
    \A h \in Handles : (h \in asked) ~> (report[h] # "none")

(* process_result.hpp: kTimedOut is "FlowForge killed it after its timeout *)
(* elapsed" and kCancelled "FlowForge killed it because the run was        *)
(* cancelled".                                                             *)
KilledIfSaidSo ==
    \A h \in Handles : report[h] \in {"timed_out", "cancelled"} => sig[h] # "none"

(* docs/user-guide.md: "Task hangs forever: add timeout_ms; FlowForge will *)
(* SIGTERM then SIGKILL it."                                               *)
TimeoutEndsTask ==
    \A h \in Handles :
        (h \in children /\ <<"deadline", h>> \in expired) ~> report[h] # "none"

(* docs/final-report.md: "no busy-wait".  An expired timer that makes      *)
(* poll() return at once is dealt with, sooner or later.                   *)
NeverSpins == []<>(Timers \cap expired = {})
=============================================================================

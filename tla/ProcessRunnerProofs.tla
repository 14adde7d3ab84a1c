------------------------ MODULE ProcessRunnerProofs -------------------------
(***************************************************************************)
(* Proofs about ProcessRunner, for any number of processes and pipes, any  *)
(* timeouts and any behaviour of the processes.                            *)
(***************************************************************************)
EXTENDS ProcessRunner, FiniteSetTheorems, WellFoundedInduction, TLAPS

-----------------------------------------------------------------------------
(* The inductive invariant *)

(* The command i of q launches h.                                          *)
IsLaunch(q, i, h) == i \in DOMAIN q /\ q[i].type = "launch" /\ q[i].handle = h

(* A launch of h is waiting in q.                                          *)
Waits(q, h) == \E i \in DOMAIN q : IsLaunch(q, i, h)

(* Where run() is says which of its local variables are in use.            *)
LoopInv ==
    /\ pc \notin {"drain", "cmds"} => local = <<>>
    /\ pc \notin {"reap", "waitpid"} => todo = {}
    /\ IF pc = "waitpid" THEN cur \in todo ELSE cur = "none"
    /\ pc = "stopped" => shutting_down /\ children = {}

(* Commands are about handles whose calls were made (L launched, A asked,  *)
(* D the destructor's), a handle is launched by one of them at most, and   *)
(* nothing follows a shutdown.                                             *)
CommandsIn(q, L, A, D) ==
    \A i \in DOMAIN q :
        /\ q[i].type = "launch" => q[i].handle \in L
        /\ q[i].type = "launch" =>
             \A j \in DOMAIN q : IsLaunch(q, j, q[i].handle) => j = i
        /\ q[i].type = "terminate" => q[i].handle \in A /\ q[i].cancel \in AsCancellation
        /\ q[i].type = "shutdown" => D /\ i = Len(q)

(* The commands of a queue are those that were given.                      *)
CommandsOk(q) == CommandsIn(q, launched, asked, destroyed)

(* So are those the loop has not handled, in both places they can be.      *)
CommandInv ==
    /\ CommandsOk(queue) /\ CommandsOk(local)
    /\ \A i \in DOMAIN local : local[i].type = "shutdown" => queue = <<>>
    /\ shutting_down => destroyed /\ queue = <<>> /\ local = <<>>

(* A launched process is in one place until it is reported, and the        *)
(* process exists from the moment it is in the table until it is reaped.   *)
PlaceInv ==
    /\ active = Cardinality({h \in launched : report[h] = "none"})
    /\ \A h \in Handles :
        /\ h \in launched /\ report[h] = "none"
             <=> Waits(queue, h) \/ Waits(local, h) \/ h \in children
        /\ ~(Waits(queue, h) /\ Waits(local, h))
        /\ h \in children => ~Waits(queue, h) /\ ~Waits(local, h)
        /\ h \in children => (child[h].exited <=> os[h] = "reaped")
        /\ h \in children => os[h] # "none"
        /\ (os[h] # "none" /\ report[h] = "none") => h \in children
        /\ report[h] # "none" => os[h] \in {"none", "reaped"} /\ h \in launched

(* A caller asked for the end of h to be called a timeout.                 *)
AskedAsTimeout(h) == FALSE \in AsCancellation /\ h \in asked

(* The child record knows what was done to the process and why.            *)
ChildOk(h) ==
    /\ os[h] = "none" => sig[h] = "none"
    /\ h \in children =>
         /\ child[h].forced = "no" <=> child[h].term_stage = 0
         /\ child[h].forced = "no" => sig[h] = "none"
         /\ child[h].forced = "timed_out" =>
              <<"deadline", h>> \in expired \/ AskedAsTimeout(h)
         /\ child[h].forced = "cancelled" => h \in asked \/ destroyed
    /\ <<"deadline", h>> \in expired => h \in HasTimeout

(* Every child.                                                            *)
ChildInv == \A h \in Handles : ChildOk(h)

(* A pipe the reactor has closed has no writer and is empty, and every     *)
(* piece that was written is in the pipe, in the partial line or emitted.  *)
PipeInv ==
    \A h \in Handles :
        /\ os[h] # "alive" => own[h] = {}
        /\ os[h] = "none" => heir[h] = {}
        /\ Writers(h) \subseteq child[h].open
        /\ \A fd \in Fds :
             /\ fd \notin child[h].open => pipe[h][fd] = <<>> /\ partial[h][fd] = 0
             /\ emitted[h][fd] + partial[h][fd] + Len(pipe[h][fd]) = wrote[h][fd]

(* What the reports say, and the contract's reading of it.                 *)
ReportInv ==
    /\ OutcomeTrue
    /\ \A h \in Handles :
         report[h] \notin {"none", "spawn_failed"} =>
            os[h] = "reaped" /\ child[h].open = {}

(* The inductive invariant.                                                *)
IInv == /\ TypeOK /\ LoopInv /\ CommandInv /\ PlaceInv
        /\ ChildInv /\ PipeInv /\ ReportInv

-----------------------------------------------------------------------------
(* Lemmas about the queue of commands *)

(* A queue of records of one of the three kinds.                           *)
LEMMA CommandKinds ==
    ASSUME NEW c \in Command
    PROVE  /\ c.type \in {"launch", "terminate", "shutdown"}
           /\ c.type # "shutdown" => c.handle \in Handles
           /\ c.type = "terminate" => c.cancel \in BOOLEAN
  BY DEF Command

(* Pushing a command at the end of a queue.                                *)
LEMMA WaitsAppend ==
    ASSUME NEW q \in Seq(Command), NEW c \in Command, NEW h
    PROVE  Waits(Append(q, c), h) <=> Waits(q, h) \/ (c.type = "launch" /\ c.handle = h)
  <1>1. /\ DOMAIN Append(q, c) = 1..(Len(q) + 1) /\ DOMAIN q = 1..Len(q) /\ Len(q) \in Nat
        /\ \A i \in 1..Len(q) : Append(q, c)[i] = q[i]
        /\ Append(q, c)[Len(q) + 1] = c
    OBVIOUS
  <1>2. \A i \in DOMAIN Append(q, c) : i \in DOMAIN q \/ i = Len(q) + 1
    BY <1>1
  <1> QED BY <1>1, <1>2 DEF Waits, IsLaunch

(* Taking the first command off a queue.                                   *)
LEMMA WaitsTail ==
    ASSUME NEW q \in Seq(Command), q # <<>>, NEW h, NEW L, NEW A, NEW D,
           CommandsIn(q, L, A, D)
    PROVE  Waits(Tail(q), h)
             <=> Waits(q, h) /\ ~(Head(q).type = "launch" /\ Head(q).handle = h)
  <1>1. /\ DOMAIN q = 1..Len(q) /\ Len(q) \in Nat \ {0} /\ Head(q) = q[1]
        /\ DOMAIN Tail(q) = 1..(Len(q) - 1)
        /\ \A i \in 1..(Len(q) - 1) : Tail(q)[i] = q[i + 1]
    OBVIOUS
  <1>2. ASSUME Waits(Tail(q), h)
        PROVE  Waits(q, h) /\ ~(Head(q).type = "launch" /\ Head(q).handle = h)
    <2>1. PICK i \in DOMAIN Tail(q) : IsLaunch(Tail(q), i, h)
      BY <1>2 DEF Waits
    <2>2. i + 1 \in DOMAIN q /\ IsLaunch(q, i + 1, h) /\ i + 1 # 1
      BY <1>1, <2>1 DEF IsLaunch
    <2>3. 1 \in DOMAIN q
      BY <1>1
    <2> QED BY <1>1, <2>2, <2>3 DEF Waits, CommandsIn, IsLaunch
  <1>3. ASSUME Waits(q, h), ~(Head(q).type = "launch" /\ Head(q).handle = h)
        PROVE  Waits(Tail(q), h)
    <2>1. PICK i \in DOMAIN q : IsLaunch(q, i, h)
      BY <1>3 DEF Waits
    <2>2. i # 1
      BY <1>1, <1>3, <2>1 DEF IsLaunch
    <2>3. i - 1 \in DOMAIN Tail(q) /\ Tail(q)[i - 1] = q[i]
      BY <1>1, <2>1, <2>2
    <2> QED BY <2>1, <2>3 DEF Waits, IsLaunch
  <1> QED BY <1>2, <1>3

(* Calls that are made later do not hurt the commands that are waiting.    *)
LEMMA CommandsLater ==
    ASSUME NEW q, NEW L, NEW A, NEW D, NEW L2, NEW A2, NEW D2,
           CommandsIn(q, L, A, D), L \subseteq L2, A \subseteq A2, D => D2
    PROVE  CommandsIn(q, L2, A2, D2)
  BY DEF CommandsIn

(* While the destructor has not been called, a command may follow.         *)
LEMMA CommandsAppend ==
    ASSUME NEW q \in Seq(Command), NEW c \in Command, NEW L, NEW A, NEW D,
           CommandsIn(q, L, A, FALSE), CommandsIn(<<c>>, L, A, D),
           c.type = "launch" => ~Waits(q, c.handle)
    PROVE  CommandsIn(Append(q, c), L, A, D)
  <1> DEFINE r == Append(q, c)
  <1>1. /\ DOMAIN r = 1..(Len(q) + 1) /\ DOMAIN q = 1..Len(q) /\ Len(q) \in Nat
        /\ \A i \in 1..Len(q) : r[i] = q[i]
        /\ r[Len(q) + 1] = c /\ Len(r) = Len(q) + 1
    OBVIOUS
  <1>2. /\ c.type = "launch" => c.handle \in L
        /\ c.type = "terminate" => c.handle \in A /\ c.cancel \in AsCancellation
        /\ c.type = "shutdown" => D
    <2>1. <<c>>[1] = c /\ 1 \in DOMAIN <<c>>
      OBVIOUS
    <2> QED BY <2>1 DEF CommandsIn
  <1>3. \A i \in DOMAIN r : i \in DOMAIN q \/ i = Len(q) + 1
    BY <1>1
  <1> SUFFICES ASSUME NEW i \in DOMAIN r
               PROVE  /\ r[i].type = "launch" => r[i].handle \in L
                      /\ r[i].type = "launch" =>
                           \A j \in DOMAIN r : IsLaunch(r, j, r[i].handle) => j = i
                      /\ r[i].type = "terminate" =>
                           r[i].handle \in A /\ r[i].cancel \in AsCancellation
                      /\ r[i].type = "shutdown" => D /\ i = Len(r)
    BY DEF CommandsIn
  <1>4. CASE i \in DOMAIN q
    <2>1. /\ r[i] = q[i]
          /\ r[i].type = "launch" => r[i].handle \in L
          /\ r[i].type = "launch" =>
               \A j \in DOMAIN q : IsLaunch(q, j, r[i].handle) => j = i
          /\ r[i].type = "terminate" => r[i].handle \in A /\ r[i].cancel \in AsCancellation
          /\ r[i].type # "shutdown"
      BY <1>1, <1>4 DEF CommandsIn
    <2>2. r[i].type = "launch" => ~IsLaunch(r, Len(q) + 1, r[i].handle)
      BY <1>1, <1>4, <2>1 DEF IsLaunch, Waits
    <2>3. \A j \in DOMAIN q : IsLaunch(r, j, r[i].handle) => IsLaunch(q, j, r[i].handle)
      BY <1>1 DEF IsLaunch
    <2> QED BY <1>3, <2>1, <2>2, <2>3
  <1>5. CASE i = Len(q) + 1
    <2>1. \A j \in DOMAIN q : IsLaunch(r, j, c.handle) => IsLaunch(q, j, c.handle)
      BY <1>1 DEF IsLaunch
    <2> QED BY <1>1, <1>2, <1>3, <1>5, <2>1 DEF Waits
  <1> QED BY <1>3, <1>4, <1>5

(* The rest of a queue of commands is one.                                 *)
LEMMA CommandsTail ==
    ASSUME NEW q \in Seq(Command), q # <<>>, NEW L, NEW A, NEW D, CommandsIn(q, L, A, D)
    PROVE  CommandsIn(Tail(q), L, A, D)
  <1> DEFINE r == Tail(q)
  <1>1. /\ DOMAIN q = 1..Len(q) /\ Len(q) \in Nat \ {0}
        /\ DOMAIN r = 1..(Len(q) - 1) /\ Len(r) = Len(q) - 1
        /\ \A i \in 1..(Len(q) - 1) : r[i] = q[i + 1]
    OBVIOUS
  <1>2. \A i \in DOMAIN r : i + 1 \in DOMAIN q /\ r[i] = q[i + 1] /\ i \in Nat
    BY <1>1
  <1>3. \A i \in DOMAIN r : \A h : IsLaunch(r, i, h) => IsLaunch(q, i + 1, h)
    BY <1>2 DEF IsLaunch
  <1>4. \A i, j \in DOMAIN r : i + 1 = j + 1 => i = j
    BY <1>2
  <1>5. \A i \in DOMAIN r : i + 1 = Len(q) => i = Len(r)
    BY <1>1
  <1> HIDE DEF r
  <1> SUFFICES ASSUME NEW i \in DOMAIN r
               PROVE  /\ r[i].type = "launch" => r[i].handle \in L
                      /\ r[i].type = "launch" =>
                           \A j \in DOMAIN r : IsLaunch(r, j, r[i].handle) => j = i
                      /\ r[i].type = "terminate" =>
                           r[i].handle \in A /\ r[i].cancel \in AsCancellation
                      /\ r[i].type = "shutdown" => D /\ i = Len(r)
    BY DEF CommandsIn, r
  <1>6. i + 1 \in DOMAIN q /\ r[i] = q[i + 1]
    BY <1>2
  <1> QED BY <1>2, <1>3, <1>4, <1>5, <1>6 DEF CommandsIn

-----------------------------------------------------------------------------
(* Lemmas about reading a pipe *)

(* A nonempty family of subsets of a finite set has a smallest member.     *)
LEMMA SmallestSet ==
    ASSUME NEW S, IsFiniteSet(S), NEW T, T \subseteq SUBSET S, T # {}
    PROVE  \E X \in T : \A Y \in T : ~(Y \subseteq X /\ Y # X)
  <1>1. IsWellFoundedOn(StrictSubsetOrdering(S), FiniteSubsetsOf(S))
    BY FS_StrictSubsetOrderingWellFounded
  <1>2. T \subseteq FiniteSubsetsOf(S)
    BY FS_FiniteSubsetsOfFinite
  <1>3. PICK X \in T : \A Y \in T : ~(<<Y, X>> \in StrictSubsetOrdering(S))
    BY <1>1, <1>2, WFMin, Zenon
  <1> QED BY <1>3 DEF StrictSubsetOrdering

(* What was read has a last newline, or none.                              *)
LEMMA LastLineIn ==
    ASSUME NEW s \in Seq({"text", "line"})
    PROVE  LastLine(s) \in 0..Len(s)
  <1> DEFINE good == {i \in 0..Len(s) : i > 0 => s[i] = "line"}
             after(i) == {j \in 1..Len(s) : j > i}
             T == {after(i) : i \in good}
  <1>1. Len(s) \in Nat /\ IsFiniteSet(1..Len(s))
    BY FS_Interval
  <1>2. T \subseteq SUBSET (1..Len(s))
    OBVIOUS
  <1>3. 0 \in good
    BY <1>1
  <1>4. T # {}
    BY <1>3
  <1>5. PICK X \in T : \A Y \in T : ~(Y \subseteq X /\ Y # X)
    <2> DEFINE N == 1..Len(s)
    <2>1. IsFiniteSet(N) /\ T \subseteq SUBSET N
      BY <1>1, <1>2
    <2> HIDE DEF T, N
    <2> QED BY <1>4, <2>1, SmallestSet
  <1>6. PICK i \in good : X = after(i)
    OBVIOUS
  <1>7. ASSUME NEW j \in (i + 1)..Len(s), s[j] = "line" PROVE FALSE
    <2>1. j \in good /\ j > i /\ j \in 1..Len(s)
      BY <1>1, <1>7
    <2>2. after(j) \in T
      BY <2>1
    <2>3. after(j) \subseteq after(i) /\ after(j) # after(i)
      <3>1. j \in after(i) /\ j \notin after(j)
        BY <2>1
      <3>2. after(j) \subseteq after(i)
        BY <1>1, <2>1
      <3> QED BY <3>1, <3>2
    <2> QED BY <1>5, <1>6, <2>2, <2>3
  <1>8. /\ i \in 0..Len(s) /\ i > 0 => s[i] = "line"
        /\ \A j \in (i + 1)..Len(s) : s[j] # "line"
    BY <1>7
  <1> QED BY <1>8 DEF LastLine

(* What stays behind is part of what was there.                            *)
LEMMA UnfinishedIn ==
    ASSUME NEW s \in Seq({"text", "line"}), NEW before \in Nat
    PROVE  Unfinished(s, before) \in 0..(before + Len(s))
  <1>1. LastLine(s) \in 0..Len(s) /\ Len(s) \in Nat /\ MaxPartial \in Nat
    BY LastLineIn, RunnerAssumption
  <1> QED BY <1>1 DEF Unfinished

(* Draining pipes: every piece is emitted or kept, and a pipe without      *)
(* writers that is drained, or was empty, is empty afterwards.             *)
LEMMA Drained ==
    ASSUME TypeOK, PipeInv, NEW F, DrainFds(F)
    PROVE  /\ pipe' \in [Handles -> [Fds -> Seq({"text", "line"})]]
           /\ partial' \in [Handles -> [Fds -> Nat]]
           /\ emitted' \in [Handles -> [Fds -> 0..MaxWrites]]
           /\ wrote' = wrote
           /\ \A h \in Handles : \A fd \in Fds :
                /\ emitted'[h][fd] + partial'[h][fd] + Len(pipe'[h][fd]) = wrote'[h][fd]
                /\ (fd \notin Writers(h)
                      /\ (<<h, fd>> \in F \/ (pipe[h][fd] = <<>> /\ partial[h][fd] = 0)))
                     => pipe'[h][fd] = <<>> /\ partial'[h][fd] = 0
  <1> DEFINE kept(h, fd) == IF fd \in Writers(h)
                            THEN Unfinished(pipe[h][fd], partial[h][fd]) ELSE 0
             sent(h, fd) == emitted[h][fd] + partial[h][fd] + Len(pipe[h][fd]) - kept(h, fd)
  <1>1. /\ pipe \in [Handles -> [Fds -> Seq({"text", "line"})]]
        /\ partial \in [Handles -> [Fds -> Nat]]
        /\ wrote \in [Handles -> [Fds -> 0..MaxWrites]]
        /\ emitted \in [Handles -> [Fds -> 0..MaxWrites]]
        /\ MaxWrites \in Nat
    BY RunnerAssumption DEF TypeOK
  <1>2. \A h \in Handles : \A fd \in Fds :
          /\ pipe[h][fd] \in Seq({"text", "line"}) /\ Len(pipe[h][fd]) \in Nat
          /\ partial[h][fd] \in Nat /\ emitted[h][fd] \in 0..MaxWrites
          /\ wrote[h][fd] \in 0..MaxWrites
          /\ emitted[h][fd] + partial[h][fd] + Len(pipe[h][fd]) = wrote[h][fd]
    BY <1>1 DEF PipeInv
  <1>3. \A h \in Handles : \A fd \in Fds :
          kept(h, fd) \in 0..(partial[h][fd] + Len(pipe[h][fd]))
    <2> SUFFICES ASSUME NEW h \in Handles, NEW fd \in Fds
                 PROVE  kept(h, fd) \in 0..(partial[h][fd] + Len(pipe[h][fd]))
      OBVIOUS
    <2>1. Unfinished(pipe[h][fd], partial[h][fd]) \in 0..(partial[h][fd] + Len(pipe[h][fd]))
      BY <1>2, UnfinishedIn
    <2> QED BY <1>2, <2>1
  <1>4. /\ pipe' = [h \in Handles |-> [fd \in Fds |->
                     IF <<h, fd>> \in F THEN <<>> ELSE pipe[h][fd]]]
        /\ partial' = [h \in Handles |-> [fd \in Fds |->
                     IF <<h, fd>> \in F THEN kept(h, fd) ELSE partial[h][fd]]]
        /\ emitted' = [h \in Handles |-> [fd \in Fds |->
                     IF <<h, fd>> \in F THEN sent(h, fd)
                     ELSE emitted[h][fd]]]
        /\ wrote' = wrote
    BY DEF DrainFds
  <1>5. \A h \in Handles : \A fd \in Fds :
          /\ sent(h, fd) \in 0..MaxWrites /\ kept(h, fd) \in Nat
          /\ sent(h, fd) + kept(h, fd) = wrote[h][fd]
    <2> SUFFICES ASSUME NEW h \in Handles, NEW fd \in Fds
                 PROVE  /\ sent(h, fd) \in 0..MaxWrites /\ kept(h, fd) \in Nat
                        /\ sent(h, fd) + kept(h, fd) = wrote[h][fd]
      OBVIOUS
    <2> HIDE DEF kept
    <2> QED BY <1>1, <1>2, <1>3
  <1>6. \A h \in Handles : \A fd \in Fds : fd \notin Writers(h) => kept(h, fd) = 0
    OBVIOUS
  <1> HIDE DEF kept, sent
  <1>7. pipe' \in [Handles -> [Fds -> Seq({"text", "line"})]]
    BY <1>1, <1>4
  <1>8. partial' \in [Handles -> [Fds -> Nat]]
    BY <1>1, <1>4, <1>5
  <1>9. emitted' \in [Handles -> [Fds -> 0..MaxWrites]]
    BY <1>1, <1>4, <1>5
  <1>10. ASSUME NEW h \in Handles, NEW fd \in Fds
         PROVE  /\ emitted'[h][fd] + partial'[h][fd] + Len(pipe'[h][fd]) = wrote'[h][fd]
                /\ (fd \notin Writers(h)
                      /\ (<<h, fd>> \in F \/ (pipe[h][fd] = <<>> /\ partial[h][fd] = 0)))
                     => pipe'[h][fd] = <<>> /\ partial'[h][fd] = 0
    <2>1. CASE <<h, fd>> \in F
      <3>1. /\ pipe'[h][fd] = <<>> /\ partial'[h][fd] = kept(h, fd)
            /\ emitted'[h][fd] = sent(h, fd) /\ wrote'[h][fd] = wrote[h][fd]
        BY <1>4, <2>1
      <3>2. sent(h, fd) + kept(h, fd) = wrote[h][fd] /\ kept(h, fd) \in Nat
              /\ sent(h, fd) \in Nat
        BY <1>1, <1>2, <1>5
      <3> QED BY <1>6, <3>1, <3>2
    <2>2. CASE <<h, fd>> \notin F
      <3>1. /\ pipe'[h][fd] = pipe[h][fd] /\ partial'[h][fd] = partial[h][fd]
            /\ emitted'[h][fd] = emitted[h][fd] /\ wrote'[h][fd] = wrote[h][fd]
        BY <1>4, <2>2
      <3> QED BY <1>2, <2>2, <3>1
    <2> QED BY <2>1, <2>2
  <1> QED BY <1>4, <1>7, <1>8, <1>9, <1>10

-----------------------------------------------------------------------------
(* The parts of the invariant, one after the other *)

(* The processes and the clock touch nothing of the runner's.              *)
LEMMA EnvironmentFrame == ASSUME Environment PROVE UNCHANGED system
  BY DEF Environment, CloseFd, Write, Fork, GrandchildEnds, BecomeZombie, Exit, Expire

(* Callers touch the queue, the wakeup pipe and the counter only.          *)
LEMMA CallersFrame ==
    ASSUME Callers
    PROVE  UNCHANGED <<loop, children, child, report, process, output, expired>>
  BY DEF Callers, launch, request_terminate, Destroy

(* The command run() is about to carry out.                                *)
LEMMA HeadCommand ==
    ASSUME TypeOK, CommandInv, NEW t, NextCommand(t)
    PROVE  /\ local # <<>> /\ local \in Seq(Command) /\ local' = Tail(local)
           /\ Head(local) \in Command /\ Head(local).type = t
           /\ t \in {"launch", "terminate", "shutdown"}
           /\ t # "shutdown" => Head(local).handle \in Handles
           /\ local' \in Seq(Command)
           /\ pc = "cmds"
           /\ ~shutting_down
  <1>1. local # <<>> /\ local \in Seq(Command) /\ local' = Tail(local) /\ pc = "cmds"
    BY DEF NextCommand, TypeOK
  <1>2. Head(local) \in Command /\ Tail(local) \in Seq(Command)
    BY <1>1
  <1>3. Head(local).type = t
    BY DEF NextCommand
  <1>4. ~shutting_down
    BY <1>1 DEF CommandInv
  <1> QED BY <1>1, <1>2, <1>3, <1>4, CommandKinds

(* The handle of a launch that is carried out was launched, has no process *)
(* and was not reported.                                                   *)
LEMMA HeadLaunch ==
    ASSUME TypeOK, CommandInv, PlaceInv, NextCommand("launch")
    PROVE  LET h == Head(local).handle
           IN  /\ h \in Handles /\ h \in launched /\ Waits(local, h)
               /\ report[h] = "none" /\ os[h] = "none" /\ h \notin children
               /\ ~Waits(queue, h)
  <1>1. /\ local # <<>> /\ local \in Seq(Command) /\ Head(local) \in Command
        /\ Head(local).type = "launch" /\ Head(local).handle \in Handles
    BY HeadCommand
  <1>2. 1 \in DOMAIN local /\ Head(local) = local[1]
    BY <1>1
  <1>3. Waits(local, Head(local).handle)
    BY <1>1, <1>2 DEF Waits, IsLaunch
  <1> QED BY <1>1, <1>3 DEF PlaceInv

(* active_ is one more for a launch, one less for every exit reported.     *)
LEMMA CountStep ==
    ASSUME IInv, [Next]_vars
    PROVE  /\ active' = Cardinality({h \in launched' : report'[h] = "none"})
           /\ active' \in Nat
  <1> DEFINE pending == {h \in launched : report[h] = "none"}
  <1>1. TypeOK /\ CommandInv /\ PlaceInv
    BY DEF IInv
  <1>2. /\ IsFiniteSet(pending) /\ pending \subseteq Handles /\ active = Cardinality(pending)
        /\ active \in Nat
    <2>1. pending \subseteq Handles /\ IsFiniteSet(Handles)
      BY <1>1, RunnerAssumption DEF TypeOK
    <2> QED BY <1>1, <2>1, FS_Subset DEF PlaceInv, TypeOK
  <1>3. ASSUME UNCHANGED <<active, launched, report>>
        PROVE  active' = Cardinality({h \in launched' : report'[h] = "none"}) /\ active' \in Nat
    BY <1>2, <1>3
  <1>4. ASSUME NEW h \in Handles, launch(h)
        PROVE  active' = Cardinality({x \in launched' : report'[x] = "none"}) /\ active' \in Nat
    <2>1. h \notin launched /\ report[h] = "none" /\ UNCHANGED report
          /\ launched' = launched \cup {h} /\ active' = active + 1
      BY <1>1, <1>4 DEF launch, PlaceInv
    <2>2. {x \in launched' : report'[x] = "none"} = pending \cup {h} /\ h \notin pending
      BY <2>1
    <2>3. Cardinality(pending \cup {h}) = Cardinality(pending) + 1
      BY <1>2, <2>2, FS_AddElement
    <2> QED BY <1>2, <2>1, <2>2, <2>3
  <1>5. CASE SpawnFailure
    <2> DEFINE h == Head(local).handle
    <2>1. NextCommand("launch") /\ report' = [report EXCEPT ![h] = "spawn_failed"]
          /\ active' = active - 1 /\ UNCHANGED launched
      BY <1>5 DEF SpawnFailure, calls
    <2>2. h \in pending /\ h \in Handles
      BY <1>1, <2>1, HeadLaunch
    <2>3. report' \in [Handles -> ProcessOutcome \cup {"none"}] /\ report'[h] = "spawn_failed"
          /\ \A x \in Handles \ {h} : report'[x] = report[x]
      BY <1>1, <2>1, <2>2 DEF TypeOK, ProcessOutcome
    <2> HIDE DEF h
    <2>4. {x \in launched' : report'[x] = "none"} = pending \ {h}
      BY <1>2, <2>1, <2>2, <2>3
    <2>5. Cardinality(pending \ {h}) = Cardinality(pending) - 1 /\ IsFiniteSet(pending \ {h})
      BY <1>2, <2>2, FS_RemoveElement
    <2>6. Cardinality(pending \ {h}) \in Nat
      BY <2>5, FS_CardinalityType
    <2> QED BY <1>2, <2>1, <2>4, <2>5, <2>6
  <1>6. CASE FinalizeChildren
    <2>1. UNCHANGED launched /\ active' = active - Cardinality(Finished)
          /\ report' = [h \in Handles |-> IF h \in Finished THEN Outcome(h) ELSE report[h]]
      BY <1>6 DEF FinalizeChildren, calls
    <2>2. Finished \subseteq pending
      BY <1>1 DEF Finished, PlaceInv, TypeOK
    <2>3. \A h \in Finished : Outcome(h) # "none"
      BY <1>1 DEF Finished, Outcome, TypeOK, Child, Status
    <2>4. {x \in launched' : report'[x] = "none"} = pending \ Finished
      BY <1>2, <2>1, <2>2, <2>3, <1>1 DEF TypeOK
    <2>5. pending \cap Finished = Finished
      BY <2>2
    <2>6. /\ IsFiniteSet(pending \ Finished)
          /\ Cardinality(pending \ Finished) = Cardinality(pending) - Cardinality(Finished)
      BY <1>2, <2>5, FS_Difference
    <2>7. Cardinality(pending \ Finished) \in Nat
      BY <2>6, FS_CardinalityType
    <2> QED BY <1>2, <2>1, <2>4, <2>6, <2>7
  <1>7. CASE UNCHANGED vars
    BY <1>3, <1>7 DEF vars, calls
  <1>8. CASE Environment
    BY <1>3, <1>8, EnvironmentFrame DEF system, calls
  <1>9. ASSUME Reactor \/ PollNothing, ~SpawnFailure, ~FinalizeChildren
        PROVE  UNCHANGED <<active, launched, report>>
    BY <1>9 DEF Reactor, SwapQueue, DrainWakeup, HandleLaunch, HandleTerminate, HandleShutdown,
                EndCommands, ReapDrain, ReapWait, EnforceDeadlines, PollReady, PollNothing, calls
  <1>10. CASE Destroy \/ (\E h \in Handles : \E c \in AsCancellation : request_terminate(h, c))
    BY <1>3, <1>10 DEF Destroy, request_terminate
  <1> QED BY <1>3, <1>4, <1>5, <1>6, <1>7, <1>8, <1>9, <1>10 DEF Next, Callers, Stopped

(* run()'s own variables.                                                  *)
LEMMA LoopStep ==
    ASSUME TypeOK, LoopInv, CommandInv, [Next]_vars PROVE LoopInv'
  <1>1. CASE UNCHANGED vars
    BY <1>1 DEF LoopInv, vars, loop
  <1>2. CASE Environment \/ Callers
    <2>1. UNCHANGED <<loop, children>>
      BY <1>2, EnvironmentFrame, CallersFrame DEF system
    <2> QED BY <2>1 DEF loop, LoopInv
  <1>3. CASE SwapQueue \/ DrainWakeup \/ EndCommands \/ PollReady \/ PollNothing
             \/ EnforceDeadlines \/ FinalizeChildren
    BY <1>3 DEF SwapQueue, DrainWakeup, EndCommands, PollReady, PollNothing, EnforceDeadlines,
                FinalizeChildren, LoopInv, TypeOK
  <1>4. CASE HandleLaunch \/ SpawnFailure \/ HandleTerminate \/ HandleShutdown
    BY <1>4 DEF HandleLaunch, SpawnFailure, HandleTerminate, HandleShutdown, NextCommand, LoopInv
  <1>5. CASE ReapWait \/ (\E h \in children : ReapDrain(h))
    BY <1>5 DEF ReapWait, ReapDrain, LoopInv
  <1> QED BY <1>1, <1>2, <1>3, <1>4, <1>5 DEF Next, Reactor, Stopped

(* What the assignments to a Child record leave of it.                     *)
LEMMA ChildForced ==
    ASSUME NEW c \in Child, NEW s \in 0..2, NEW f \in {"no", "timed_out", "cancelled"}
    PROVE  /\ [c EXCEPT !.term_stage = s, !.forced = f] \in Child
           /\ [c EXCEPT !.forced = f, !.term_stage = s] \in Child
  <1>1. [c EXCEPT !.term_stage = s, !.forced = f] \in Child
    BY DEF Child
  <1>2. [c EXCEPT !.forced = f, !.term_stage = s] \in Child
    BY DEF Child
  <1> QED BY <1>1, <1>2

(* The stages of a termination.                                            *)
LEMMA Stages == 0 \in 0..2 /\ 1 \in 0..2 /\ 2 \in 0..2
  OBVIOUS

(* A child whose termination goes on a stage.                              *)
LEMMA ChildStage ==
    ASSUME NEW c \in Child, NEW s \in 0..2
    PROVE  [c EXCEPT !.term_stage = s] \in Child
  BY DEF Child

(* A child one of whose pipes is closed.                                   *)
LEMMA ChildOpen ==
    ASSUME NEW c \in Child, NEW o \in SUBSET Fds
    PROVE  [c EXCEPT !.open = o] \in Child
  BY DEF Child

(* A child whose end has been seen.                                        *)
LEMMA ChildExited ==
    ASSUME NEW c \in Child
    PROVE  [c EXCEPT !.exited = TRUE] \in Child
  BY DEF Child

(* What a termination makes of the child records.            *)
LEMMA TerminateChild ==
    ASSUME TypeOK, CommandInv, HandleTerminate
    PROVE  LET h == Head(local).handle
           IN  /\ h \in Handles
               /\ \A x \in Handles \ {h} : child'[x] = child[x] /\ sig'[x] = sig[x]
               /\ \/ ~Terminable(h) /\ child' = child /\ sig' = sig
                  \/ /\ Terminable(h)
                     /\ child'[h].term_stage = 1
                     /\ child'[h].forced =
                          IF Head(local).cancel THEN "cancelled" ELSE "timed_out"
                     /\ sig'[h] = IF os[h] = "alive" THEN "TERM" ELSE sig[h]
               /\ child'[h].exited = child[h].exited /\ child'[h].open = child[h].open
               /\ child' \in [Handles -> Child]
               /\ sig' \in [Handles -> {"none", "TERM", "KILL"}]
  <1> DEFINE h == Head(local).handle
             c == Head(local).cancel
             f == IF c THEN "cancelled" ELSE "timed_out"
  <1>1. NextCommand("terminate") /\ h \in Handles
    BY HeadCommand DEF HandleTerminate
  <1>2. \/ ~Terminable(h) /\ child' = child /\ sig' = sig
        \/ /\ Terminable(h)
           /\ child' = [child EXCEPT ![h] = [@ EXCEPT !.term_stage = 1, !.forced = f]]
           /\ Kill({h}, "TERM")
    BY DEF HandleTerminate
  <1>3. /\ child \in [Handles -> Child] /\ sig \in [Handles -> {"none", "TERM", "KILL"}]
        /\ f \in {"cancelled", "timed_out"}
    BY DEF TypeOK
  <1> HIDE DEF h, f
  <1>4. ASSUME Kill({h}, "TERM")
        PROVE  /\ sig' \in [Handles -> {"none", "TERM", "KILL"}]
               /\ \A x \in Handles \ {h} : sig'[x] = sig[x]
               /\ sig'[h] = IF os[h] = "alive" THEN "TERM" ELSE sig[h]
    BY <1>1, <1>3, <1>4 DEF Kill
  <1>5. ASSUME child' = [child EXCEPT ![h] = [@ EXCEPT !.term_stage = 1, !.forced = f]]
        PROVE  /\ child' \in [Handles -> Child]
               /\ \A x \in Handles \ {h} : child'[x] = child[x]
               /\ child'[h].term_stage = 1 /\ child'[h].forced = f
               /\ child'[h].exited = child[h].exited /\ child'[h].open = child[h].open
    <2> DEFINE d == [child[h] EXCEPT !.term_stage = 1, !.forced = f]
    <2>1. child[h] \in Child
      BY <1>1, <1>3
    <2>2. d \in Child
      BY <1>3, <2>1, Stages, ChildForced, Zenon
    <2>3. /\ d.term_stage = 1 /\ d.forced = f
          /\ d.exited = child[h].exited /\ d.open = child[h].open
      BY <2>1 DEF Child
    <2>4. child' = [child EXCEPT ![h] = d]
      BY <1>5
    <2> HIDE DEF d
    <2>5. child'[h] = d
      BY <1>1, <1>3, <2>4
    <2> QED BY <1>1, <1>3, <2>2, <2>3, <2>4, <2>5
  <1> QED BY <1>1, <1>2, <1>3, <1>4, <1>5 DEF h, f

(* What a shutdown, enforce_deadlines and poll_once make of them.          *)
LEMMA ShutdownChild ==
    ASSUME TypeOK, HandleShutdown
    PROVE  /\ child' \in [Handles -> Child]
           /\ \A h \in Handles :
                /\ child'[h].exited = child[h].exited /\ child'[h].open = child[h].open
                /\ h \in children /\ ~child[h].exited =>
                     child'[h].forced = "cancelled" /\ child'[h].term_stage = 2
                /\ ~(h \in children /\ ~child[h].exited) => child'[h] = child[h]
  <1> DEFINE d(h) == [child[h] EXCEPT !.forced = "cancelled", !.term_stage = 2]
  <1>1. child \in [Handles -> Child]
    BY DEF TypeOK
  <1>2. \A h \in Handles : d(h) \in Child
    BY <1>1, Stages, ChildForced, Zenon
  <1>3. \A h \in Handles : /\ d(h).forced = "cancelled" /\ d(h).term_stage = 2
                            /\ d(h).exited = child[h].exited /\ d(h).open = child[h].open
    BY <1>1 DEF Child
  <1>4. child' = [h \in Handles |->
                    IF h \in {x \in children : ~child[x].exited} THEN d(h) ELSE child[h]]
    BY DEF HandleShutdown
  <1> HIDE DEF d
  <1> QED BY <1>1, <1>2, <1>3, <1>4

(* What enforce_deadlines changes of a child.                              *)
LEMMA DeadlineChild ==
    ASSUME TypeOK, EnforceDeadlines
    PROVE  /\ child' \in [Handles -> Child]
           /\ \A h \in Handles :
                /\ child'[h].exited = child[h].exited /\ child'[h].open = child[h].open
                /\ Overdue(h) => child'[h].forced = "timed_out" /\ child'[h].term_stage = 1
                /\ ~Overdue(h) => child'[h].forced = child[h].forced
                /\ ~Overdue(h) => child'[h].term_stage =
                                    IF GraceOver(h) THEN 2 ELSE child[h].term_stage
  <1> DEFINE d(h) == [child[h] EXCEPT !.term_stage = 1, !.forced = "timed_out"]
             e(h) == [child[h] EXCEPT !.term_stage = 2]
  <1>1. child \in [Handles -> Child]
    BY DEF TypeOK
  <1>2. \A h \in Handles : d(h) \in Child /\ e(h) \in Child
    BY <1>1, Stages, ChildForced, ChildStage, Zenon
  <1>3. \A h \in Handles : /\ d(h).forced = "timed_out" /\ d(h).term_stage = 1
                            /\ d(h).exited = child[h].exited /\ d(h).open = child[h].open
    BY <1>1 DEF Child
  <1>4. \A h \in Handles : /\ e(h).forced = child[h].forced /\ e(h).term_stage = 2
                            /\ e(h).exited = child[h].exited /\ e(h).open = child[h].open
    BY <1>1 DEF Child
  <1>5. child' = [h \in Handles |->
                    IF Overdue(h) THEN d(h) ELSE IF GraceOver(h) THEN e(h) ELSE child[h]]
    BY DEF EnforceDeadlines
  <1> HIDE DEF d, e
  <1> QED BY <1>1, <1>2, <1>3, <1>4, <1>5

(* What poll() and the reads after it change of a child.                   *)
LEMMA PollChild ==
    ASSUME TypeOK, PollReady
    PROVE  /\ child' \in [Handles -> Child]
           /\ \A h \in Handles :
                /\ child'[h].exited = child[h].exited /\ child'[h].forced = child[h].forced
                /\ child'[h].term_stage = child[h].term_stage
                /\ child'[h].open = IF h \in children THEN StillOpen(h, Readable)
                                    ELSE child[h].open
  <1> DEFINE d(h) == [child[h] EXCEPT !.open = StillOpen(h, Readable)]
  <1>1. child \in [Handles -> Child]
    BY DEF TypeOK
  <1>2. \A h \in Handles : StillOpen(h, Readable) \subseteq Fds
    BY <1>1 DEF StillOpen, Child
  <1>3. \A h \in Handles : d(h) \in Child
    BY <1>1, <1>2, ChildOpen
  <1>4. \A h \in Handles :
          /\ d(h).open = StillOpen(h, Readable) /\ d(h).exited = child[h].exited
          /\ d(h).term_stage = child[h].term_stage /\ d(h).forced = child[h].forced
    BY <1>1 DEF Child
  <1>5. child' = [h \in Handles |-> IF h \in children THEN d(h) ELSE child[h]]
    BY DEF PollReady
  <1> HIDE DEF d
  <1> QED BY <1>1, <1>3, <1>4, <1>5

(* What the two halves of reap_children make of them.                      *)
LEMMA DrainChild ==
    ASSUME TypeOK, NEW h \in children, ReapDrain(h)
    PROVE  /\ h \in Handles
           /\ child' \in [Handles -> Child]
           /\ \A x \in Handles \ {h} : child'[x] = child[x]
           /\ child'[h].open = StillOpen(h, {h} \X child[h].open)
           /\ child'[h].exited = child[h].exited
           /\ child'[h].term_stage = child[h].term_stage
           /\ child'[h].forced = child[h].forced
  <1> DEFINE o == StillOpen(h, {h} \X child[h].open)
             c == [child[h] EXCEPT !.open = o,
                             !.pipes_closed = child[h].pipes_closed \/ o = {}]
  <1>1. child' = [child EXCEPT ![h] = c]
    BY DEF ReapDrain
  <1>2. h \in Handles /\ child \in [Handles -> Child] /\ child[h] \in Child
    BY DEF TypeOK
  <1>3. o \subseteq Fds
    BY <1>2 DEF StillOpen, Child
  <1> HIDE DEF o
  <1>4. /\ c \in Child /\ c.open = o /\ c.exited = child[h].exited
        /\ c.term_stage = child[h].term_stage /\ c.forced = child[h].forced
    BY <1>2, <1>3 DEF Child
  <1> HIDE DEF c
  <1>5. /\ child' \in [Handles -> Child] /\ child'[h] = c
        /\ \A x \in Handles \ {h} : child'[x] = child[x]
    BY <1>1, <1>2, <1>4
  <1> QED BY <1>2, <1>4, <1>5 DEF o

(* What waitpid changes of a child.                                        *)
LEMMA WaitChild ==
    ASSUME TypeOK, LoopInv, ReapWait
    PROVE  /\ cur \in Handles
           /\ child' \in [Handles -> Child]
           /\ \A x \in Handles \ {cur} : child'[x] = child[x]
           /\ child'[cur].open = child[cur].open
           /\ child'[cur].exited <=> child[cur].exited \/ os[cur] = "zombie"
           /\ child'[cur].term_stage = child[cur].term_stage
           /\ child'[cur].forced = child[cur].forced
  <1> DEFINE c == [child[cur] EXCEPT !.exited = TRUE]
  <1>1. cur \in Handles /\ child \in [Handles -> Child] /\ child[cur] \in Child
    BY DEF ReapWait, LoopInv, TypeOK
  <1>2. c \in Child
    BY <1>1, ChildExited
  <1>3. /\ c.open = child[cur].open /\ c.exited = TRUE
        /\ c.term_stage = child[cur].term_stage /\ c.forced = child[cur].forced
    BY <1>1 DEF Child
  <1>4. /\ os[cur] = "zombie" => child' = [child EXCEPT ![cur] = c]
        /\ os[cur] # "zombie" => child' = child
    BY DEF ReapWait
  <1> HIDE DEF c
  <1>5. CASE os[cur] = "zombie"
    <2>1. child'[cur] = c /\ child' \in [Handles -> Child]
            /\ \A x \in Handles \ {cur} : child'[x] = child[x]
      BY <1>1, <1>2, <1>4, <1>5
    <2> QED BY <1>1, <1>3, <1>5, <2>1
  <1>6. CASE os[cur] # "zombie"
    BY <1>1, <1>4, <1>6
  <1> QED BY <1>5, <1>6

(* Every variable keeps its type.                                          *)
LEMMA TypeStep ==
    ASSUME IInv, [Next]_vars PROVE TypeOK'
  <1>1. TypeOK /\ LoopInv /\ CommandInv /\ PlaceInv /\ PipeInv
    BY DEF IInv
  <1>2. active' \in Nat
    BY CountStep
  <1> USE <1>2
  <1>3. CASE UNCHANGED vars
    BY <1>1, <1>3 DEF TypeOK, vars, loop, calls, process, output
  <1>4. CASE Environment
    <2>1. UNCHANGED system
      BY <1>4, EnvironmentFrame
    <2>2. ASSUME NEW h \in Handles, NEW fd \in Fds, CloseFd(h, fd) PROVE TypeOK'
      BY <1>1, <2>1, <2>2 DEF TypeOK, CloseFd, system, loop, calls, output
    <2>3. ASSUME NEW h \in Handles, NEW fd \in Fds, NEW p \in {"text", "line"}, Write(h, fd, p)
          PROVE TypeOK'
      <3>1. pipe' \in [Handles -> [Fds -> Seq({"text", "line"})]]
        BY <1>1, <2>3 DEF TypeOK, Write
      <3>2. wrote' \in [Handles -> [Fds -> 0..MaxWrites]]
        <4>1. wrote[h][fd] + 1 \in 0..MaxWrites
          BY <1>1, <2>3, RunnerAssumption DEF TypeOK, Write
        <4> QED BY <1>1, <2>3, <4>1 DEF TypeOK, Write
      <3> QED BY <1>1, <2>1, <2>3, <3>1, <3>2 DEF TypeOK, Write, system, loop, calls, process
    <2>4. ASSUME NEW h \in Handles, Fork(h) \/ GrandchildEnds(h) \/ BecomeZombie(h)
          PROVE TypeOK'
      BY <1>1, <2>1, <2>4 DEF TypeOK, Fork, GrandchildEnds, BecomeZombie, system, loop, calls,
                              output
    <2>5. ASSUME NEW h \in Handles, NEW s \in Status, Exit(h, s) PROVE TypeOK'
      BY <1>1, <2>1, <2>5 DEF TypeOK, Exit, system, loop, calls, output
    <2>6. ASSUME NEW x \in Timer, Expire(x) PROVE TypeOK'
      BY <1>1, <2>1, <2>6 DEF TypeOK, Expire, system, loop, calls, process, output
    <2> QED BY <1>4, <2>2, <2>3, <2>4, <2>5, <2>6 DEF Environment
  <1>5. ASSUME Callers PROVE TypeOK'
    <2>1. UNCHANGED <<loop, children, child, report, process, output, expired>>
      BY <1>5, CallersFrame
    <2>2. /\ queue' \in Seq(Command) /\ wakeup' \in BOOLEAN /\ destroyed' \in BOOLEAN
          /\ launched' \subseteq Handles /\ asked' \subseteq launched'
      <3>1. ASSUME NEW h \in Handles, launch(h)
            PROVE  /\ queue' \in Seq(Command) /\ wakeup' \in BOOLEAN /\ destroyed' \in BOOLEAN
                   /\ launched' \subseteq Handles /\ asked' \subseteq launched'
        <4>1. [type |-> "launch", handle |-> h] \in Command
          BY DEF Command
        <4> QED BY <1>1, <3>1, <4>1 DEF launch, Push, TypeOK
      <3>2. ASSUME NEW h \in Handles, NEW c \in AsCancellation, request_terminate(h, c)
            PROVE  /\ queue' \in Seq(Command) /\ wakeup' \in BOOLEAN /\ destroyed' \in BOOLEAN
                   /\ launched' \subseteq Handles /\ asked' \subseteq launched'
        <4>1. [type |-> "terminate", handle |-> h, cancel |-> c] \in Command
          BY RunnerAssumption DEF Command
        <4> QED BY <1>1, <3>2, <4>1 DEF request_terminate, Push, TypeOK
      <3>3. CASE Destroy
        <4>1. [type |-> "shutdown"] \in Command
          BY DEF Command
        <4> QED BY <1>1, <3>3, <4>1 DEF Destroy, Push, TypeOK
      <3> QED BY <1>5, <3>1, <3>2, <3>3 DEF Callers
    <2> QED BY <1>1, <2>1, <2>2 DEF TypeOK, loop, process, output
  <1>6. CASE SwapQueue \/ DrainWakeup \/ PollNothing
    <2>1. CASE SwapQueue
      <3>1. queue' \in Seq(Command) /\ local' \in Seq(Command)
        BY <1>1, <2>1 DEF SwapQueue, TypeOK
      <3> QED BY <1>1, <2>1, <3>1 DEF TypeOK, SwapQueue, calls, process, output
    <2>2. CASE DrainWakeup \/ PollNothing
      BY <1>1, <2>2 DEF TypeOK, DrainWakeup, PollNothing, calls, process, output
    <2> QED BY <1>6, <2>1, <2>2
  <1>7. CASE EndCommands
    BY <1>1, <1>7 DEF TypeOK, EndCommands, calls, process, output
  <1>8. CASE HandleLaunch
    <2>1. NextCommand("launch") /\ local' \in Seq(Command) /\ Head(local).handle \in Handles
      BY <1>1, <1>8, HeadCommand DEF HandleLaunch
    <2>2. NewChild \in Child
      BY DEF NewChild, Child
    <2> QED BY <1>1, <1>8, <2>1, <2>2 DEF TypeOK, HandleLaunch, calls, output
  <1>9. CASE SpawnFailure
    <2>1. NextCommand("launch") /\ local' \in Seq(Command) /\ Head(local).handle \in Handles
      BY <1>1, <1>9, HeadCommand DEF SpawnFailure
    <2> QED BY <1>1, <1>9, <2>1 DEF TypeOK, SpawnFailure, calls, process, output, ProcessOutcome
  <1>10. CASE HandleTerminate
    <2>1. /\ local' \in Seq(Command) /\ child' \in [Handles -> Child]
          /\ sig' \in [Handles -> {"none", "TERM", "KILL"}]
      BY <1>1, <1>10, HeadCommand, TerminateChild DEF HandleTerminate
    <2> QED BY <1>1, <1>10, <2>1 DEF TypeOK, HandleTerminate, calls, output
  <1>11. CASE HandleShutdown
    <2>1. local' \in Seq(Command)
      BY <1>1, <1>11, HeadCommand DEF HandleShutdown
    <2>3. child' \in [Handles -> Child] /\ sig' \in [Handles -> {"none", "TERM", "KILL"}]
      BY <1>1, <1>11, ShutdownChild DEF TypeOK, HandleShutdown, Kill
    <2> QED BY <1>1, <1>11, <2>1, <2>3 DEF TypeOK, HandleShutdown, calls, output
  <1>12. ASSUME NEW h \in children, ReapDrain(h) PROVE TypeOK'
    <2> DEFINE F == {h} \X child[h].open
    <2>1. DrainFds(F) /\ h \in Handles
      BY <1>1, <1>12 DEF ReapDrain, TypeOK
    <2>2. /\ pipe' \in [Handles -> [Fds -> Seq({"text", "line"})]]
          /\ partial' \in [Handles -> [Fds -> Nat]]
          /\ emitted' \in [Handles -> [Fds -> 0..MaxWrites]]
          /\ wrote' = wrote
      <3> HIDE DEF F
      <3> QED BY <1>1, <2>1, Drained
    <2>6. child' \in [Handles -> Child]
      BY <1>1, <1>12, DrainChild
    <2> QED BY <1>1, <1>12, <2>2, <2>6 DEF TypeOK, ReapDrain, calls, process
  <1>13. CASE ReapWait
    <2>1. cur \in Handles
      BY <1>1, <1>13 DEF ReapWait, LoopInv, TypeOK
    <2>2. child' \in [Handles -> Child]
      BY <1>1, <1>13, WaitChild
    <2>3. os' \in [Handles -> {"none", "alive", "exiting", "zombie", "reaped"}]
      BY <1>1, <1>13, <2>1 DEF TypeOK, ReapWait
    <2> QED BY <1>1, <1>13, <2>2, <2>3 DEF TypeOK, ReapWait, calls, output
  <1>14. CASE EnforceDeadlines
    <2>2. child' \in [Handles -> Child]
      BY <1>1, <1>14, DeadlineChild
    <2>3. sig' \in [Handles -> {"none", "TERM", "KILL"}]
      BY <1>1, <1>14 DEF TypeOK, EnforceDeadlines
    <2> QED BY <1>1, <1>14, <2>2, <2>3 DEF TypeOK, EnforceDeadlines, calls, output
  <1>15. CASE FinalizeChildren
    <2>1. \A h \in Finished : Outcome(h) \in ProcessOutcome
      BY <1>1 DEF Finished, Outcome, TypeOK, Child, Status, ProcessOutcome
    <2>2. report' \in [Handles -> ProcessOutcome \cup {"none"}]
      BY <1>1, <1>15, <2>1 DEF FinalizeChildren, TypeOK
    <2>3. todo = {} /\ cur = "none"
      BY <1>1, <1>15 DEF FinalizeChildren, LoopInv
    <2> QED BY <1>1, <1>15, <2>2, <2>3 DEF TypeOK, FinalizeChildren, calls, process, output
  <1>16. CASE PollReady
    <2>1. /\ pipe' \in [Handles -> [Fds -> Seq({"text", "line"})]]
          /\ partial' \in [Handles -> [Fds -> Nat]]
          /\ emitted' \in [Handles -> [Fds -> 0..MaxWrites]]
          /\ wrote' = wrote
      BY <1>1, <1>16, Drained DEF PollReady
    <2>4. child' \in [Handles -> Child]
      BY <1>1, <1>16, PollChild
    <2> QED BY <1>1, <1>16, <2>1, <2>4 DEF TypeOK, PollReady, calls, process
  <1> QED BY <1>3, <1>4, <1>5, <1>6, <1>7, <1>8, <1>9, <1>10, <1>11, <1>12, <1>13, <1>14,
             <1>15, <1>16 DEF Next, Reactor, Stopped

(* The commands and the calls they stand for.                              *)
LEMMA CommandStep ==
    ASSUME TypeOK, LoopInv, CommandInv, PlaceInv, [Next]_vars PROVE CommandInv'
  <1>1. /\ queue \in Seq(Command) /\ local \in Seq(Command)
        /\ CommandsIn(queue, launched, asked, destroyed)
        /\ CommandsIn(local, launched, asked, destroyed)
        /\ destroyed \in BOOLEAN /\ shutting_down \in BOOLEAN
        /\ asked \subseteq launched /\ launched \subseteq Handles
    BY DEF TypeOK, CommandInv, CommandsOk
  <1>2. ASSUME UNCHANGED <<queue, local, shutting_down, calls>> PROVE CommandInv'
    BY <1>2 DEF CommandInv, CommandsOk, calls
  <1>3. ASSUME NEW c \in Command, Push(c), ~destroyed, UNCHANGED <<local, shutting_down>>,
               launched \subseteq launched', asked \subseteq asked', destroyed' \in BOOLEAN,
               c.type = "launch" => c.handle \in launched' /\ c.handle \notin launched,
               c.type = "terminate" => c.handle \in asked' /\ c.cancel \in AsCancellation,
               c.type = "shutdown" => destroyed'
        PROVE  CommandInv'
    <2>1. /\ CommandsIn(queue, launched', asked', FALSE) /\ CommandsIn(local, launched', asked', FALSE)
          /\ CommandsIn(local, launched', asked', destroyed')
      BY <1>1, <1>3, CommandsLater
    <2>2. c.type = "launch" => ~Waits(queue, c.handle)
      BY <1>1, <1>3 DEF Waits, CommandsIn, IsLaunch
    <2>3. CommandsIn(<<c>>, launched', asked', destroyed')
      <3>1. DOMAIN <<c>> = {1} /\ <<c>>[1] = c /\ Len(<<c>>) = 1
        OBVIOUS
      <3> QED BY <1>3, <3>1 DEF CommandsIn, IsLaunch
    <2>4. CommandsIn(queue', launched', asked', destroyed')
      BY <1>1, <1>3, <2>1, <2>2, <2>3, CommandsAppend DEF Push
    <2>5. \A i \in DOMAIN local : local[i].type # "shutdown"
      BY <2>1 DEF CommandsIn
    <2>6. ~shutting_down
      BY <1>3 DEF CommandInv
    <2> QED BY <1>3, <2>1, <2>4, <2>5, <2>6 DEF CommandInv, CommandsOk
  <1>4. ASSUME NEW t, NextCommand(t), t # "shutdown", UNCHANGED <<queue, shutting_down, calls>>
        PROVE  CommandInv'
    <2>1. local # <<>> /\ local' = Tail(local) /\ ~shutting_down
      BY <1>4, HeadCommand
    <2>2. CommandsIn(local', launched, asked, destroyed)
      BY <1>1, <2>1, CommandsTail
    <2>3. \A i \in DOMAIN local' : i + 1 \in DOMAIN local /\ local'[i] = local[i + 1]
      BY <1>1, <2>1
    <2>4. \A i \in DOMAIN local' : local'[i].type = "shutdown" => queue = <<>>
      BY <2>3 DEF CommandInv
    <2> QED BY <1>4, <2>1, <2>2, <2>4 DEF CommandInv, CommandsOk, calls
  <1>5. CASE UNCHANGED vars
    BY <1>2, <1>5 DEF vars, loop
  <1>6. CASE Environment
    BY <1>2, <1>6, EnvironmentFrame DEF system, loop
  <1>7. ASSUME NEW h \in Handles, launch(h) PROVE CommandInv'
    <2>1. [type |-> "launch", handle |-> h] \in Command
      BY DEF Command
    <2> QED BY <1>1, <1>3, <1>7, <2>1 DEF launch, loop
  <1>8. ASSUME NEW h \in Handles, NEW c \in AsCancellation, request_terminate(h, c)
        PROVE  CommandInv'
    <2>1. [type |-> "terminate", handle |-> h, cancel |-> c] \in Command
      BY RunnerAssumption DEF Command
    <2> QED BY <1>1, <1>3, <1>8, <2>1 DEF request_terminate, loop
  <1>9. CASE Destroy
    <2>1. [type |-> "shutdown"] \in Command
      BY DEF Command
    <2> QED BY <1>1, <1>3, <1>9, <2>1 DEF Destroy, loop
  <1>10. CASE SwapQueue
    <2>1. local = <<>> /\ local' = queue /\ queue' = <<>> /\ UNCHANGED <<shutting_down, calls>>
      BY <1>10 DEF SwapQueue, LoopInv
    <2>2. CommandsIn(<<>>, launched, asked, destroyed)
      BY DEF CommandsIn
    <2> QED BY <1>1, <2>1, <2>2 DEF CommandInv, CommandsOk, calls
  <1>11. CASE HandleLaunch \/ SpawnFailure \/ HandleTerminate
    BY <1>4, <1>11 DEF HandleLaunch, SpawnFailure, HandleTerminate
  <1>12. CASE HandleShutdown
    <2>1. NextCommand("shutdown") /\ UNCHANGED <<queue, calls>>
      BY <1>12 DEF HandleShutdown
    <2>2. local # <<>> /\ local' = Tail(local) /\ Head(local).type = "shutdown"
      BY <2>1, HeadCommand
    <2>3. 1 \in DOMAIN local /\ local[1].type = "shutdown"
      BY <1>1, <2>2
    <2>4. Len(local) = 1 /\ destroyed /\ queue = <<>>
      BY <1>1, <2>3 DEF CommandsIn, CommandInv
    <2>5. local' = <<>>
      BY <1>1, <2>2, <2>4
    <2>6. CommandsIn(<<>>, launched, asked, destroyed)
      BY DEF CommandsIn
    <2> QED BY <2>1, <2>4, <2>5, <2>6 DEF CommandInv, CommandsOk, calls
  <1>13. CASE DrainWakeup \/ EndCommands \/ ReapWait \/ EnforceDeadlines \/ FinalizeChildren
              \/ PollReady \/ PollNothing \/ (\E h \in children : ReapDrain(h))
    BY <1>2, <1>13 DEF DrainWakeup, EndCommands, ReapWait, EnforceDeadlines, FinalizeChildren,
                       PollReady, PollNothing, ReapDrain
  <1> QED BY <1>5, <1>6, <1>7, <1>8, <1>9, <1>10, <1>11, <1>12, <1>13
          DEF Next, Reactor, Callers, Stopped

(* Where every process is.                                                 *)
LEMMA PlaceStep ==
    ASSUME IInv, [Next]_vars PROVE PlaceInv'
  <1>1. /\ TypeOK /\ LoopInv /\ CommandInv /\ PlaceInv
        /\ active' = Cardinality({h \in launched' : report'[h] = "none"})
    BY CountStep DEF IInv
  <1>2. /\ queue \in Seq(Command) /\ local \in Seq(Command)
        /\ CommandsIn(local, launched, asked, destroyed)
        /\ os \in [Handles -> {"none", "alive", "exiting", "zombie", "reaped"}]
        /\ child \in [Handles -> Child] /\ report \in [Handles -> ProcessOutcome \cup {"none"}]
        /\ children \subseteq Handles /\ launched \subseteq Handles
    BY <1>1 DEF TypeOK, CommandInv, CommandsOk
  <1>3. ASSUME UNCHANGED <<launched, report, children>>,
               \A h \in Handles :
                 /\ Waits(queue', h) \/ Waits(local', h) <=> Waits(queue, h) \/ Waits(local, h)
                 /\ ~(Waits(queue', h) /\ Waits(local', h)),
               \A h \in Handles :
                 /\ h \in children => (child'[h].exited <=> os'[h] = "reaped")
                 /\ os[h] = "none" <=> os'[h] = "none"
                 /\ os[h] = "reaped" => os'[h] = "reaped"
        PROVE  PlaceInv'
    BY <1>1, <1>3 DEF PlaceInv
  <1>4. ASSUME UNCHANGED <<queue, local, launched, report, children>>,
               \A h \in Handles :
                 /\ h \in children => (child'[h].exited <=> os'[h] = "reaped")
                 /\ os[h] = "none" <=> os'[h] = "none"
                 /\ os[h] = "reaped" => os'[h] = "reaped"
        PROVE  PlaceInv'
    BY <1>1, <1>3, <1>4 DEF PlaceInv
  <1>5. CASE UNCHANGED vars
    BY <1>1, <1>4, <1>5 DEF vars, loop, calls, process, PlaceInv
  <1>6. CASE Environment
    <2>1. UNCHANGED <<queue, local, launched, report, children, child>>
      BY <1>6, EnvironmentFrame DEF system, loop, calls
    <2>2. \A h \in Handles : os'[h] = os[h] \/ (os[h] = "alive" /\ os'[h] = "exiting")
                                \/ (os[h] = "exiting" /\ os'[h] = "zombie")
      BY <1>2, <1>6 DEF Environment, CloseFd, Write, Fork, GrandchildEnds, BecomeZombie, Exit,
                        Expire, process
    <2>3. \A h \in Handles :
                 /\ h \in children => (child'[h].exited <=> os'[h] = "reaped")
                 /\ os[h] = "none" <=> os'[h] = "none"
                 /\ os[h] = "reaped" => os'[h] = "reaped"
      BY <1>1, <2>1, <2>2 DEF PlaceInv
    <2> QED BY <1>4, <2>1, <2>3
  <1>7. ASSUME NEW h \in Handles, launch(h) PROVE PlaceInv'
    <2>1. /\ h \notin launched /\ launched' = launched \cup {h}
          /\ queue' = Append(queue, [type |-> "launch", handle |-> h])
          /\ UNCHANGED <<local, children, child, report, os>>
      BY <1>7 DEF launch, Push, loop, process
    <2>2. [type |-> "launch", handle |-> h] \in Command
      BY DEF Command
    <2>3. \A x \in Handles : Waits(queue', x) <=> Waits(queue, x) \/ x = h
      BY <1>2, <2>1, <2>2, WaitsAppend
    <2>4. report[h] = "none" /\ ~Waits(queue, h) /\ ~Waits(local, h) /\ h \notin children
      BY <1>1, <2>1 DEF PlaceInv
    <2> QED BY <1>1, <2>1, <2>3, <2>4 DEF PlaceInv
  <1>8. ASSUME NEW c \in Command, c.type # "launch", Push(c),
               UNCHANGED <<local, launched, children, child, report, os>>
        PROVE  PlaceInv'
    <2>1. \A x \in Handles : Waits(queue', x) <=> Waits(queue, x)
      BY <1>2, <1>8, WaitsAppend DEF Push
    <2> QED BY <1>1, <1>3, <1>8, <2>1 DEF PlaceInv
  <1>9. ASSUME NEW h \in Handles, NEW c \in AsCancellation, request_terminate(h, c)
        PROVE  PlaceInv'
    <2>1. [type |-> "terminate", handle |-> h, cancel |-> c] \in Command
      BY RunnerAssumption DEF Command
    <2> QED BY <1>8, <1>9, <2>1 DEF request_terminate, loop, process
  <1>10. CASE Destroy
    <2>1. [type |-> "shutdown"] \in Command
      BY DEF Command
    <2> QED BY <1>8, <1>10, <2>1 DEF Destroy, loop, process, calls
  <1>11. CASE SwapQueue
    <2>1. local = <<>> /\ local' = queue /\ queue' = <<>>
          /\ UNCHANGED <<launched, children, child, report, os>>
      BY <1>1, <1>11 DEF SwapQueue, LoopInv, calls, process
    <2>2. \A x : ~Waits(<<>>, x)
      BY DEF Waits
    <2> QED BY <1>1, <1>3, <2>1, <2>2 DEF PlaceInv
  <1>12. ASSUME NextCommand("launch")
         PROVE  /\ Head(local).handle \in Handles
                /\ \A x \in Handles : Waits(local', x)
                                        <=> Waits(local, x) /\ x # Head(local).handle
    BY <1>1, <1>2, <1>12, HeadCommand, WaitsTail
  <1>13. ASSUME NEW t, NextCommand(t), t # "launch"
         PROVE  \A x \in Handles : Waits(local', x) <=> Waits(local, x)
    BY <1>1, <1>2, <1>13, HeadCommand, WaitsTail
  <1>14. CASE HandleLaunch
    <2> DEFINE h == Head(local).handle
    <2>1. NextCommand("launch") /\ UNCHANGED <<queue, launched, report>>
            /\ children' = children \cup {h} /\ child' = [child EXCEPT ![h] = NewChild]
            /\ os' = [os EXCEPT ![h] = "alive"]
      BY <1>14 DEF HandleLaunch, calls
    <2>2. h \in Handles /\ h \in launched /\ report[h] = "none" /\ os[h] = "none"
          /\ ~Waits(queue, h)
      BY <1>1, <2>1, HeadLaunch
    <2>3. \A x \in Handles : Waits(local', x) <=> Waits(local, x) /\ x # h
      BY <1>12, <2>1
    <2>4. child'[h] = NewChild /\ os'[h] = "alive"
          /\ \A x \in Handles \ {h} : child'[x] = child[x] /\ os'[x] = os[x]
      BY <1>2, <2>1, <2>2
    <2>5. ~child'[h].exited
      BY <2>4 DEF NewChild
    <2> HIDE DEF h
    <2> QED BY <1>1, <2>1, <2>2, <2>3, <2>4, <2>5 DEF PlaceInv
  <1>15. CASE SpawnFailure
    <2> DEFINE h == Head(local).handle
    <2>1. NextCommand("launch") /\ UNCHANGED <<queue, launched, children, child, os>>
            /\ report' = [report EXCEPT ![h] = "spawn_failed"]
      BY <1>15 DEF SpawnFailure, calls, process
    <2>2. h \in Handles /\ h \in launched /\ report[h] = "none" /\ os[h] = "none"
          /\ ~Waits(queue, h) /\ h \notin children
      BY <1>1, <2>1, HeadLaunch
    <2>3. \A x \in Handles : Waits(local', x) <=> Waits(local, x) /\ x # h
      BY <1>12, <2>1
    <2>4. report'[h] = "spawn_failed" /\ \A x \in Handles \ {h} : report'[x] = report[x]
      BY <1>2, <2>1, <2>2
    <2> HIDE DEF h
    <2> QED BY <1>1, <2>1, <2>2, <2>3, <2>4 DEF PlaceInv
  <1>16. CASE HandleTerminate
    <2>1. NextCommand("terminate") /\ UNCHANGED <<queue, launched, children, report, os>>
      BY <1>16 DEF HandleTerminate, calls
    <2>2. \A x \in Handles : child'[x].exited = child[x].exited
      BY <1>1, <1>16, TerminateChild
    <2> QED BY <1>1, <1>3, <1>13, <2>1, <2>2 DEF PlaceInv
  <1>17. CASE HandleShutdown
    <2>1. NextCommand("shutdown") /\ UNCHANGED <<queue, launched, children, report, os>>
      BY <1>17 DEF HandleShutdown, calls
    <2>3. \A x \in Handles : child'[x].exited = child[x].exited
      BY <1>1, <1>17, ShutdownChild
    <2> QED BY <1>1, <1>3, <1>13, <2>1, <2>3 DEF PlaceInv
  <1>18. CASE DrainWakeup \/ EndCommands \/ PollNothing
    BY <1>1, <1>4, <1>18 DEF DrainWakeup, EndCommands, PollNothing, calls, process, PlaceInv
  <1>19. ASSUME NEW h \in children, ReapDrain(h) PROVE PlaceInv'
    <2>1. UNCHANGED <<queue, local, launched, report, children, os>>
      BY <1>19 DEF ReapDrain, calls, process
    <2>2. \A x \in Handles : child'[x].exited = child[x].exited
      BY <1>1, <1>19, DrainChild
    <2> QED BY <1>1, <1>4, <2>1, <2>2 DEF PlaceInv
  <1>20. CASE ReapWait
    <2>1. /\ UNCHANGED <<queue, local, launched, report, children>>
          /\ cur \in Handles
          /\ \A x \in Handles \ {cur} : os'[x] = os[x] /\ child'[x] = child[x]
          /\ os'[cur] = IF os[cur] = "zombie" THEN "reaped" ELSE os[cur]
          /\ child'[cur].exited <=> child[cur].exited \/ os[cur] = "zombie"
      BY <1>1, <1>2, <1>20, WaitChild DEF ReapWait, calls
    <2> QED BY <1>1, <1>4, <2>1 DEF PlaceInv
  <1>21. CASE EnforceDeadlines
    <2>1. UNCHANGED <<queue, local, launched, children, report, os>>
      BY <1>21 DEF EnforceDeadlines, calls
    <2>3. \A x \in Handles : child'[x].exited = child[x].exited
      BY <1>1, <1>21, DeadlineChild
    <2> QED BY <1>1, <1>4, <2>1, <2>3 DEF PlaceInv
  <1>22. CASE FinalizeChildren
    <2>1. /\ UNCHANGED <<queue, local, launched, child, os>> /\ children' = children \ Finished
          /\ \A h \in Handles : report'[h] = IF h \in Finished THEN Outcome(h) ELSE report[h]
      BY <1>22 DEF FinalizeChildren, calls, process
    <2>2. \A h \in Finished : Outcome(h) # "none"
      BY <1>1 DEF Finished, Outcome, TypeOK, Child, Status
    <2>3. \A h \in Finished : h \in children /\ child[h].exited
      BY DEF Finished
    <2> QED BY <1>1, <2>1, <2>2, <2>3 DEF PlaceInv
  <1>23. CASE PollReady
    <2>1. UNCHANGED <<queue, local, launched, children, report, os>>
      BY <1>23 DEF PollReady, calls, process
    <2>3. \A x \in Handles : child'[x].exited = child[x].exited
      BY <1>1, <1>23, PollChild
    <2> QED BY <1>1, <1>4, <2>1, <2>3 DEF PlaceInv
  <1> QED BY <1>5, <1>6, <1>7, <1>9, <1>10, <1>11, <1>14, <1>15, <1>16, <1>17, <1>18, <1>19,
             <1>20, <1>21, <1>22, <1>23 DEF Next, Reactor, Callers, Stopped

(* What was done to the children, and why.                                 *)
LEMMA ChildInvStep ==
    ASSUME IInv, [Next]_vars PROVE ChildInv'
  <1>1. TypeOK /\ LoopInv /\ CommandInv /\ PlaceInv /\ ChildInv
    BY DEF IInv
  <1>2. /\ os \in [Handles -> {"none", "alive", "exiting", "zombie", "reaped"}]
        /\ sig \in [Handles -> {"none", "TERM", "KILL"}]
        /\ child \in [Handles -> Child] /\ children \subseteq Handles
        /\ destroyed \in BOOLEAN
        /\ \A h \in Handles : child[h].forced \in {"no", "timed_out", "cancelled"}
    BY <1>1 DEF TypeOK, Child
  <1>17. ASSUME NEW h \in Handles, h \in children' => h \in children,
                asked \subseteq asked', destroyed => destroyed', expired \subseteq expired',
                <<"deadline", h>> \in expired' => h \in HasTimeout,
                os'[h] = "none" => os[h] = "none" /\ sig'[h] = sig[h],
                h \in children =>
                  /\ child'[h].forced = child[h].forced
                  /\ child'[h].term_stage = 0 <=> child[h].term_stage = 0
                  /\ child[h].forced = "no" => sig'[h] = sig[h]
         PROVE  ChildOk(h)'
    <2>1. ChildOk(h)
      BY <1>1 DEF ChildInv
    <2>2. AskedAsTimeout(h) => AskedAsTimeout(h)'
      BY <1>17 DEF AskedAsTimeout
    <2> QED BY <1>17, <2>1, <2>2 DEF ChildOk
  <1>3. ASSUME children' \subseteq children, asked \subseteq asked', destroyed => destroyed',
               expired \subseteq expired',
               \A h \in Handles : <<"deadline", h>> \in expired' => h \in HasTimeout,
               \A h \in Handles :
                 /\ os'[h] = "none" => os[h] = "none" /\ sig'[h] = sig[h]
                 /\ h \in children =>
                      /\ child'[h].forced = child[h].forced
                      /\ child'[h].term_stage = 0 <=> child[h].term_stage = 0
                      /\ child[h].forced = "no" => sig'[h] = sig[h]
        PROVE  ChildInv'
    BY <1>3, <1>17 DEF ChildInv
  <1>18. \A h \in Handles : <<"deadline", h>> \in expired => h \in HasTimeout
    BY <1>1 DEF ChildInv, ChildOk
  <1>4. ASSUME UNCHANGED <<children, child, sig>>, asked \subseteq asked',
               destroyed => destroyed', expired \subseteq expired',
               \A h \in Handles : <<"deadline", h>> \in expired' => h \in HasTimeout,
               \A h \in Handles : os'[h] = "none" => os[h] = "none"
        PROVE  ChildInv'
    BY <1>3, <1>4
  <1>5. CASE UNCHANGED vars
    BY <1>4, <1>5, <1>18 DEF vars, calls, process
  <1>6. CASE Environment
    <2>1. UNCHANGED <<children, child, asked, destroyed>>
      BY <1>6, EnvironmentFrame DEF system, calls
    <2>2. ASSUME NEW x \in Timer, Expire(x) PROVE ChildInv'
      <3>1. expired' = expired \cup {x} /\ UNCHANGED <<os, sig>>
        BY <2>2 DEF Expire, process
      <3>2. \A h \in Handles : x = <<"deadline", h>> => h \in HasTimeout
        BY <2>2 DEF Expire
      <3> QED BY <1>4, <1>18, <2>1, <3>1, <3>2
    <2>3. CASE ~(\E x \in Timer : Expire(x))
      <3>1. UNCHANGED <<sig, expired>> /\ \A h \in Handles : os'[h] = "none" => os[h] = "none"
        BY <1>2, <1>6, <2>3 DEF Environment, CloseFd, Write, Fork, GrandchildEnds,
                                BecomeZombie, Exit, process
      <3> QED BY <1>4, <1>18, <2>1, <3>1
    <2> QED BY <2>2, <2>3
  <1>7. CASE Callers
    <2>1. UNCHANGED <<children, child, sig, os, expired>>
      BY <1>7, CallersFrame DEF process
    <2>2. asked \subseteq asked' /\ (destroyed => destroyed')
      BY <1>7 DEF Callers, launch, request_terminate, Destroy
    <2> QED BY <1>4, <1>18, <2>1, <2>2
  <1>8. CASE SwapQueue \/ DrainWakeup \/ SpawnFailure \/ EndCommands \/ PollNothing
    <2>1. UNCHANGED <<children, child, sig, os, expired, asked, destroyed>>
      BY <1>8 DEF SwapQueue, DrainWakeup, SpawnFailure, EndCommands, PollNothing, process, calls
    <2> QED BY <1>4, <1>18, <2>1
  <1>9. CASE HandleLaunch
    <2>7. NextCommand("launch")
      BY <1>9 DEF HandleLaunch
    <2>8. PICK h \in Handles : h = Head(local).handle
      BY <1>1, <2>7, HeadLaunch
    <2>1. /\ NextCommand("launch") /\ UNCHANGED <<sig, expired, asked, destroyed>>
          /\ children' = children \cup {h} /\ child' = [child EXCEPT ![h] = NewChild]
          /\ os' = [os EXCEPT ![h] = "alive"]
      BY <1>9, <2>8 DEF HandleLaunch, calls
    <2>2. h \in Handles /\ os[h] = "none"
      BY <1>1, <2>7, <2>8, HeadLaunch
    <2>3. child'[h] = NewChild /\ os'[h] = "alive"
          /\ \A x \in Handles \ {h} : child'[x] = child[x] /\ os'[x] = os[x]
      BY <1>2, <2>1, <2>2
    <2>4. child'[h].forced = "no" /\ child'[h].term_stage = 0
      BY <2>3 DEF NewChild
    <2>5. ASSUME NEW x \in Handles \ {h} PROVE ChildOk(x)'
      BY <1>17, <1>18, <2>1, <2>3
    <2>6. ChildOk(h)'
      <3>1. ChildOk(h)
        BY <1>1, <2>2 DEF ChildInv
      <3> QED BY <2>1, <2>2, <2>3, <2>4, <3>1 DEF ChildOk
    <2> QED BY <2>5, <2>6 DEF ChildInv
  <1>10. CASE HandleTerminate
    <2>6. NextCommand("terminate")
      BY <1>10 DEF HandleTerminate
    <2>7. PICK h \in Handles : h = Head(local).handle
      BY <1>1, <2>6, HeadCommand
    <2> DEFINE c == Head(local).cancel
    <2>1. NextCommand("terminate") /\ UNCHANGED <<children, os, expired, asked, destroyed>>
      BY <1>10 DEF HandleTerminate, calls
    <2>2. h \in Handles /\ h \in asked /\ c \in AsCancellation /\ c \in BOOLEAN
      <3>1. local \in Seq(Command) /\ local # <<>> /\ Head(local).type = "terminate"
        BY <1>1, <2>1, HeadCommand
      <3>2. 1 \in DOMAIN local /\ Head(local) = local[1]
        BY <3>1
      <3>3. h \in asked /\ c \in AsCancellation
        BY <1>1, <2>7, <3>1, <3>2 DEF CommandInv, CommandsOk, CommandsIn
      <3> QED BY <3>3, RunnerAssumption
    <2>3. /\ \A x \in Handles \ {h} : child'[x] = child[x] /\ sig'[x] = sig[x]
          /\ \/ child' = child /\ sig' = sig
             \/ /\ Terminable(h) /\ child'[h].term_stage = 1
                /\ child'[h].forced = IF c THEN "cancelled" ELSE "timed_out"
                /\ sig'[h] = IF os[h] = "alive" THEN "TERM" ELSE sig[h]
      BY <1>1, <1>10, <2>7, TerminateChild
    <2>4. CASE child' = child /\ sig' = sig
      BY <1>4, <1>18, <2>1, <2>4
    <2>5. CASE /\ Terminable(h) /\ child'[h].term_stage = 1
               /\ child'[h].forced = IF c THEN "cancelled" ELSE "timed_out"
               /\ sig'[h] = IF os[h] = "alive" THEN "TERM" ELSE sig[h]
      <3> HIDE DEF c
      <3>1. \/ c /\ child'[h].forced = "cancelled"
            \/ ~c /\ child'[h].forced = "timed_out" /\ FALSE \in AsCancellation
        BY <2>2, <2>5
      <3>2. ASSUME NEW x \in Handles \ {h} PROVE ChildOk(x)'
        BY <1>17, <1>18, <2>1, <2>3
      <3>3. ChildOk(h)'
        <4>1. ChildOk(h) /\ os[h] # "none"
          BY <1>1, <2>2, <2>5 DEF ChildInv, Terminable, PlaceInv
        <4>2. child'[h].forced = "timed_out" => AskedAsTimeout(h)'
          BY <2>1, <2>2, <3>1 DEF AskedAsTimeout
        <4> QED BY <2>1, <2>2, <2>5, <3>1, <4>1, <4>2 DEF ChildOk
      <3> QED BY <3>2, <3>3 DEF ChildInv
    <2> QED BY <2>3, <2>4, <2>5
  <1>11. CASE HandleShutdown
    <2>1. NextCommand("shutdown") /\ UNCHANGED <<children, os, expired, asked, destroyed>>
            /\ Kill({h \in children : ~child[h].exited}, "KILL")
      BY <1>11 DEF HandleShutdown, calls
    <2>2. destroyed
      <3>1. local \in Seq(Command) /\ local # <<>> /\ Head(local).type = "shutdown"
        BY <1>1, <2>1, HeadCommand
      <3>2. 1 \in DOMAIN local /\ Head(local) = local[1]
        BY <3>1
      <3> QED BY <1>1, <3>1, <3>2 DEF CommandInv, CommandsOk, CommandsIn
    <2>3. \A h \in Handles :
            /\ h \in children /\ ~child[h].exited =>
                 child'[h].forced = "cancelled" /\ child'[h].term_stage = 2
            /\ ~(h \in children /\ ~child[h].exited) => child'[h] = child[h] /\ sig'[h] = sig[h]
            /\ os[h] # "alive" => sig'[h] = sig[h]
      BY <1>1, <1>11, <2>1, ShutdownChild DEF Kill
    <2>4. ASSUME NEW h \in Handles PROVE ChildOk(h)'
      <3>1. CASE h \in children /\ ~child[h].exited
        <4>1. ChildOk(h) /\ os[h] # "none"
          BY <1>1, <3>1 DEF ChildInv, PlaceInv
        <4> QED BY <2>1, <2>2, <2>3, <3>1, <4>1 DEF ChildOk
      <3>2. CASE ~(h \in children /\ ~child[h].exited)
        BY <1>17, <1>18, <2>1, <2>3, <3>2
      <3> QED BY <3>1, <3>2
    <2> QED BY <2>4 DEF ChildInv
  <1>12. ASSUME NEW h \in children, ReapDrain(h) PROVE ChildInv'
    <2>1. UNCHANGED <<children, sig, os, expired, asked, destroyed>>
      BY <1>12 DEF ReapDrain, calls, process
    <2> QED BY <1>1, <1>3, <1>12, <1>18, <2>1, DrainChild
  <1>13. CASE ReapWait
    <2>1. UNCHANGED <<children, sig, expired, asked, destroyed>>
          /\ \A h \in Handles : os'[h] = "none" => os[h] = "none"
      BY <1>1, <1>2, <1>13, WaitChild DEF ReapWait, calls
    <2> QED BY <1>1, <1>3, <1>13, <1>18, <2>1, WaitChild
  <1>14. CASE EnforceDeadlines
    <2>1. UNCHANGED <<children, os, expired, asked, destroyed>>
      BY <1>14 DEF EnforceDeadlines, calls
    <2>2. \A h \in Handles :
            /\ os[h] # "alive" => sig'[h] = sig[h]
            /\ ~Overdue(h) /\ ~GraceOver(h) => sig'[h] = sig[h]
      BY <1>14 DEF EnforceDeadlines
    <2>3. \A h \in Handles :
            /\ Overdue(h) => child'[h].forced = "timed_out" /\ child'[h].term_stage = 1
            /\ ~Overdue(h) => /\ child'[h].forced = child[h].forced
                              /\ child'[h].term_stage =
                                   IF GraceOver(h) THEN 2 ELSE child[h].term_stage
      BY <1>1, <1>14, DeadlineChild
    <2>4. \A h \in Handles : /\ Overdue(h) => h \in children /\ <<"deadline", h>> \in expired
                             /\ GraceOver(h) => h \in children /\ child[h].term_stage = 1
      BY DEF Overdue, GraceOver
    <2>5. ASSUME NEW h \in Handles PROVE ChildOk(h)'
      <3>1. ChildOk(h) /\ (h \in children => os[h] # "none")
        BY <1>1 DEF ChildInv, PlaceInv
      <3>2. CASE Overdue(h)
        BY <2>1, <2>2, <2>3, <2>4, <3>1, <3>2 DEF ChildOk
      <3>3. CASE ~Overdue(h) /\ GraceOver(h)
        BY <1>17, <1>18, <2>1, <2>2, <2>3, <2>4, <3>1, <3>3 DEF ChildOk
      <3>4. CASE ~Overdue(h) /\ ~GraceOver(h)
        BY <1>17, <1>18, <2>1, <2>2, <2>3, <3>4
      <3> QED BY <3>2, <3>3, <3>4
    <2> QED BY <2>5 DEF ChildInv
  <1>15. CASE FinalizeChildren
    <2>1. UNCHANGED <<child, sig, os, expired, asked, destroyed>> /\ children' \subseteq children
      BY <1>15 DEF FinalizeChildren, calls, process
    <2> QED BY <1>3, <1>18, <2>1
  <1>16. CASE PollReady
    <2>1. UNCHANGED <<children, sig, os, expired, asked, destroyed>>
      BY <1>16 DEF PollReady, calls, process
    <2> QED BY <1>1, <1>3, <1>16, <1>18, <2>1, PollChild
  <1> QED BY <1>5, <1>6, <1>7, <1>8, <1>9, <1>10, <1>11, <1>12, <1>13, <1>14, <1>15, <1>16
          DEF Next, Reactor, Stopped

(* What is in the pipes.                                                   *)
LEMMA PipeStep ==
    ASSUME IInv, [Next]_vars PROVE PipeInv'
  <1>1. TypeOK /\ LoopInv /\ CommandInv /\ PlaceInv /\ PipeInv
    BY DEF IInv
  <1>2. /\ os \in [Handles -> {"none", "alive", "exiting", "zombie", "reaped"}]
        /\ own \in [Handles -> SUBSET Fds] /\ heir \in [Handles -> SUBSET Fds]
        /\ pipe \in [Handles -> [Fds -> Seq({"text", "line"})]]
        /\ partial \in [Handles -> [Fds -> Nat]]
        /\ wrote \in [Handles -> [Fds -> 0..MaxWrites]]
        /\ emitted \in [Handles -> [Fds -> 0..MaxWrites]]
        /\ child \in [Handles -> Child] /\ children \subseteq Handles
        /\ \A h \in Handles : child[h].open \subseteq Fds
    BY <1>1 DEF TypeOK, Child
  <1>3. ASSUME UNCHANGED output,
               \A h \in Handles :
                 /\ own'[h] \subseteq own[h] /\ Writers(h)' \subseteq Writers(h)
                 /\ os'[h] # "alive" => own'[h] = {}
                 /\ os'[h] = "none" => os[h] = "none"
                 /\ child'[h].open = child[h].open
        PROVE  PipeInv'
    <2>1. \A h \in Handles : heir'[h] \subseteq Writers(h)' /\ heir[h] \subseteq Writers(h)
      BY DEF Writers
    <2>2. \A h \in Handles : os[h] = "none" => Writers(h) = {}
      BY <1>1 DEF PipeInv, Writers
    <2> QED BY <1>1, <1>3, <2>1, <2>2 DEF PipeInv, output
  <1>4. ASSUME UNCHANGED <<output, os, own, heir>>,
               \A h \in Handles : child'[h].open = child[h].open
        PROVE  PipeInv'
    BY <1>1, <1>3, <1>4 DEF PipeInv, Writers
  <1>5. CASE UNCHANGED vars
    BY <1>4, <1>5 DEF vars, process
  <1>6. CASE Callers
    BY <1>4, <1>6, CallersFrame DEF process
  <1>7. CASE Environment
    <2>1. UNCHANGED child
      BY <1>7, EnvironmentFrame DEF system
    <2>2. ASSUME NEW h \in Handles, NEW fd \in Fds, CloseFd(h, fd) PROVE PipeInv'
      <3>1. /\ UNCHANGED <<output, os, heir>>
            /\ own' = [own EXCEPT ![h] = own[h] \ {fd}]
        BY <2>2 DEF CloseFd
      <3>2. \A x \in Handles : own'[x] \subseteq own[x]
        BY <1>2, <3>1
      <3> QED BY <1>1, <1>3, <2>1, <3>1, <3>2 DEF PipeInv, Writers
    <2>3. ASSUME NEW h \in Handles, NEW fd \in Fds, NEW p \in {"text", "line"}, Write(h, fd, p)
          PROVE  PipeInv'
      <3>1. /\ UNCHANGED <<os, own, heir, partial, emitted>> /\ fd \in Writers(h)
            /\ pipe' = [pipe EXCEPT ![h][fd] = Append(pipe[h][fd], p)]
            /\ wrote' = [wrote EXCEPT ![h][fd] = wrote[h][fd] + 1]
        BY <2>3 DEF Write, process
      <3>2. \A x \in Handles, f \in Fds :
              /\ pipe'[x][f] = IF x = h /\ f = fd THEN Append(pipe[h][fd], p) ELSE pipe[x][f]
              /\ wrote'[x][f] = IF x = h /\ f = fd THEN wrote[h][fd] + 1 ELSE wrote[x][f]
        BY <1>2, <3>1
      <3>3. Len(Append(pipe[h][fd], p)) = Len(pipe[h][fd]) + 1
        BY <1>2
      <3>4. \A x \in Handles : Writers(x)' = Writers(x)
        BY <3>1 DEF Writers
      <3>5. fd \in child[h].open
        BY <1>1, <3>1 DEF PipeInv
      <3>6. \A x \in Handles, f \in Fds :
              emitted'[x][f] + partial'[x][f] + Len(pipe'[x][f]) = wrote'[x][f]
        <4>1. \A x \in Handles, f \in Fds :
                /\ emitted[x][f] \in Nat /\ partial[x][f] \in Nat /\ Len(pipe[x][f]) \in Nat
                /\ emitted[x][f] + partial[x][f] + Len(pipe[x][f]) = wrote[x][f]
          BY <1>1, <1>2 DEF PipeInv
        <4> SUFFICES ASSUME NEW x \in Handles, NEW f \in Fds
                     PROVE  emitted[x][f] + partial[x][f] + Len(pipe'[x][f]) = wrote'[x][f]
          BY <3>1
        <4>2. CASE x = h /\ f = fd
          <5>1. Len(pipe'[x][f]) = Len(pipe[x][f]) + 1 /\ wrote'[x][f] = wrote[x][f] + 1
            <6>1. pipe'[x][f] = Append(pipe[h][fd], p) /\ wrote'[x][f] = wrote[x][f] + 1
              BY <3>2, <4>2, Zenon
            <6>2. pipe[x][f] = pipe[h][fd]
              BY <4>2
            <6> QED BY <3>3, <6>1, <6>2
          <5>2. /\ emitted[x][f] \in Nat /\ partial[x][f] \in Nat /\ Len(pipe[x][f]) \in Nat
                /\ emitted[x][f] + partial[x][f] + Len(pipe[x][f]) = wrote[x][f]
            BY <4>1
          <5>4. emitted[x][f] + partial[x][f] + (Len(pipe[x][f]) + 1) = wrote[x][f] + 1
            <6> DEFINE e == emitted[x][f]
                       q == partial[x][f]
                       l == Len(pipe[x][f])
                       w == wrote[x][f]
            <6>1. e \in Nat /\ q \in Nat /\ l \in Nat /\ e + q + l = w
              BY <5>2
            <6> HIDE DEF e, q, l, w
            <6>2. e + q + (l + 1) = w + 1
              BY <6>1
            <6> QED BY <6>2 DEF e, q, l, w
          <5> QED BY <5>1, <5>4, Zenon
        <4>3. CASE ~(x = h /\ f = fd)
          BY <3>2, <4>1, <4>3
        <4> QED BY <4>2, <4>3
      <3> QED BY <1>1, <2>1, <3>1, <3>2, <3>4, <3>5, <3>6 DEF PipeInv
    <2>4. ASSUME NEW h \in Handles, Fork(h) \/ GrandchildEnds(h) PROVE PipeInv'
      <3>1. UNCHANGED <<output, os, own>>
        BY <2>4 DEF Fork, GrandchildEnds
      <3>2. \A x \in Handles : heir'[x] \subseteq Writers(x)
        BY <1>2, <2>4 DEF Fork, GrandchildEnds, Writers
      <3>3. \A x \in Handles : Writers(x)' \subseteq Writers(x)
        BY <3>1, <3>2 DEF Writers
      <3> QED BY <1>1, <1>3, <2>1, <3>1, <3>3 DEF PipeInv
    <2>5. ASSUME NEW h \in Handles, BecomeZombie(h) PROVE PipeInv'
      BY <1>1, <1>2, <1>3, <2>1, <2>5 DEF BecomeZombie, PipeInv, Writers
    <2>6. ASSUME NEW h \in Handles, NEW s \in Status, Exit(h, s) PROVE PipeInv'
      <3>1. /\ UNCHANGED <<output, heir>> /\ os[h] = "alive"
            /\ \A x \in Handles : /\ own'[x] = IF x = h THEN {} ELSE own[x]
                                  /\ os'[x] = IF x = h THEN "exiting" ELSE os[x]
        BY <1>2, <2>6 DEF Exit
      <3> QED BY <1>1, <1>3, <2>1, <3>1 DEF PipeInv, Writers
    <2>7. ASSUME NEW x \in Timer, Expire(x) PROVE PipeInv'
      BY <1>4, <2>1, <2>7 DEF Expire, process
    <2> QED BY <1>7, <2>2, <2>3, <2>4, <2>5, <2>6, <2>7 DEF Environment
  <1>8. CASE SwapQueue \/ DrainWakeup \/ SpawnFailure \/ EndCommands \/ PollNothing
             \/ FinalizeChildren
    BY <1>4, <1>8 DEF SwapQueue, DrainWakeup, SpawnFailure, EndCommands, PollNothing,
                      FinalizeChildren, process
  <1>9. CASE HandleLaunch
    <2> DEFINE h == Head(local).handle
    <2>1. /\ NextCommand("launch") /\ UNCHANGED <<heir, output>>
          /\ child' = [child EXCEPT ![h] = NewChild]
          /\ os' = [os EXCEPT ![h] = "alive"] /\ own' = [own EXCEPT ![h] = Fds]
      BY <1>9 DEF HandleLaunch
    <2>2. h \in Handles /\ os[h] = "none"
      BY <1>1, <2>1, HeadLaunch
    <2>3. child'[h] = NewChild /\ os'[h] = "alive" /\ own'[h] = Fds
          /\ \A x \in Handles \ {h} : child'[x] = child[x] /\ os'[x] = os[x] /\ own'[x] = own[x]
      BY <1>2, <2>1, <2>2
    <2>4. child'[h].open = Fds /\ heir'[h] \subseteq Fds
      BY <1>2, <2>1, <2>2, <2>3 DEF NewChild
    <2> HIDE DEF h
    <2> QED BY <1>1, <2>1, <2>2, <2>3, <2>4 DEF PipeInv, Writers, output
  <1>10. CASE HandleTerminate
    <2>1. UNCHANGED <<output, os, own, heir>>
      BY <1>10 DEF HandleTerminate
    <2>2. \A h \in Handles : child'[h].open = child[h].open
      BY <1>1, <1>10, TerminateChild
    <2> QED BY <1>4, <2>1, <2>2
  <1>11. CASE HandleShutdown
    <2>1. UNCHANGED <<output, os, own, heir>>
      BY <1>11 DEF HandleShutdown
    <2> QED BY <1>1, <1>4, <1>11, <2>1, ShutdownChild
  <1>12. ASSUME NEW F, DrainFds(F), UNCHANGED <<os, own, heir>>,
                \A h \in Handles : child'[h].open = child[h].open
                                     \/ child'[h].open = StillOpen(h, F)
         PROVE  PipeInv'
    <2>1. \A h \in Handles : Writers(h)' = Writers(h)
      BY <1>12 DEF Writers
    <2>2. \A h \in Handles : Writers(h) \subseteq child'[h].open
      BY <1>1, <1>12 DEF PipeInv, StillOpen
    <2>3. ASSUME NEW h \in Handles, NEW fd \in Fds
          PROVE  /\ fd \notin child'[h].open => pipe'[h][fd] = <<>> /\ partial'[h][fd] = 0
                 /\ emitted'[h][fd] + partial'[h][fd] + Len(pipe'[h][fd]) = wrote'[h][fd]
      <3>1. fd \notin child'[h].open =>
              fd \notin Writers(h)
                /\ (<<h, fd>> \in F \/ (pipe[h][fd] = <<>> /\ partial[h][fd] = 0))
        BY <1>1, <1>12, <2>2 DEF PipeInv, StillOpen
      <3> QED BY <1>1, <1>12, <3>1, Drained
    <2> QED BY <1>1, <1>12, <2>1, <2>2, <2>3 DEF PipeInv
  <1>13. ASSUME NEW h \in children, ReapDrain(h) PROVE PipeInv'
    <2> DEFINE F == {h} \X child[h].open
    <2>1. DrainFds(F) /\ UNCHANGED <<os, own, heir>>
      BY <1>13 DEF ReapDrain, process
    <2>2. \A x \in Handles : child'[x].open = child[x].open \/ child'[x].open = StillOpen(x, F)
      BY <1>1, <1>13, DrainChild
    <2> HIDE DEF F
    <2> QED BY <1>12, <2>1, <2>2
  <1>14. CASE ReapWait
    <2>1. UNCHANGED <<output, own, heir>>
            /\ \A h \in Handles : /\ os'[h] = "none" => os[h] = "none"
                                  /\ os[h] = "alive" => os'[h] = "alive"
      BY <1>1, <1>2, <1>14, WaitChild DEF ReapWait
    <2>2. \A h \in Handles : child'[h].open = child[h].open
      BY <1>1, <1>14, WaitChild
    <2> QED BY <1>1, <1>3, <2>1, <2>2 DEF PipeInv, Writers
  <1>15. CASE EnforceDeadlines
    <2>1. UNCHANGED <<output, os, own, heir>>
      BY <1>15 DEF EnforceDeadlines
    <2> QED BY <1>1, <1>4, <1>15, <2>1, DeadlineChild
  <1>16. CASE PollReady
    <2>1. DrainFds(Readable) /\ UNCHANGED <<os, own, heir>>
      BY <1>16 DEF PollReady, process
    <2>2. \A h \in Handles : child'[h].open = child[h].open
                               \/ child'[h].open = StillOpen(h, Readable)
      BY <1>1, <1>16, PollChild
    <2> QED BY <1>12, <2>1, <2>2
  <1> QED BY <1>5, <1>6, <1>7, <1>8, <1>9, <1>10, <1>11, <1>13, <1>14, <1>15, <1>16
          DEF Next, Reactor, Stopped

(* What was reported.                                                      *)
LEMMA ReportStep ==
    ASSUME IInv, [Next]_vars PROVE ReportInv'
  <1>1. TypeOK /\ LoopInv /\ CommandInv /\ PlaceInv /\ ChildInv /\ ReportInv
    BY DEF IInv
  <1>2. /\ os \in [Handles -> {"none", "alive", "exiting", "zombie", "reaped"}]
        /\ report \in [Handles -> ProcessOutcome \cup {"none"}]
        /\ status \in [Handles -> Status]
        /\ child \in [Handles -> Child] /\ children \subseteq Handles
    BY <1>1 DEF TypeOK
  <1>3. ASSUME UNCHANGED report, asked \subseteq asked', expired \subseteq expired',
               \A h \in Handles : os[h] = "reaped" =>
                 /\ os'[h] = "reaped" /\ status'[h] = status[h] /\ sig'[h] = sig[h]
                 /\ h \notin children => child'[h].open = child[h].open
        PROVE  ReportInv'
    <2> SUFFICES ASSUME NEW h \in Handles
                 PROVE  /\ report[h] \in Status => report[h] = status'[h] /\ sig'[h] = "none"
                        /\ report[h] = "timed_out" =>
                             <<"deadline", h>> \in expired' \/ AskedAsTimeout(h)'
                        /\ report[h] \notin {"none", "spawn_failed"} =>
                             os'[h] = "reaped" /\ child'[h].open = {}
      BY <1>3 DEF ReportInv, OutcomeTrue, AskedAsTimeout
    <2>1. /\ report[h] \in Status => report[h] = status[h] /\ sig[h] = "none"
          /\ report[h] = "timed_out" => <<"deadline", h>> \in expired \/ AskedAsTimeout(h)
          /\ report[h] \notin {"none", "spawn_failed"} =>
               os[h] = "reaped" /\ child[h].open = {} /\ h \notin children
      BY <1>1 DEF ReportInv, OutcomeTrue, AskedAsTimeout, PlaceInv
    <2>2. report[h] \in Status => report[h] \notin {"none", "spawn_failed"}
      BY DEF Status
    <2>3. AskedAsTimeout(h) => AskedAsTimeout(h)'
      BY <1>3 DEF AskedAsTimeout
    <2> QED BY <1>3, <2>1, <2>2, <2>3
  <1>4. CASE UNCHANGED vars
    BY <1>3, <1>4 DEF vars, process, calls
  <1>5. CASE Callers
    <2>1. asked \subseteq asked'
      BY <1>5 DEF Callers, launch, request_terminate, Destroy
    <2> QED BY <1>3, <1>5, <2>1, CallersFrame DEF process
  <1>6. CASE Environment
    <2>1. UNCHANGED <<report, asked, child>>
      BY <1>6, EnvironmentFrame DEF system, calls
    <2>2. /\ expired \subseteq expired' /\ UNCHANGED sig
          /\ \A h \in Handles : os[h] = "reaped" => os'[h] = "reaped" /\ status'[h] = status[h]
      <3>1. ASSUME NEW h \in Handles, NEW s \in Status, Exit(h, s)
            PROVE  /\ UNCHANGED <<expired, sig>>
                   /\ \A x \in Handles : os[x] = "reaped" =>
                        os'[x] = "reaped" /\ status'[x] = status[x]
        BY <1>2, <3>1 DEF Exit
      <3>2. ASSUME NEW h \in Handles, BecomeZombie(h)
            PROVE  /\ UNCHANGED <<expired, sig, status>>
                   /\ \A x \in Handles : os[x] = "reaped" => os'[x] = "reaped"
        BY <1>2, <3>2 DEF BecomeZombie
      <3>3. ASSUME ~(\E h \in Handles : BecomeZombie(h) \/ \E s \in Status : Exit(h, s))
            PROVE  expired \subseteq expired' /\ UNCHANGED <<sig, os, status>>
        BY <1>6, <3>3 DEF Environment, CloseFd, Write, Fork, GrandchildEnds, Expire, process
      <3> QED BY <3>1, <3>2, <3>3
    <2> QED BY <1>3, <2>1, <2>2
  <1>7. CASE SwapQueue \/ DrainWakeup \/ EndCommands \/ PollNothing
    BY <1>3, <1>7 DEF SwapQueue, DrainWakeup, EndCommands, PollNothing, process, calls
  <1>8. CASE HandleLaunch
    <2> DEFINE h == Head(local).handle
    <2>1. /\ NextCommand("launch") /\ UNCHANGED <<report, asked, expired, status, sig>>
          /\ child' = [child EXCEPT ![h] = NewChild] /\ os' = [os EXCEPT ![h] = "alive"]
      BY <1>8 DEF HandleLaunch, calls
    <2>2. h \in Handles /\ os[h] = "none"
      BY <1>1, <2>1, HeadLaunch
    <2>3. \A x \in Handles \ {h} : child'[x] = child[x] /\ os'[x] = os[x]
      BY <1>2, <2>1, <2>2
    <2> HIDE DEF h
    <2> QED BY <1>3, <2>1, <2>2, <2>3
  <1>9. CASE SpawnFailure
    <2>1. /\ NextCommand("launch") /\ UNCHANGED <<asked, expired, status, sig, os, child>>
          /\ report' = [report EXCEPT ![Head(local).handle] = "spawn_failed"]
      BY <1>9 DEF SpawnFailure, calls, process
    <2>2. \A x \in Handles : report'[x] \in {report[x], "spawn_failed"}
      BY <1>2, <2>1
    <2>3. "spawn_failed" \notin Status
      BY DEF Status
    <2> QED BY <1>1, <2>1, <2>2, <2>3 DEF ReportInv, OutcomeTrue
  <1>10. CASE HandleTerminate
    <2>1. UNCHANGED <<report, asked, expired, status, os>>
      BY <1>10 DEF HandleTerminate, calls
    <2>2. \A h \in Handles : child'[h].open = child[h].open
      BY <1>1, <1>10, TerminateChild
    <2>3. \A h \in Handles : os[h] = "reaped" => sig'[h] = sig[h]
      BY <1>1, <1>10, TerminateChild
    <2> QED BY <1>3, <2>1, <2>2, <2>3
  <1>11. CASE HandleShutdown
    <2>1. UNCHANGED <<report, asked, expired, status, os>>
      BY <1>11 DEF HandleShutdown, calls
    <2>2. \A h \in Handles : os[h] = "reaped" => sig'[h] = sig[h]
      BY <1>11 DEF HandleShutdown, Kill
    <2> QED BY <1>1, <1>3, <1>11, <2>1, <2>2, ShutdownChild
  <1>12. ASSUME NEW h \in children, ReapDrain(h) PROVE ReportInv'
    <2>1. UNCHANGED <<report, asked, expired, status, os, sig>>
      BY <1>12 DEF ReapDrain, calls, process
    <2>2. \A x \in Handles : x \notin children => child'[x].open = child[x].open
      BY <1>1, <1>12, DrainChild
    <2> QED BY <1>3, <2>1, <2>2
  <1>13. CASE ReapWait
    <2>1. UNCHANGED <<report, asked, expired, status, sig>>
            /\ \A x \in Handles : os[x] = "reaped" => os'[x] = "reaped"
      BY <1>1, <1>2, <1>13, WaitChild DEF ReapWait, calls
    <2>2. \A x \in Handles : child'[x].open = child[x].open
      BY <1>1, <1>13, WaitChild
    <2> QED BY <1>3, <2>1, <2>2
  <1>14. CASE EnforceDeadlines
    <2>1. UNCHANGED <<report, asked, expired, status, os>>
            /\ \A x \in Handles : os[x] = "reaped" => sig'[x] = sig[x]
      BY <1>14 DEF EnforceDeadlines, calls
    <2> QED BY <1>1, <1>3, <1>14, <2>1, DeadlineChild
  <1>15. CASE FinalizeChildren
    <2>1. /\ UNCHANGED <<asked, expired, status, os, sig, child>>
          /\ \A h \in Handles : report'[h] = IF h \in Finished THEN Outcome(h) ELSE report[h]
      BY <1>15 DEF FinalizeChildren, calls, process
    <2>2. ASSUME NEW h \in Handles
          PROVE  /\ report'[h] \in Status => report'[h] = status[h] /\ sig[h] = "none"
                 /\ report'[h] = "timed_out" => <<"deadline", h>> \in expired \/ AskedAsTimeout(h)
                 /\ report'[h] \notin {"none", "spawn_failed"} =>
                      os[h] = "reaped" /\ child[h].open = {}
      <3>1. CASE h \in Finished
        <4>1. h \in children /\ child[h].exited /\ child[h].open = {} /\ os[h] = "reaped"
          BY <1>1, <3>1 DEF Finished, PlaceInv
        <4>2. ChildOk(h)
          BY <1>1 DEF ChildInv
        <4>3. CASE child[h].forced = "no"
          <5>1. report'[h] = status[h] /\ status[h] \in Status /\ "timed_out" \notin Status
            BY <1>2, <2>1, <3>1, <4>3 DEF Outcome, Status
          <5> QED BY <4>1, <4>2, <4>3, <5>1 DEF ChildOk
        <4>4. CASE child[h].forced # "no"
          <5>1. report'[h] = child[h].forced /\ child[h].forced \in {"timed_out", "cancelled"}
            BY <1>2, <2>1, <3>1, <4>4 DEF Outcome, Child
          <5>2. "timed_out" \notin Status /\ "cancelled" \notin Status
            BY DEF Status
          <5> QED BY <4>1, <4>2, <4>4, <5>1, <5>2 DEF ChildOk
        <4> QED BY <4>3, <4>4
      <3>2. CASE h \notin Finished
        BY <1>1, <2>1, <3>2 DEF ReportInv, OutcomeTrue, AskedAsTimeout
      <3> QED BY <3>1, <3>2
    <2> QED BY <2>1, <2>2 DEF ReportInv, OutcomeTrue, AskedAsTimeout
  <1>16. CASE PollReady
    <2>1. UNCHANGED <<report, asked, expired, status, os, sig>>
      BY <1>16 DEF PollReady, calls, process
    <2>2. \A x \in Handles : x \notin children => child'[x].open = child[x].open
      BY <1>1, <1>16, PollChild
    <2> QED BY <1>3, <2>1, <2>2
  <1> QED BY <1>4, <1>5, <1>6, <1>7, <1>8, <1>9, <1>10, <1>11, <1>12, <1>13, <1>14, <1>15, <1>16
          DEF Next, Reactor, Stopped

-----------------------------------------------------------------------------
(* The theorems *)

(* A runner that was just constructed.                                     *)
LEMMA RunnerInit == Init => IInv
  <1> SUFFICES ASSUME Init PROVE IInv
    OBVIOUS
  <1>1. NewChild \in Child /\ NewChild.open = Fds /\ NewChild.exited = FALSE
    BY DEF NewChild, Child
  <1>2. TypeOK
    <2>1. 0 \in 0..MaxWrites
      BY RunnerAssumption
    <2>2. /\ wrote \in [Handles -> [Fds -> 0..MaxWrites]]
          /\ emitted \in [Handles -> [Fds -> 0..MaxWrites]]
          /\ partial \in [Handles -> [Fds -> Nat]]
          /\ pipe \in [Handles -> [Fds -> Seq({"text", "line"})]]
      BY <2>1 DEF Init
    <2>3. child \in [Handles -> Child] /\ status \in [Handles -> Status]
      BY <1>1 DEF Init, Status
    <2>4. /\ queue \in Seq(Command) /\ local \in Seq(Command)
          /\ report \in [Handles -> ProcessOutcome \cup {"none"}]
      BY DEF Init
    <2> QED BY <2>2, <2>3, <2>4 DEF Init, TypeOK
  <1>3. LoopInv
    BY DEF Init, LoopInv
  <1>4. CommandInv
    BY DEF Init, CommandInv, CommandsOk, CommandsIn
  <1>5. PlaceInv
    <2>1. {h \in launched : report[h] = "none"} = {} /\ active = 0
      BY DEF Init
    <2>2. \A h : ~Waits(queue, h) /\ ~Waits(local, h)
      BY DEF Init, Waits
    <2> QED BY <2>1, <2>2, FS_EmptySet DEF Init, PlaceInv
  <1>6. ChildInv
    BY DEF Init, ChildInv, ChildOk
  <1>7. PipeInv
    BY <1>1 DEF Init, PipeInv, Writers
  <1>8. ReportInv
    BY DEF Init, ReportInv, OutcomeTrue, Status
  <1> QED BY <1>2, <1>3, <1>4, <1>5, <1>6, <1>7, <1>8 DEF IInv

(* The invariant is inductive.                                             *)
LEMMA RunnerStep == IInv /\ [Next]_vars => IInv'
  <1> SUFFICES ASSUME IInv, [Next]_vars PROVE IInv'
    OBVIOUS
  <1>1. TypeOK /\ LoopInv /\ CommandInv /\ PlaceInv
    BY DEF IInv
  <1> QED BY <1>1, TypeStep, LoopStep, CommandStep, PlaceStep, ChildInvStep, PipeStep,
             ReportStep DEF IInv

(* Every behaviour of the runner keeps the invariant.                      *)
THEOREM RunnerInvariant == Spec => []IInv
  BY RunnerInit, RunnerStep, PTL DEF Spec

(* A command of q launches h at most once: the count is 1 or 0.            *)
LEMMA LaunchCount ==
    ASSUME NEW q \in Seq(Command), NEW h, NEW L, NEW A, NEW D, CommandsIn(q, L, A, D)
    PROVE  Cardinality(LaunchesOf(q, h)) = IF Waits(q, h) THEN 1 ELSE 0
  <1>1. CASE Waits(q, h)
    <2>1. PICK i \in DOMAIN q : IsLaunch(q, i, h)
      BY <1>1 DEF Waits
    <2>2. LaunchesOf(q, h) = {i}
      BY <2>1 DEF LaunchesOf, IsLaunch, CommandsIn
    <2> QED BY <1>1, <2>2, FS_Singleton
  <1>2. CASE ~Waits(q, h)
    <2>1. LaunchesOf(q, h) = {}
      BY <1>2 DEF LaunchesOf, Waits, IsLaunch
    <2> QED BY <1>2, <2>1, FS_EmptySet
  <1> QED BY <1>1, <1>2

(* No launch is lost between launch() and on_exit, and none is left behind *)
(* by a runner that was destroyed: launch, drain_commands, handle_launch,  *)
(* finalize_children and the end of run().                                 *)
THEOREM NoProcessLost == Spec => []NothingLost
  <1>1. ASSUME IInv PROVE LaunchAccounted
    <2>1. /\ active = Cardinality({h \in launched : report[h] = "none"})
          /\ queue \in Seq(Command) /\ local \in Seq(Command)
          /\ CommandsIn(queue, launched, asked, destroyed)
          /\ CommandsIn(local, launched, asked, destroyed)
      BY <1>1 DEF IInv, PlaceInv, TypeOK, CommandInv, CommandsOk
    <2>2. ASSUME NEW h \in Handles
          PROVE  Cardinality(LaunchesOf(queue, h)) + Cardinality(LaunchesOf(local, h))
                   + (IF h \in children THEN 1 ELSE 0)
                     = IF h \in launched /\ report[h] = "none" THEN 1 ELSE 0
      <3>1. Cardinality(LaunchesOf(queue, h)) = IF Waits(queue, h) THEN 1 ELSE 0
        BY <2>1, LaunchCount
      <3>2. Cardinality(LaunchesOf(local, h)) = IF Waits(local, h) THEN 1 ELSE 0
        BY <2>1, LaunchCount
      <3>3. /\ h \in launched /\ report[h] = "none"
                 <=> Waits(queue, h) \/ Waits(local, h) \/ h \in children
            /\ ~(Waits(queue, h) /\ Waits(local, h))
            /\ h \in children => ~Waits(queue, h) /\ ~Waits(local, h)
        BY <1>1 DEF IInv, PlaceInv
      <3> QED BY <3>1, <3>2, <3>3
    <2> QED BY <2>1, <2>2 DEF LaunchAccounted
  <1>2. ASSUME IInv PROVE StoppedClean
    <2> SUFFICES ASSUME pc = "stopped"
                 PROVE  /\ \A h \in Handles : os[h] \in {"none", "reaped"}
                        /\ active = 0 /\ queue = <<>>
      BY DEF StoppedClean
    <2>1. children = {} /\ queue = <<>> /\ local = <<>>
      BY <1>2 DEF IInv, LoopInv, CommandInv
    <2>2. \A h \in Handles : ~Waits(queue, h) /\ ~Waits(local, h)
      BY <2>1 DEF Waits
    <2>3. \A h \in Handles : os[h] \in {"none", "reaped"}
      BY <1>2, <2>1 DEF IInv, PlaceInv
    <2>4. {h \in launched : report[h] = "none"} = {}
      BY <1>2, <2>1, <2>2 DEF IInv, PlaceInv, TypeOK
    <2> QED BY <1>2, <2>1, <2>3, <2>4, FS_EmptySet DEF IInv, PlaceInv
  <1> QED BY <1>1, <1>2, RunnerInvariant, PTL DEF NothingLost

(* on_exit comes after the last line, when the child was reaped, and says  *)
(* what happened: drain_fd, reap_children, enforce_deadlines and           *)
(* finalize_children.                                                      *)
THEOREM ReportsExact == Spec => []ReportExact
  <1>1. ASSUME IInv PROVE ReportExact
    <2>1. ASSUME NEW h \in Handles, report[h] \notin {"none", "spawn_failed"}
          PROVE  os[h] = "reaped" /\ Writers(h) = {} /\ emitted[h] = wrote[h]
      <3>1. os[h] = "reaped" /\ child[h].open = {}
        BY <1>1, <2>1 DEF IInv, ReportInv
      <3>2. Writers(h) = {}
        BY <1>1, <3>1 DEF IInv, PipeInv
      <3>3. \A fd \in Fds : /\ pipe[h][fd] = <<>> /\ partial[h][fd] = 0
                            /\ emitted[h][fd] + partial[h][fd] + Len(pipe[h][fd]) = wrote[h][fd]
        BY <1>1, <3>1 DEF IInv, PipeInv
      <3>4. emitted[h] \in [Fds -> 0..MaxWrites] /\ wrote[h] \in [Fds -> 0..MaxWrites]
        BY <1>1 DEF IInv, TypeOK
      <3>5. \A fd \in Fds : emitted[h][fd] = wrote[h][fd]
        BY <3>3, <3>4, RunnerAssumption
      <3>6. emitted[h] = wrote[h]
        BY <3>4, <3>5
      <3> QED BY <3>1, <3>2, <3>6
    <2> QED BY <1>1, <2>1 DEF IInv, ReportInv, ReportExact, ExitComesLast
  <1> QED BY <1>1, RunnerInvariant, PTL

(* kill() is only sent to a process that was not reaped yet:               *)
(* handle_terminate, the shutdown command and enforce_deadlines.           *)
THEOREM SignalsItsOwn == Spec => SignalsOnlyItsOwn
  <1> DEFINE Safe == \A h \in Handles : child'[h].term_stage > child[h].term_stage
                       => os[h] \in {"alive", "exiting", "zombie"}
  <1>1. ASSUME IInv, [Next]_vars PROVE Safe \/ UNCHANGED vars
    <2>1. TypeOK /\ LoopInv /\ CommandInv /\ PlaceInv
      BY <1>1 DEF IInv
    <2>2. \A h \in Handles : child[h].term_stage \in 0..2
      BY <2>1 DEF TypeOK, Child
    <2>3. \A h \in children : ~child[h].exited => os[h] \in {"alive", "exiting", "zombie"}
      BY <2>1 DEF PlaceInv, TypeOK
    <2>4. ASSUME \A h \in Handles : child'[h].term_stage = child[h].term_stage PROVE Safe
      BY <2>2, <2>4
    <2>5. CASE HandleLaunch
      <3>1. NewChild.term_stage = 0
        BY DEF NewChild
      <3>2. \A h \in Handles : child'[h].term_stage \in {0, child[h].term_stage}
        BY <2>1, <2>5, <3>1 DEF HandleLaunch, TypeOK
      <3> QED BY <2>2, <3>2
    <2>6. CASE HandleTerminate
      <3>1. \A h \in Handles : Terminable(h) \/ child'[h].term_stage = child[h].term_stage
        BY <2>1, <2>6, TerminateChild
      <3> QED BY <2>2, <2>3, <3>1 DEF Terminable
    <2>7. CASE HandleShutdown
      <3>1. \A h \in Handles : (h \in children /\ ~child[h].exited)
                                 \/ child'[h].term_stage = child[h].term_stage
        BY <2>1, <2>7, ShutdownChild
      <3> QED BY <2>2, <2>3, <3>1
    <2>8. CASE EnforceDeadlines
      <3>1. \A h \in Handles : Overdue(h) \/ GraceOver(h)
                                 \/ child'[h].term_stage = child[h].term_stage
        BY <2>1, <2>8, DeadlineChild
      <3>2. \A h \in Handles : Overdue(h) \/ GraceOver(h)
                                 => os[h] \in {"alive", "exiting", "zombie"}
        BY <2>3 DEF Overdue, GraceOver
      <3> QED BY <2>2, <3>1, <3>2
    <2>9. CASE PollReady
      BY <2>1, <2>4, <2>9, PollChild
    <2>10. CASE ReapWait
      <3>1. \A h \in Handles : child'[h].term_stage = child[h].term_stage
        BY <2>1, <2>10, WaitChild
      <3> QED BY <2>4, <3>1
    <2>11. ASSUME NEW h \in children, ReapDrain(h) PROVE Safe
      <3>1. \A x \in Handles : child'[x].term_stage = child[x].term_stage
        BY <2>1, <2>11, DrainChild
      <3> QED BY <2>4, <3>1
    <2>12. CASE Environment \/ Callers \/ SwapQueue \/ DrainWakeup \/ SpawnFailure
                \/ EndCommands \/ FinalizeChildren \/ PollNothing
      <3>1. UNCHANGED child
        BY <2>12, EnvironmentFrame, CallersFrame
           DEF system, SwapQueue, DrainWakeup, SpawnFailure, EndCommands, FinalizeChildren,
               PollNothing
      <3> QED BY <2>4, <3>1
    <2> HIDE DEF Safe
    <2> QED BY <1>1, <2>5, <2>6, <2>7, <2>8, <2>9, <2>10, <2>11, <2>12
            DEF Next, Reactor, Stopped
  <1>2. ASSUME IInv, [Next]_vars
        PROVE  [\A h \in Handles : child'[h].term_stage > child[h].term_stage
                  => os[h] \in {"alive", "exiting", "zombie"}]_vars
    BY <1>1, <1>2
  <1> QED BY <1>2, RunnerInvariant, PTL DEF Spec, SignalsOnlyItsOwn

-----------------------------------------------------------------------------
(* The contract *)

(* The contract's outcomes are those of the project.                       *)
LEMMA SameOutcomes == C!ProcessOutcome = ProcessOutcome
  BY DEF C!ProcessOutcome, ProcessOutcome

(* A step that reports the processes in done is a step of the contract.    *)
LEMMA ExitsAllowed ==
    ASSUME TypeOK, PlaceInv, NEW done, done # {}, done \subseteq Handles, done \subseteq launched,
           NEW out, out \in [done -> ProcessOutcome],
           \A h \in done : report[h] = "none",
           \A h \in done : /\ out[h] = "timed_out" => h \in HasTimeout
                           /\ out[h] = "cancelled" => h \in asked \/ destroyed,
           report' = [h \in Handles |-> IF h \in done THEN out[h] ELSE report[h]],
           UNCHANGED <<launched, asked, destroyed>>
    PROVE  C!CNext
  <1>1. \A h \in done : C!Honest(h, out[h])
    BY DEF C!Honest
  <1>2. out \in [done -> C!ProcessOutcome]
    BY SameOutcomes
  <1>3. C!CExits(done)
    BY <1>1, <1>2 DEF C!CExits
  <1>4. done \in SUBSET Handles
    OBVIOUS
  <1> QED BY <1>3, <1>4 DEF C!CNext

(* Every step of the runner is one of the contract, or changes nothing the *)
(* contract speaks of; callers do not ask for a timeout to be reported.    *)
LEMMA ContractStep ==
    ASSUME AsCancellation \subseteq {TRUE}, IInv, [Next]_vars
    PROVE  C!CNext \/ UNCHANGED C!cvars
  <1>1. TypeOK /\ CommandInv /\ PlaceInv /\ ChildInv
    BY DEF IInv
  <1>2. /\ report \in [Handles -> ProcessOutcome \cup {"none"}]
        /\ launched \subseteq Handles /\ children \subseteq Handles
    BY <1>1 DEF TypeOK
  <1>3. ASSUME UNCHANGED <<calls, report>> PROVE UNCHANGED C!cvars
    BY <1>3 DEF C!cvars, calls
  <1>4. CASE UNCHANGED vars
    BY <1>3, <1>4 DEF vars
  <1>5. CASE Environment
    BY <1>3, <1>5, EnvironmentFrame DEF system
  <1>6. ASSUME NEW h \in Handles, launch(h) PROVE C!CNext
    BY <1>6 DEF launch, C!CNext, C!CLaunch
  <1>7. ASSUME NEW h \in Handles, NEW c \in AsCancellation, request_terminate(h, c)
        PROVE  C!CNext
    BY <1>7 DEF request_terminate, C!CNext, C!CTerminate
  <1>8. CASE Destroy
    BY <1>8 DEF Destroy, C!CNext, C!CDestroy
  <1>9. CASE SpawnFailure
    <2>1. NextCommand("launch")
      BY <1>9 DEF SpawnFailure
    <2>2. PICK h \in Handles : h = Head(local).handle /\ h \in launched /\ report[h] = "none"
      BY <1>1, <2>1, HeadLaunch
    <2>3. UNCHANGED calls /\ report' = [report EXCEPT ![h] = "spawn_failed"]
      BY <1>9, <2>2 DEF SpawnFailure
    <2>4. PICK done : done = {h}
      OBVIOUS
    <2>5. PICK out : out = [x \in done |-> "spawn_failed"]
      OBVIOUS
    <2>6. out \in [done -> ProcessOutcome] /\ \A x \in done : out[x] = "spawn_failed"
      BY <2>5 DEF ProcessOutcome
    <2>7. report' = [x \in Handles |-> IF x \in done THEN out[x] ELSE report[x]]
      BY <1>2, <2>3, <2>4, <2>6
    <2>8. /\ done # {} /\ done \subseteq Handles /\ done \subseteq launched
          /\ \A x \in done : report[x] = "none"
      BY <2>2, <2>4
    <2>9. \A x \in done : /\ out[x] = "timed_out" => x \in HasTimeout
                          /\ out[x] = "cancelled" => x \in asked \/ destroyed
      BY <2>6
    <2> QED BY <1>1, <2>3, <2>6, <2>7, <2>8, <2>9, ExitsAllowed DEF calls
  <1>10. CASE FinalizeChildren
    <2>1. /\ UNCHANGED calls
          /\ report' = [h \in Handles |-> IF h \in Finished THEN Outcome(h) ELSE report[h]]
      BY <1>10 DEF FinalizeChildren
    <2>2. CASE Finished = {}
      <3>1. report' = report
        BY <1>2, <2>1, <2>2
      <3> QED BY <1>3, <2>1, <3>1
    <2>3. CASE Finished # {}
      <3>1. /\ Finished \subseteq Handles /\ Finished \subseteq launched
            /\ \A h \in Finished : report[h] = "none" /\ h \in children
        BY <1>1, <1>2 DEF Finished, PlaceInv
      <3>2. PICK done : done = Finished
        OBVIOUS
      <3>3. PICK out : out = [h \in done |-> Outcome(h)]
        OBVIOUS
      <3>4. \A h \in Finished : Outcome(h) \in ProcessOutcome
        BY <1>1 DEF Finished, Outcome, TypeOK, Child, Status, ProcessOutcome
      <3>5. out \in [done -> ProcessOutcome] /\ \A h \in done : out[h] = Outcome(h)
        BY <3>2, <3>3, <3>4
      <3>6. report' = [h \in Handles |-> IF h \in done THEN out[h] ELSE report[h]]
        BY <2>1, <3>2, <3>5
      <3>7. ASSUME NEW h \in done
            PROVE  /\ out[h] = "timed_out" => h \in HasTimeout
                   /\ out[h] = "cancelled" => h \in asked \/ destroyed
        <4>1. ChildOk(h) /\ h \in children /\ status[h] \in Status
          BY <1>1, <1>2, <3>1, <3>2, <3>7 DEF ChildInv, TypeOK
        <4>2. "timed_out" \notin Status /\ "cancelled" \notin Status
          BY DEF Status
        <4>3. ~AskedAsTimeout(h)
          BY DEF AskedAsTimeout
        <4>4. out[h] \in {"timed_out", "cancelled"} => out[h] = child[h].forced
          BY <3>5, <4>1, <4>2 DEF Outcome
        <4> QED BY <4>1, <4>3, <4>4 DEF ChildOk
      <3> QED BY <1>1, <2>1, <2>3, <3>1, <3>2, <3>5, <3>6, <3>7, ExitsAllowed DEF calls
    <2> QED BY <2>2, <2>3
  <1>11. CASE SwapQueue \/ DrainWakeup \/ HandleLaunch \/ HandleTerminate \/ HandleShutdown
              \/ EndCommands \/ ReapWait \/ EnforceDeadlines \/ PollReady \/ PollNothing
              \/ (\E h \in children : ReapDrain(h))
    <2>1. UNCHANGED <<calls, report>>
      BY <1>11 DEF SwapQueue, DrainWakeup, HandleLaunch, HandleTerminate, HandleShutdown,
                   EndCommands, ReapWait, EnforceDeadlines, PollReady, PollNothing, ReapDrain
    <2> QED BY <1>3, <2>1
  <1> QED BY <1>4, <1>5, <1>6, <1>7, <1>8, <1>9, <1>10, <1>11
          DEF Next, Reactor, Callers, Stopped

(* PosixProcessRunner keeps the promises of the interface ProcessRunner:   *)
(* one report per launch, and an outcome that agrees with what was asked,  *)
(* for callers that pass as_cancellation = true, as the scheduler does.    *)
THEOREM ContractKept ==
    ASSUME AsCancellation \subseteq {TRUE} PROVE Spec => ImplementsContract
  <1>1. Init => C!CInit
    BY DEF Init, C!CInit
  <1>2. ASSUME IInv, [Next]_vars PROVE [C!CNext]_(C!cvars)
    BY <1>2, ContractStep
  <1> QED BY <1>1, <1>2, RunnerInvariant, PTL DEF Spec, ImplementsContract, C!Contract

=============================================================================

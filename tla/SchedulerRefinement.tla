------------------------ MODULE SchedulerRefinement -------------------------
(***************************************************************************)
(* The scheduler implements RunContract, what the engine relies on, for    *)
(* every pipeline, machine and retry policy.                               *)
(***************************************************************************)
EXTENDS SchedulerProofs

(* How the state of the run follows the place of run(), and where a        *)
(* cancellation comes from: the scheduler honours one, and finds a cancel  *)
(* event in its queue, only after some thread has called cancel().         *)
RequestInv ==
    /\ pc = "new" => run_state = "CREATED"
    /\ pc \notin {"new", "done"} => run_state = "RUNNING"
    /\ cancelling => CancelRequested
    /\ \A i \in DOMAIN events : events[i].type = "cancel" => CancelRequested
    /\ \A i \in DOMAIN batch : batch[i].type = "cancel" => CancelRequested

-----------------------------------------------------------------------------
(* Where cancellations come from *)

(* The flag is never cleared.                                              *)
LEMMA RequestStays ==
    ASSUME TypeOK, [Next]_vars, CancelRequested PROVE CancelRequested'
  <1>1. PICK c \in Callers : caller[c] # "idle"
    BY DEF CancelRequested
  <1>2. caller'[c] # "idle"
    <2>1. ASSUME NEW k \in Callers, CancelStore(k) \/ CancelPush(k) PROVE caller'[c] # "idle"
      BY <1>1, <2>1 DEF CancelStore, CancelPush, TypeOK
    <2>2. CASE UNCHANGED caller
      BY <1>1, <2>2
    <2>3. ASSUME NEW t \in Tasks, NEW kind \in ResultKind,
                 \/ HandleSuccess(t) \/ HandleCancelled(t, kind)
                 \/ HandleRetry(t, kind) \/ HandleFailure(t, kind)
          PROVE  UNCHANGED caller
      BY <2>3 DEF HandleSuccess, HandleCancelled, HandleRetry, HandleFailure,
         ProcessFinished
    <2>4. \A t \in Tasks : HandleSuccess(t) => UNCHANGED caller
      BY DEF HandleSuccess, ProcessFinished
    <2>5. ASSUME NEW t \in Tasks,
                 StartMissingInput(t) \/ StartCached(t) \/ StartProcess(t) \/ Elapse(t)
          PROVE  UNCHANGED caller
      BY <2>5 DEF StartMissingInput, StartCached, StartProcess, Elapse
    <2>6. ASSUME NEW p \in live, LogLine(p) \/ \E o \in Outcomes : ProcessExit(p, o)
          PROVE  UNCHANGED caller
      BY <2>6 DEF LogLine, ProcessExit
    <2>7. CASE Start \/ CheckCancel \/ SafetyNet \/ EndLaunch \/ Wait \/ Timeout \/ Swap
                 \/ HandleCancel \/ HandleLog \/ EndRound \/ Finish \/ SpuriousWake
                 \/ UNCHANGED vars
      BY <2>2, <2>7 DEF Start, CheckCancel, SafetyNet, EndLaunch, Wait, Timeout, Swap,
         HandleCancel, HandleLog, EndRound, Finish, SpuriousWake, vars
    <2> QED
      BY <2>1, <2>2, <2>3, <2>4, <2>5, <2>6, <2>7 DEF Next, SchedulerStep, Returned
  <1> QED BY <1>2 DEF CancelRequested

(* A queue in which only a requested cancellation is.                      *)
LEMMA AppendRequest ==
    ASSUME NEW q \in Seq(Event), NEW e \in Event, NEW asked,
           \A i \in DOMAIN q : q[i].type = "cancel" => asked,
           e.type = "cancel" => asked
    PROVE  \A i \in DOMAIN Append(q, e) : Append(q, e)[i].type = "cancel" => asked
  <1>1. \A i \in DOMAIN Append(q, e) : i \in DOMAIN q \/ i = Len(q) + 1
    OBVIOUS
  <1>2. /\ \A i \in DOMAIN q : Append(q, e)[i] = q[i]
        /\ Append(q, e)[Len(q) + 1] = e
    BY AppendQueued
  <1> QED BY <1>1, <1>2

(* The rest of the batch is part of the batch.                             *)
LEMMA TailRequest ==
    ASSUME NEW q \in Seq(Event), q # <<>>, NEW asked,
           \A i \in DOMAIN q : q[i].type = "cancel" => asked
    PROVE  /\ \A i \in DOMAIN Tail(q) : Tail(q)[i].type = "cancel" => asked
           /\ Head(q).type = "cancel" => asked
  <1>1. \A i \in DOMAIN Tail(q) : i + 1 \in DOMAIN q /\ Tail(q)[i] = q[i + 1]
    OBVIOUS
  <1>2. 1 \in DOMAIN q /\ Head(q) = q[1]
    OBVIOUS
  <1> QED BY <1>1, <1>2

(* Before run() nothing was asked for.                                     *)
LEMMA RequestInit == Init => RequestInv
  BY DEF Init, RequestInv

(* Every step of every thread keeps RequestInv.                            *)
LEMMA RequestStep ==
    ASSUME TypeOK, RequestInv, [Next]_vars PROVE RequestInv'
  <1> DEFINE Run1 == /\ pc' = "new" => run_state' = "CREATED"
                     /\ pc' \notin {"new", "done"} => run_state' = "RUNNING"
             Asked == /\ cancelling' => CancelRequested'
                      /\ \A i \in DOMAIN events' :
                           events'[i].type = "cancel" => CancelRequested'
                      /\ \A i \in DOMAIN batch' :
                           batch'[i].type = "cancel" => CancelRequested'
  <1>1. CancelRequested => CancelRequested'
    BY RequestStays
  <1>2. events \in Seq(Event) /\ batch \in Seq(Event)
    BY DEF TypeOK
  <1>3. ASSUME pc' = pc \/ (pc \notin {"new", "done"} /\ pc' \notin {"new", "done"}),
               UNCHANGED run_state
        PROVE  Run1
    BY <1>3 DEF RequestInv
  <1>4. ASSUME UNCHANGED <<cancelling, events, batch>> PROVE Asked
    BY <1>1, <1>4 DEF RequestInv
  <1>5. ASSUME NEW type, NextEvent(type), UNCHANGED events,
               \/ UNCHANGED cancelling
               \/ type = "cancel"
        PROVE  Asked
    BY <1>1, <1>2, <1>5, TailRequest DEF RequestInv, NextEvent
  <1>6. ASSUME NEW e \in Event, e.type = "cancel" => CancelRequested,
               PushEvent(e), UNCHANGED <<cancelling, batch>>
        PROVE  Asked
    BY <1>1, <1>2, <1>6, AppendRequest DEF RequestInv, PushEvent
  <1>7. ASSUME NEW e, PushEvent(e), UNCHANGED run_state PROVE Run1
    BY <1>3, <1>7 DEF PushEvent, NotifyAll
  <1>8. ASSUME TakeBatch, UNCHANGED <<cancelling, run_state>>, pc \in {"wait", "swap"}
        PROVE  Run1 /\ Asked
    BY <1>1, <1>3, <1>8 DEF TakeBatch, RequestInv
  <1>9. CASE Start
    BY <1>4, <1>9 DEF Start, RequestInv
  <1>10. CASE CheckCancel
    <2>1. Run1
      BY <1>3, <1>10 DEF CheckCancel
    <2>2. cancelling' => CancelRequested
      BY <1>10 DEF CheckCancel, sched, RequestInv
    <2> QED BY <1>1, <1>10, <2>1, <2>2 DEF CheckCancel, RequestInv
  <1>11. ASSUME NEW t \in Tasks,
                StartMissingInput(t) \/ StartCached(t) \/ StartProcess(t) \/ Elapse(t)
         PROVE  RequestInv'
    <2>1. UNCHANGED <<pc, run_state, cancelling, events, batch>>
      BY <1>11 DEF StartMissingInput, StartCached, StartProcess, Elapse, FailAndSkip,
         Succeed
    <2> QED BY <1>3, <1>4, <2>1 DEF RequestInv
  <1>12. CASE SafetyNet \/ EndLaunch \/ Timeout \/ EndRound \/ SpuriousWake
    <2>1. /\ UNCHANGED <<run_state, cancelling, events, batch>>
          /\ pc' = pc \/ (pc \notin {"new", "done"} /\ pc' \notin {"new", "done"})
      BY <1>12 DEF SafetyNet, FailAndSkip, EndLaunch, Timeout, EndRound, SpuriousWake,
         sched, NotifyAll
    <2> QED BY <1>3, <1>4, <2>1 DEF RequestInv
  <1>13. CASE Wait \/ Swap
    <2>1. UNCHANGED <<cancelling, run_state>> /\ pc \in {"wait", "swap"}
      BY <1>13 DEF Wait, Swap, sched
    <2>2. \/ TakeBatch
          \/ UNCHANGED <<events, batch>> /\ pc' \in {"cond_wait", "timed_wait"}
      BY <1>13 DEF Wait, Swap
    <2> QED BY <1>3, <1>4, <1>8, <2>1, <2>2 DEF RequestInv
  <1>14. CASE HandleCancel
    BY <1>3, <1>5, <1>14 DEF HandleCancel, RequestInv
  <1>15. CASE HandleLog
    BY <1>3, <1>5, <1>15 DEF HandleLog, RequestInv, sched
  <1>16. ASSUME NEW t, NEW f, NEW kind, ProcessFinished(t, f, kind), UNCHANGED cancelling
         PROVE  RequestInv'
    BY <1>3, <1>5, <1>16 DEF ProcessFinished, RequestInv
  <1>17. ASSUME NEW t \in Tasks, HandleSuccess(t) PROVE RequestInv'
    BY <1>16, <1>17 DEF HandleSuccess, Succeed
  <1>18. ASSUME NEW t \in Tasks, NEW kind \in ResultKind,
                \/ HandleCancelled(t, kind) \/ HandleRetry(t, kind)
                \/ HandleFailure(t, kind)
         PROVE  RequestInv'
    BY <1>16, <1>18 DEF HandleCancelled, HandleRetry, HandleFailure, FailAndSkip
  <1>19. CASE Finish
    BY <1>1, <1>19 DEF Finish, RequestInv, sched
  <1>20. ASSUME NEW p \in live, LogLine(p) PROVE RequestInv'
    <2>1. [type |-> "log", node |-> p[1], attempt |-> p[2]] \in Event
      BY DEF TypeOK, Event
    <2> QED BY <1>6, <1>7, <1>20, <2>1 DEF LogLine, RequestInv, sched
  <1>21. ASSUME NEW p \in live, NEW o \in Outcomes, ProcessExit(p, o) PROVE RequestInv'
    <2>1. [type |-> "finished", node |-> p[1], attempt |-> p[2], outcome |-> o] \in Event
      BY DEF TypeOK, Event
    <2> QED BY <1>6, <1>7, <1>21, <2>1 DEF ProcessExit, RequestInv, sched
  <1>22. ASSUME NEW c \in Callers, CancelStore(c) PROVE RequestInv'
    BY <1>3, <1>4, <1>22 DEF CancelStore, RequestInv, sched
  <1>23. ASSUME NEW c \in Callers, CancelPush(c) PROVE RequestInv'
    <2>1. [type |-> "cancel"] \in Event /\ CancelRequested
      BY <1>23 DEF Event, CancelPush, CancelRequested
    <2> QED BY <1>6, <1>7, <1>23, <2>1 DEF CancelPush, RequestInv, sched
  <1>24. CASE UNCHANGED vars
    BY <1>3, <1>4, <1>24 DEF vars, sched, RequestInv
  <1> QED
    BY <1>9, <1>10, <1>11, <1>12, <1>13, <1>14, <1>15, <1>17, <1>18, <1>19, <1>20,
       <1>21, <1>22, <1>23, <1>24 DEF Next, SchedulerStep, Returned

-----------------------------------------------------------------------------
(* The simulation: every step is a step of RunContract or changes nothing  *)
(* that the engine sees.                                                   *)

(* The contract speaks of the same states of tasks.                        *)
LEMMA SameDomain ==
    /\ Run!TaskState = TaskState /\ Run!Terminal = Terminal
    /\ Run!SuccessLike = SuccessLike /\ Run!Lifecycle = Lifecycle
  BY DEF Run!TaskState, TaskState, Run!Terminal, Terminal, Run!SuccessLike, SuccessLike,
     Run!Lifecycle, Lifecycle, Run!ValidTransition, ValidTransition

(* A legal move is justified by the invariant of the state it leads to,    *)
(* unless it would start or fail something in a run that is stopping.      *)
LEMMA MoveJustified ==
    ASSUME IInv, IInv', Legal, UNCHANGED cancelling,
           NEW t \in Tasks, state'[t] # state[t],
           cancelling => state'[t] \in {"SUCCEEDED", "CANCELLED"}
    PROVE  Run!Justified(t)
  <1>1. CASE state'[t] = "READY"
    BY <1>1, SameDomain DEF Run!Justified, IInv, DepsSucceeded, PendingInv
  <1>2. CASE state'[t] = "SKIPPED"
    BY <1>2 DEF Run!Justified, IInv, SkippedInv
  <1>3. CASE state'[t] = "CANCELLED"
    BY <1>3 DEF Run!Justified, IInv, PendingInv
  <1>4. CASE state'[t] \notin {"READY", "SKIPPED", "CANCELLED"}
    BY <1>4 DEF Run!Justified
  <1> QED BY <1>1, <1>2, <1>3, <1>4

(* Steps of the scheduler that move tasks while run() is in its loop.      *)
LEMMA WorkStep ==
    ASSUME IInv, IInv', RequestInv, Legal, pc \notin {"new", "done"},
           UNCHANGED <<run_state, caller, cancelling>>,
           \A t \in Tasks : cancelling /\ state'[t] # state[t]
                              => state'[t] \in {"SUCCEEDED", "CANCELLED"}
    PROVE  Run!Work
  <1>1. state' \in [Tasks -> TaskState]
    BY DEF IInv, TypeOK
  <1>2. \A t \in Tasks : state'[t] # state[t] =>
            <<state[t], state'[t]>> \in Lifecycle /\ Run!Justified(t)
    BY MoveJustified DEF Legal
  <1>3. Run!Moves
    BY <1>1, <1>2, SameDomain DEF Run!Moves
  <1>4. run_state = "RUNNING" /\ UNCHANGED CancelRequested
    BY DEF RequestInv, CancelRequested
  <1> QED BY <1>3, <1>4 DEF Run!Work

(* begin_cancel is the contract's Honour.                                  *)
LEMMA HonourStep ==
    ASSUME IInv, RequestInv, BeginCancel, ~cancelling, CancelRequested,
           pc \notin {"new", "done"}, UNCHANGED <<run_state, caller>>
    PROVE  Run!Honour
  <1>1. state' = [t \in Tasks |-> IF state[t] \in {"PENDING", "READY"}
                                  THEN "CANCELLED" ELSE state[t]]
    BY DEF BeginCancel, IInv, ReadyExact
  <1>2. run_state = "RUNNING" /\ UNCHANGED CancelRequested
    BY DEF RequestInv, CancelRequested
  <1> QED BY <1>1, <1>2 DEF Run!Honour, BeginCancel

(* Every step of every thread is one of the contract, or a stutter.        *)
LEMMA Simulates ==
    ASSUME IInv, IInv', RequestInv, [Next]_vars
    PROVE  [Run!RunNext]_<<state, run_state, CancelRequested, cancelling>>
  <1> DEFINE Same == UNCHANGED <<state, run_state, CancelRequested, cancelling>>
             Step == Same \/ Run!RunNext
  <1>1. Legal
    BY LifecycleStep
  <1>2. TypeOK /\ ReadyExact /\ RunInv /\ GraphInv /\ CancelledInv
    BY DEF IInv, RunInv, GraphInv
  <1>3. ASSUME UNCHANGED <<state, run_state, caller, cancelling>> PROVE Same
    BY <1>3 DEF CancelRequested
  <1>4. ASSUME pc \notin {"new", "done"}, UNCHANGED <<run_state, caller, cancelling>>,
               \A t \in Tasks : cancelling /\ state'[t] # state[t]
                                  => state'[t] \in {"SUCCEEDED", "CANCELLED"}
        PROVE  Step
    BY <1>1, <1>4, WorkStep DEF Run!RunNext
  <1>5. ASSUME Start PROVE Step
    <2>1. /\ run_state = "CREATED" /\ run_state' = "RUNNING" /\ ~cancelling
          /\ UNCHANGED <<CancelRequested, cancelling>>
      BY <1>5 DEF Start, RequestInv, CancelRequested, IInv, ControlInv
    <2>2. state' \in [Tasks -> TaskState]
      BY DEF IInv, TypeOK
    <2>3. \A t \in Tasks : state'[t] # state[t] =>
            <<state[t], state'[t]>> \in Lifecycle /\ Run!Justified(t)
      BY <1>1, <2>1, MoveJustified DEF Legal
    <2> QED BY <2>1, <2>2, <2>3, SameDomain DEF Run!RunNext, Run!Begin, Run!Moves
  <1>6. ASSUME CheckCancel \/ HandleCancel PROVE Step
    <2>1. UNCHANGED <<run_state, caller>> /\ pc \notin {"new", "done"}
      BY <1>6 DEF CheckCancel, HandleCancel, NextEvent
    <2>2. \/ UNCHANGED <<state, cancelling>>
          \/ BeginCancel /\ ~cancelling /\ CancelRequested
      <3>1. CASE CheckCancel
        BY <3>1 DEF CheckCancel, sched
      <3>2. CASE HandleCancel
        <4>1. batch \in Seq(Event) /\ batch # <<>> /\ Head(batch).type = "cancel"
          BY <1>2, <3>2 DEF HandleCancel, NextEvent, TypeOK
        <4>2. CancelRequested
          BY <4>1, TailRequest DEF RequestInv
        <4> QED BY <3>2, <4>2 DEF HandleCancel, sched
      <3> QED BY <1>6, <3>1, <3>2
    <2> QED BY <1>3, <2>1, <2>2, HonourStep DEF Run!RunNext
  <1>7. ASSUME NEW t \in Tasks, StartMissingInput(t) \/ StartCached(t) \/ StartProcess(t)
        PROVE  Step
    BY <1>4, <1>7 DEF StartMissingInput, StartCached, StartProcess, Tried, FailAndSkip,
       Succeed
  <1>8. ASSUME SafetyNet PROVE Step
    BY <1>4, <1>8 DEF SafetyNet, Stuck, FailAndSkip
  <1>9. ASSUME NEW t \in Tasks, NEW kind \in ResultKind, HandleRetry(t, kind)
        PROVE  Step
    BY <1>4, <1>9 DEF HandleRetry, ProcessFinished, NextEvent
  <1>10. ASSUME NEW t \in Tasks, NEW kind \in ResultKind, HandleFailure(t, kind)
         PROVE  Step
    BY <1>4, <1>10 DEF HandleFailure, FailAndSkip, ProcessFinished, NextEvent
  <1>11. ASSUME NEW t \in Tasks, NEW kind \in ResultKind, HandleCancelled(t, kind)
         PROVE  Step
    <2>1. \A u \in Tasks : state'[u] # state[u] => state'[u] = "CANCELLED"
      BY <1>2, <1>11 DEF HandleCancelled, TypeOK
    <2> QED BY <1>4, <1>11, <2>1 DEF HandleCancelled, ProcessFinished, NextEvent
  <1>12. ASSUME NEW t \in Tasks, HandleSuccess(t) PROVE Step
    <2>1. \A u \in Tasks : cancelling /\ state'[u] # state[u] => state'[u] = "SUCCEEDED"
      BY <1>12 DEF HandleSuccess, Succeed, NewlyReady
    <2> QED BY <1>4, <1>12, <2>1 DEF HandleSuccess, Succeed, ProcessFinished, NextEvent
  <1>13. ASSUME Finish PROVE Step
    <2>1. /\ run_state = "RUNNING"
          /\ UNCHANGED <<state, CancelRequested, cancelling>>
          /\ cancelling => CancelRequested
      BY <1>13 DEF Finish, RequestInv, CancelRequested, sched
    <2>2. \A t \in Tasks : state[t] \in Terminal
      BY <1>13, SettledTerminal DEF Finish, AllTerminalWhenDone
    <2>3. run_state' = Run!RunVerdict
      BY <1>13, <2>1 DEF Finish, Verdict, Run!RunVerdict
    <2> QED BY <2>1, <2>2, <2>3, SameDomain DEF Run!RunNext, Run!End
  <1>14. ASSUME \/ EndLaunch \/ Wait \/ Timeout \/ Swap \/ HandleLog \/ EndRound
                \/ SpuriousWake \/ UNCHANGED vars
         PROVE  Step
    BY <1>3, <1>14 DEF EndLaunch, Wait, Timeout, Swap, HandleLog, EndRound,
       SpuriousWake, vars, sched
  <1>15. ASSUME NEW p \in live, LogLine(p) \/ \E o \in Outcomes : ProcessExit(p, o)
         PROVE  Step
    BY <1>3, <1>15 DEF LogLine, ProcessExit, sched
  <1>16. ASSUME NEW t \in Tasks, Elapse(t) PROVE Step
    BY <1>3, <1>16 DEF Elapse
  <1>17. ASSUME NEW c \in Callers, CancelStore(c) PROVE Step
    <2>1. CancelRequested'
      BY <1>2, <1>17 DEF CancelStore, CancelRequested, TypeOK
    <2> QED BY <1>17, <2>1 DEF CancelStore, Run!RunNext, Run!RequestCancel, sched
  <1>18. ASSUME NEW c \in Callers, CancelPush(c) PROVE Step
    <2>1. CancelRequested /\ CancelRequested'
      BY <1>2, <1>18 DEF CancelPush, CancelRequested, TypeOK
    <2> QED BY <1>18, <2>1 DEF CancelPush, sched
  <1> HIDE DEF Step
  <1>19. Step
    BY <1>5, <1>6, <1>7, <1>8, <1>9, <1>10, <1>11, <1>12, <1>13, <1>14, <1>15, <1>16,
       <1>17, <1>18 DEF Next, SchedulerStep, Returned
  <1> QED BY <1>19 DEF Step

(* For every pipeline, the loop with its queue, its slots, its retries and *)
(* its children implements the contract that the engine is built on.       *)
THEOREM RunImplemented == Spec => ImplementsRun
  <1>1. Init => Run!RunInit
    BY DEF Init, Run!RunInit, CancelRequested
  <1>2. ASSUME IInv, IInv', RequestInv, [Next]_vars
        PROVE  [Run!RunNext]_(Run!rvars)
    BY <1>2, Simulates DEF Run!rvars
  <1>3. TypeOK /\ RequestInv /\ [Next]_vars => RequestInv'
    BY RequestStep
  <1>4. IInv => TypeOK
    BY DEF IInv
  <1>5. Spec => []RequestInv
    BY RequestInit, <1>3, <1>4, Inductive, PTL DEF Spec
  <1> QED BY Inductive, <1>1, <1>2, <1>5, PTL DEF Spec, ImplementsRun, Run!RunSpec
=============================================================================

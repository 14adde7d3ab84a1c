-------------------------- MODULE SchedulerProofs ---------------------------
(***************************************************************************)
(* Proofs about Scheduler.tla for every pipeline, machine and retry policy.*)
(***************************************************************************)
EXTENDS Scheduler, FiniteSetTheorems, TLAPS

(* A log event names a task and an attempt, a finished event the outcome   *)
(* as well: what Event says of the members of the queue.                   *)
LEMMA EventFields ==
    ASSUME NEW e \in Event
    PROVE  /\ e.type \in {"finished", "log", "cancel"}
           /\ e.type \in {"finished", "log"} => e.node \in Tasks /\ e.attempt \in Nat
           /\ e.type = "finished" => e.outcome \in Outcomes
  BY DEF Event

(* record_attempt appends one well-formed record.                          *)
LEMMA RecordAttemptType ==
    ASSUME NEW t \in Tasks, attempts_made \in [Tasks -> Nat],
           NEW h \in Seq(Attempt),
           NEW f \in {"SUCCEEDED", "FAILED", "CACHED"}, NEW k \in ResultKind
    PROVE  RecordAttempt(h, t, f, k) \in Seq(Attempt)
  BY DEF RecordAttempt, Attempt

(* Reserving and releasing keep the used amounts natural numbers.          *)
LEMMA PoolType ==
    ASSUME NEW t \in Tasks, used \in [Dims -> Nat]
    PROVE  Reserved(t) \in [Dims -> Nat] /\ Released(t) \in [Dims -> Nat]
  BY ConfigAssumption DEF Reserved, Released

(* Taking the next event off the batch, pushing one on the queue.           *)
LEMMA NextEventType ==
    ASSUME TypeOK, NEW type, NextEvent(type)
    PROVE  /\ Head(batch) \in Event /\ Head(batch).type = type
           /\ batch' \in Seq(Event)
  <1>1. batch \in Seq(Event)
    BY DEF TypeOK
  <1> QED BY <1>1 DEF NextEvent

(* Pushing an event keeps the queue and the place of run() well-typed.     *)
LEMMA PushEventType ==
    ASSUME TypeOK, NEW e \in Event, PushEvent(e)
    PROVE  events' \in Seq(Event) /\ pc' \in Points
  <1>1. events \in Seq(Event) /\ pc \in Points
    BY DEF TypeOK
  <1> QED BY <1>1 DEF PushEvent, NotifyAll, Points

(* on_task_succeeded keeps the types of what it changes.                    *)
LEMMA SucceedType ==
    ASSUME TypeOK, NEW t \in Tasks, NEW f \in TaskState, Succeed(t, f)
    PROVE  /\ remaining_deps' \in [Tasks -> Nat]
           /\ state' \in [Tasks -> TaskState]
           /\ ready' \subseteq Tasks
           /\ UNCHANGED <<attempts_made, waiting_for_retry, due, cancelling>>
  <1>1. /\ remaining_deps \in [Tasks -> Nat] /\ state \in [Tasks -> TaskState]
        /\ ready \subseteq Tasks
    BY DEF TypeOK
  <1>2. RemainingAfter(t) \in [Tasks -> Nat]
    BY <1>1 DEF RemainingAfter
  <1>3. NewlyReady(t) \subseteq Tasks
    BY DEF NewlyReady, Dependents
  <1> QED BY <1>1, <1>2, <1>3 DEF Succeed, TaskState

(* So does the common head of the four ends of handle_process_finished.    *)
LEMMA ProcessFinishedType ==
    ASSUME TypeOK, NEW t \in Tasks, NEW f \in {"SUCCEEDED", "FAILED"},
           NEW kind \in ResultKind, ProcessFinished(t, f, kind)
    PROVE  /\ batch' \in Seq(Event)
           /\ running_count' \in Nat
           /\ used' \in [Dims -> Nat]
           /\ has_reservation' \subseteq Tasks
           /\ attempts' \in [Tasks -> Seq(Attempt)]
           /\ UNCHANGED <<pc, delivered, run_state, events, live, term, logged,
                          caller>>
  <1>1. batch' \in Seq(Event)
    BY NextEventType DEF ProcessFinished
  <1>2. /\ attempts \in [Tasks -> Seq(Attempt)] /\ attempts_made \in [Tasks -> Nat]
        /\ running_count \in Nat /\ used \in [Dims -> Nat]
        /\ has_reservation \subseteq Tasks
    BY DEF TypeOK
  <1>3. RecordAttempt(attempts[t], t, f, kind) \in Seq(Attempt)
    BY <1>2, RecordAttemptType
  <1> QED BY <1>1, <1>2, <1>3, PoolType DEF ProcessFinished

(* The initial state is well-typed.                                        *)
LEMMA TypeInit == Init => TypeOK
  <1> SUFFICES ASSUME Init PROVE TypeOK
    OBVIOUS
  <1>1. \A t \in Tasks : Cardinality(Deps[t]) \in Nat
    <2> TAKE t \in Tasks
    <2>1. IsFiniteSet(Deps[t])
      BY DepsAssumption, TasksAssumption, FS_Subset
    <2> QED BY <2>1, FS_CardinalityType
  <1>2. attempts \in [Tasks -> Seq(Attempt)] /\ events \in Seq(Event)
          /\ batch \in Seq(Event)
    BY DEF Init
  <1>3. remaining_deps \in [Tasks -> Nat]
    BY <1>1 DEF Init
  <1> QED BY <1>2, <1>3 DEF Init, TypeOK, Points, TaskState, PipelineState

(* Every step of every thread keeps the types.                             *)
LEMMA TypeStep == TypeOK /\ [Next]_vars => TypeOK'
  <1> SUFFICES ASSUME TypeOK, [Next]_vars PROVE TypeOK'
    OBVIOUS
  <1> USE DEF TaskState, PipelineState, Points
  <1>1. CASE Start
    BY <1>1 DEF Start, TypeOK
  <1>2. CASE CheckCancel
    BY <1>2 DEF CheckCancel, BeginCancel, TypeOK, sched
  <1>3. ASSUME NEW t \in Tasks, StartMissingInput(t) PROVE TypeOK'
    BY <1>3, RecordAttemptType
       DEF StartMissingInput, FailAndSkip, TypeOK, ResultKind
  <1>4. ASSUME NEW t \in Tasks, StartCached(t) PROVE TypeOK'
    <2>1. attempts' \in [Tasks -> Seq(Attempt)]
      <3>1. attempts \in [Tasks -> Seq(Attempt)] /\ attempts_made \in [Tasks -> Nat]
        BY DEF TypeOK
      <3>2. RecordAttempt(attempts[t], t, "CACHED", "succeeded") \in Seq(Attempt)
        BY <3>1, RecordAttemptType DEF ResultKind
      <3> QED BY <1>4, <3>1, <3>2 DEF StartCached
    <2>2. Succeed(t, "CACHED")
      BY <1>4 DEF StartCached
    <2> QED BY <1>4, <2>1, <2>2, SucceedType DEF StartCached, TypeOK
  <1>5. ASSUME NEW t \in Tasks, StartProcess(t) PROVE TypeOK'
    BY <1>5, PoolType DEF StartProcess, TypeOK
  <1>6. CASE SafetyNet
    <2>1. attempts' \in [Tasks -> Seq(Attempt)]
      <3>1. attempts \in [Tasks -> Seq(Attempt)] /\ attempts_made \in [Tasks -> Nat]
        BY DEF TypeOK
      <3>2. \A t \in Tasks : RecordAttempt(attempts[t], t, "FAILED", "start_failure")
                               \in Seq(Attempt)
        BY <3>1, RecordAttemptType DEF ResultKind
      <3> QED BY <1>6, <3>1, <3>2 DEF SafetyNet
    <2> QED BY <1>6, <2>1 DEF SafetyNet, FailAndSkip, TypeOK
  <1>7. CASE EndLaunch
    BY <1>7 DEF EndLaunch, TypeOK, sched
  <1>8. CASE Wait \/ Swap
    <2>1. events' \in Seq(Event) /\ batch' \in Seq(Event) /\ pc' \in Points
      <3>1. events \in Seq(Event) /\ batch \in Seq(Event)
        BY DEF TypeOK
      <3>2. CASE TakeBatch
        BY <3>1, <3>2 DEF TakeBatch
      <3>3. CASE UNCHANGED <<events, batch>> /\ pc' \in Points
        BY <3>1, <3>3
      <3> QED BY <1>8, <3>2, <3>3 DEF Wait, Swap
    <2> QED BY <1>8, <2>1 DEF Wait, Swap, TypeOK, sched
  <1>9. CASE Timeout
    BY <1>9 DEF Timeout, TypeOK, sched
  <1>10. CASE HandleCancel
    <2>1. batch' \in Seq(Event)
      BY <1>10, NextEventType DEF HandleCancel
    <2> QED BY <1>10, <2>1 DEF HandleCancel, BeginCancel, TypeOK, sched
  <1>11. CASE HandleLog
    <2>1. NextEvent("log")
      BY <1>11 DEF HandleLog
    <2>2. batch' \in Seq(Event) /\ Head(batch) \in Event /\ Head(batch).type = "log"
      BY <2>1, NextEventType
    <2>3. Head(batch).node \in Tasks /\ Head(batch).attempt \in Nat
      BY <2>2, EventFields
    <2>4. delivered' \subseteq Tasks \X Nat
      <3>1. delivered \subseteq Tasks \X Nat
        BY DEF TypeOK
      <3> QED BY <1>11, <2>3, <3>1 DEF HandleLog
    <2>5. UNCHANGED <<pc, sched, run_state, events, live, term, logged, caller>>
      BY <1>11 DEF HandleLog
    <2> QED BY <2>2, <2>4, <2>5 DEF TypeOK, sched
  <1>12. ASSUME NEW t \in Tasks, HandleSuccess(t) PROVE TypeOK'
    <2>1. /\ ProcessFinished(t, "SUCCEEDED", "succeeded")
          /\ Succeed(t, "SUCCEEDED")
          /\ "succeeded" \in ResultKind
      BY <1>12 DEF HandleSuccess, ResultKind
    <2> HIDE DEF TaskState
    <2>2. "SUCCEEDED" \in TaskState
      BY DEF TaskState
    <2>3. /\ remaining_deps' \in [Tasks -> Nat]
          /\ state' \in [Tasks -> TaskState]
          /\ ready' \subseteq Tasks
          /\ UNCHANGED <<attempts_made, waiting_for_retry, due, cancelling>>
      BY <2>1, <2>2, SucceedType
    <2>4. /\ batch' \in Seq(Event)
          /\ running_count' \in Nat
          /\ used' \in [Dims -> Nat]
          /\ has_reservation' \subseteq Tasks
          /\ attempts' \in [Tasks -> Seq(Attempt)]
          /\ UNCHANGED <<pc, delivered, run_state, events, live, term, logged, caller>>
      BY <2>1, ProcessFinishedType
    <2> QED BY <2>3, <2>4 DEF TypeOK
  <1>13. ASSUME NEW t \in Tasks, NEW kind \in ResultKind, HandleCancelled(t, kind)
         PROVE TypeOK'
    <2>1. /\ batch' \in Seq(Event)
          /\ running_count' \in Nat
          /\ used' \in [Dims -> Nat]
          /\ has_reservation' \subseteq Tasks
          /\ attempts' \in [Tasks -> Seq(Attempt)]
          /\ UNCHANGED <<pc, delivered, run_state, events, live, term, logged, caller>>
      BY <1>13, ProcessFinishedType DEF HandleCancelled
    <2> QED BY <1>13, <2>1 DEF HandleCancelled, TypeOK
  <1>14. ASSUME NEW t \in Tasks, NEW kind \in ResultKind, HandleRetry(t, kind)
         PROVE TypeOK'
    <2>1. /\ batch' \in Seq(Event)
          /\ running_count' \in Nat
          /\ used' \in [Dims -> Nat]
          /\ has_reservation' \subseteq Tasks
          /\ attempts' \in [Tasks -> Seq(Attempt)]
          /\ UNCHANGED <<pc, delivered, run_state, events, live, term, logged, caller>>
      BY <1>14, ProcessFinishedType DEF HandleRetry
    <2> QED BY <1>14, <2>1 DEF HandleRetry, Promote, TypeOK
  <1>15. ASSUME NEW t \in Tasks, NEW kind \in ResultKind, HandleFailure(t, kind)
         PROVE TypeOK'
    <2>1. /\ batch' \in Seq(Event)
          /\ running_count' \in Nat
          /\ used' \in [Dims -> Nat]
          /\ has_reservation' \subseteq Tasks
          /\ attempts' \in [Tasks -> Seq(Attempt)]
          /\ UNCHANGED <<pc, delivered, run_state, events, live, term, logged, caller>>
      BY <1>15, ProcessFinishedType DEF HandleFailure
    <2> QED BY <1>15, <2>1 DEF HandleFailure, FailAndSkip, TypeOK
  <1>16. CASE EndRound
    BY <1>16 DEF EndRound, Promote, TypeOK
  <1>17. CASE Finish
    <2>1. delivered' \subseteq Tasks \X Nat
      <3>1. events \in Seq(Event) /\ delivered \subseteq Tasks \X Nat
        BY DEF TypeOK
      <3>2. \A i \in DOMAIN events : events[i].type = "log" =>
              events[i].node \in Tasks /\ events[i].attempt \in Nat
        BY <3>1, EventFields
      <3> QED BY <1>17, <3>1, <3>2 DEF Finish
    <2>2. events' \in Seq(Event) /\ run_state' \in PipelineState
      BY <1>17 DEF Finish, Verdict
    <2> QED BY <1>17, <2>1, <2>2 DEF Finish, TypeOK, sched
  <1>18. CASE SpuriousWake
    BY <1>18 DEF NotifyAll, SpuriousWake, TypeOK, sched
  <1>19. ASSUME NEW p \in live, LogLine(p) PROVE TypeOK'
    <2>1. [type |-> "log", node |-> p[1], attempt |-> p[2]] \in Event
      BY DEF TypeOK, Event
    <2> QED BY <1>19, <2>1, PushEventType DEF LogLine, TypeOK, sched
  <1>20. ASSUME NEW p \in live, NEW o \in Outcomes, ProcessExit(p, o) PROVE TypeOK'
    <2>1. [type |-> "finished", node |-> p[1], attempt |-> p[2], outcome |-> o]
            \in Event
      BY DEF TypeOK, Event
    <2> QED BY <1>20, <2>1, PushEventType DEF ProcessExit, TypeOK, sched
  <1>21. ASSUME NEW t \in Tasks, Elapse(t) PROVE TypeOK'
    BY <1>21 DEF Elapse, TypeOK
  <1>22. ASSUME NEW c \in Callers, CancelStore(c) PROVE TypeOK'
    BY <1>22 DEF CancelStore, TypeOK, sched
  <1>23. ASSUME NEW c \in Callers, CancelPush(c) PROVE TypeOK'
    <2>1. [type |-> "cancel"] \in Event
      BY DEF Event
    <2> QED BY <1>23, <2>1, PushEventType DEF CancelPush, TypeOK, sched
  <1>24. CASE UNCHANGED vars
    BY <1>24 DEF vars, sched, TypeOK
  <1> QED
    BY <1>1, <1>2, <1>3, <1>4, <1>5, <1>6, <1>7, <1>8, <1>9, <1>10, <1>11,
       <1>12, <1>13, <1>14, <1>15, <1>16, <1>17, <1>18, <1>19, <1>20, <1>21,
       <1>22, <1>23, <1>24
       DEF Next, SchedulerStep, Returned

(* Every variable of the scheduler keeps its type in every run.            *)
THEOREM TypeCorrect == Spec => []TypeOK
  BY TypeInit, TypeStep, PTL DEF Spec

-----------------------------------------------------------------------------
(* The inductive invariant *)

(* What the place of run() says: a batch is only there while it is being   *)
(* handled, nothing has happened before run(), and the loop is left only   *)
(* when all_settled() holds.                                               *)
ControlInv ==
    /\ pc # "handle" => batch = <<>>
    /\ pc = "new" => /\ \A t \in Tasks : state[t] = "PENDING"
                     /\ ~cancelling
    /\ pc \in {"finish", "done"} => AllSettled

(* What is known of the tasks that have not started: the counter of one    *)
(* that is still PENDING is positive and none of its dependencies can keep *)
(* it from ever running; cancelling leaves none behind.                    *)
PendingInv ==
    /\ \A t \in Tasks : state[t] = "PENDING" =>
         /\ pc # "new" => remaining_deps[t] # 0
         /\ \A d \in Deps[t] : state[d] \notin {"FAILED", "SKIPPED"}
    /\ cancelling => \A t \in Tasks : state[t] \notin {"PENDING", "READY"}
    /\ ~cancelling => \A t \in Tasks : state[t] # "CANCELLED"

(* Only begin_cancel asks children to terminate, so only a run that is     *)
(* being cancelled sees the outcome "cancelled".                           *)
CancelledInv ==
    ~cancelling =>
        /\ term = {}
        /\ \A i \in Queued(events) : events[i].outcome # "cancelled"
        /\ \A i \in Queued(batch) : batch[i].outcome # "cancelled"

(* A task is SKIPPED only because of a dependency.                         *)
SkippedInv ==
    \A t \in Tasks : state[t] = "SKIPPED" =>
        \E d \in Deps[t] : state[d] \in {"FAILED", "SKIPPED"}

(* The inductive invariant.                                                *)
IInv == /\ TypeOK
        /\ ControlInv
        /\ ReadyExact
        /\ OneReportPerAttempt
        /\ SlotsAccounted
        /\ RemainingExact
        /\ DepsSucceeded
        /\ PendingInv
        /\ CancelledInv
        /\ SkippedInv

-----------------------------------------------------------------------------
(* skip_downstream *)

(* What skip_downstream marks is closed: nothing that depends on a failed  *)
(* or skipped task is left behind.                                         *)
LEMMA SkipSetClosed ==
    ASSUME NEW R PROVE SkipClosed(SkipSet(R), R)
  <1> SUFFICES ASSUME NEW u \in Tasks \ R, state[u] \in {"PENDING", "READY"},
                      Deps[u] \cap (R \cup SkipSet(R)) # {}
               PROVE  u \in SkipSet(R)
    BY DEF SkipClosed
  <1> SUFFICES ASSUME NEW S \in SUBSET Tasks, SkipClosed(S, R) PROVE u \in S
    BY DEF SkipSet
  <1>1. SkipSet(R) \subseteq S
    BY DEF SkipSet
  <1>2. Deps[u] \cap (R \cup S) # {}
    BY <1>1
  <1> QED BY <1>2 DEF SkipClosed

(* It marks nothing without a reason: every marked task has a dependency   *)
(* that failed or was marked.                                              *)
LEMMA SkipSetGrounded ==
    ASSUME NEW R, NEW u \in SkipSet(R)
    PROVE  Deps[u] \cap (R \cup SkipSet(R)) # {}
  <1> SUFFICES ASSUME Deps[u] \cap (R \cup SkipSet(R)) = {} PROVE FALSE
    OBVIOUS
  <1> DEFINE S == SkipSet(R) \ {u}
  <1>1. S \in SUBSET Tasks
    BY DEF SkipSet
  <1>2. SkipClosed(S, R)
    <2> SUFFICES ASSUME NEW v \in Tasks \ R, state[v] \in {"PENDING", "READY"},
                        Deps[v] \cap (R \cup S) # {}
                 PROVE  v \in S
      BY DEF SkipClosed
    <2>1. v \in SkipSet(R)
      BY SkipSetClosed DEF SkipClosed
    <2>2. v # u
      OBVIOUS
    <2> QED BY <2>1, <2>2
  <1> QED BY <1>1, <1>2 DEF SkipSet

(* It marks only PENDING tasks: a READY task has only successful           *)
(* dependencies, so neither the ready queue nor a backoff timer is ever    *)
(* touched by skip_downstream.                                             *)
LEMMA SkipSetPending ==
    ASSUME DepsSucceeded, NEW R, \A r \in R : state[r] \notin SuccessLike
    PROVE  SkipSet(R) \subseteq {u \in Tasks \ R : state[u] = "PENDING"}
  <1> DEFINE P == {u \in Tasks \ R : state[u] = "PENDING"}
  <1>1. SkipClosed(P, R)
    <2> SUFFICES ASSUME NEW u \in Tasks \ R, state[u] \in {"PENDING", "READY"},
                        NEW d \in Deps[u], d \in R \cup P
                 PROVE  u \in P
      BY DEF SkipClosed
    <2>1. state[d] \notin SuccessLike
      BY DEF SuccessLike
    <2> QED BY <2>1 DEF DepsSucceeded
  <1> QED BY <1>1 DEF SkipSet

-----------------------------------------------------------------------------
(* The graph: counters, dependencies and failure propagation *)

GraphInv == RemainingExact /\ DepsSucceeded /\ PendingInv /\ SkippedInv

(* The counters stay right in a step that changes neither them nor the set *)
(* of successful tasks.                                                    *)
LEMMA RemainingSame ==
    ASSUME RemainingExact, UNCHANGED remaining_deps,
           \A d \in Tasks : state'[d] \in SuccessLike <=> state[d] \in SuccessLike
    PROVE  RemainingExact'
  <1> SUFFICES ASSUME NEW t \in Tasks
               PROVE  remaining_deps[t] =
                        Cardinality({d \in Deps[t] : state'[d] \notin SuccessLike})
    BY DEF RemainingExact
  <1>1. Deps[t] \subseteq Tasks
    BY DepsAssumption
  <1>2. {d \in Deps[t] : state'[d] \notin SuccessLike}
          = {d \in Deps[t] : state[d] \notin SuccessLike}
    BY <1>1
  <1> QED BY <1>2 DEF RemainingExact

(* A counter is zero exactly when every dependency has succeeded.          *)
LEMMA RemainingZero ==
    ASSUME RemainingExact, NEW t \in Tasks
    PROVE  remaining_deps[t] = 0 <=> \A d \in Deps[t] : state[d] \in SuccessLike
  <1> DEFINE W == {d \in Deps[t] : state[d] \notin SuccessLike}
  <1>1. IsFiniteSet(W)
    BY DepsAssumption, TasksAssumption, FS_Subset
  <1>2. Cardinality(W) = 0 <=> W = {}
    BY <1>1, FS_EmptySet
  <1> QED BY <1>2 DEF RemainingExact

(* Steps that leave the tasks alone.                                       *)
LEMMA GraphSame ==
    ASSUME GraphInv, UNCHANGED <<state, remaining_deps, cancelling>>,
           pc' # "new" => pc # "new"
    PROVE  GraphInv'
  BY RemainingSame DEF GraphInv, DepsSucceeded, PendingInv, SkippedInv

(* seed_ready queues exactly the tasks without dependencies.               *)
LEMMA GraphStart ==
    ASSUME TypeOK, ControlInv, GraphInv, Start
    PROVE  GraphInv'
  <1>1. \A t \in Tasks :
          /\ state[t] = "PENDING"
          /\ state'[t] = IF remaining_deps[t] = 0 THEN "READY" ELSE "PENDING"
    BY DEF Start, ControlInv
  <1>2. UNCHANGED <<remaining_deps, cancelling>> /\ ~cancelling
    BY DEF Start, ControlInv
  <1>3. RemainingExact'
    BY <1>1, <1>2, RemainingSame DEF GraphInv, SuccessLike
  <1>4. DepsSucceeded'
    <2> SUFFICES ASSUME NEW t \in Tasks, state'[t] # "PENDING"
                 PROVE  \A d \in Deps[t] : state'[d] \in SuccessLike
      BY DEF DepsSucceeded
    <2>1. \A d \in Deps[t] : state[d] \in SuccessLike
      BY <1>1, RemainingZero DEF GraphInv
    <2> QED BY <1>1, <2>1, DepsAssumption DEF SuccessLike
  <1>5. PendingInv' /\ SkippedInv'
    BY <1>1, <1>2, DepsAssumption DEF PendingInv, SkippedInv
  <1> QED BY <1>3, <1>4, <1>5 DEF GraphInv

(* begin_cancel leaves no task PENDING or READY.                           *)
LEMMA GraphCancel ==
    ASSUME TypeOK, ReadyExact, GraphInv, BeginCancel, pc' # "new" => pc # "new"
    PROVE  GraphInv'
  <1>1. \A t \in Tasks :
          state'[t] = IF state[t] \in {"PENDING", "READY"} THEN "CANCELLED"
                      ELSE state[t]
    BY DEF BeginCancel, ReadyExact
  <1>2. UNCHANGED remaining_deps /\ cancelling'
    BY DEF BeginCancel
  <1>3. RemainingExact'
    BY <1>1, <1>2, RemainingSame DEF GraphInv, SuccessLike
  <1>4. DepsSucceeded' /\ PendingInv' /\ SkippedInv'
    BY <1>1, <1>2, DepsAssumption
       DEF GraphInv, DepsSucceeded, PendingInv, SkippedInv, SuccessLike
  <1> QED BY <1>3, <1>4 DEF GraphInv

(* A failure and its skip_downstream: every PENDING task that is left has  *)
(* no failed and no skipped dependency.                                    *)
LEMMA GraphFail ==
    ASSUME TypeOK, GraphInv, ~cancelling, NEW R \in SUBSET Tasks, FailAndSkip(R),
           \A r \in R : state[r] \in {"READY", "RUNNING"},
           pc' # "new" => pc # "new"
    PROVE  GraphInv'
  <1> DEFINE K == SkipSet(R)
  <1>1. K \subseteq {u \in Tasks \ R : state[u] = "PENDING"}
    BY SkipSetPending DEF GraphInv, SuccessLike
  <1>2. \A t \in Tasks : state'[t] = IF t \in R THEN "FAILED"
                                     ELSE IF t \in K THEN "SKIPPED" ELSE state[t]
    BY DEF FailAndSkip
  <1>3. UNCHANGED <<remaining_deps, cancelling>>
    BY DEF FailAndSkip
  <1> HIDE DEF K
  <1>4. RemainingExact'
    BY <1>1, <1>2, <1>3, RemainingSame DEF GraphInv, SuccessLike
  <1>5. DepsSucceeded'
    BY <1>1, <1>2, DepsAssumption DEF GraphInv, DepsSucceeded, SuccessLike
  <1>6. SkippedInv'
    <2> SUFFICES ASSUME NEW t \in Tasks, state'[t] = "SKIPPED"
                 PROVE  \E d \in Deps[t] : state'[d] \in {"FAILED", "SKIPPED"}
      BY DEF SkippedInv
    <2>1. CASE t \in K
      <3>1. PICK d \in Deps[t] : d \in R \cup K
        BY <2>1, SkipSetGrounded DEF K
      <3> QED BY <3>1, <1>2, DepsAssumption
    <2>2. CASE state[t] = "SKIPPED"
      <3>1. PICK d \in Deps[t] : state[d] \in {"FAILED", "SKIPPED"}
        BY <2>2 DEF GraphInv, SkippedInv
      <3> QED BY <3>1, <1>1, <1>2, DepsAssumption
    <2> QED BY <2>1, <2>2, <1>2
  <1>7. PendingInv'
    <2>1. ASSUME NEW t \in Tasks, state'[t] = "PENDING", NEW d \in Deps[t]
          PROVE  state'[d] \notin {"FAILED", "SKIPPED"}
      <3>1. t \in Tasks \ R /\ t \notin K /\ state[t] = "PENDING"
        BY <1>2, <2>1
      <3>2. d \notin R \cup K
        BY <3>1, SkipSetClosed DEF SkipClosed, K
      <3>3. state[d] \notin {"FAILED", "SKIPPED"}
        BY <3>1 DEF GraphInv, PendingInv
      <3> QED BY <1>2, <3>2, <3>3, DepsAssumption
    <2> QED BY <2>1, <1>2, <1>3 DEF GraphInv, PendingInv
  <1> QED BY <1>4, <1>5, <1>6, <1>7 DEF GraphInv

(* One more success: the counter of each dependent goes down by exactly    *)
(* one, and it reaches zero when the last dependency has succeeded.        *)
LEMMA RemainingSucceed ==
    ASSUME TypeOK, RemainingExact, NEW t \in Tasks, state[t] \notin SuccessLike,
           remaining_deps' = RemainingAfter(t),
           state'[t] \in SuccessLike,
           \A u \in Tasks \ {t} :
              state'[u] \in SuccessLike <=> state[u] \in SuccessLike
    PROVE  RemainingExact'
  <1> SUFFICES ASSUME NEW u \in Tasks
               PROVE  remaining_deps'[u] =
                        Cardinality({d \in Deps[u] : state'[d] \notin SuccessLike})
    BY DEF RemainingExact
  <1> DEFINE W == {d \in Deps[u] : state[d] \notin SuccessLike}
             V == {d \in Deps[u] : state'[d] \notin SuccessLike}
  <1>1. Deps[u] \subseteq Tasks
    BY DepsAssumption
  <1>2. IsFiniteSet(W) /\ remaining_deps[u] = Cardinality(W) /\ Cardinality(W) \in Nat
    BY <1>1, TasksAssumption, FS_Subset, FS_CardinalityType DEF RemainingExact
  <1>3. V = W \ {t}
    BY <1>1
  <1>4. CASE t \in Deps[u]
    <2>1. t \in W
      BY <1>4
    <2>2. Cardinality(V) = Cardinality(W) - 1
      BY <1>2, <1>3, <2>1, FS_RemoveElement
    <2>3. Cardinality(W) # 0
      BY <1>2, <2>1, FS_EmptySet
    <2>4. remaining_deps'[u] = remaining_deps[u] - 1
      BY <1>2, <1>4, <2>3 DEF RemainingAfter
    <2> QED BY <1>2, <2>2, <2>4
  <1>5. CASE t \notin Deps[u]
    <2>1. V = W
      BY <1>3, <1>5
    <2>2. remaining_deps'[u] = remaining_deps[u]
      BY <1>5 DEF RemainingAfter
    <2> QED BY <1>2, <2>1, <2>2
  <1> QED BY <1>4, <1>5

(* A success: the dependents that become READY have only successful        *)
(* dependencies, and those left PENDING still wait for one.                *)
LEMMA GraphSucceed ==
    ASSUME TypeOK, GraphInv, NEW t \in Tasks, NEW f \in SuccessLike, Succeed(t, f),
           state[t] \in {"READY", "RUNNING"}, pc' # "new", pc # "new"
    PROVE  GraphInv'
  <1> DEFINE N == NewlyReady(t)
  <1>1. N \subseteq {u \in Tasks : state[u] = "PENDING"}
    BY DEF NewlyReady, Dependents
  <1>2. \A u \in Tasks : state'[u] = IF u = t THEN f
                                     ELSE IF u \in N THEN "READY" ELSE state[u]
    BY DEF Succeed
  <1>3. UNCHANGED cancelling /\ remaining_deps' = RemainingAfter(t)
    BY DEF Succeed
  <1>4. \A u \in N : remaining_deps'[u] = 0
    BY <1>3 DEF NewlyReady
  <1>5. ASSUME NEW u \in Tasks, state[u] = "PENDING", u \notin N
        PROVE  remaining_deps'[u] # 0
    <2>1. ~cancelling
      BY <1>5 DEF GraphInv, PendingInv
    <2>2. CASE u \in Dependents(t)
      BY <1>3, <1>5, <2>1, <2>2 DEF NewlyReady
    <2>3. CASE u \notin Dependents(t)
      <3>1. remaining_deps'[u] = remaining_deps[u]
        BY <1>3, <2>3 DEF RemainingAfter, Dependents
      <3> QED BY <1>5, <3>1 DEF GraphInv, PendingInv
    <2> QED BY <2>2, <2>3
  <1> HIDE DEF N
  <1>6. RemainingExact'
    BY <1>1, <1>2, <1>3, RemainingSucceed DEF GraphInv, SuccessLike
  <1>7. ASSUME NEW u \in N, NEW d \in Deps[u] PROVE state'[d] \in SuccessLike
    <2> DEFINE V == {e \in Deps[u] : state'[e] \notin SuccessLike}
    <2>1. u \in Tasks /\ Cardinality(V) = 0
      BY <1>1, <1>4, <1>6, <1>7 DEF RemainingExact
    <2>2. IsFiniteSet(V)
      BY <2>1, DepsAssumption, TasksAssumption, FS_Subset
    <2>3. V = {}
      BY <2>1, <2>2, FS_EmptySet
    <2> QED BY <2>3, <1>7
  <1>8. DepsSucceeded'
    <2> SUFFICES ASSUME NEW u \in Tasks, NEW d \in Deps[u],
                        state'[u] \in {"READY", "RUNNING", "SUCCEEDED", "FAILED", "CACHED"}
                 PROVE  state'[d] \in SuccessLike
      BY DEF DepsSucceeded
    <2>1. CASE u \in N
      BY <1>7, <2>1
    <2>2. CASE u \notin N
      <3>1. state[d] \in SuccessLike
        BY <1>2, <2>2 DEF GraphInv, DepsSucceeded
      <3> QED BY <1>1, <1>2, <3>1, DepsAssumption DEF SuccessLike
    <2> QED BY <2>1, <2>2
  <1>9. PendingInv'
    BY <1>1, <1>2, <1>3, <1>5, DepsAssumption DEF GraphInv, PendingInv, SuccessLike
  <1>10. SkippedInv'
    BY <1>1, <1>2, DepsAssumption DEF GraphInv, SkippedInv, SuccessLike
  <1> QED BY <1>6, <1>8, <1>9, <1>10 DEF GraphInv

(* A step of one task between READY and RUNNING, or from RUNNING to        *)
(* CANCELLED while the run is being cancelled.                             *)
LEMMA GraphOneTask ==
    ASSUME TypeOK, GraphInv, NEW t \in Tasks,
           NEW f \in {"READY", "RUNNING", "CANCELLED"},
           state[t] \in {"READY", "RUNNING"},
           state' = [state EXCEPT ![t] = f],
           f = "CANCELLED" <=> cancelling = TRUE,
           UNCHANGED <<remaining_deps, cancelling>>, pc' # "new" => pc # "new"
    PROVE  GraphInv'
  <1>1. \A u \in Tasks : state'[u] = IF u = t THEN f ELSE state[u]
    BY DEF TypeOK
  <1>2. RemainingExact'
    BY <1>1, RemainingSame DEF GraphInv, SuccessLike
  <1>3. DepsSucceeded'
    BY <1>1, DepsAssumption DEF GraphInv, DepsSucceeded, SuccessLike
  <1>4. PendingInv'
    BY <1>1, DepsAssumption DEF GraphInv, PendingInv
  <1>5. SkippedInv'
    BY <1>1, DepsAssumption DEF GraphInv, SkippedInv
  <1> QED BY <1>2, <1>3, <1>4, <1>5 DEF GraphInv

-----------------------------------------------------------------------------
(* The results in a queue *)

(* Appending keeps the places of the results already queued.               *)
LEMMA AppendQueued ==
    ASSUME NEW S, NEW q \in Seq(S), NEW e \in S
    PROVE  /\ \A i \in DOMAIN q : Append(q, e)[i] = q[i]
           /\ Append(q, e)[Len(q) + 1] = e
           /\ Queued(q) \subseteq 1..Len(q)
           /\ Queued(Append(q, e)) =
                Queued(q) \cup (IF e.type = "finished" THEN {Len(q) + 1} ELSE {})
  <1>1. /\ Len(q) \in Nat /\ DOMAIN q = 1..Len(q)
        /\ DOMAIN Append(q, e) = 1..(Len(q) + 1)
        /\ \A i \in 1..Len(q) : Append(q, e)[i] = q[i]
        /\ Append(q, e)[Len(q) + 1] = e
    OBVIOUS
  <1>2. 1..(Len(q) + 1) = 1..Len(q) \cup {Len(q) + 1}
    BY <1>1
  <1> QED BY <1>1, <1>2 DEF Queued

(* Taking the first event off shifts the others by one.                    *)
LEMMA TailQueued ==
    ASSUME NEW S, NEW q \in Seq(S), q # <<>>
    PROVE  /\ \A i \in Queued(Tail(q)) : /\ i + 1 \in Queued(q)
                                         /\ i + 1 # 1 /\ i \in Int
                                         /\ Tail(q)[i] = q[i + 1]
           /\ \A i \in Queued(q) \ {1} : i - 1 \in Queued(Tail(q)) /\ i \in Int
           /\ Head(q) = q[1] /\ 1 \in DOMAIN q
  <1>1. /\ Len(q) \in Nat /\ DOMAIN q = 1..Len(q) /\ Len(q) # 0
        /\ Tail(q) \in Seq(S) /\ Len(Tail(q)) = Len(q) - 1
        /\ \A i \in 1..(Len(q) - 1) : Tail(q)[i] = q[i + 1]
        /\ Head(q) = q[1]
    OBVIOUS
  <1>2. DOMAIN Tail(q) = 1..(Len(q) - 1)
    BY <1>1
  <1> QED BY <1>1, <1>2 DEF Queued

(* An empty queue holds no result.                                         *)
LEMMA EmptyReports ==
    ASSUME NEW running, NEW current
    PROVE  /\ ReportsSound(<<>>, running, current)
           /\ \A t : ~HasReport(<<>>, t)
  BY DEF ReportsSound, HasReport, Queued

(* A log line or a cancel event changes nothing about the results.         *)
LEMMA AppendOther ==
    ASSUME NEW S, NEW q \in Seq(S), NEW e \in S, e.type # "finished",
           NEW running, NEW current
    PROVE  /\ ReportsSound(q, running, current)
                => ReportsSound(Append(q, e), running, current)
           /\ \A t : HasReport(Append(q, e), t) <=> HasReport(q, t)
  <1>1. /\ \A i \in DOMAIN q : Append(q, e)[i] = q[i]
        /\ Queued(Append(q, e)) = Queued(q)
        /\ Queued(q) \subseteq DOMAIN q
    BY AppendQueued DEF Queued
  <1> QED BY <1>1 DEF ReportsSound, HasReport

(* The first result of a running task is queued.                           *)
LEMMA AppendReport ==
    ASSUME NEW S, NEW q \in Seq(S), NEW e \in S, e.type = "finished",
           NEW running, NEW current,
           ReportsSound(q, running, current),
           e.node \in running, e.attempt = current[e.node],
           ~HasReport(q, e.node)
    PROVE  /\ ReportsSound(Append(q, e), running, current)
           /\ \A t : HasReport(Append(q, e), t) <=> HasReport(q, t) \/ t = e.node
  <1> DEFINE r == Append(q, e)
             n == Len(q) + 1
  <1>1. /\ \A i \in Queued(q) : r[i] = q[i] /\ i # n
        /\ r[n] = e
        /\ Queued(r) = Queued(q) \cup {n}
    BY AppendQueued DEF Queued
  <1> HIDE DEF r, n
  <1>2. \A i \in Queued(q) : q[i].node # e.node
    BY DEF HasReport
  <1>3. \A t : HasReport(r, t) <=> HasReport(q, t) \/ t = e.node
    BY <1>1 DEF HasReport
  <1>4. ReportsSound(r, running, current)
    BY <1>1, <1>2 DEF ReportsSound
  <1> QED BY <1>3, <1>4 DEF r

(* An event that is no result is taken off.                                *)
LEMMA TailOther ==
    ASSUME NEW S, NEW q \in Seq(S), q # <<>>, Head(q).type # "finished",
           NEW running, NEW current
    PROVE  /\ ReportsSound(q, running, current)
                => ReportsSound(Tail(q), running, current)
           /\ \A t : HasReport(Tail(q), t) <=> HasReport(q, t)
  <1> DEFINE r == Tail(q)
  <1>1. /\ \A i \in Queued(r) : i + 1 \in Queued(q) /\ i \in Int /\ r[i] = q[i + 1]
        /\ \A i \in Queued(q) : i # 1 /\ i - 1 \in Queued(r) /\ i \in Int
    BY TailQueued DEF Queued
  <1> HIDE DEF r
  <1>2. \A i \in Queued(q) : r[i - 1] = q[i]
    BY <1>1
  <1>3. \A t : HasReport(r, t) <=> HasReport(q, t)
    BY <1>1, <1>2 DEF HasReport
  <1>4. ASSUME ReportsSound(q, running, current)
        PROVE  ReportsSound(r, running, current)
    BY <1>1, <1>4 DEF ReportsSound
  <1> QED BY <1>3, <1>4 DEF r

(* The result at the head is taken off: its task is not running any more,  *)
(* and no other result of it is left.                                      *)
LEMMA TailReport ==
    ASSUME NEW S, NEW q \in Seq(S), q # <<>>, Head(q).type = "finished",
           NEW running, NEW current, ReportsSound(q, running, current)
    PROVE  /\ ReportsSound(Tail(q), running \ {Head(q).node}, current)
           /\ Head(q).node \in running
           /\ \A t : HasReport(Tail(q), t) <=> HasReport(q, t) /\ t # Head(q).node
           /\ HasReport(q, Head(q).node)
  <1> DEFINE r == Tail(q)
             h == Head(q)
  <1>1. /\ \A i \in Queued(r) : i + 1 \in Queued(q) /\ i \in Int /\ r[i] = q[i + 1]
                                  /\ i + 1 # 1
        /\ \A i \in Queued(q) \ {1} : i - 1 \in Queued(r) /\ i \in Int
        /\ h = q[1] /\ 1 \in Queued(q)
    BY TailQueued DEF Queued
  <1> HIDE DEF r, h
  <1>2. \A i \in Queued(q) \ {1} : r[i - 1] = q[i] /\ q[i].node # h.node
    BY <1>1 DEF ReportsSound
  <1>3. \A i \in Queued(r) : r[i].node # h.node
    BY <1>1, <1>2
  <1>4. \A t : HasReport(r, t) <=> HasReport(q, t) /\ t # h.node
    BY <1>1, <1>2, <1>3 DEF HasReport
  <1>5. ReportsSound(r, running \ {h.node}, current)
    <2> SUFFICES ASSUME NEW i \in Queued(r)
                 PROVE  /\ r[i].node \in running \ {h.node}
                        /\ r[i].attempt = current[r[i].node]
                        /\ \A j \in Queued(r) : r[i].node = r[j].node => i = j
      BY DEF ReportsSound
    <2>1. /\ q[i + 1].node \in running
          /\ q[i + 1].attempt = current[q[i + 1].node]
          /\ \A k \in Queued(q) : q[i + 1].node = q[k].node => i + 1 = k
      BY <1>1 DEF ReportsSound
    <2>2. \A j \in Queued(r) : r[i].node = r[j].node => i = j
      <3> SUFFICES ASSUME NEW j \in Queued(r), r[i].node = r[j].node PROVE i = j
        OBVIOUS
      <3>1. i + 1 = j + 1 /\ i \in Int /\ j \in Int
        BY <1>1, <2>1
      <3> QED BY <3>1
    <2> QED BY <1>1, <1>3, <2>1, <2>2
  <1>6. h.node \in running /\ HasReport(q, h.node)
    BY <1>1 DEF ReportsSound, HasReport
  <1> QED BY <1>4, <1>5, <1>6 DEF r, h

(* The set of running tasks changes elsewhere.                             *)
LEMMA ReportsElsewhere ==
    ASSUME NEW q, NEW running, NEW current, NEW running2, NEW current2,
           ReportsSound(q, running, current),
           \A t \in running : HasReport(q, t)
                                => t \in running2 /\ current2[t] = current[t]
    PROVE  ReportsSound(q, running2, current2)
  BY DEF ReportsSound, HasReport

-----------------------------------------------------------------------------
(* Running tasks: their slots and their reports *)

RunInv == OneReportPerAttempt /\ SlotsAccounted

(* RUNNING tasks are finitely many, so that they can be counted.           *)
LEMMA RunningFinite ==
    IsFiniteSet(Running) /\ Cardinality(Running) \in Nat
  BY TasksAssumption, FS_Subset, FS_CardinalityType DEF Running

(* Nothing about the running tasks changes.                                *)
LEMMA RunSame ==
    ASSUME RunInv, Running' = Running,
           UNCHANGED <<attempts_made, live, events, batch,
                       running_count, has_reservation>>
    PROVE  RunInv'
  BY DEF RunInv, OneReportPerAttempt, SlotsAccounted

(* Another thread queues a log line or a cancel event.                     *)
LEMMA RunPushOther ==
    ASSUME TypeOK, RunInv, NEW e \in Event, e.type # "finished",
           events' = Append(events, e),
           UNCHANGED <<sched, live, batch>>
    PROVE  RunInv'
  <1>1. events \in Seq(Event)
    BY DEF TypeOK
  <1>2. /\ ReportsSound(events, Running, attempts_made)
             => ReportsSound(events', Running, attempts_made)
        /\ \A t : HasReport(events', t) <=> HasReport(events, t)
    BY <1>1, AppendOther
  <1>3. Running' = Running /\ UNCHANGED <<attempts_made, live, batch, running_count,
                                           has_reservation>>
    BY DEF sched, Running
  <1> QED BY <1>2, <1>3 DEF RunInv, OneReportPerAttempt, SlotsAccounted

(* The runner reports a child: the report takes its place.                 *)
LEMMA RunExit ==
    ASSUME TypeOK, RunInv, NEW p \in live, NEW o \in Outcomes, ProcessExit(p, o)
    PROVE  RunInv'
  <1> DEFINE e == [type |-> "finished", node |-> p[1], attempt |-> p[2], outcome |-> o]
  <1>1. events \in Seq(Event) /\ e \in Event /\ p \in Tasks \X Nat
    BY DEF TypeOK, Event
  <1>2. /\ e.type = "finished" /\ e.node = p[1] /\ e.attempt = p[2]
        /\ p = <<e.node, attempts_made[e.node]>>
        /\ e.node \in Running /\ e.attempt = attempts_made[e.node]
    BY <1>1 DEF RunInv, OneReportPerAttempt
  <1>3. events' = Append(events, e) /\ live' = live \ {p}
    BY DEF ProcessExit, PushEvent
  <1>4. Running' = Running /\ UNCHANGED <<attempts_made, batch, running_count,
                                          has_reservation>>
    BY DEF ProcessExit, sched, Running
  <1> HIDE DEF e
  <1>5. ReportsSound(events, Running, attempts_made) /\ ~HasReport(events, e.node)
    BY <1>2 DEF RunInv, OneReportPerAttempt
  <1>6. /\ ReportsSound(events', Running, attempts_made)
        /\ \A t : HasReport(events', t) <=> HasReport(events, t) \/ t = e.node
    BY <1>1, <1>2, <1>3, <1>5, AppendReport
  <1>7. OneReportPerAttempt'
    <2>1. \A q \in live' : q[1] \in Running /\ q[2] = attempts_made[q[1]]
      BY <1>3 DEF RunInv, OneReportPerAttempt
    <2>2. \A t \in Running : <<t, attempts_made[t]>> \in live'
                               <=> <<t, attempts_made[t]>> \in live /\ t # e.node
      BY <1>2, <1>3
    <2>3. ~HasReport(batch, e.node)
      BY <1>2 DEF RunInv, OneReportPerAttempt
    <2> QED BY <1>4, <1>6, <2>1, <2>2, <2>3 DEF RunInv, OneReportPerAttempt
  <1> QED BY <1>4, <1>7 DEF RunInv, SlotsAccounted

(* The queue becomes the batch.                                            *)
LEMMA RunTakeBatch ==
    ASSUME RunInv, batch = <<>>, TakeBatch, UNCHANGED <<sched, live>>
    PROVE  RunInv'
  <1>1. Running' = Running /\ UNCHANGED <<attempts_made, running_count, has_reservation>>
    BY DEF sched, Running
  <1>2. /\ ReportsSound(<<>>, Running, attempts_made)
        /\ \A t : ~HasReport(<<>>, t)
    BY EmptyReports
  <1> QED BY <1>1, <1>2 DEF TakeBatch, RunInv, OneReportPerAttempt, SlotsAccounted

(* An event that is no result is taken from the batch.                     *)
LEMMA RunNextOther ==
    ASSUME TypeOK, RunInv, NEW type, type # "finished", NextEvent(type),
           Running' = Running,
           UNCHANGED <<attempts_made, live, events, running_count, has_reservation>>
    PROVE  RunInv'
  <1>1. /\ batch \in Seq(Event) /\ batch # <<>> /\ batch' = Tail(batch)
        /\ Head(batch).type # "finished"
    BY DEF TypeOK, NextEvent
  <1>2. /\ ReportsSound(batch, Running, attempts_made)
             => ReportsSound(batch', Running, attempts_made)
        /\ \A t : HasReport(batch', t) <=> HasReport(batch, t)
    BY <1>1, TailOther
  <1> QED BY <1>2 DEF RunInv, OneReportPerAttempt, SlotsAccounted

(* The result that handle_process_finished works on is that of a RUNNING   *)
(* task, and the only one of it.                                           *)
LEMMA FinishedRunning ==
    ASSUME TypeOK, RunInv, NEW t, NEW f, NEW kind, ProcessFinished(t, f, kind)
    PROVE  t \in Running
  <1>1. /\ batch \in Seq(Event) /\ batch # <<>> /\ t = Head(batch).node
        /\ Head(batch).type = "finished"
        /\ ReportsSound(batch, Running, attempts_made)
    BY DEF TypeOK, ProcessFinished, NextEvent, RunInv, OneReportPerAttempt
  <1> QED BY <1>1, TailReport

(* handle_process_finished gives back exactly one slot and one report.     *)
LEMMA RunFinished ==
    ASSUME TypeOK, RunInv, NEW t, NEW f, NEW kind, ProcessFinished(t, f, kind),
           Running' = Running \ {t}, UNCHANGED attempts_made
    PROVE  RunInv'
  <1>1. /\ batch \in Seq(Event) /\ batch # <<>> /\ t = Head(batch).node
        /\ Head(batch).type = "finished" /\ batch' = Tail(batch)
    BY DEF TypeOK, ProcessFinished, NextEvent
  <1>2. /\ running_count' = IF running_count > 0 THEN running_count - 1 ELSE 0
        /\ has_reservation' = has_reservation \ {t}
        /\ UNCHANGED <<events, live>>
    BY DEF ProcessFinished
  <1>3. /\ ReportsSound(batch, Running, attempts_made)
        /\ ReportsSound(events, Running, attempts_made)
    BY DEF RunInv, OneReportPerAttempt
  <1>4. /\ ReportsSound(batch', Running \ {t}, attempts_made)
        /\ t \in Running /\ HasReport(batch, t)
        /\ \A u : HasReport(batch', u) <=> HasReport(batch, u) /\ u # t
    BY <1>1, <1>3, TailReport
  <1>5. ~HasReport(events, t) /\ <<t, attempts_made[t]>> \notin live
    BY <1>4 DEF RunInv, OneReportPerAttempt
  <1>6. ReportsSound(events, Running \ {t}, attempts_made)
    BY <1>3, <1>5, ReportsElsewhere
  <1>7. \A p \in live : p[1] \in Running \ {t} /\ p[2] = attempts_made[p[1]]
    <2>1. \A p \in live : p = <<p[1], p[2]>>
      BY DEF TypeOK
    <2> QED BY <1>5, <2>1 DEF RunInv, OneReportPerAttempt
  <1>8. OneReportPerAttempt'
    BY <1>2, <1>4, <1>6, <1>7 DEF RunInv, OneReportPerAttempt
  <1>9. SlotsAccounted'
    <2>1. Cardinality(Running \ {t}) = Cardinality(Running) - 1
      BY <1>4, RunningFinite, FS_RemoveElement
    <2>2. Cardinality(Running) # 0 /\ Cardinality(Running) \in Nat
      BY <1>4, RunningFinite, FS_EmptySet
    <2>3. MaxConcurrency \in Int
      BY ConfigAssumption DEF MaxConcurrency
    <2> QED BY <1>2, <2>1, <2>2, <2>3 DEF RunInv, SlotsAccounted
  <1> QED BY <1>8, <1>9 DEF RunInv

(* start_process takes one slot and makes one child.                       *)
LEMMA RunStart ==
    ASSUME TypeOK, RunInv, NEW t \in Tasks, state[t] = "READY", StartProcess(t)
    PROVE  RunInv'
  <1>1. t \notin Running /\ Running' = Running \cup {t}
    BY DEF Running, StartProcess, TypeOK
  <1>2. /\ attempts_made'[t] = attempts_made[t] + 1
        /\ \A u \in Running : attempts_made'[u] = attempts_made[u]
        /\ live' = live \cup {<<t, attempts_made'[t]>>}
        /\ running_count' = running_count + 1
        /\ has_reservation' = has_reservation \cup {t}
        /\ running_count < MaxConcurrency
        /\ UNCHANGED <<events, batch>>
    BY <1>1 DEF StartProcess, TypeOK, Tried, Running
  <1>3. /\ ReportsSound(batch, Running, attempts_made)
        /\ ReportsSound(events, Running, attempts_made)
    BY DEF RunInv, OneReportPerAttempt
  <1>4. /\ ReportsSound(batch, Running', attempts_made')
        /\ ReportsSound(events, Running', attempts_made')
    BY <1>1, <1>2, <1>3, ReportsElsewhere
  <1>5. ~HasReport(events, t) /\ ~HasReport(batch, t)
    BY <1>1, <1>3 DEF ReportsSound, HasReport
  <1>6. \A p \in live' : p[1] \in Running' /\ p[2] = attempts_made'[p[1]]
    BY <1>1, <1>2 DEF RunInv, OneReportPerAttempt
  <1>7. \A u \in Running : <<u, attempts_made'[u]>> \in live'
                              <=> <<u, attempts_made[u]>> \in live
    BY <1>1, <1>2
  <1>8. OneReportPerAttempt'
    BY <1>1, <1>2, <1>4, <1>5, <1>6, <1>7 DEF RunInv, OneReportPerAttempt
  <1>9. SlotsAccounted'
    <2>1. Cardinality(Running \cup {t}) = Cardinality(Running) + 1
      BY <1>1, RunningFinite, FS_AddElement
    <2>2. MaxConcurrency \in Int /\ running_count \in Nat
      BY ConfigAssumption DEF MaxConcurrency, TypeOK
    <2> QED BY <1>1, <1>2, <2>1, <2>2 DEF RunInv, SlotsAccounted
  <1> QED BY <1>8, <1>9 DEF RunInv

-----------------------------------------------------------------------------
(* The ready queue *)

(* Failing tasks leave the queue, skipped ones were never in it.           *)
LEMMA ReadyFail ==
    ASSUME TypeOK, ReadyExact, GraphInv, NEW R, R \subseteq ready \/ R \subseteq Running,
           FailAndSkip(R)
    PROVE  /\ ReadyExact' /\ Running' = Running \ R
           /\ \A r \in R : r \in Tasks /\ state[r] \in {"READY", "RUNNING"}
  <1> DEFINE K == SkipSet(R)
  <1>1. \A r \in R : r \in Tasks /\ state[r] \in {"READY", "RUNNING"}
    BY DEF ReadyExact, Running
  <1>2. K \subseteq {u \in Tasks \ R : state[u] = "PENDING"}
    BY <1>1, SkipSetPending DEF GraphInv, SuccessLike
  <1>3. /\ \A t \in Tasks : state'[t] = IF t \in R THEN "FAILED"
                                        ELSE IF t \in K THEN "SKIPPED" ELSE state[t]
        /\ ready' = ready \ (R \cup K)
        /\ waiting_for_retry' = waiting_for_retry \ K
    BY DEF FailAndSkip
  <1> HIDE DEF K
  <1>4. R \cap waiting_for_retry = {}
    BY <1>1 DEF ReadyExact, Running
  <1>5. \A t \in Tasks : state'[t] = "READY" <=> state[t] = "READY" /\ t \notin R
    BY <1>1, <1>2, <1>3
  <1>6. ReadyExact'
    BY <1>2, <1>3, <1>4, <1>5 DEF ReadyExact
  <1>7. Running' = Running \ R
    BY <1>2, <1>3 DEF Running
  <1> QED BY <1>1, <1>6, <1>7

(* A success puts exactly the newly ready dependents into the queue.       *)
LEMMA ReadySucceed ==
    ASSUME TypeOK, ReadyExact, NEW t, NEW f \in SuccessLike, Succeed(t, f),
           t \in ready \/ t \in Running
    PROVE  /\ ReadyExact' /\ Running' = Running \ {t}
           /\ t \in Tasks /\ state[t] \in {"READY", "RUNNING"}
  <1> DEFINE N == NewlyReady(t)
  <1>1. t \in Tasks /\ state[t] \in {"READY", "RUNNING"} /\ t \notin waiting_for_retry
    BY DEF ReadyExact, Running
  <1>2. N \subseteq {u \in Tasks : state[u] = "PENDING"}
    BY DEF NewlyReady, Dependents
  <1>3. /\ \A u \in Tasks : state'[u] = IF u = t THEN f
                                        ELSE IF u \in N THEN "READY" ELSE state[u]
        /\ ready' = (ready \ {t}) \cup N
        /\ UNCHANGED waiting_for_retry
    BY DEF Succeed
  <1> HIDE DEF N
  <1>4. \A u \in Tasks : state'[u] = "READY"
                            <=> (state[u] = "READY" /\ u # t) \/ u \in N
    BY <1>1, <1>2, <1>3 DEF SuccessLike
  <1>5. ReadyExact'
    BY <1>1, <1>2, <1>3, <1>4 DEF ReadyExact
  <1>6. Running' = Running \ {t}
    BY <1>1, <1>2, <1>3 DEF Running, SuccessLike
  <1> QED BY <1>1, <1>5, <1>6

(* begin_cancel empties the queue and the timers.                          *)
LEMMA ReadyCancel ==
    ASSUME TypeOK, ReadyExact, BeginCancel
    PROVE  ReadyExact' /\ Running' = Running /\ cancelling'
  <1>1. \A t \in Tasks :
          state'[t] = IF state[t] \in {"PENDING", "READY"} THEN "CANCELLED"
                      ELSE state[t]
    BY DEF BeginCancel, ReadyExact
  <1>2. ready' = {} /\ waiting_for_retry' = {} /\ cancelling'
    BY DEF BeginCancel
  <1> QED BY <1>1, <1>2 DEF ReadyExact, Running

-----------------------------------------------------------------------------
(* The outcome "cancelled" *)

(* It stays away while other threads queue events ...                      *)
LEMMA CancelledPush ==
    ASSUME TypeOK, CancelledInv, NEW e \in Event, events' = Append(events, e),
           e.type = "finished" /\ e.outcome = "cancelled" => cancelling,
           term' \subseteq term, UNCHANGED <<cancelling, batch>>
    PROVE  CancelledInv'
  <1>1. events \in Seq(Event)
    BY DEF TypeOK
  <1>2. \A i \in Queued(events') : \/ i \in Queued(events) /\ events'[i] = events[i]
                                   \/ e.type = "finished" /\ events'[i] = e
    BY <1>1, AppendQueued DEF Queued
  <1> QED BY <1>2 DEF CancelledInv

(* ... and while the batch is handled.                                     *)
LEMMA CancelledNext ==
    ASSUME TypeOK, CancelledInv, NEW type, NextEvent(type),
           UNCHANGED <<cancelling, events, term>>
    PROVE  CancelledInv'
  <1>1. batch \in Seq(Event) /\ batch # <<>> /\ batch' = Tail(batch)
    BY DEF TypeOK, NextEvent
  <1>2. \A i \in Queued(batch') : i + 1 \in Queued(batch) /\ batch'[i] = batch[i + 1]
    BY <1>1, TailQueued
  <1> QED BY <1>2 DEF CancelledInv

(* Without a cancellation no result is one.                                *)
LEMMA CancelledKind ==
    ASSUME TypeOK, CancelledInv, ~cancelling, NEW t, NEW f, NEW kind,
           ProcessFinished(t, f, kind)
    PROVE  kind # "cancelled"
  <1>1. batch \in Seq(Event) /\ batch # <<>> /\ Head(batch).type = "finished"
    BY DEF TypeOK, ProcessFinished, NextEvent
  <1>2. Head(batch) = batch[1] /\ 1 \in Queued(batch) /\ 1 \in DOMAIN batch
    BY <1>1, TailQueued DEF Queued
  <1>3. Head(batch).outcome # "cancelled" /\ Head(batch).outcome \in ProcessOutcome
    <2>1. Head(batch).outcome \in Outcomes
      BY <1>1, <1>2, EventFields
    <2> QED BY <1>2, <2>1, ConfigAssumption DEF CancelledInv
  <1> QED BY <1>3 DEF ProcessFinished, Classify, ProcessOutcome

-----------------------------------------------------------------------------
(* The inductive invariant holds *)

(* It holds before run().                                                  *)
LEMMA IInvInit == Init => IInv
  <1> SUFFICES ASSUME Init PROVE IInv
    OBVIOUS
  <1>1. TypeOK
    BY TypeInit
  <1>2. Running = {} /\ Cardinality(Running) = 0
    BY FS_EmptySet DEF Init, Running
  <1>3. MaxConcurrency \in Int /\ MaxConcurrency >= 0
    BY ConfigAssumption DEF MaxConcurrency
  <1>4. SlotsAccounted
    BY <1>2, <1>3 DEF Init, SlotsAccounted
  <1>5. OneReportPerAttempt
    BY <1>2, EmptyReports DEF Init, OneReportPerAttempt
  <1>6. RemainingExact
    <2> SUFFICES ASSUME NEW t \in Tasks
                 PROVE  remaining_deps[t] =
                          Cardinality({d \in Deps[t] : state[d] \notin SuccessLike})
      BY DEF RemainingExact
    <2>1. Deps[t] = {d \in Deps[t] : state[d] \notin SuccessLike}
      BY DepsAssumption DEF Init, SuccessLike
    <2> QED BY <2>1 DEF Init
  <1>7. ControlInv /\ ReadyExact /\ DepsSucceeded /\ SkippedInv
    BY DEF Init, ControlInv, ReadyExact, DepsSucceeded, SkippedInv
  <1>8. PendingInv
    BY DepsAssumption DEF Init, PendingInv
  <1>9. CancelledInv
    BY DEF Init, CancelledInv, Queued
  <1> QED BY <1>1, <1>4, <1>5, <1>6, <1>7, <1>8, <1>9 DEF IInv

(* Every step keeps it.                                                    *)
LEMMA IInvStep == IInv /\ [Next]_vars => IInv'
  <1> SUFFICES ASSUME IInv, [Next]_vars PROVE IInv'
    OBVIOUS
  <1> DEFINE Parts == ControlInv /\ ReadyExact /\ RunInv /\ GraphInv /\ CancelledInv
  <1>1. TypeOK /\ ControlInv /\ ReadyExact /\ RunInv /\ GraphInv /\ CancelledInv
    BY DEF IInv, RunInv, GraphInv
  <1> SUFFICES Parts'
    BY <1>1, TypeStep DEF IInv, RunInv, GraphInv
  <1>2. CASE Start
    <2>1. GraphInv'
      BY <1>1, <1>2, GraphStart
    <2>2. /\ \A t \in Tasks :
               /\ state[t] = "PENDING"
               /\ state'[t] = IF remaining_deps[t] = 0 THEN "READY" ELSE "PENDING"
          /\ ready = {} /\ waiting_for_retry = {} /\ batch = <<>>
          /\ ready' = {t \in Tasks : remaining_deps[t] = 0}
          /\ pc' = "check"
          /\ UNCHANGED <<waiting_for_retry, attempts_made, live, events, batch, term,
                         running_count, has_reservation, cancelling>>
      BY <1>1, <1>2 DEF Start, ControlInv, ReadyExact
    <2>3. Running' = Running
      BY <2>2 DEF Running
    <2>4. RunInv'
      BY <1>1, <2>2, <2>3, RunSame
    <2>5. ReadyExact' /\ ControlInv' /\ CancelledInv'
      BY <1>1, <2>2 DEF ReadyExact, ControlInv, CancelledInv
    <2> QED BY <2>1, <2>4, <2>5
  <1>3. CASE CheckCancel
    <2>1. /\ pc = "check" /\ pc' = "launch"
          /\ UNCHANGED <<events, batch, live>>
          /\ BeginCancel \/ UNCHANGED <<sched, term>>
      BY <1>3 DEF CheckCancel
    <2>2. CASE BeginCancel
      <3>1. ReadyExact' /\ Running' = Running /\ cancelling'
        BY <1>1, <2>2, ReadyCancel
      <3>2. GraphInv'
        BY <1>1, <2>1, <2>2, GraphCancel
      <3>3. UNCHANGED <<attempts_made, running_count, has_reservation>>
        BY <2>2 DEF BeginCancel
      <3>4. RunInv'
        BY <1>1, <2>1, <3>1, <3>3, RunSame
      <3>5. ControlInv' /\ CancelledInv'
        BY <1>1, <2>1, <3>1 DEF ControlInv, CancelledInv
      <3> QED BY <3>1, <3>2, <3>4, <3>5
    <2>3. CASE UNCHANGED <<sched, term>>
      <3>1. RunInv'
        BY <1>1, <2>1, <2>3, RunSame DEF sched, Running
      <3>2. GraphInv'
        BY <1>1, <2>1, <2>3, GraphSame DEF sched
      <3>3. ControlInv' /\ CancelledInv' /\ ReadyExact'
        BY <1>1, <2>1, <2>3 DEF ControlInv, CancelledInv, ReadyExact, sched
      <3> QED BY <3>1, <3>2, <3>3
    <2> QED BY <2>1, <2>2, <2>3
  <1>4. ASSUME NEW R, R \subseteq ready, FailAndSkip(R), ~cancelling, pc = "launch",
               UNCHANGED <<pc, has_reservation, running_count, events, batch, live, term>>
        PROVE  Parts'
    <2>1. /\ ReadyExact' /\ Running' = Running \ R /\ R \in SUBSET Tasks
          /\ \A r \in R : state[r] \in {"READY", "RUNNING"}
      BY <1>1, <1>4, ReadyFail
    <2>2. Running' = Running
      BY <1>1, <1>4, <2>1 DEF ReadyExact, Running
    <2>3. UNCHANGED <<attempts_made, cancelling>>
      BY <1>4 DEF FailAndSkip
    <2>4. RunInv'
      BY <1>1, <1>4, <2>2, <2>3, RunSame
    <2>5. GraphInv'
      BY <1>1, <1>4, <2>1, GraphFail
    <2>6. ControlInv' /\ CancelledInv'
      BY <1>1, <1>4, <2>3 DEF ControlInv, CancelledInv
    <2> QED BY <2>1, <2>4, <2>5, <2>6
  <1>5. ASSUME NEW t \in Tasks, StartMissingInput(t) PROVE Parts'
    <2>1. /\ {t} \subseteq ready /\ FailAndSkip({t}) /\ ~cancelling /\ pc = "launch"
          /\ UNCHANGED <<pc, has_reservation, running_count, events, batch, live, term>>
      BY <1>5 DEF StartMissingInput, Tried
    <2> QED BY <2>1, <1>4
  <1>6. CASE SafetyNet
    <2>1. /\ ready \subseteq ready /\ FailAndSkip(ready) /\ ~cancelling /\ pc = "launch"
          /\ UNCHANGED <<pc, has_reservation, running_count, events, batch, live, term>>
      BY <1>6 DEF SafetyNet, Stuck
    <2> QED BY <2>1, <1>4
  <1>7. ASSUME NEW t \in Tasks, StartCached(t) PROVE Parts'
    <2>1. /\ t \in ready /\ Succeed(t, "CACHED") /\ "CACHED" \in SuccessLike
          /\ pc = "launch"
          /\ UNCHANGED <<pc, has_reservation, running_count, events, batch, live, term>>
      BY <1>7 DEF StartCached, Tried, SuccessLike
    <2>2. /\ ReadyExact' /\ Running' = Running \ {t}
          /\ state[t] \in {"READY", "RUNNING"}
      BY <1>1, <2>1, ReadySucceed
    <2>3. Running' = Running
      BY <1>1, <2>1, <2>2 DEF ReadyExact, Running
    <2>4. UNCHANGED <<attempts_made, cancelling>>
      BY <2>1 DEF Succeed
    <2>5. RunInv'
      BY <1>1, <2>1, <2>3, <2>4, RunSame
    <2>6. GraphInv'
      BY <1>1, <2>1, <2>2, GraphSucceed
    <2>7. ControlInv' /\ CancelledInv'
      BY <1>1, <2>1, <2>4 DEF ControlInv, CancelledInv
    <2> QED BY <2>2, <2>5, <2>6, <2>7
  <1>8. ASSUME NEW t \in Tasks, StartProcess(t) PROVE Parts'
    <2>1. /\ t \in ready /\ ~cancelling /\ pc = "launch"
          /\ state' = [state EXCEPT ![t] = "RUNNING"] /\ ready' = ready \ {t}
          /\ UNCHANGED <<pc, remaining_deps, waiting_for_retry, cancelling, events,
                         batch, term>>
      BY <1>8 DEF StartProcess, Tried
    <2>2. state[t] = "READY"
      BY <1>1, <2>1 DEF ReadyExact
    <2>3. RunInv'
      BY <1>1, <1>8, <2>2, RunStart
    <2>4. GraphInv'
      BY <1>1, <2>1, <2>2, GraphOneTask
    <2>5. \A u \in Tasks : state'[u] = IF u = t THEN "RUNNING" ELSE state[u]
      BY <1>1, <2>1 DEF TypeOK
    <2>6. ReadyExact'
      BY <1>1, <2>1, <2>5 DEF ReadyExact
    <2>7. ControlInv' /\ CancelledInv'
      BY <1>1, <2>1 DEF ControlInv, CancelledInv
    <2> QED BY <2>3, <2>4, <2>6, <2>7
  <1>9. ASSUME pc # "new", pc' # "new", pc' \in {"finish", "done"} => AllSettled,
               UNCHANGED <<sched, events, batch, live, term>>,
               batch = <<>>
        PROVE  Parts'
    <2>1. RunInv'
      BY <1>1, <1>9, RunSame DEF sched, Running
    <2>2. GraphInv'
      BY <1>1, <1>9, GraphSame DEF sched
    <2>3. ControlInv' /\ CancelledInv' /\ ReadyExact'
      BY <1>1, <1>9 DEF ControlInv, CancelledInv, ReadyExact, AllSettled,
                        NobodyWaits, sched
    <2> QED BY <2>1, <2>2, <2>3
  <1>10. CASE EndLaunch \/ Timeout \/ SpuriousWake
    <2>1. /\ pc # "new" /\ pc' # "new"
          /\ pc' \in {"finish", "done"} => AllSettled
          /\ UNCHANGED <<sched, events, batch, live, term>> /\ pc # "handle"
      BY <1>10 DEF EndLaunch, Timeout, SpuriousWake, NotifyAll
    <2> QED BY <1>1, <1>9, <2>1 DEF ControlInv
  <1>11. ASSUME pc # "new", pc # "handle", TakeBatch, UNCHANGED <<sched, live, term>>
         PROVE  Parts'
    <2>1. batch = <<>>
      BY <1>1, <1>11 DEF ControlInv
    <2>2. RunInv'
      BY <1>1, <1>11, <2>1, RunTakeBatch
    <2>3. GraphInv'
      BY <1>1, <1>11, GraphSame DEF sched, TakeBatch
    <2>4. ControlInv' /\ CancelledInv' /\ ReadyExact'
      BY <1>1, <1>11 DEF ControlInv, CancelledInv, ReadyExact, sched, TakeBatch, Queued
    <2> QED BY <2>2, <2>3, <2>4
  <1>12. CASE Wait
    <2>1. \/ pc # "new" /\ pc # "handle" /\ TakeBatch /\ UNCHANGED <<sched, live, term>>
          \/ /\ pc # "new" /\ pc' # "new" /\ pc' \notin {"finish", "done"}
             /\ UNCHANGED <<sched, events, batch, live, term>> /\ pc # "handle"
      BY <1>12 DEF Wait
    <2> QED BY <1>1, <1>9, <1>11, <2>1 DEF ControlInv
  <1>13. CASE Swap
    BY <1>11, <1>13 DEF Swap
  <1>14. CASE HandleCancel
    <2>1. /\ NextEvent("cancel") /\ pc = "handle"
          /\ UNCHANGED <<pc, events, live>>
          /\ BeginCancel \/ UNCHANGED <<sched, term>>
      BY <1>14 DEF HandleCancel, NextEvent
    <2>2. CASE BeginCancel
      <3>1. ReadyExact' /\ Running' = Running /\ cancelling'
        BY <1>1, <2>2, ReadyCancel
      <3>2. GraphInv'
        BY <1>1, <2>1, <2>2, GraphCancel
      <3>3. UNCHANGED <<attempts_made, running_count, has_reservation>>
        BY <2>2 DEF BeginCancel
      <3>4. RunInv'
        BY <1>1, <2>1, <3>1, <3>3, RunNextOther
      <3>5. ControlInv' /\ CancelledInv'
        BY <1>1, <2>1, <3>1 DEF ControlInv, CancelledInv
      <3> QED BY <3>1, <3>2, <3>4, <3>5
    <2>3. CASE UNCHANGED <<sched, term>>
      <3>1. Running' = Running /\ UNCHANGED <<attempts_made, running_count,
                                              has_reservation, cancelling>>
        BY <2>3 DEF sched, Running
      <3>2. RunInv'
        BY <1>1, <2>1, <3>1, RunNextOther
      <3>3. GraphInv'
        BY <1>1, <2>1, <2>3, GraphSame DEF sched
      <3>4. CancelledInv'
        BY <1>1, <2>1, <2>3, <3>1, CancelledNext
      <3>5. ControlInv' /\ ReadyExact'
        BY <1>1, <2>1, <2>3 DEF ControlInv, ReadyExact, sched
      <3> QED BY <3>2, <3>3, <3>4, <3>5
    <2> QED BY <2>1, <2>2, <2>3
  <1>15. CASE HandleLog
    <2>1. /\ NextEvent("log") /\ pc = "handle"
          /\ UNCHANGED <<pc, sched, events, live, term>>
      BY <1>15 DEF HandleLog, NextEvent
    <2>2. Running' = Running /\ UNCHANGED <<attempts_made, running_count,
                                            has_reservation, cancelling>>
      BY <2>1 DEF sched, Running
    <2>3. RunInv'
      BY <1>1, <2>1, <2>2, RunNextOther
    <2>4. GraphInv'
      BY <1>1, <2>1, GraphSame DEF sched
    <2>5. CancelledInv'
      BY <1>1, <2>1, <2>2, CancelledNext
    <2>6. ControlInv' /\ ReadyExact'
      BY <1>1, <2>1 DEF ControlInv, ReadyExact, sched
    <2> QED BY <2>3, <2>4, <2>5, <2>6
  <1>16. ASSUME NEW t, NEW f, NEW kind, ProcessFinished(t, f, kind)
         PROVE  /\ t \in Running /\ pc = "handle" /\ pc' = "handle"
                /\ UNCHANGED cancelling => CancelledInv' /\ ControlInv'
    <2>1. t \in Running
      BY <1>1, <1>16, FinishedRunning
    <2>2. /\ NextEvent("finished") /\ pc = "handle" /\ pc' = "handle"
          /\ UNCHANGED <<events, term>>
      BY <1>16 DEF ProcessFinished, NextEvent
    <2>3. UNCHANGED cancelling => CancelledInv'
      BY <1>1, <2>2, CancelledNext
    <2>4. ControlInv'
      BY <2>2 DEF ControlInv
    <2> QED BY <2>1, <2>2, <2>3, <2>4
  <1>17. ASSUME NEW t \in Tasks, HandleSuccess(t) PROVE Parts'
    <2>1. ProcessFinished(t, "SUCCEEDED", "succeeded") /\ Succeed(t, "SUCCEEDED")
      BY <1>17 DEF HandleSuccess
    <2>2. UNCHANGED <<attempts_made, cancelling>> /\ "SUCCEEDED" \in SuccessLike
      BY <2>1 DEF Succeed, SuccessLike
    <2>3. t \in Running /\ pc = "handle" /\ pc' = "handle" /\ CancelledInv' /\ ControlInv'
      BY <2>1, <2>2, <1>16
    <2>4. /\ ReadyExact' /\ Running' = Running \ {t}
          /\ state[t] \in {"READY", "RUNNING"}
      BY <1>1, <2>1, <2>2, <2>3, ReadySucceed
    <2>5. RunInv'
      BY <1>1, <2>1, <2>2, <2>4, RunFinished
    <2>6. GraphInv'
      BY <1>1, <2>1, <2>2, <2>3, <2>4, GraphSucceed
    <2> QED BY <2>3, <2>4, <2>5, <2>6
  <1>18. ASSUME NEW t \in Tasks, NEW kind \in ResultKind, HandleCancelled(t, kind)
         PROVE  Parts'
    <2>1. /\ ProcessFinished(t, "FAILED", kind)
          /\ cancelling \/ kind = "cancelled"
          /\ state' = [state EXCEPT ![t] = "CANCELLED"]
          /\ UNCHANGED <<remaining_deps, attempts_made, waiting_for_retry, ready,
                         cancelling>>
      BY <1>18 DEF HandleCancelled
    <2>2. cancelling
      BY <1>1, <2>1, CancelledKind
    <2>3. t \in Running /\ pc = "handle" /\ pc' = "handle" /\ CancelledInv' /\ ControlInv'
      BY <2>1, <1>16
    <2>4. \A u \in Tasks : state'[u] = IF u = t THEN "CANCELLED" ELSE state[u]
      BY <1>1, <2>1 DEF TypeOK
    <2>5. Running' = Running \ {t} /\ state[t] = "RUNNING"
      BY <2>3, <2>4 DEF Running
    <2>6. ReadyExact'
      BY <1>1, <2>1, <2>4, <2>5 DEF ReadyExact
    <2>7. RunInv'
      BY <1>1, <2>1, <2>5, RunFinished
    <2>8. GraphInv'
      BY <1>1, <2>1, <2>2, <2>3, <2>5, GraphOneTask DEF TypeOK
    <2> QED BY <2>3, <2>6, <2>7, <2>8
  <1>19. ASSUME NEW t \in Tasks, NEW kind \in ResultKind, HandleRetry(t, kind)
         PROVE  Parts'
    <2>1. /\ ProcessFinished(t, "FAILED", kind) /\ ~cancelling
          /\ state' = [state EXCEPT ![t] = "READY"]
          /\ UNCHANGED <<remaining_deps, attempts_made, cancelling>>
      BY <1>19 DEF HandleRetry
    <2>2. t \in Running /\ pc = "handle" /\ pc' = "handle" /\ CancelledInv' /\ ControlInv'
      BY <2>1, <1>16
    <2>3. \A u \in Tasks : state'[u] = IF u = t THEN "READY" ELSE state[u]
      BY <1>1, <2>1 DEF TypeOK
    <2>4. Running' = Running \ {t} /\ state[t] = "RUNNING"
      BY <2>2, <2>3 DEF Running
    <2>5. PICK back \in SUBSET (waiting_for_retry \cup {t}) :
            /\ ready' = ready \cup back
            /\ waiting_for_retry' = (waiting_for_retry \cup {t}) \ back
      BY <1>19 DEF HandleRetry, Promote
    <2>6. ReadyExact'
      BY <1>1, <2>3, <2>4, <2>5 DEF ReadyExact
    <2>7. RunInv'
      BY <1>1, <2>1, <2>4, RunFinished
    <2>8. GraphInv'
      BY <1>1, <2>1, <2>2, <2>4, GraphOneTask
    <2> QED BY <2>2, <2>6, <2>7, <2>8
  <1>20. ASSUME NEW t \in Tasks, NEW kind \in ResultKind, HandleFailure(t, kind)
         PROVE  Parts'
    <2>1. ProcessFinished(t, "FAILED", kind) /\ ~cancelling /\ FailAndSkip({t})
      BY <1>20 DEF HandleFailure
    <2>2. UNCHANGED <<attempts_made, cancelling>>
      BY <2>1 DEF FailAndSkip
    <2>3. t \in Running /\ pc = "handle" /\ pc' = "handle" /\ CancelledInv' /\ ControlInv'
      BY <2>1, <2>2, <1>16
    <2>4. {t} \subseteq Running /\ {t} \in SUBSET Tasks
      BY <2>3
    <2>5. /\ ReadyExact' /\ Running' = Running \ {t}
          /\ \A r \in {t} : state[r] \in {"READY", "RUNNING"}
      BY <1>1, <2>1, <2>4, ReadyFail
    <2>6. RunInv'
      BY <1>1, <2>1, <2>2, <2>5, RunFinished
    <2>7. GraphInv'
      BY <1>1, <2>1, <2>3, <2>4, <2>5, GraphFail
    <2> QED BY <2>3, <2>5, <2>6, <2>7
  <1>21. CASE EndRound
    <2>1. /\ pc = "handle" /\ batch = <<>> /\ pc' = "check"
          /\ UNCHANGED <<state, remaining_deps, attempts_made, has_reservation,
                         running_count, cancelling, events, batch, live, term>>
      BY <1>21 DEF EndRound
    <2>2. PICK back \in SUBSET waiting_for_retry :
            /\ ready' = ready \cup back
            /\ waiting_for_retry' = waiting_for_retry \ back
      BY <1>21 DEF EndRound, Promote
    <2>3. RunInv'
      BY <1>1, <2>1, RunSame DEF Running
    <2>4. GraphInv'
      BY <1>1, <2>1, GraphSame
    <2>5. ReadyExact'
      BY <1>1, <2>1, <2>2 DEF ReadyExact
    <2>6. ControlInv' /\ CancelledInv'
      BY <1>1, <2>1 DEF ControlInv, CancelledInv
    <2> QED BY <2>3, <2>4, <2>5, <2>6
  <1>22. CASE Finish
    <2>1. /\ pc = "finish" /\ pc' = "done" /\ events' = <<>>
          /\ UNCHANGED <<sched, batch, live, term>>
      BY <1>22 DEF Finish
    <2>2. Running = {} /\ Running' = Running
      <3>1. Cardinality(Running) = 0
        BY <1>1, <2>1 DEF ControlInv, AllSettled, RunInv, SlotsAccounted
      <3> QED BY <2>1, <3>1, RunningFinite, FS_EmptySet DEF sched, Running
    <2>3. RunInv'
      <3>1. ReportsSound(<<>>, Running, attempts_made)
        BY EmptyReports
      <3> QED BY <1>1, <2>1, <2>2, <3>1
              DEF RunInv, OneReportPerAttempt, SlotsAccounted, sched
    <2>4. GraphInv'
      BY <1>1, <2>1, GraphSame DEF sched
    <2>5. ControlInv' /\ CancelledInv' /\ ReadyExact'
      BY <1>1, <2>1 DEF ControlInv, CancelledInv, ReadyExact, AllSettled,
                        NobodyWaits, sched, Queued
    <2> QED BY <2>3, <2>4, <2>5
  <1>23. ASSUME UNCHANGED <<sched, batch>>, pc' = NotifyAll \/ pc' = pc,
                GraphInv', CancelledInv', RunInv'
         PROVE  Parts'
    BY <1>1, <1>23 DEF ControlInv, ReadyExact, AllSettled, NobodyWaits, sched, NotifyAll
  <1>24. ASSUME UNCHANGED sched, pc' = NotifyAll \/ pc' = pc PROVE GraphInv'
    BY <1>1, <1>24, GraphSame DEF sched, NotifyAll
  <1>25. ASSUME NEW p \in live, LogLine(p) PROVE Parts'
    <2> DEFINE e == [type |-> "log", node |-> p[1], attempt |-> p[2]]
    <2>1. e \in Event /\ e.type # "finished"
      BY <1>1 DEF TypeOK, Event
    <2>2. /\ events' = Append(events, e) /\ pc' = NotifyAll
          /\ UNCHANGED <<sched, batch, live, term>>
      BY <1>25 DEF LogLine, PushEvent
    <2> HIDE DEF e
    <2>3. RunInv'
      BY <1>1, <2>1, <2>2, RunPushOther
    <2>4. CancelledInv'
      BY <1>1, <2>1, <2>2, CancelledPush DEF sched
    <2> QED BY <1>23, <1>24, <2>2, <2>3, <2>4
  <1>26. ASSUME NEW p \in live, NEW o \in Outcomes, ProcessExit(p, o) PROVE Parts'
    <2> DEFINE e == [type |-> "finished", node |-> p[1], attempt |-> p[2],
                     outcome |-> o]
    <2>1. /\ e \in Event
          /\ e.outcome = "cancelled" => cancelling
      BY <1>1, <1>26 DEF TypeOK, Event, ProcessExit, CancelledInv
    <2>2. /\ events' = Append(events, e) /\ pc' = NotifyAll
          /\ UNCHANGED <<sched, batch>> /\ term' \subseteq term
      BY <1>26 DEF ProcessExit, PushEvent
    <2> HIDE DEF e
    <2>3. RunInv'
      BY <1>1, <1>26, RunExit
    <2>4. CancelledInv'
      BY <1>1, <2>1, <2>2, CancelledPush DEF sched
    <2> QED BY <1>23, <1>24, <2>2, <2>3, <2>4
  <1>27. ASSUME NEW t \in Tasks, Elapse(t) PROVE Parts'
    <2>1. UNCHANGED <<pc, state, remaining_deps, attempts_made, waiting_for_retry,
                      has_reservation, ready, running_count, cancelling, events,
                      batch, live, term>>
      BY <1>27 DEF Elapse
    <2>2. RunInv' /\ GraphInv'
      BY <1>1, <2>1, RunSame, GraphSame DEF Running
    <2>3. ControlInv' /\ CancelledInv' /\ ReadyExact'
      BY <1>1, <2>1 DEF ControlInv, CancelledInv, ReadyExact, AllSettled, NobodyWaits
    <2> QED BY <2>2, <2>3
  <1>28. ASSUME UNCHANGED <<pc, sched, events, batch, live, term>> PROVE Parts'
    <2>1. RunInv'
      BY <1>1, <1>28, RunSame DEF sched, Running
    <2>2. CancelledInv'
      BY <1>1, <1>28 DEF CancelledInv, sched
    <2> QED BY <1>23, <1>24, <1>28, <2>1, <2>2
  <1>29. ASSUME NEW c \in Callers, CancelStore(c) PROVE Parts'
    BY <1>28, <1>29 DEF CancelStore
  <1>30. ASSUME NEW c \in Callers, CancelPush(c) PROVE Parts'
    <2> DEFINE e == [type |-> "cancel"]
    <2>1. e \in Event /\ e.type # "finished"
      BY DEF Event
    <2>2. /\ events' = Append(events, e) /\ pc' = NotifyAll
          /\ UNCHANGED <<sched, batch, live, term>>
      BY <1>30 DEF CancelPush, PushEvent
    <2> HIDE DEF e
    <2>3. RunInv'
      BY <1>1, <2>1, <2>2, RunPushOther
    <2>4. CancelledInv'
      BY <1>1, <2>1, <2>2, CancelledPush DEF sched
    <2> QED BY <1>23, <1>24, <2>2, <2>3, <2>4
  <1>31. CASE UNCHANGED vars
    BY <1>28, <1>31 DEF vars
  <1> HIDE DEF Parts
  <1> QED
    BY <1>2, <1>3, <1>5, <1>6, <1>7, <1>8, <1>10, <1>12, <1>13, <1>14, <1>15,
       <1>17, <1>18, <1>19, <1>20, <1>21, <1>22, <1>25, <1>26, <1>27, <1>29,
       <1>30, <1>31
       DEF Next, SchedulerStep, Returned

(* The inductive invariant holds in every reachable state.                 *)
THEOREM Inductive == Spec => []IInv
  BY IInvInit, IInvStep, PTL DEF Spec

-----------------------------------------------------------------------------
(* What follows from it *)

(* For every pipeline, every capacity and every number of callers: each    *)
(* RUNNING task has exactly one report outstanding.                        *)
THEOREM ReportsAlwaysSound == Spec => []OneReportPerAttempt
  <1>1. IInv => OneReportPerAttempt
    BY DEF IInv
  <1> QED BY Inductive, <1>1, PTL

(* The concurrency limit is kept and no slot or reservation leaks.         *)
THEOREM SlotsAlwaysAccounted == Spec => []SlotsAccounted
  <1>1. IInv => SlotsAccounted
    BY DEF IInv
  <1> QED BY Inductive, <1>1, PTL

(* The ready queue and the backoff timers hold exactly the READY tasks.    *)
THEOREM ReadyAlwaysExact == Spec => []ReadyExact
  <1>1. IInv => ReadyExact
    BY DEF IInv
  <1> QED BY Inductive, <1>1, PTL

(* Dependency order: nothing is started before all it depends on has       *)
(* succeeded, and the counters that decide it are exact.                   *)
THEOREM DependencyOrder == Spec => []DependenciesExact
  <1>1. IInv => DependenciesExact
    BY DEF IInv, DependenciesExact
  <1> QED BY Inductive, <1>1, PTL

(* Failure reaches exactly the tasks downstream of it.                     *)
THEOREM FailureIsBranchLocal == Spec => []SkippedIffBlocked
  <1>1. ASSUME IInv PROVE SkippedIffBlocked
    <2> SUFFICES ASSUME ~cancelling, NEW t \in Tasks
                 PROVE  state[t] = "SKIPPED"
                          <=> \E d \in Deps[t] : state[d] \in {"FAILED", "SKIPPED"}
      BY DEF SkippedIffBlocked
    <2>1. state[t] = "SKIPPED" => \E d \in Deps[t] : state[d] \in {"FAILED", "SKIPPED"}
      BY <1>1 DEF IInv, SkippedInv
    <2>2. ASSUME NEW d \in Deps[t], state[d] \in {"FAILED", "SKIPPED"}
          PROVE  state[t] = "SKIPPED"
      <3>1. state[t] \in TaskState
        BY <1>1 DEF IInv, TypeOK
      <3>2. state[t] \notin {"READY", "RUNNING", "SUCCEEDED", "FAILED", "CACHED"}
        BY <1>1, <2>2 DEF IInv, DepsSucceeded, SuccessLike
      <3>3. state[t] \notin {"PENDING", "CANCELLED"}
        BY <1>1, <2>2 DEF IInv, PendingInv
      <3> QED BY <3>1, <3>2, <3>3 DEF TaskState
    <2> QED BY <2>1, <2>2
  <1> QED BY Inductive, <1>1, PTL

(* When the loop has ended, nobody runs, is ready or waits for a retry.    *)
LEMMA NobodyLeft ==
    ASSUME IInv, pc \in {"finish", "done"}
    PROVE  Running = {} /\ \A t \in Tasks : state[t] \notin {"READY", "RUNNING"}
  <1>1. running_count = 0 /\ ready = {} /\ waiting_for_retry = {}
    BY DEF IInv, ControlInv, AllSettled, NobodyWaits
  <1>2. Cardinality(Running) = 0
    BY <1>1 DEF IInv, SlotsAccounted
  <1>3. Running = {}
    BY <1>2, RunningFinite, FS_EmptySet
  <1>4. \A t \in Tasks : state[t] # "READY"
    BY <1>1 DEF IInv, ReadyExact
  <1> QED BY <1>3, <1>4 DEF Running

(* all_settled() ignores PENDING tasks, and may: in an acyclic pipeline    *)
(* there are none left.  A PENDING task that depends on no other PENDING   *)
(* one would have a dependency that is neither successful nor able to      *)
(* succeed, and every such dependency has settled the task already.        *)
LEMMA SettledTerminal == ASSUME IInv PROVE AllTerminalWhenDone
  <1> SUFFICES ASSUME pc \in {"finish", "done"}, NEW u \in Tasks
               PROVE  state[u] \in Terminal
    BY DEF AllTerminalWhenDone
  <1> DEFINE P == {t \in Tasks : state[t] = "PENDING"}
  <1>1. \A t \in Tasks : state[t] \notin {"READY", "RUNNING"} /\ state[t] \in TaskState
    BY NobodyLeft DEF IInv, TypeOK
  <1>2. P = {}
    <2> SUFFICES ASSUME P # {} PROVE FALSE
      OBVIOUS
    <2>1. PICK t \in P : Deps[t] \cap P = {}
      BY DepsAssumption
    <2>2. remaining_deps[t] # 0
      BY <2>1 DEF IInv, PendingInv
    <2>3. PICK d \in Deps[t] : state[d] \notin SuccessLike
      BY <2>1, <2>2, RemainingZero DEF IInv
    <2>4. d \in Tasks /\ state[d] # "PENDING"
      BY <2>1, <2>3, DepsAssumption
    <2>5. state[d] \notin {"FAILED", "SKIPPED"}
      BY <2>1, <2>3 DEF IInv, PendingInv
    <2>6. state[d] = "CANCELLED"
      BY <1>1, <2>3, <2>4, <2>5 DEF TaskState, SuccessLike
    <2> QED BY <2>1, <2>4, <2>6 DEF IInv, PendingInv
  <1> QED BY <1>1, <1>2 DEF TaskState, Terminal

(* When run() returns, every task of the pipeline is in a terminal state.  *)
THEOREM EveryTaskEnds == Spec => []AllTerminalWhenDone
  BY Inductive, SettledTerminal, PTL

(* The drain after the loop finds no result and leaves no child behind.    *)
THEOREM NothingIsDropped == Spec => []FinishDropsNothing
  <1>1. ASSUME IInv PROVE FinishDropsNothing
    <2> SUFFICES ASSUME pc \in {"finish", "done"}
                 PROVE  live = {} /\ Queued(events) = {} /\ batch = <<>>
      BY DEF FinishDropsNothing
    <2>1. Running = {}
      BY <1>1, NobodyLeft
    <2>2. \A p \in live : p[1] \in Running
      BY <1>1 DEF IInv, OneReportPerAttempt
    <2>3. \A i \in Queued(events) : events[i].node \in Running
      BY <1>1 DEF IInv, OneReportPerAttempt, ReportsSound
    <2>4. batch = <<>>
      BY <1>1 DEF IInv, ControlInv
    <2> QED BY <2>1, <2>2, <2>3, <2>4
  <1> QED BY Inductive, <1>1, PTL

(* Once a run is being cancelled every live child has been asked to        *)
(* terminate: a child appears only while the run is not being cancelled,   *)
(* and begin_cancel's handles are those of all live children, since each   *)
(* of them is the current attempt of a RUNNING task.                       *)
THEOREM CancelIsComplete == Spec => []CancelReachesEveryChild
  <1>1. Init => CancelReachesEveryChild
    BY DEF Init, CancelReachesEveryChild
  <1>2. ASSUME IInv, CancelReachesEveryChild, [Next]_vars
        PROVE  CancelReachesEveryChild'
    <2>1. ASSUME BeginCancel, UNCHANGED live PROVE CancelReachesEveryChild'
      <3>1. \A p \in live : p[1] \in Running /\ p[2] = attempts_made[p[1]]
        BY <1>2 DEF IInv, OneReportPerAttempt
      <3> QED BY <2>1, <3>1 DEF BeginCancel, CancelReachesEveryChild
    <2>2. ASSUME UNCHANGED <<cancelling, live, term>> PROVE CancelReachesEveryChild'
      BY <1>2, <2>2 DEF CancelReachesEveryChild
    <2>3. CASE CheckCancel \/ HandleCancel
      <3>1. UNCHANGED live /\ (BeginCancel \/ UNCHANGED <<cancelling, term>>)
        BY <2>3 DEF CheckCancel, HandleCancel, sched
      <3> QED BY <2>1, <2>2, <3>1
    <2>4. ASSUME NEW t \in Tasks, StartProcess(t) PROVE CancelReachesEveryChild'
      BY <2>4 DEF StartProcess, Tried, CancelReachesEveryChild
    <2>5. ASSUME NEW p \in live, NEW o \in Outcomes, ProcessExit(p, o)
          PROVE  CancelReachesEveryChild'
      BY <1>2, <2>5 DEF ProcessExit, sched, CancelReachesEveryChild
    <2>6. CASE Start \/ SafetyNet \/ EndLaunch \/ Wait \/ Timeout \/ Swap \/ HandleLog
                 \/ EndRound \/ Finish \/ SpuriousWake \/ UNCHANGED vars
      BY <2>2, <2>6 DEF Start, SafetyNet, FailAndSkip, EndLaunch, Wait, Timeout, Swap,
         HandleLog, EndRound, Finish, SpuriousWake, vars, sched
    <2>7. ASSUME NEW t \in Tasks, StartMissingInput(t) \/ StartCached(t) \/ Elapse(t)
          PROVE  CancelReachesEveryChild'
      BY <2>2, <2>7 DEF StartMissingInput, StartCached, Elapse, FailAndSkip, Succeed
    <2>8. ASSUME NEW t \in Tasks, NEW kind \in ResultKind,
                 \/ HandleCancelled(t, kind) \/ HandleRetry(t, kind)
                 \/ HandleFailure(t, kind)
          PROVE  CancelReachesEveryChild'
      BY <2>2, <2>8 DEF HandleCancelled, HandleRetry, HandleFailure,
         ProcessFinished, FailAndSkip
    <2>9. ASSUME NEW t \in Tasks, HandleSuccess(t) PROVE CancelReachesEveryChild'
      BY <2>2, <2>9 DEF HandleSuccess, ProcessFinished, Succeed
    <2>10. ASSUME NEW p \in live, LogLine(p) PROVE CancelReachesEveryChild'
      BY <2>2, <2>10 DEF LogLine, sched
    <2>11. ASSUME NEW c \in Callers, CancelStore(c) \/ CancelPush(c)
           PROVE  CancelReachesEveryChild'
      BY <2>2, <2>11 DEF CancelStore, CancelPush, sched
    <2> QED
      BY <1>2, <2>3, <2>4, <2>5, <2>6, <2>7, <2>8, <2>9, <2>10, <2>11
         DEF Next, SchedulerStep, Returned
  <1> QED BY Inductive, <1>1, <1>2, PTL DEF Spec

(* Every task that moves does so along its lifecycle.                      *)
Legal == \A t \in Tasks : state'[t] # state[t]
            => <<state[t], state'[t]>> \in Lifecycle

(* One step of any thread moves every task along its lifecycle.            *)
LEMMA LifecycleStep ==
    ASSUME IInv, [Next]_vars PROVE Legal
  <1> USE DEF Legal
  <1>1. TypeOK /\ ReadyExact /\ RunInv /\ GraphInv /\ CancelledInv
    BY DEF IInv, RunInv, GraphInv
  <1>2. ASSUME UNCHANGED state PROVE Legal
    BY <1>2
  <1>3. ASSUME BeginCancel PROVE Legal
    BY <1>1, <1>3 DEF BeginCancel, ReadyExact, Lifecycle, ValidTransition
  <1>4. ASSUME NEW R, R \subseteq ready \/ R \subseteq Running, FailAndSkip(R)
        PROVE  Legal
    <2>1. \A r \in R : r \in Tasks /\ state[r] \in {"READY", "RUNNING"}
      BY <1>1, <1>4, ReadyFail
    <2>2. SkipSet(R) \subseteq {u \in Tasks \ R : state[u] = "PENDING"}
      BY <1>1, <2>1, SkipSetPending DEF GraphInv, SuccessLike
    <2> QED BY <1>4, <2>1, <2>2 DEF FailAndSkip, Lifecycle, ValidTransition
  <1>5. ASSUME NEW t \in Tasks, NEW f \in {"SUCCEEDED", "CACHED"}, Succeed(t, f),
               <<state[t], f>> \in Lifecycle
        PROVE  Legal
    <2>1. NewlyReady(t) \subseteq {u \in Tasks : state[u] = "PENDING"}
      BY DEF NewlyReady, Dependents
    <2> QED BY <1>5, <2>1 DEF Succeed, Lifecycle, ValidTransition
  <1>6. ASSUME NEW t \in Tasks, NEW f, state' = [state EXCEPT ![t] = f],
               <<state[t], f>> \in Lifecycle
        PROVE  Legal
    BY <1>1, <1>6 DEF TypeOK
  <1>7. ASSUME NEW t, NEW f, NEW kind, ProcessFinished(t, f, kind)
        PROVE  t \in Running /\ state[t] = "RUNNING"
    BY <1>1, <1>7, FinishedRunning DEF Running
  <1>8. CASE Start
    BY <1>8 DEF Start, IInv, ControlInv, Lifecycle, ValidTransition
  <1>9. CASE CheckCancel \/ HandleCancel
    BY <1>2, <1>3, <1>9 DEF CheckCancel, HandleCancel, sched
  <1>10. ASSUME NEW t \in Tasks, StartMissingInput(t) PROVE Legal
    <2>1. {t} \subseteq ready /\ FailAndSkip({t})
      BY <1>10 DEF StartMissingInput, Tried
    <2> QED BY <1>4, <2>1
  <1>11. CASE SafetyNet
    BY <1>4, <1>11 DEF SafetyNet
  <1>12. ASSUME NEW t \in Tasks, StartCached(t) PROVE Legal
    <2>1. state[t] = "READY" /\ Succeed(t, "CACHED")
      BY <1>1, <1>12 DEF StartCached, Tried, ReadyExact
    <2> QED BY <1>5, <2>1 DEF Lifecycle, ValidTransition
  <1>13. ASSUME NEW t \in Tasks, StartProcess(t) PROVE Legal
    <2>1. state[t] = "READY" /\ state' = [state EXCEPT ![t] = "RUNNING"]
      BY <1>1, <1>13 DEF StartProcess, Tried, ReadyExact
    <2> QED BY <1>6, <2>1 DEF Lifecycle, ValidTransition
  <1>14. ASSUME NEW t \in Tasks, HandleSuccess(t) PROVE Legal
    <2>1. state[t] = "RUNNING" /\ Succeed(t, "SUCCEEDED")
      BY <1>7, <1>14 DEF HandleSuccess
    <2> QED BY <1>5, <2>1 DEF Lifecycle, ValidTransition
  <1>15. ASSUME NEW t \in Tasks, NEW kind \in ResultKind,
                HandleCancelled(t, kind) \/ HandleRetry(t, kind)
         PROVE  Legal
    <2>1. /\ state[t] = "RUNNING"
          /\ \/ state' = [state EXCEPT ![t] = "CANCELLED"]
             \/ state' = [state EXCEPT ![t] = "READY"]
      BY <1>7, <1>15 DEF HandleCancelled, HandleRetry
    <2> QED BY <1>6, <2>1 DEF Lifecycle, ValidTransition
  <1>16. ASSUME NEW t \in Tasks, NEW kind \in ResultKind, HandleFailure(t, kind)
         PROVE  Legal
    <2>1. {t} \subseteq Running /\ FailAndSkip({t})
      BY <1>7, <1>16 DEF HandleFailure
    <2> QED BY <1>4, <2>1
  <1>17. CASE EndLaunch \/ Wait \/ Timeout \/ Swap \/ HandleLog \/ EndRound \/ Finish
                \/ SpuriousWake
    BY <1>2, <1>17 DEF EndLaunch, Wait, Timeout, Swap, HandleLog, EndRound, Finish,
       SpuriousWake, sched
  <1>18. ASSUME NEW p \in live, NEW o \in Outcomes, ProcessExit(p, o)
         PROVE  Legal
    BY <1>2, <1>18 DEF ProcessExit, sched
  <1>19. ASSUME NEW p \in live, LogLine(p) PROVE Legal
    BY <1>2, <1>19 DEF LogLine, sched
  <1>20. ASSUME NEW t \in Tasks, Elapse(t) PROVE Legal
    BY <1>2, <1>20 DEF Elapse
  <1>21. ASSUME NEW c \in Callers, CancelStore(c) \/ CancelPush(c) PROVE Legal
    BY <1>2, <1>21 DEF CancelStore, CancelPush, sched
  <1>22. CASE UNCHANGED vars
    BY <1>2, <1>22 DEF vars, sched
  <1> HIDE DEF Legal
  <1> QED
    BY <1>8, <1>9, <1>10, <1>11, <1>12, <1>13, <1>14, <1>15, <1>16, <1>17,
       <1>18, <1>19, <1>20, <1>21, <1>22
       DEF Next, SchedulerStep, Returned

(* No step of any thread moves a task outside its lifecycle; in particular *)
(* a terminal state is final.                                              *)
THEOREM LifecycleHolds == Spec => TaskLifecycle
  <1>1. ASSUME IInv, [Next]_vars PROVE [Legal]_vars
    BY <1>1, LifecycleStep
  <1> QED BY Inductive, <1>1, PTL DEF Spec, TaskLifecycle, Legal
=============================================================================

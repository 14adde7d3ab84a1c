-------------------------- MODULE SchedulerHistory --------------------------
(***************************************************************************)
(* Proofs about what the scheduler leaves behind: the attempts of a task   *)
(* and its log lines, for every pipeline, machine and retry policy.        *)
(***************************************************************************)
EXTENDS SchedulerProofs, WellFoundedInduction

-----------------------------------------------------------------------------
(* The retry budget *)

(* What the state of a task says about its attempts: none before it was    *)
(* READY, one left while it is, one at least while it is RUNNING.          *)
BudgetInv ==
    \A t \in Tasks :
        /\ attempts_made[t] <= MaxAttempts[t]
        /\ state[t] = "PENDING" => attempts_made[t] = 0
        /\ state[t] = "READY" => attempts_made[t] < MaxAttempts[t]
        /\ state[t] = "RUNNING" => attempts_made[t] >= 1
        /\ (state[t] = "FAILED" /\ attempts[t][Len(attempts[t])].kind \in Retryable)
             => attempts_made[t] = MaxAttempts[t]

(* The last attempt on record is the one just recorded.                    *)
LEMMA LastRecorded ==
    ASSUME TypeOK, NEW t \in Tasks, NEW f \in {"SUCCEEDED", "FAILED", "CACHED"},
           NEW kind \in ResultKind
    PROVE  LET h == RecordAttempt(attempts[t], t, f, kind) IN h[Len(h)].kind = kind
  <1>1. attempts[t] \in Seq(Attempt)
    BY DEF TypeOK
  <1> QED BY <1>1 DEF RecordAttempt

(* Steps after which every task is where it was, or in a state that says   *)
(* nothing about its attempts.                                             *)
LEMMA BudgetQuiet ==
    ASSUME BudgetInv, UNCHANGED attempts_made,
           \A t \in Tasks :
             \/ state'[t] = state[t] /\ attempts'[t] = attempts[t]
             \/ state'[t] \in {"SUCCEEDED", "CACHED", "SKIPPED", "CANCELLED"}
    PROVE  BudgetInv'
  BY DEF BudgetInv

(* The counters of attempts start at zero.                                 *)
LEMMA BudgetInit == Init => BudgetInv
  BY ConfigAssumption DEF Init, BudgetInv

(* Every step of every thread keeps the budget.                            *)
LEMMA BudgetStep ==
    ASSUME IInv, BudgetInv, [Next]_vars PROVE BudgetInv'
  <1>1. TypeOK /\ ReadyExact /\ RunInv /\ GraphInv /\ CancelledInv
    BY DEF IInv, RunInv, GraphInv
  <1>2. /\ state \in [Tasks -> TaskState] /\ attempts_made \in [Tasks -> Nat]
        /\ attempts \in [Tasks -> Seq(Attempt)] /\ MaxAttempts \in [Tasks -> Nat \ {0}]
    BY <1>1, ConfigAssumption DEF TypeOK
  <1>3. ASSUME UNCHANGED <<state, attempts_made, attempts>> PROVE BudgetInv'
    BY <1>3, BudgetQuiet
  <1>4. ASSUME BeginCancel PROVE BudgetInv'
    BY <1>4, BudgetQuiet DEF BeginCancel
  <1>5. ASSUME NEW R, R \subseteq ready \/ R \subseteq Running, FailAndSkip(R),
               \A t \in Tasks \ R : attempts'[t] = attempts[t],
               \A t \in R : attempts'[t][Len(attempts'[t])].kind \in Retryable
                              => attempts_made[t] = MaxAttempts[t]
        PROVE  BudgetInv'
    <2>1. R \subseteq Tasks
      BY <1>1, <1>5, ReadyFail
    <2>2. \A t \in Tasks : state'[t] = IF t \in R THEN "FAILED"
                                       ELSE IF t \in SkipSet(R) THEN "SKIPPED"
                                       ELSE state[t]
      BY <1>5 DEF FailAndSkip
    <2>3. UNCHANGED attempts_made
      BY <1>5 DEF FailAndSkip
    <2> QED BY <1>5, <2>1, <2>2, <2>3 DEF BudgetInv
  <1>6. ASSUME NEW t \in Tasks, NEW f \in SuccessLike, Succeed(t, f),
               \A u \in Tasks \ {t} : attempts'[u] = attempts[u]
        PROVE  BudgetInv'
    <2>1. \A u \in NewlyReady(t) : state[u] = "PENDING"
      BY DEF NewlyReady
    <2>2. \A u \in Tasks : state'[u] = IF u = t THEN f
                                       ELSE IF u \in NewlyReady(t) THEN "READY"
                                       ELSE state[u]
      BY <1>6 DEF Succeed
    <2>3. UNCHANGED attempts_made
      BY <1>6 DEF Succeed
    <2>4. \A u \in NewlyReady(t) : u \in Tasks => attempts_made[u] < MaxAttempts[u]
      BY <1>2, <2>1 DEF BudgetInv
    <2>5. f # "PENDING" /\ f # "READY" /\ f # "RUNNING" /\ f # "FAILED"
      BY DEF SuccessLike
    <2> QED BY <1>6, <2>2, <2>3, <2>4, <2>5 DEF BudgetInv
  <1>7. ASSUME NEW t \in Tasks, NEW f \in {"SUCCEEDED", "FAILED"}, NEW kind \in ResultKind,
               ProcessFinished(t, f, kind)
        PROVE  /\ state[t] = "RUNNING" /\ t \in Running
               /\ \A u \in Tasks \ {t} : attempts'[u] = attempts[u]
               /\ attempts'[t][Len(attempts'[t])].kind = kind
    <2>1. t \in Running /\ state[t] = "RUNNING"
      BY <1>1, <1>7, FinishedRunning DEF Running
    <2>2. attempts' = [attempts EXCEPT ![t] = RecordAttempt(attempts[t], t, f, kind)]
      BY <1>7 DEF ProcessFinished
    <2> QED BY <1>1, <1>2, <2>1, <2>2, LastRecorded
  <1>8. CASE Start
    BY <1>2, <1>8, BudgetQuiet DEF Start, BudgetInv, IInv, ControlInv
  <1>9. CASE CheckCancel \/ HandleCancel
    BY <1>3, <1>4, <1>9 DEF CheckCancel, HandleCancel, sched
  <1>10. ASSUME NEW t \in Tasks, StartMissingInput(t) PROVE BudgetInv'
    <2>1. {t} \subseteq ready /\ FailAndSkip({t})
      BY <1>10 DEF StartMissingInput, Tried
    <2>2. attempts' = [attempts EXCEPT
                         ![t] = RecordAttempt(attempts[t], t, "FAILED", "missing_input")]
      BY <1>10 DEF StartMissingInput
    <2>3. attempts'[t][Len(attempts'[t])].kind = "missing_input"
      <3>1. attempts'[t] = RecordAttempt(attempts[t], t, "FAILED", "missing_input")
        BY <1>2, <2>2
      <3>2. "missing_input" \in ResultKind
        BY DEF ResultKind
      <3> QED BY <1>1, <3>1, <3>2, LastRecorded
    <2> QED BY <1>2, <1>5, <2>1, <2>2, <2>3 DEF Retryable
  <1>11. ASSUME NEW t \in Tasks, StartCached(t) PROVE BudgetInv'
    <2>1. \A u \in Tasks \ {t} : attempts'[u] = attempts[u]
      BY <1>2, <1>11 DEF StartCached
    <2> QED BY <1>6, <1>11, <2>1 DEF StartCached, SuccessLike
  <1>12. ASSUME NEW t \in Tasks, StartProcess(t) PROVE BudgetInv'
    <2>1. state[t] = "READY"
      BY <1>1, <1>12 DEF StartProcess, Tried, ReadyExact
    <2>2. /\ attempts_made' = [attempts_made EXCEPT ![t] = @ + 1]
          /\ state' = [state EXCEPT ![t] = "RUNNING"]
          /\ UNCHANGED attempts
      BY <1>12 DEF StartProcess
    <2> QED BY <1>2, <2>1, <2>2 DEF BudgetInv
  <1>13. CASE SafetyNet
    <2>1. FailAndSkip(ready) /\ ready \subseteq Tasks
      BY <1>1, <1>13 DEF SafetyNet, TypeOK
    <2>2. \A t \in Tasks : attempts'[t] =
              IF t \in ready THEN RecordAttempt(attempts[t], t, "FAILED", "start_failure")
              ELSE attempts[t]
      BY <1>13 DEF SafetyNet
    <2>3. \A t \in ready : attempts'[t][Len(attempts'[t])].kind = "start_failure"
      <3>1. "start_failure" \in ResultKind
        BY DEF ResultKind
      <3> QED BY <1>1, <2>1, <2>2, <3>1, LastRecorded
    <2> QED BY <1>5, <2>1, <2>2, <2>3 DEF Retryable
  <1>14. ASSUME NEW t \in Tasks, HandleSuccess(t) PROVE BudgetInv'
    <2>1. ProcessFinished(t, "SUCCEEDED", "succeeded") /\ Succeed(t, "SUCCEEDED")
      BY <1>14 DEF HandleSuccess
    <2>2. \A u \in Tasks \ {t} : attempts'[u] = attempts[u]
      BY <1>7, <2>1 DEF ResultKind
    <2> QED BY <1>6, <2>1, <2>2 DEF SuccessLike
  <1>15. ASSUME NEW t \in Tasks, NEW kind \in ResultKind, HandleCancelled(t, kind)
         PROVE  BudgetInv'
    <2>1. \A u \in Tasks \ {t} : attempts'[u] = attempts[u]
      BY <1>7, <1>15 DEF HandleCancelled
    <2>2. state' = [state EXCEPT ![t] = "CANCELLED"] /\ UNCHANGED attempts_made
      BY <1>15 DEF HandleCancelled
    <2> QED BY <1>2, <2>1, <2>2, BudgetQuiet
  <1>16. ASSUME NEW t \in Tasks, NEW kind \in ResultKind, HandleRetry(t, kind)
         PROVE  BudgetInv'
    <2>1. \A u \in Tasks \ {t} : attempts'[u] = attempts[u]
      BY <1>7, <1>16 DEF HandleRetry
    <2>2. state' = [state EXCEPT ![t] = "READY"] /\ UNCHANGED attempts_made
      BY <1>16 DEF HandleRetry
    <2>3. attempts_made[t] < MaxAttempts[t]
      BY <1>16 DEF HandleRetry, ShouldRetry
    <2> QED BY <1>2, <2>1, <2>2, <2>3 DEF BudgetInv
  <1>17. ASSUME NEW t \in Tasks, NEW kind \in ResultKind, HandleFailure(t, kind)
         PROVE  BudgetInv'
    <2>1. /\ \A u \in Tasks \ {t} : attempts'[u] = attempts[u]
          /\ attempts'[t][Len(attempts'[t])].kind = kind
          /\ state[t] = "RUNNING" /\ t \in Running
      BY <1>7, <1>17 DEF HandleFailure
    <2>2. kind \in Retryable => attempts_made[t] = MaxAttempts[t]
      BY <1>2, <1>17, <2>1 DEF HandleFailure, ShouldRetry, BudgetInv
    <2>3. FailAndSkip({t})
      BY <1>17 DEF HandleFailure
    <2> QED BY <1>5, <2>1, <2>2, <2>3
  <1>18. CASE EndLaunch \/ Wait \/ Timeout \/ Swap \/ HandleLog \/ EndRound \/ Finish
                \/ SpuriousWake \/ UNCHANGED vars
    BY <1>3, <1>18 DEF EndLaunch, Wait, Timeout, Swap, HandleLog, EndRound, Finish,
       SpuriousWake, vars, sched
  <1>19. ASSUME NEW p \in live, LogLine(p) \/ \E o \in Outcomes : ProcessExit(p, o)
         PROVE  BudgetInv'
    BY <1>3, <1>19 DEF LogLine, ProcessExit, sched
  <1>20. ASSUME NEW t \in Tasks, Elapse(t) PROVE BudgetInv'
    BY <1>3, <1>20 DEF Elapse
  <1>21. ASSUME NEW c \in Callers, CancelStore(c) \/ CancelPush(c) PROVE BudgetInv'
    BY <1>3, <1>21 DEF CancelStore, CancelPush, sched
  <1> QED
    BY <1>8, <1>9, <1>10, <1>11, <1>12, <1>13, <1>14, <1>15, <1>16, <1>17, <1>18,
       <1>19, <1>20, <1>21 DEF Next, SchedulerStep, Returned

(* For every retry policy: no task runs more often than the policy allows, *)
(* and none is given up while a retryable failure had an attempt left.     *)
THEOREM RetriesWithinBudget == Spec => []RetryBudget
  <1>1. IInv /\ BudgetInv /\ [Next]_vars => BudgetInv'
    BY BudgetStep
  <1>2. BudgetInv => RetryBudget
    BY DEF BudgetInv, RetryBudget
  <1> QED BY BudgetInit, <1>1, <1>2, Inductive, PTL DEF Spec

-----------------------------------------------------------------------------
(* Log lines *)

(* Event e is the log line of attempt p.                                   *)
IsLine(e, p) == e.type = "log" /\ e.node = p[1] /\ e.attempt = p[2]

(* The queue holds it.                                                     *)
HasLine(q, p) == \E j \in DOMAIN q : IsLine(q[j], p)

(* It comes before any result of p's task that the queue holds.            *)
LineFirst(q, p) ==
    \A i \in Queued(q) : q[i].node = p[1] =>
        \E j \in DOMAIN q : j < i /\ IsLine(q[j], p)

(* A line that was written and has not been delivered belongs to the       *)
(* current attempt of a RUNNING task and is in the batch or in the queue,  *)
(* in front of that attempt's result.                                      *)
LineInv ==
    \A p \in logged \ delivered :
        /\ p[1] \in Running /\ p[2] = attempts_made[p[1]]
        /\ HasLine(batch, p) \/ HasLine(events, p)
        /\ LineFirst(batch, p)
        /\ HasLine(batch, p) \/ LineFirst(events, p)

(* What is queued stays queued and in order when more is pushed.           *)
LEMMA AppendLine ==
    ASSUME NEW q \in Seq(Event), NEW e \in Event, NEW p
    PROVE  /\ HasLine(q, p) \/ IsLine(e, p) => HasLine(Append(q, e), p)
           /\ (/\ LineFirst(q, p)
               /\ e.type = "finished" /\ e.node = p[1] => HasLine(q, p))
                => LineFirst(Append(q, e), p)
  <1> DEFINE r == Append(q, e)
             n == Len(q) + 1
  <1>1. /\ \A i \in DOMAIN q : i \in DOMAIN r /\ r[i] = q[i] /\ i < n
        /\ r[n] = e /\ n \in DOMAIN r
    BY AppendQueued
  <1>2. Queued(r) = Queued(q) \cup (IF e.type = "finished" THEN {n} ELSE {})
    BY AppendQueued
  <1>3. Queued(q) \subseteq DOMAIN q
    BY DEF Queued
  <1> HIDE DEF r, n
  <1>4. HasLine(q, p) \/ IsLine(e, p) => HasLine(r, p)
    BY <1>1 DEF HasLine
  <1>5. ASSUME LineFirst(q, p), e.type = "finished" /\ e.node = p[1] => HasLine(q, p)
        PROVE  LineFirst(r, p)
    <2> SUFFICES ASSUME NEW i \in Queued(r), r[i].node = p[1]
                 PROVE  \E j \in DOMAIN r : j < i /\ IsLine(r[j], p)
      BY DEF LineFirst
    <2>1. CASE i \in Queued(q)
      BY <1>1, <1>3, <1>5, <2>1 DEF LineFirst
    <2>2. CASE i = n /\ e.type = "finished"
      BY <1>1, <1>5, <2>2 DEF HasLine
    <2> QED BY <1>2, <2>1, <2>2
  <1> QED BY <1>4, <1>5 DEF r

(* An event that is not p's line is taken off; if it is a result, it is    *)
(* not that of p's task.                                                   *)
LEMMA TailLine ==
    ASSUME NEW q \in Seq(Event), q # <<>>, NEW p, ~IsLine(Head(q), p)
    PROVE  /\ HasLine(q, p) => HasLine(Tail(q), p)
           /\ LineFirst(q, p) => LineFirst(Tail(q), p)
           /\ LineFirst(q, p) /\ Head(q).type = "finished" => Head(q).node # p[1]
  <1> DEFINE r == Tail(q)
  <1>1. /\ DOMAIN q = 1..Len(q) /\ Len(q) \in Nat /\ Head(q) = q[1] /\ 1 \in DOMAIN q
        /\ \A j \in DOMAIN q : j # 1 => j - 1 \in DOMAIN r /\ r[j - 1] = q[j]
    OBVIOUS
  <1>2. \A i \in Queued(r) : i + 1 \in Queued(q) /\ i \in Int /\ r[i] = q[i + 1]
    BY TailQueued
  <1> HIDE DEF r
  <1>3. HasLine(q, p) => HasLine(r, p)
    BY <1>1 DEF HasLine
  <1>4. ASSUME LineFirst(q, p) PROVE LineFirst(r, p)
    <2> SUFFICES ASSUME NEW i \in Queued(r), r[i].node = p[1]
                 PROVE  \E j \in DOMAIN r : j < i /\ IsLine(r[j], p)
      BY DEF LineFirst
    <2>1. PICK j \in DOMAIN q : j < i + 1 /\ IsLine(q[j], p)
      BY <1>2, <1>4 DEF LineFirst
    <2>2. j # 1 /\ j \in Int /\ i \in Int
      BY <1>1, <1>2, <2>1
    <2> QED BY <1>1, <2>1, <2>2
  <1>5. ASSUME LineFirst(q, p), Head(q).type = "finished" PROVE Head(q).node # p[1]
    <2>1. 1 \in Queued(q)
      BY <1>1, <1>5 DEF Queued
    <2>2. \A j \in DOMAIN q : ~(j < 1)
      BY <1>1
    <2> QED BY <1>1, <1>5, <2>1, <2>2 DEF LineFirst
  <1> QED BY <1>3, <1>4, <1>5 DEF r

(* Steps that leave the queues, the lines and the running attempts alone.  *)
LEMMA LineSame ==
    ASSUME LineInv, Running \subseteq Running', UNCHANGED <<logged, delivered, events, batch>>,
           \A t \in Running : attempts_made'[t] = attempts_made[t]
    PROVE  LineInv'
  BY DEF LineInv

(* An event is pushed.                                                     *)
LEMMA LinePush ==
    ASSUME TypeOK, LineInv, NEW e \in Event, events' = Append(events, e),
           UNCHANGED <<sched, logged, delivered, batch>>
    PROVE  LineInv'
  <1> SUFFICES ASSUME NEW p \in logged \ delivered
               PROVE  /\ HasLine(batch, p) \/ HasLine(events', p)
                      /\ HasLine(batch, p) \/ LineFirst(events', p)
    BY DEF LineInv, sched, Running
  <1>1. events \in Seq(Event)
    BY DEF TypeOK
  <1>2. /\ HasLine(batch, p) \/ HasLine(events, p)
        /\ HasLine(batch, p) \/ LineFirst(events, p)
    BY DEF LineInv
  <1> QED BY <1>1, <1>2, AppendLine

(* The queue becomes the batch.                                            *)
LEMMA LineTake ==
    ASSUME LineInv, batch = <<>>, TakeBatch, UNCHANGED <<sched, logged, delivered>>
    PROVE  LineInv'
  <1>1. \A p : ~HasLine(<<>>, p) /\ LineFirst(<<>>, p)
    BY DEF HasLine, LineFirst, Queued
  <1>2. Running' = Running /\ UNCHANGED attempts_made
    BY DEF sched, Running
  <1> QED BY <1>1, <1>2 DEF LineInv, TakeBatch

(* An event is taken from the batch; a line among them is delivered.       *)
LEMMA LineNext ==
    ASSUME TypeOK, LineInv, NEW type, NextEvent(type), UNCHANGED <<attempts_made, events, logged>>,
           delivered \subseteq delivered',
           type = "log" => <<Head(batch).node, Head(batch).attempt>> \in delivered',
           \A t \in Running \ Running' : type = "finished" /\ t = Head(batch).node
    PROVE  LineInv'
  <1>1. batch \in Seq(Event) /\ batch # <<>> /\ batch' = Tail(batch)
          /\ Head(batch).type = type
    BY DEF TypeOK, NextEvent
  <1> SUFFICES ASSUME NEW p \in logged \ delivered'
               PROVE  /\ p[1] \in Running' /\ p[2] = attempts_made[p[1]]
                      /\ HasLine(batch', p) \/ HasLine(events, p)
                      /\ LineFirst(batch', p)
                      /\ HasLine(batch', p) \/ LineFirst(events, p)
    BY DEF LineInv
  <1>2. /\ p[1] \in Running /\ p[2] = attempts_made[p[1]]
        /\ HasLine(batch, p) \/ HasLine(events, p)
        /\ LineFirst(batch, p)
        /\ HasLine(batch, p) \/ LineFirst(events, p)
    BY DEF LineInv
  <1>3. p = <<p[1], p[2]>>
    BY DEF TypeOK
  <1>4. ~IsLine(Head(batch), p)
    BY <1>1, <1>3 DEF IsLine
  <1>5. /\ HasLine(batch, p) => HasLine(batch', p)
        /\ LineFirst(batch', p)
        /\ type = "finished" => Head(batch).node # p[1]
    BY <1>1, <1>2, <1>4, TailLine
  <1> QED BY <1>2, <1>5

(* Nothing was written before run().                                       *)
LEMMA LineInit == Init => LineInv
  BY DEF Init, LineInv

(* Every step of every thread keeps LineInv.                               *)
LEMMA LineStep ==
    ASSUME IInv, LineInv, [Next]_vars PROVE LineInv'
  <1>1. TypeOK /\ ReadyExact /\ RunInv /\ GraphInv /\ CancelledInv
    BY DEF IInv, RunInv, GraphInv
  <1>2. state \in [Tasks -> TaskState] /\ attempts_made \in [Tasks -> Nat]
    BY <1>1 DEF TypeOK
  <1>3. ASSUME UNCHANGED <<sched, logged, delivered, events, batch>> PROVE LineInv'
    BY <1>3, LineSame DEF sched, Running
  <1>4. ASSUME NEW R, R \subseteq ready, FailAndSkip(R),
               UNCHANGED <<logged, delivered, events, batch>>
        PROVE  LineInv'
    <2>1. Running' = Running \ R
      BY <1>1, <1>4, ReadyFail
    <2>2. R \cap Running = {}
      BY <1>1, <1>4 DEF ReadyExact, Running
    <2> QED BY <1>4, <2>1, <2>2, LineSame DEF FailAndSkip
  <1>5. ASSUME NEW t \in Tasks, NEW f \in {"SUCCEEDED", "FAILED"}, NEW kind \in ResultKind,
               ProcessFinished(t, f, kind), UNCHANGED attempts_made,
               Running \ Running' \subseteq {t}
        PROVE  LineInv'
    <2>1. NextEvent("finished") /\ t = Head(batch).node /\ UNCHANGED <<events, logged, delivered>>
      BY <1>5 DEF ProcessFinished
    <2> QED BY <1>1, <1>5, <2>1, LineNext
  <1>6. CASE Start
    <2>1. Running \subseteq Running'
      BY <1>6 DEF Start, Running, IInv, ControlInv
    <2> QED BY <1>6, <2>1, LineSame DEF Start
  <1>7. CASE CheckCancel
    <2>1. Running' = Running
      BY <1>1, <1>7, ReadyCancel DEF CheckCancel, sched, Running
    <2> QED BY <1>7, <2>1, LineSame DEF CheckCancel, BeginCancel, sched
  <1>8. CASE HandleCancel
    <2>1. Running' = Running
      BY <1>1, <1>8, ReadyCancel DEF HandleCancel, sched, Running
    <2>2. NextEvent("cancel") /\ UNCHANGED <<attempts_made, events, logged, delivered>>
      BY <1>8 DEF HandleCancel, BeginCancel, sched
    <2> QED BY <1>1, <2>1, <2>2, LineNext
  <1>9. ASSUME NEW t \in Tasks, StartMissingInput(t) PROVE LineInv'
    <2>1. {t} \subseteq ready /\ FailAndSkip({t})
      BY <1>9 DEF StartMissingInput, Tried
    <2> QED BY <1>4, <1>9, <2>1 DEF StartMissingInput
  <1>10. ASSUME NEW t \in Tasks, StartCached(t) PROVE LineInv'
    <2>1. t \in ready /\ Succeed(t, "CACHED") /\ "CACHED" \in SuccessLike
      BY <1>10 DEF StartCached, Tried, SuccessLike
    <2>2. Running' = Running \ {t} /\ t \notin Running
      BY <1>1, <2>1, ReadySucceed DEF ReadyExact, Running
    <2> QED BY <1>10, <2>1, <2>2, LineSame DEF StartCached, Succeed
  <1>11. ASSUME NEW t \in Tasks, StartProcess(t) PROVE LineInv'
    <2>1. t \notin Running
      BY <1>1, <1>11 DEF StartProcess, Tried, ReadyExact, Running
    <2>2. /\ attempts_made' = [attempts_made EXCEPT ![t] = @ + 1]
          /\ state' = [state EXCEPT ![t] = "RUNNING"]
          /\ UNCHANGED <<logged, delivered, events, batch>>
      BY <1>11 DEF StartProcess
    <2>3. /\ Running \subseteq Running'
          /\ \A u \in Running : attempts_made'[u] = attempts_made[u]
      BY <1>2, <2>1, <2>2 DEF Running
    <2> QED BY <2>2, <2>3, LineSame
  <1>12. CASE SafetyNet
    BY <1>4, <1>12 DEF SafetyNet
  <1>13. CASE Wait \/ Swap
    <2>1. UNCHANGED <<sched, logged, delivered>> /\ batch = <<>>
      BY <1>13 DEF Wait, Swap, IInv, ControlInv
    <2>2. TakeBatch \/ UNCHANGED <<events, batch>>
      BY <1>13 DEF Wait, Swap
    <2> QED BY <1>3, <2>1, <2>2, LineTake
  <1>14. CASE HandleLog
    <2>1. Running' = Running /\ UNCHANGED <<attempts_made, events, logged>>
      BY <1>14 DEF HandleLog, sched, Running
    <2> QED BY <1>1, <1>14, <2>1, LineNext DEF HandleLog
  <1>15. ASSUME NEW t \in Tasks, HandleSuccess(t) PROVE LineInv'
    <2>1. /\ ProcessFinished(t, "SUCCEEDED", "succeeded") /\ Succeed(t, "SUCCEEDED")
          /\ "SUCCEEDED" \in SuccessLike /\ "succeeded" \in ResultKind
      BY <1>15 DEF HandleSuccess, SuccessLike, ResultKind
    <2>2. t \in Running
      BY <1>1, <2>1, FinishedRunning
    <2>3. Running' = Running \ {t} /\ UNCHANGED attempts_made
      BY <1>1, <2>1, <2>2, ReadySucceed DEF Succeed
    <2> QED BY <1>5, <2>1, <2>3
  <1>16. ASSUME NEW t \in Tasks, NEW kind \in ResultKind,
                HandleCancelled(t, kind) \/ HandleRetry(t, kind)
         PROVE  LineInv'
    <2>1. /\ ProcessFinished(t, "FAILED", kind) /\ UNCHANGED attempts_made
          /\ \/ state' = [state EXCEPT ![t] = "CANCELLED"]
             \/ state' = [state EXCEPT ![t] = "READY"]
      BY <1>16 DEF HandleCancelled, HandleRetry
    <2>2. Running \ Running' \subseteq {t}
      BY <1>2, <2>1 DEF Running
    <2> QED BY <1>5, <2>1, <2>2
  <1>17. ASSUME NEW t \in Tasks, NEW kind \in ResultKind, HandleFailure(t, kind)
         PROVE  LineInv'
    <2>1. ProcessFinished(t, "FAILED", kind) /\ FailAndSkip({t}) /\ UNCHANGED attempts_made
      BY <1>17 DEF HandleFailure, FailAndSkip
    <2>2. {t} \subseteq Running
      BY <1>1, <2>1, FinishedRunning
    <2>3. Running' = Running \ {t}
      BY <1>1, <2>1, <2>2, ReadyFail
    <2> QED BY <1>5, <2>1, <2>3
  <1>18. CASE EndRound
    BY <1>18, LineSame DEF EndRound, Running
  <1>19. CASE Finish
    <2>1. Running = {}
      BY <1>19, NobodyLeft DEF Finish
    <2>2. logged \subseteq delivered /\ delivered \subseteq delivered' /\ UNCHANGED logged
      BY <1>19, <2>1 DEF LineInv, Finish
    <2> QED BY <2>2 DEF LineInv
  <1>20. CASE EndLaunch \/ Timeout \/ SpuriousWake \/ UNCHANGED vars
    BY <1>3, <1>20 DEF EndLaunch, Timeout, SpuriousWake, vars
  <1>21. ASSUME NEW p \in live, LogLine(p) PROVE LineInv'
    <2> DEFINE e == [type |-> "log", node |-> p[1], attempt |-> p[2]]
    <2>1. /\ e \in Event /\ events \in Seq(Event) /\ p \in Tasks \X Nat
          /\ IsLine(e, p)
      BY <1>1 DEF TypeOK, Event, IsLine
    <2>2. /\ events' = Append(events, e) /\ logged' = logged \cup {p}
          /\ UNCHANGED <<sched, delivered, batch>>
      BY <1>21 DEF LogLine, PushEvent
    <2> HIDE DEF e
    <2>3. /\ p[1] \in Running /\ p[2] = attempts_made[p[1]]
          /\ ~HasReport(events, p[1]) /\ ~HasReport(batch, p[1])
      <3>1. p[1] \in Running /\ p = <<p[1], attempts_made[p[1]]>>
        BY <1>1, <2>1 DEF RunInv, OneReportPerAttempt
      <3> QED BY <1>1, <3>1 DEF RunInv, OneReportPerAttempt
    <2>4. LineFirst(batch, p) /\ LineFirst(events, p)
      BY <2>3 DEF LineFirst, HasReport
    <2>5. HasLine(events', p) /\ LineFirst(events', p)
      <3>1. e.type # "finished"
        BY <2>1 DEF IsLine
      <3> QED BY <2>1, <2>2, <2>4, <3>1, AppendLine
    <2>6. \A x \in logged \ delivered :
            /\ HasLine(batch, x) \/ HasLine(events', x)
            /\ HasLine(batch, x) \/ LineFirst(events', x)
      <3> TAKE x \in logged \ delivered
      <3>1. /\ HasLine(batch, x) \/ HasLine(events, x)
            /\ HasLine(batch, x) \/ LineFirst(events, x)
        BY DEF LineInv
      <3> QED BY <2>1, <2>2, <3>1, AppendLine
    <2>7. Running' = Running /\ UNCHANGED attempts_made
      BY <2>2 DEF sched, Running
    <2> QED BY <2>2, <2>3, <2>4, <2>5, <2>6, <2>7 DEF LineInv
  <1>22. ASSUME NEW p \in live, NEW o \in Outcomes, ProcessExit(p, o) PROVE LineInv'
    <2>1. [type |-> "finished", node |-> p[1], attempt |-> p[2], outcome |-> o] \in Event
      BY <1>1 DEF TypeOK, Event
    <2> QED BY <1>1, <1>22, <2>1, LinePush DEF ProcessExit, PushEvent
  <1>23. ASSUME NEW t \in Tasks, Elapse(t) PROVE LineInv'
    BY <1>23, LineSame DEF Elapse, Running
  <1>24. ASSUME NEW c \in Callers, CancelStore(c) PROVE LineInv'
    BY <1>3, <1>24 DEF CancelStore
  <1>25. ASSUME NEW c \in Callers, CancelPush(c) PROVE LineInv'
    <2>1. [type |-> "cancel"] \in Event
      BY DEF Event
    <2> QED BY <1>1, <1>25, <2>1, LinePush DEF CancelPush, PushEvent
  <1> QED
    BY <1>6, <1>7, <1>8, <1>9, <1>10, <1>11, <1>12, <1>13, <1>14, <1>15, <1>16, <1>17,
       <1>18, <1>19, <1>20, <1>21, <1>22, <1>23, <1>24, <1>25
       DEF Next, SchedulerStep, Returned

(* For every interleaving of children, callers and rounds: the lines of an *)
(* attempt reach the observer before its result, and none is lost.         *)
THEOREM LinesAlwaysFirst == Spec => []LogsBeforeResult
  <1>1. IInv /\ LineInv /\ [Next]_vars => LineInv'
    BY LineStep
  <1>2. ASSUME TypeOK, LineInv PROVE LogsBeforeResult
    <2> SUFFICES ASSUME NEW p \in logged \ delivered, NEW i \in Queued(batch),
                        batch[i].node = p[1]
                 PROVE  \E j \in 1..i : batch[j].type = "log" /\ batch[j].node = p[1]
      BY <1>2 DEF LogsBeforeResult, LineInv
    <2>1. PICK j \in DOMAIN batch : j < i /\ IsLine(batch[j], p)
      BY <1>2 DEF LineInv, LineFirst
    <2>2. DOMAIN batch = 1..Len(batch) /\ i \in DOMAIN batch
      BY <1>2 DEF TypeOK, Queued
    <2>3. j \in 1..i
      BY <2>1, <2>2
    <2> QED BY <2>1, <2>3 DEF IsLine
  <1>3. IInv => TypeOK
    BY DEF IInv
  <1> QED BY LineInit, <1>1, <1>2, <1>3, Inductive, PTL DEF Spec

-----------------------------------------------------------------------------
(* Sums over sets of tasks *)

(* What the tasks of S ask for in one dimension.                           *)
Asked(d, S) == MapThenSumSet(LAMBDA t : Req[t][d], S)

(* The element that the sum takes first: any one.                         *)
First(s) == CHOOSE x \in s : TRUE

(* What the sum over the subsets of S is defined by.                       *)
IsSum(f, d, S) ==
    f = [s \in SUBSET S |-> IF s = {} THEN 0 ELSE Req[First(s)][d] + f[s \ {First(s)}]]

(* There is no endless descent among the sets of tasks: this stands for    *)
(* induction over their size.                                              *)
LEMMA LeastSet ==
    ASSUME NEW B, B \subseteq SUBSET Tasks, B # {}
    PROVE  \E s \in B : \A r \in B : r \subseteq s => r = s
  <1> DEFINE R == StrictSubsetOrdering(Tasks)
  <1>1. IsWellFoundedOn(R, FiniteSubsetsOf(Tasks))
    BY FS_StrictSubsetOrderingWellFounded
  <1>2. B \subseteq FiniteSubsetsOf(Tasks)
    BY TasksAssumption, FS_Subset DEF FiniteSubsetsOf
  <1>3. PICK s \in B : \A r \in B : <<r, s>> \notin R
    <2> HIDE DEF R
    <2> QED BY <1>1, <1>2, WFMin
  <1> QED BY <1>3 DEF StrictSubsetOrdering

(* The library's sum, its operators applied.                               *)
LEMMA SumDef == ASSUME NEW d, NEW S PROVE Asked(d, S) = (CHOOSE f : IsSum(f, d, S))[S]
  BY DEF Asked, MapThenSumSet, MapThenFoldSet, IsSum, First


(* One step of the recursion...                                            *)
LEMMA SumAt ==
    ASSUME NEW f, NEW d, NEW S, IsSum(f, d, S), NEW s \in SUBSET S
    PROVE  f[s] = IF s = {} THEN 0 ELSE Req[First(s)][d] + f[s \ {First(s)}]
  BY DEF IsSum

(* ... takes an element of the set.                                        *)
LEMMA FirstIn ==
    ASSUME NEW s, s # {} PROVE First(s) \in s
  BY DEF First

(* Two functions that satisfy the recursion agree where both are defined.  *)
LEMMA SumsAgree ==
    ASSUME NEW d, NEW S \in SUBSET Tasks, NEW T \in SUBSET Tasks, NEW f, NEW g,
           IsSum(f, d, S), IsSum(g, d, T), NEW r \in SUBSET S, r \in SUBSET T
    PROVE  f[r] = g[r]
  <1> DEFINE B == {s \in SUBSET S : s \in SUBSET T /\ f[s] # g[s]}
  <1> SUFFICES ASSUME B # {} PROVE FALSE
    OBVIOUS
  <1>1. PICK s \in B : \A q \in B : q \subseteq s => q = s
    <2>1. B \subseteq SUBSET Tasks
      OBVIOUS
    <2> HIDE DEF B
    <2> QED BY <2>1, LeastSet
  <1>2. s \in SUBSET S /\ s \in SUBSET T /\ f[s] # g[s]
    BY <1>1
  <1>3. /\ f[s] = IF s = {} THEN 0 ELSE Req[First(s)][d] + f[s \ {First(s)}]
        /\ g[s] = IF s = {} THEN 0 ELSE Req[First(s)][d] + g[s \ {First(s)}]
    BY <1>2, SumAt
  <1>4. s # {} /\ First(s) \in s
    BY <1>2, <1>3, FirstIn
  <1>5. f[s \ {First(s)}] = g[s \ {First(s)}]
    <2>1. /\ s \ {First(s)} \in SUBSET S /\ s \ {First(s)} \in SUBSET T
          /\ s \ {First(s)} # s
      BY <1>2, <1>4
    <2> QED BY <1>1, <2>1
  <1> QED BY <1>2, <1>3, <1>4, <1>5

(* In particular on the smaller of two sets.                               *)
LEMMA SumBelow ==
    ASSUME NEW d, NEW S \in SUBSET Tasks, NEW T, T \subseteq S, NEW f, NEW g,
           IsSum(f, d, S), IsSum(g, d, T)
    PROVE  f[T] = g[T]
  <1>1. T \in SUBSET Tasks /\ T \in SUBSET S /\ T \in SUBSET T
    OBVIOUS
  <1> QED BY <1>1, SumsAgree

(* There is such a function for every set of tasks: a least set without    *)
(* one would get one from those of its subsets.                            *)
LEMMA SumExists ==
    ASSUME NEW d, NEW U \in SUBSET Tasks
    PROVE  \E f : IsSum(f, d, U)
  <1> DEFINE B == {s \in SUBSET Tasks : \A f : ~IsSum(f, d, s)}
  <1> SUFFICES ASSUME B # {} PROVE FALSE
    OBVIOUS
  <1>1. PICK T \in B : \A q \in B : q \subseteq T => q = T
    <2>1. B \subseteq SUBSET Tasks
      OBVIOUS
    <2> HIDE DEF B
    <2> QED BY <2>1, LeastSet
  <1> DEFINE g(s) == CHOOSE f : IsSum(f, d, s)
  <1>2. T \in SUBSET Tasks /\ \A f : ~IsSum(f, d, T)
    BY <1>1
  <1>3. \A s \in SUBSET T : s # T => IsSum(g(s), d, s)
    <2> TAKE s \in SUBSET T
    <2> HAVE s # T
    <2>1. s \notin B
      BY <1>1
    <2>2. \E f : IsSum(f, d, s)
      BY <1>2, <2>1
    <2> QED BY <2>2
  <1> DEFINE below(s) == s \ {First(s)}
  <1> DEFINE new == [s \in SUBSET T |-> IF s = {} THEN 0
                                        ELSE Req[First(s)][d] + g(below(s))[below(s)]]
  <1> HIDE DEF g
  <1>4. \A s \in SUBSET T : s # {} => below(s) \in SUBSET T /\ below(s) # T /\ below(s) # s
    BY FirstIn
  <1>5. ASSUME NEW s \in SUBSET T, s # {} PROVE new[below(s)] = g(below(s))[below(s)]
    <2>1. below(s) \in SUBSET T /\ below(s) # T
      BY <1>4, <1>5
    <2> DEFINE b == below(s)
    <2> HIDE DEF b
    <2>2. b \in SUBSET T /\ b # T /\ IsSum(g(b), d, b)
      BY <1>3, <2>1 DEF b
    <2>3. g(b)[b] = IF b = {} THEN 0 ELSE Req[First(b)][d] + g(b)[below(b)]
      BY <2>2, SumAt
    <2>4. new[b] = IF b = {} THEN 0 ELSE Req[First(b)][d] + g(below(b))[below(b)]
      BY <2>2
    <2>5. ASSUME b # {} PROVE g(b)[below(b)] = g(below(b))[below(b)]
      <3>1. below(b) \in SUBSET T /\ below(b) # T /\ below(b) \subseteq b
        BY <1>4, <2>2, <2>5
      <3>2. IsSum(g(below(b)), d, below(b))
        BY <1>3, <3>1
      <3> DEFINE c == below(b)
      <3> HIDE DEF c
      <3>3. IsSum(g(c), d, c) /\ c \in SUBSET b /\ c \in SUBSET Tasks /\ b \in SUBSET Tasks
        BY <1>2, <2>2, <3>1, <3>2 DEF c
      <3>4. c \in SUBSET c
        OBVIOUS
      <3> DEFINE F == g(b)  G == g(c)
      <3>5. IsSum(F, d, b) /\ IsSum(G, d, c)
        BY <2>2, <3>3
      <3> HIDE DEF F, G
      <3>6. F[c] = G[c]
        BY <3>3, <3>4, <3>5, SumsAgree
      <3> QED BY <3>6 DEF c, F, G
    <2>6. new[b] = g(b)[b]
      BY <2>3, <2>4, <2>5
    <2> QED BY <2>6 DEF b
  <1>6. IsSum(new, d, T)
    <2>1. \A s \in SUBSET T : new[s] = IF s = {} THEN 0 ELSE Req[First(s)][d] + new[below(s)]
      BY <1>5
    <2>2. new = [s \in SUBSET T |-> new[s]]
      OBVIOUS
    <2> HIDE DEF new
    <2> QED BY <2>1, <2>2 DEF IsSum
  <1> QED BY <1>2, <1>6

(* So the sum satisfies its own recursion...                               *)
LEMMA SumStep ==
    ASSUME NEW d, NEW U \in SUBSET Tasks
    PROVE  Asked(d, U) = IF U = {} THEN 0 ELSE Req[First(U)][d] + Asked(d, U \ {First(U)})
  <1> DEFINE g(s) == CHOOSE f : IsSum(f, d, s)
  <1> DEFINE b == U \ {First(U)}
  <1>1. b \subseteq U /\ b \in SUBSET Tasks
    OBVIOUS
  <1>2. IsSum(g(U), d, U) /\ IsSum(g(b), d, b)
    <2>1. \A s \in SUBSET Tasks : IsSum(g(s), d, s)
      BY SumExists
    <2> HIDE DEF g
    <2> QED BY <1>1, <2>1
  <1>3. Asked(d, U) = g(U)[U] /\ Asked(d, b) = g(b)[b]
    BY SumDef
  <1> HIDE DEF g
  <1>4. g(U)[U] = IF U = {} THEN 0 ELSE Req[First(U)][d] + g(U)[b]
    BY <1>2, SumAt
  <1>5. g(U)[b] = g(b)[b]
    <2> DEFINE F == g(U)  G == g(b)
    <2>1. IsSum(F, d, U) /\ IsSum(G, d, b)
      BY <1>2
    <2> HIDE DEF b, F, G
    <2>2. F[b] = G[b]
      BY <1>1, <2>1, SumBelow
    <2> QED BY <2>2 DEF F, G
  <1> QED BY <1>3, <1>4, <1>5

(* ... is a number...                                                      *)
LEMMA SumType ==
    ASSUME NEW d \in Dims, NEW U \in SUBSET Tasks PROVE Asked(d, U) \in Nat
  <1> DEFINE B == {s \in SUBSET Tasks : Asked(d, s) \notin Nat}
  <1> SUFFICES ASSUME B # {} PROVE FALSE
    OBVIOUS
  <1>1. PICK s \in B : \A q \in B : q \subseteq s => q = s
    <2>1. B \subseteq SUBSET Tasks
      OBVIOUS
    <2> HIDE DEF B
    <2> QED BY <2>1, LeastSet
  <1>2. s \in SUBSET Tasks /\ Asked(d, s) \notin Nat
    BY <1>1
  <1>3. Asked(d, s) = IF s = {} THEN 0 ELSE Req[First(s)][d] + Asked(d, s \ {First(s)})
    BY <1>2, SumStep
  <1>4. s # {} /\ First(s) \in s
    BY <1>2, <1>3, FirstIn
  <1>5. Asked(d, s \ {First(s)}) \in Nat
    BY <1>1, <1>2, <1>4
  <1>6. Req[First(s)][d] \in Nat
    BY <1>2, <1>4, ConfigAssumption
  <1> QED BY <1>2, <1>3, <1>4, <1>5, <1>6

(* ... and does not depend on the order in which the tasks are taken.      *)
LEMMA SumRemove ==
    ASSUME NEW d \in Dims, NEW U \in SUBSET Tasks, NEW w \in U
    PROVE  Asked(d, U) = Req[w][d] + Asked(d, U \ {w})
  <1> DEFINE Bad(s, u) == u \in s /\ Asked(d, s) # Req[u][d] + Asked(d, s \ {u})
  <1> DEFINE B == {s \in SUBSET Tasks : \E u \in Tasks : Bad(s, u)}
  <1> SUFFICES ASSUME B # {} PROVE FALSE
    OBVIOUS
  <1>1. PICK s \in B : \A q \in B : q \subseteq s => q = s
    <2>1. B \subseteq SUBSET Tasks
      OBVIOUS
    <2> HIDE DEF B
    <2> QED BY <2>1, LeastSet
  <1>2. PICK u \in Tasks : Bad(s, u)
    BY <1>1
  <1>3. s \in SUBSET Tasks /\ u \in s /\ Asked(d, s) # Req[u][d] + Asked(d, s \ {u})
    BY <1>1, <1>2
  <1>4. \A q \in SUBSET Tasks : \A y \in q :
            q \subseteq s /\ q # s => Asked(d, q) = Req[y][d] + Asked(d, q \ {y})
    BY <1>1
  <1> HIDE DEF B, Bad
  <1> DEFINE x == First(s)
  <1>5. Asked(d, s) = Req[x][d] + Asked(d, s \ {x}) /\ x \in s
    <2>1. s # {}
      BY <1>3
    <2> QED BY <1>3, <2>1, SumStep, FirstIn
  <1> HIDE DEF x
  <1>6. x # u
    BY <1>3, <1>5
  <1>7. Asked(d, s \ {x}) = Req[u][d] + Asked(d, (s \ {x}) \ {u})
    BY <1>3, <1>4, <1>5, <1>6
  <1>8. Asked(d, s \ {u}) = Req[x][d] + Asked(d, (s \ {u}) \ {x})
    BY <1>3, <1>4, <1>5, <1>6
  <1>9. (s \ {u}) \ {x} = (s \ {x}) \ {u} /\ (s \ {x}) \ {u} \in SUBSET Tasks
    BY <1>3
  <1>10. /\ Req[u][d] \in Nat /\ Req[x][d] \in Nat
         /\ Asked(d, (s \ {x}) \ {u}) \in Nat
    BY <1>3, <1>5, <1>9, ConfigAssumption, SumType
  <1> QED BY <1>3, <1>5, <1>7, <1>8, <1>9, <1>10

-----------------------------------------------------------------------------
(* The resource pool *)

(* No dimension of the pool is ever overcommitted, and no release takes    *)
(* the amount below zero (try_reserve, release).                           *)
WithinCapacity == \A d \in Dims : used[d] <= Capacity[d]

(* Whatever the requests are, the pool never holds more than there is.     *)
THEOREM NeverOvercommitted == Spec => []WithinCapacity
  <1>1. Init => WithinCapacity
    BY ConfigAssumption DEF Init, WithinCapacity
  <1>2. ASSUME TypeOK, WithinCapacity, [Next]_vars PROVE WithinCapacity'
    <2>1. used \in [Dims -> Nat] /\ Capacity \in [Dims -> Nat] /\ Req \in [Tasks -> [Dims -> Nat]]
      BY <1>2, ConfigAssumption DEF TypeOK
    <2>2. ASSUME UNCHANGED used PROVE WithinCapacity'
      BY <1>2, <2>2 DEF WithinCapacity
    <2>3. ASSUME NEW t \in Tasks, StartProcess(t) PROVE WithinCapacity'
      BY <2>1, <2>3 DEF StartProcess, Fits, Reserved, WithinCapacity
    <2>4. ASSUME NEW t \in Tasks, NEW f, NEW kind, ProcessFinished(t, f, kind)
          PROVE  WithinCapacity'
      <3>1. used' = Released(t)
        BY <2>4 DEF ProcessFinished
      <3>2. \A d \in Dims : Released(t)[d] <= used[d]
        BY <2>1 DEF Released
      <3>3. Released(t) \in [Dims -> Nat]
        BY <2>1, PoolType
      <3> QED BY <1>2, <2>1, <3>1, <3>2, <3>3 DEF WithinCapacity
    <2>5. ASSUME NEW t \in Tasks, NEW kind \in ResultKind,
                 \/ HandleSuccess(t) \/ HandleCancelled(t, kind)
                 \/ HandleRetry(t, kind) \/ HandleFailure(t, kind)
          PROVE  WithinCapacity'
      BY <2>4, <2>5 DEF HandleSuccess, HandleCancelled, HandleRetry, HandleFailure
    <2>6. ASSUME NEW t \in Tasks, HandleSuccess(t) PROVE WithinCapacity'
      BY <2>4, <2>6 DEF HandleSuccess
    <2>7. ASSUME NEW t \in Tasks, StartMissingInput(t) \/ StartCached(t) \/ Elapse(t)
          PROVE  WithinCapacity'
      BY <2>2, <2>7 DEF StartMissingInput, StartCached, Elapse
    <2>8. CASE Start \/ CheckCancel \/ SafetyNet \/ EndLaunch \/ Wait \/ Timeout \/ Swap
                 \/ HandleCancel \/ HandleLog \/ EndRound \/ Finish \/ SpuriousWake
                 \/ UNCHANGED vars
      BY <2>2, <2>8 DEF Start, CheckCancel, SafetyNet, EndLaunch, Wait, Timeout, Swap,
         HandleCancel, HandleLog, EndRound, Finish, SpuriousWake, BeginCancel, vars, sched
    <2>9. ASSUME NEW p \in live, LogLine(p) \/ \E o \in Outcomes : ProcessExit(p, o)
          PROVE  WithinCapacity'
      BY <2>2, <2>9 DEF LogLine, ProcessExit, sched
    <2>10. ASSUME NEW c \in Callers, CancelStore(c) \/ CancelPush(c) PROVE WithinCapacity'
      BY <2>2, <2>10 DEF CancelStore, CancelPush, sched
    <2> QED
      BY <1>2, <2>3, <2>5, <2>6, <2>7, <2>8, <2>9, <2>10 DEF Next, SchedulerStep, Returned
  <1> QED BY TypeCorrect, <1>1, <1>2, PTL DEF Spec

(* The sums as functions of a dimension and a set of tasks.                *)
Total == [x \in Dims |-> [S \in SUBSET Tasks |-> Asked(x, S)]]

(* What adding or removing one task makes of them.                         *)
LEMMA TotalFacts ==
    /\ \A x \in Dims : Total[x][{}] = 0
    /\ \A x \in Dims, S \in SUBSET Tasks : Total[x][S] \in Nat
    /\ \A x \in Dims, S \in SUBSET Tasks : \A t \in S :
         Total[x][S] = Req[t][x] + Total[x][S \ {t}]
  <1>1. \A x \in Dims, S \in SUBSET Tasks : Total[x][S] = Asked(x, S)
    BY DEF Total
  <1>2. ASSUME NEW x \in Dims PROVE Asked(x, {}) = 0
    <2>1. {} \in SUBSET Tasks
      OBVIOUS
    <2> QED BY <2>1, SumStep
  <1>3. ASSUME NEW x \in Dims, NEW S \in SUBSET Tasks PROVE Asked(x, S) \in Nat
    BY SumType
  <1>4. ASSUME NEW x \in Dims, NEW S \in SUBSET Tasks, NEW t \in S
        PROVE  Asked(x, S) = Req[t][x] + Asked(x, S \ {t})
    BY SumRemove
  <1> QED BY <1>1, <1>2, <1>3, <1>4

(* S is what R is without t.                                               *)
Without(S, R, t) == R \subseteq Tasks /\ t \in R /\ S = R \ {t}

(* The same for two sets that differ by one task.                          *)
LEMMA TotalWithout ==
    ASSUME NEW S, NEW R, NEW t, Without(S, R, t)
    PROVE  \A x \in Dims :
             Total[x][R] = Req[t][x] + Total[x][S] /\ Total[x][S] \in Nat
  <1> DEFINE Q == R \ {t}
  <1>1. \A x \in Dims : Total[x][R] = Req[t][x] + Total[x][Q]
    BY TotalFacts DEF Without
  <1>2. S = Q /\ Q \in SUBSET Tasks
    BY DEF Without
  <1> HIDE DEF Q
  <1> QED BY <1>1, <1>2, TotalFacts

(* The running tasks are those with a reservation.                         *)
Exact == \A x \in Dims : used[x] = Total[x][has_reservation]

(* start_process adds to the pool what its task asks for, and              *)
(* handle_process_finished takes away exactly that: the subtraction of     *)
(* ResourcePool::release is never clamped.                                 *)
THEOREM PoolAlwaysExact == Spec => []ResourcesAccounted
  <1>1. Init => Exact
    BY TotalFacts DEF Init, Exact
  <1>2. ASSUME IInv, Exact, [Next]_vars PROVE Exact'
    <2>1. /\ used \in [Dims -> Nat] /\ Req \in [Tasks -> [Dims -> Nat]]
          /\ has_reservation \in SUBSET Tasks /\ has_reservation = Running
          /\ TypeOK /\ RunInv /\ ReadyExact
      BY <1>2, ConfigAssumption DEF IInv, TypeOK, SlotsAccounted, RunInv
    <2>2. ASSUME UNCHANGED <<used, has_reservation>> PROVE Exact'
      BY <1>2, <2>2 DEF Exact
    <2>3. ASSUME NEW t \in Tasks, StartProcess(t) PROVE Exact'
      <3>1. t \notin has_reservation
        BY <2>1, <2>3 DEF StartProcess, Tried, ReadyExact, Running
      <3>2. used' = Reserved(t) /\ has_reservation' = has_reservation \cup {t}
        BY <2>3 DEF StartProcess
      <3> DEFINE R == has_reservation \cup {t}  S == has_reservation
      <3>3. Without(S, R, t)
        BY <2>1, <3>1 DEF Without
      <3>4. has_reservation' = R
        BY <3>2
      <3> HIDE DEF R, S
      <3>5. \A x \in Dims : Total[x][R] = Req[t][x] + Total[x][S] /\ Total[x][S] \in Nat
        BY <3>3, TotalWithout
      <3>6. \A x \in Dims : used[x] = Total[x][S]
        BY <1>2 DEF Exact, S
      <3>7. \A x \in Dims : used'[x] = used[x] + Req[t][x]
        BY <3>2 DEF Reserved
      <3>8. \A x \in Dims : used'[x] = Total[x][R]
        BY <2>1, <3>5, <3>6, <3>7
      <3> QED BY <3>4, <3>8 DEF Exact
    <2>4. ASSUME NEW t \in Tasks, NEW f, NEW kind, ProcessFinished(t, f, kind)
          PROVE  Exact'
      <3>1. t \in has_reservation
        BY <2>1, <2>4, FinishedRunning
      <3>2. used' = Released(t) /\ has_reservation' = has_reservation \ {t}
        BY <2>4 DEF ProcessFinished
      <3> DEFINE R == has_reservation  S == has_reservation \ {t}
      <3>3. Without(S, R, t)
        BY <2>1, <3>1 DEF Without
      <3>4. has_reservation' = S
        BY <3>2
      <3> HIDE DEF R, S
      <3>5. \A x \in Dims : Total[x][R] = Req[t][x] + Total[x][S] /\ Total[x][S] \in Nat
        BY <3>3, TotalWithout
      <3>6. \A x \in Dims : used[x] = Total[x][R]
        BY <1>2 DEF Exact, R
      <3>7. \A x \in Dims : used'[x] = IF used[x] > Req[t][x] THEN used[x] - Req[t][x] ELSE 0
        BY <3>1, <3>2 DEF Released
      <3>8. \A x \in Dims : used'[x] = Total[x][S]
        BY <2>1, <3>5, <3>6, <3>7
      <3> QED BY <3>4, <3>8 DEF Exact
    <2>5. ASSUME NEW t \in Tasks, NEW kind \in ResultKind,
                 \/ HandleSuccess(t) \/ HandleCancelled(t, kind)
                 \/ HandleRetry(t, kind) \/ HandleFailure(t, kind)
          PROVE  Exact'
      BY <2>4, <2>5 DEF HandleSuccess, HandleCancelled, HandleRetry, HandleFailure
    <2>6. ASSUME NEW t \in Tasks, HandleSuccess(t) PROVE Exact'
      BY <2>4, <2>6 DEF HandleSuccess
    <2>7. ASSUME NEW t \in Tasks, StartMissingInput(t) \/ StartCached(t) \/ Elapse(t)
          PROVE  Exact'
      BY <2>2, <2>7 DEF StartMissingInput, StartCached, Elapse
    <2>8. CASE Start \/ CheckCancel \/ SafetyNet \/ EndLaunch \/ Wait \/ Timeout \/ Swap
                 \/ HandleCancel \/ HandleLog \/ EndRound \/ Finish \/ SpuriousWake
                 \/ UNCHANGED vars
      BY <2>2, <2>8 DEF Start, CheckCancel, SafetyNet, EndLaunch, Wait, Timeout, Swap,
         HandleCancel, HandleLog, EndRound, Finish, SpuriousWake, BeginCancel, vars, sched
    <2>9. ASSUME NEW p \in live, LogLine(p) \/ \E o \in Outcomes : ProcessExit(p, o)
          PROVE  Exact'
      BY <2>2, <2>9 DEF LogLine, ProcessExit, sched
    <2>10. ASSUME NEW c \in Callers, CancelStore(c) \/ CancelPush(c) PROVE Exact'
      BY <2>2, <2>10 DEF CancelStore, CancelPush, sched
    <2> QED
      BY <1>2, <2>3, <2>5, <2>6, <2>7, <2>8, <2>9, <2>10 DEF Next, SchedulerStep, Returned
  <1>3. IInv /\ Exact /\ WithinCapacity => ResourcesAccounted
    <2> SUFFICES ASSUME IInv, Exact, WithinCapacity, NEW x \in Dims
                 PROVE  used[x] = Asked(x, Running) /\ used[x] <= Capacity[x]
      BY DEF ResourcesAccounted, Asked
    <2>1. has_reservation = Running /\ Running \in SUBSET Tasks
      BY DEF IInv, SlotsAccounted, Running
    <2>2. used[x] = Total[x][Running] /\ used[x] <= Capacity[x]
      BY <2>1 DEF Exact, WithinCapacity
    <2> QED BY <2>1, <2>2 DEF Total
  <1> QED BY Inductive, NeverOvercommitted, <1>1, <1>2, <1>3, PTL DEF Spec


(* A pool from which nothing is taken is empty, and a ready task that does *)
(* not fit into an empty pool never will: when the safety net fails the    *)
(* ready tasks, none of them could have run.                               *)
THEOREM NetIsAlwaysJust == Spec => []SafetyNetIsJust
  <1>1. ASSUME IInv, ResourcesAccounted PROVE SafetyNetIsJust
    <2> SUFFICES ASSUME ScanOver, Stuck, NEW t \in ready
                 PROVE  \E x \in Dims : Req[t][x] > Capacity[x]
      BY DEF SafetyNetIsJust
    <2>1. Running = {}
      <3>1. Cardinality(Running) = 0
        BY <1>1 DEF Stuck, IInv, SlotsAccounted
      <3> QED BY <3>1, RunningFinite, FS_EmptySet
    <2>2. \A x \in Dims : used[x] = 0
      <3>1. \A x \in Dims : used[x] = Asked(x, Running)
        BY <1>1 DEF ResourcesAccounted, Asked
      <3>2. \A x \in Dims : Asked(x, {}) = 0
        <4>1. {} \in SUBSET Tasks
          OBVIOUS
        <4> QED BY <4>1, SumStep
      <3> QED BY <2>1, <3>1, <3>2
    <2>3. ~Fits(t)
      <3>1. MaxConcurrency >= 1 /\ MaxConcurrency \in Int
        BY ConfigAssumption DEF MaxConcurrency
      <3>2. running_count = 0 /\ ~cancelling
        BY DEF Stuck
      <3>3. ~(running_count >= MaxConcurrency)
        BY <3>1, <3>2
      <3> QED BY <3>2, <3>3 DEF ScanOver
    <2>4. /\ t \in Tasks /\ Req \in [Tasks -> [Dims -> Nat]]
          /\ Capacity \in [Dims -> Nat]
      BY <1>1, ConfigAssumption DEF IInv, TypeOK
    <2> QED BY <2>2, <2>3, <2>4 DEF Fits
  <1> QED BY Inductive, PoolAlwaysExact, <1>1, PTL

=============================================================================

----------------------------- MODULE Scheduler ------------------------------
(***************************************************************************)
(* scheduler::Scheduler (src/core/scheduler/scheduler.cpp): the loop that  *)
(* executes one pipeline run.  Three kinds of actor interleave:            *)
(*   - the scheduler thread inside run(), which owns all scheduling state  *)
(*     and is the only one to change it;                                   *)
(*   - the process runner's reactor thread, which pushes log lines and one *)
(*     "finished" event per attempt onto the event queue;                  *)
(*   - the threads that call cancel(), which first store an atomic flag    *)
(*     and only then push a "cancel" event.                                *)
(* The event queue is guarded by a mutex and signalled by a condition      *)
(* variable; both are modelled, so that a lost wakeup would show.          *)
(*                                                                         *)
(* Files are the environment: whether a declared input exists when a task  *)
(* is started, whether its outputs exist when it ends and whether the      *)
(* cache has a valid entry are nondeterministic each time they are probed. *)
(* Time is abstracted to one fact per waiting task: its backoff is over.   *)
(***************************************************************************)
EXTENDS Domain, Sequences, FiniteSetsExt

CONSTANTS
    Tasks,              \* the task ids of the pipeline
    Deps,               \* Deps[t]: the tasks t depends on
    Priority,           \* Priority[t]: TaskDefinition::priority
    ConfigConcurrency,  \* SchedulerConfig::max_concurrency, as configured
    Dims,               \* the resource dimensions (cpu, memory, gpu)
    Capacity,           \* Capacity[d]: SchedulerConfig::resource_capacity
    Req,                \* Req[t][d]: TaskDefinition::resources
    MaxAttempts,        \* MaxAttempts[t]: RetryPolicy::max_attempts()
    Backoff,            \* the tasks whose retry delay is not zero
    HasInputs,          \* the tasks that declare an input file
    HasOutputs,         \* the tasks that declare an output (verify_outputs on)
    Cacheable,          \* the tasks with cache_enabled, if there is a cache
    Talkative,          \* the tasks that write a log line in each attempt
    Outcomes,           \* the process outcomes explored
    Callers             \* the threads that may call cancel(), once each

ASSUME TasksAssumption == IsFiniteSet(Tasks)

(* Dag::build rejects cycles: every non-empty set of tasks has one that    *)
(* depends on none of the others.                                          *)
ASSUME DepsAssumption ==
    /\ Deps \in [Tasks -> SUBSET Tasks]
    /\ \A S \in SUBSET Tasks : S # {} => \E t \in S : Deps[t] \cap S = {}

ASSUME ConfigAssumption ==
    /\ Priority \in [Tasks -> Int]
    /\ ConfigConcurrency \in Int
    /\ Capacity \in [Dims -> Nat]
    /\ Req \in [Tasks -> [Dims -> Nat]]
    /\ MaxAttempts \in [Tasks -> Nat \ {0}]
    /\ Outcomes \subseteq ProcessOutcome

VARIABLES
    pc,                \* where run() is
    state,             \* NodeState::state
    remaining_deps,    \* NodeState::remaining_deps
    attempts_made,     \* NodeState::attempts_made; names the handle as well
    waiting_for_retry, \* the tasks whose waiting_for_retry is set
    due,               \* those of them whose retry_not_before has passed
    has_reservation,   \* the tasks whose has_reservation is set
    used,              \* resource_pool_'s used amount in each dimension
    ready,             \* the tasks of ready_ (ordered by Priority)
    running_count,     \* running_count_
    cancelling,        \* cancelling_
    attempts,          \* TaskRun::attempts of each task
    delivered,         \* the attempts whose log line reached the observer
    run_state,         \* PipelineRun::state
    events,            \* events_, the shared queue
    batch,             \* what is left of the batch run() is working on
    live,              \* <<task, attempt>>: children the runner has not reported
    term,              \* the live children asked to terminate
    logged,            \* the attempts that have written their log line
    caller             \* progress of each cancel() call

sched == <<state, remaining_deps, attempts_made, waiting_for_retry, due,
           has_reservation, used, ready, running_count, cancelling, attempts>>
vars == <<pc, sched, delivered, run_state, events, batch, live, term, logged,
          caller>>

-----------------------------------------------------------------------------
(* Types *)

Event == [type : {"finished"}, node : Tasks, attempt : Nat, outcome : Outcomes]
           \cup [type : {"log"}, node : Tasks, attempt : Nat]
           \cup [type : {"cancel"}]

Attempt == [number : Nat, final_state : {"SUCCEEDED", "FAILED", "CACHED"},
            kind : ResultKind]

(* The points of run() at which other threads' steps can come between.     *)
Points == {"new", "check", "launch", "wait", "cond_wait", "timed_wait", "swap",
           "handle", "finish", "done"}

(* Every variable has a value the C++ field can hold; in particular no     *)
(* count goes below zero.                                                  *)
TypeOK ==
    /\ pc \in Points
    /\ state \in [Tasks -> TaskState]
    /\ remaining_deps \in [Tasks -> Nat]
    /\ attempts_made \in [Tasks -> Nat]
    /\ waiting_for_retry \subseteq Tasks
    /\ due \subseteq waiting_for_retry
    /\ has_reservation \subseteq Tasks
    /\ used \in [Dims -> Nat]
    /\ ready \subseteq Tasks
    /\ running_count \in Nat
    /\ cancelling \in BOOLEAN
    /\ attempts \in [Tasks -> Seq(Attempt)]
    /\ delivered \subseteq Tasks \X Nat
    /\ run_state \in PipelineState
    /\ events \in Seq(Event)
    /\ batch \in Seq(Event)
    /\ live \subseteq Tasks \X Nat
    /\ term \subseteq live
    /\ logged \subseteq Tasks \X Nat
    /\ caller \in [Callers -> {"idle", "stored", "pushed"}]

-----------------------------------------------------------------------------
(* Helpers *)

(* The constructor raises a configured concurrency below 1 to 1.           *)
MaxConcurrency == IF ConfigConcurrency < 1 THEN 1 ELSE ConfigConcurrency

Dependents(t) == {u \in Tasks : t \in Deps[u]}

(* cancel_requested_ is stored by cancel() and never cleared.              *)
CancelRequested == \E c \in Callers : caller[c] # "idle"

Running == {t \in Tasks : state[t] = "RUNNING"}

(* Definitions named Bug... are seeded faults: each is a wrong version of  *)
(* the definition that follows it, which some property must reject.        *)

(* The request itself is left out of the comparison.                       *)
BugFits(t) == \A d \in Dims : used[d] <= Capacity[d]

(* ResourcePool::try_reserve: every dimension must have room.              *)
Fits(t) == \A d \in Dims : used[d] + Req[t][d] <= Capacity[d]

Reserved(t) == [d \in Dims |-> used[d] + Req[t][d]]

(* The reservation of a task that ends is kept.                            *)
BugReleased(t) == used

(* release_reservation and ResourcePool::release, which clamps at zero.    *)
Released(t) ==
    IF t \in has_reservation
    THEN [d \in Dims |-> IF used[d] > Req[t][d] THEN used[d] - Req[t][d] ELSE 0]
    ELSE used

(* record_attempt numbers the attempt max(1, attempts_made).               *)
RecordAttempt(h, t, final_state, kind) ==
    Append(h, [number |-> IF attempts_made[t] > 1 THEN attempts_made[t] ELSE 1,
               final_state |-> final_state, kind |-> kind])

(* on_task_succeeded: the counters of t's dependents after t succeeded...  *)
RemainingAfter(t) ==
    [u \in Tasks |-> IF t \in Deps[u] /\ remaining_deps[u] > 0
                     THEN remaining_deps[u] - 1 ELSE remaining_deps[u]]

(* The counter is not consulted: one successful dependency is enough.      *)
BugNewlyReady(t) == {u \in Dependents(t) : state[u] = "PENDING" /\ ~cancelling}

(* ... and the dependents it makes READY and pushes on the ready queue.    *)
NewlyReady(t) ==
    {u \in Dependents(t) : /\ RemainingAfter(t)[u] = 0
                           /\ state[u] = "PENDING"
                           /\ ~cancelling}

(* skip_downstream, for the set R of tasks that have just failed: a set S  *)
(* is closed when it has every dependent of R and of S that is neither     *)
(* terminal nor running; the depth-first search marks the smallest one.    *)
SkipClosed(S, R) ==
    \A u \in Tasks \ R :
        (state[u] \in {"PENDING", "READY"} /\ Deps[u] \cap (R \cup S) # {})
            => u \in S

(* Only the direct dependents are skipped.                                 *)
BugSkipSet(R) ==
    {u \in Tasks \ R : state[u] \in {"PENDING", "READY"} /\ Deps[u] \cap R # {}}

SkipSet(R) ==
    {u \in Tasks : \A S \in SUBSET Tasks : SkipClosed(S, R) => u \in S}

(* earliest_retry_deadline() is TimePoint::max() when nobody waits.        *)
NobodyWaits == waiting_for_retry = {}

(* Tasks behind a backoff timer are overlooked.                            *)
BugAllSettledRetry == running_count = 0 /\ ready = {}

(* Running children are overlooked.                                        *)
BugAllSettledRunning == ready = {} /\ NobodyWaits

AllSettled == running_count = 0 /\ ready = {} /\ NobodyWaits

(* The event is queued and nobody is told.                                 *)
BugNotifyAll == pc

(* notify_all: a scheduler blocked in wait() evaluates its predicate again,*)
(* one blocked in wait_until(), which has no predicate, goes on.           *)
NotifyAll == IF pc = "cond_wait" THEN "wait"
             ELSE IF pc = "timed_wait" THEN "swap" ELSE pc

PushEvent(e) == events' = Append(events, e) /\ pc' = NotifyAll

(* Cancellation is not considered: no failure means success.               *)
BugVerdict ==
    IF \E t \in Tasks : state[t] = "FAILED" THEN "FAILED" ELSE "SUCCEEDED"

(* The state of the run when the loop has ended.                           *)
Verdict ==
    IF cancelling \/ CancelRequested THEN "CANCELLED"
    ELSE IF \E t \in Tasks : state[t] = "FAILED" THEN "FAILED"
    ELSE "SUCCEEDED"

-----------------------------------------------------------------------------
Init ==
    /\ pc = "new"
    /\ state = [t \in Tasks |-> "PENDING"]
    /\ remaining_deps = [t \in Tasks |-> Cardinality(Deps[t])]
    /\ attempts_made = [t \in Tasks |-> 0]
    /\ waiting_for_retry = {} /\ due = {}
    /\ has_reservation = {}
    /\ used = [d \in Dims |-> 0]
    /\ ready = {}
    /\ running_count = 0
    /\ cancelling = FALSE
    /\ attempts = [t \in Tasks |-> <<>>]
    /\ delivered = {}
    /\ run_state = "CREATED"
    /\ events = <<>> /\ batch = <<>>
    /\ live = {} /\ term = {} /\ logged = {}
    /\ caller = [c \in Callers |-> "idle"]

-----------------------------------------------------------------------------
(* The scheduler thread: Scheduler::run() *)

(* run() up to its loop, with seed_ready().                                *)
Start ==
    /\ pc = "new"
    /\ pc' = "check"
    /\ run_state' = "RUNNING"
    /\ LET seeds == {t \in Tasks : remaining_deps[t] = 0} IN
         /\ state' = [t \in Tasks |-> IF t \in seeds THEN "READY" ELSE state[t]]
         /\ ready' = ready \cup seeds
    /\ UNCHANGED <<remaining_deps, attempts_made, waiting_for_retry, due,
                   has_reservation, used, running_count, cancelling, attempts,
                   delivered, events, batch, live, term, logged, caller>>

(* The handle of the first attempt is used after a retry.                  *)
BugBeginCancelHandle ==
    /\ cancelling' = TRUE
    /\ term' = term \cup {p \in live : p[1] \in Running /\ p[2] = 1}
    /\ state' = [t \in Tasks |->
                    IF t \in ready \cup waiting_for_retry \/ state[t] = "PENDING"
                    THEN "CANCELLED" ELSE state[t]]
    /\ ready' = {} /\ waiting_for_retry' = {} /\ due' = {}
    /\ UNCHANGED <<remaining_deps, attempts_made, has_reservation, used,
                   running_count, attempts>>

(* Running tasks are marked CANCELLED without waiting for their report.    *)
BugBeginCancelRunning ==
    /\ cancelling' = TRUE
    /\ term' = term \cup live
    /\ state' = [t \in Tasks |->
                    IF state[t] \in Terminal THEN state[t] ELSE "CANCELLED"]
    /\ ready' = {} /\ waiting_for_retry' = {} /\ due' = {}
    /\ UNCHANGED <<remaining_deps, attempts_made, has_reservation, used,
                   running_count, attempts>>

(* begin_cancel: ask every running child to terminate, cancel everything   *)
(* that has not started and everything between two attempts.               *)
BeginCancel ==
    /\ cancelling' = TRUE
    /\ term' = term \cup {p \in live : p[1] \in Running
                                         /\ p[2] = attempts_made[p[1]]}
    /\ state' = [t \in Tasks |->
                    IF t \in ready \cup waiting_for_retry \/ state[t] = "PENDING"
                    THEN "CANCELLED" ELSE state[t]]
    /\ ready' = {} /\ waiting_for_retry' = {} /\ due' = {}
    /\ UNCHANGED <<remaining_deps, attempts_made, has_reservation, used,
                   running_count, attempts>>

(* The test of the flag at the top of the loop.                            *)
CheckCancel ==
    /\ pc = "check"
    /\ pc' = "launch"
    /\ IF CancelRequested /\ ~cancelling
       THEN BeginCancel
       ELSE UNCHANGED <<sched, term>>
    /\ UNCHANGED <<delivered, run_state, events, batch, live, logged, caller>>

(* DefaultSchedulingPolicy::prefer, without its tie-breaks: of two entries *)
(* of the same priority either may have been ready first.                  *)
Preferred(u, t) == Priority[u] > Priority[t]

(* One child too many.                                                     *)
BugTried(t) ==
    /\ pc = "launch"
    /\ ~cancelling
    /\ running_count <= MaxConcurrency
    /\ t \in ready
    /\ \A u \in ready : Preferred(u, t) => ~Fits(u)

(* launch_phase tries t: there is a free slot, and every ready entry the   *)
(* policy prefers was tried first and did not fit.                         *)
Tried(t) ==
    /\ pc = "launch"
    /\ ~cancelling
    /\ running_count < MaxConcurrency
    /\ t \in ready
    /\ \A u \in ready : Preferred(u, t) => ~Fits(u)

(* The tasks of R fail and all that depends on them is skipped.            *)
FailAndSkip(R) ==
    /\ state' = [u \in Tasks |-> IF u \in R THEN "FAILED"
                                 ELSE IF u \in SkipSet(R) THEN "SKIPPED"
                                 ELSE state[u]]
    /\ ready' = ready \ (R \cup SkipSet(R))
    /\ waiting_for_retry' = waiting_for_retry \ SkipSet(R)
    /\ due' = due \ SkipSet(R)
    /\ UNCHANGED <<remaining_deps, attempts_made, cancelling>>

(* try_start, step 1: a declared input does not exist.                     *)
StartMissingInput(t) ==
    /\ Tried(t)
    /\ t \in HasInputs
    /\ attempts' = [attempts EXCEPT
                      ![t] = RecordAttempt(@, t, "FAILED", "missing_input")]
    /\ FailAndSkip({t})
    /\ UNCHANGED <<pc, has_reservation, used, running_count, delivered,
                   run_state, events, batch, live, term, logged, caller>>

(* Task t ends in a success-like state: on_task_succeeded.                 *)
Succeed(t, final_state) ==
    /\ remaining_deps' = RemainingAfter(t)
    /\ state' = [u \in Tasks |-> IF u = t THEN final_state
                                 ELSE IF u \in NewlyReady(t) THEN "READY"
                                 ELSE state[u]]
    /\ ready' = (ready \ {t}) \cup NewlyReady(t)
    /\ UNCHANGED <<attempts_made, waiting_for_retry, due, cancelling>>

(* try_start, step 2: a valid cache entry.                                 *)
StartCached(t) ==
    /\ Tried(t)
    /\ t \in Cacheable
    /\ attempts' = [attempts EXCEPT
                      ![t] = RecordAttempt(@, t, "CACHED", "succeeded")]
    /\ Succeed(t, "CACHED")
    /\ UNCHANGED <<pc, has_reservation, used, running_count, delivered,
                   run_state, events, batch, live, term, logged, caller>>

(* try_start, steps 3 and 4: reserve and start_process.                    *)
StartProcess(t) ==
    /\ Tried(t)
    /\ Fits(t)
    /\ used' = Reserved(t)
    /\ has_reservation' = has_reservation \cup {t}
    /\ attempts_made' = [attempts_made EXCEPT ![t] = @ + 1]
    /\ state' = [state EXCEPT ![t] = "RUNNING"]
    /\ live' = live \cup {<<t, attempts_made[t] + 1>>}
    /\ running_count' = running_count + 1
    /\ ready' = ready \ {t}
    /\ UNCHANGED <<pc, remaining_deps, waiting_for_retry, due, cancelling,
                   attempts, delivered, run_state, events, batch, term, logged,
                   caller>>

(* The scan of launch_phase has found nothing more to start.               *)
ScanOver == cancelling \/ running_count >= MaxConcurrency \/ \A t \in ready : ~Fits(t)

(* launch_phase's safety net: what is ready can never be satisfied.        *)
Stuck == ~cancelling /\ running_count = 0 /\ ready # {} /\ NobodyWaits

SafetyNet ==
    /\ pc = "launch"
    /\ ScanOver /\ Stuck
    /\ attempts' = [t \in Tasks |->
                      IF t \in ready
                      THEN RecordAttempt(attempts[t], t, "FAILED", "start_failure")
                      ELSE attempts[t]]
    /\ FailAndSkip(ready)
    /\ UNCHANGED <<pc, has_reservation, used, running_count, delivered,
                   run_state, events, batch, live, term, logged, caller>>

(* The end of launch_phase and the test of all_settled().                  *)
EndLaunch ==
    /\ pc = "launch"
    /\ ScanOver /\ ~Stuck
    /\ pc' = IF AllSettled THEN "finish" ELSE "wait"
    /\ UNCHANGED <<sched, delivered, run_state, events, batch, live, term,
                   logged, caller>>

(* The newest event is handled first.                                      *)
BugTakeBatch ==
    /\ batch' = [i \in DOMAIN events |-> events[Len(events) + 1 - i]]
    /\ events' = <<>>
    /\ pc' = "handle"

(* batch.swap(events_), the mutex held.                                    *)
TakeBatch ==
    /\ batch' = events
    /\ events' = <<>>
    /\ pc' = "handle"

(* The mutex is taken.  The predicate of wait() is evaluated before it     *)
(* blocks, so a flag already stored makes it return with an empty batch.   *)
Wait ==
    /\ pc = "wait"
    /\ IF events # <<>> \/ (NobodyWaits /\ CancelRequested)
       THEN TakeBatch
       ELSE /\ pc' = IF NobodyWaits THEN "cond_wait" ELSE "timed_wait"
            /\ UNCHANGED <<events, batch>>
    /\ UNCHANGED <<sched, delivered, run_state, live, term, logged, caller>>

(* wait_until() returns at the earliest retry deadline.                    *)
Timeout ==
    /\ pc = "timed_wait"
    /\ due # {}
    /\ pc' = "swap"
    /\ UNCHANGED <<sched, delivered, run_state, events, batch, live, term,
                   logged, caller>>

(* wait_until() has returned: whatever woke it, the batch is taken.        *)
Swap ==
    /\ pc = "swap"
    /\ TakeBatch
    /\ UNCHANGED <<sched, delivered, run_state, live, term, logged, caller>>

(* A condition variable may wake without a notification.                   *)
SpuriousWake ==
    /\ pc \in {"cond_wait", "timed_wait"}
    /\ pc' = NotifyAll
    /\ UNCHANGED <<sched, delivered, run_state, events, batch, live, term,
                   logged, caller>>

(* The next event of the batch.                                            *)
NextEvent(type) ==
    /\ pc = "handle"
    /\ batch # <<>>
    /\ Head(batch).type = type
    /\ batch' = Tail(batch)

HandleCancel ==
    /\ NextEvent("cancel")
    /\ IF cancelling THEN UNCHANGED <<sched, term>> ELSE BeginCancel
    /\ UNCHANGED <<pc, delivered, run_state, events, live, logged, caller>>

HandleLog ==
    /\ NextEvent("log")
    /\ delivered' = delivered \cup {<<Head(batch).node, Head(batch).attempt>>}
    /\ UNCHANGED <<pc, sched, run_state, events, live, term, logged, caller>>

(* The head of handle_process_finished, common to its four ends: the slot  *)
(* and the reservation are given back and the attempt is recorded.  A task *)
(* that exited zero without one of its outputs has not succeeded.          *)
ProcessFinished(t, final_state, kind) ==
    /\ NextEvent("finished")
    /\ t = Head(batch).node
    /\ kind \in {Classify(Head(batch).outcome)}
                  \cup (IF Head(batch).outcome = "exited_zero" /\ t \in HasOutputs
                        THEN {"missing_output"} ELSE {})
    /\ running_count' = IF running_count > 0 THEN running_count - 1 ELSE 0
    /\ used' = Released(t)
    /\ has_reservation' = has_reservation \ {t}
    /\ attempts' = [attempts EXCEPT ![t] = RecordAttempt(@, t, final_state, kind)]
    /\ UNCHANGED <<pc, delivered, run_state, events, live, term, logged, caller>>

HandleSuccess(t) ==
    /\ ProcessFinished(t, "SUCCEEDED", "succeeded")
    /\ Succeed(t, "SUCCEEDED")

(* A failure while cancelling, or one the runner reports as a cancellation.*)
HandleCancelled(t, kind) ==
    /\ kind # "succeeded"
    /\ ProcessFinished(t, "FAILED", kind)
    /\ cancelling \/ kind = "cancelled"
    /\ state' = [state EXCEPT ![t] = "CANCELLED"]
    /\ UNCHANGED <<remaining_deps, attempts_made, waiting_for_retry, due, ready,
                   cancelling>>

(* waiting_for_retry is not cleared when the task is queued again.         *)
BugPromote(waiting, elapsed) ==
    /\ ready' = ready \cup (waiting \cap elapsed)
    /\ waiting_for_retry' = waiting
    /\ due' = elapsed

(* promote_backoff_ready, for the given waiting tasks and elapsed delays.  *)
Promote(waiting, elapsed) ==
    LET back == IF cancelling THEN {} ELSE waiting \cap elapsed IN
    /\ ready' = ready \cup back
    /\ waiting_for_retry' = waiting \ back
    /\ due' = elapsed \ back

(* on_task_failed with an attempt left: a zero delay is over at once, and  *)
(* every other delay that is over is noticed too.                          *)
HandleRetry(t, kind) ==
    /\ kind # "succeeded"
    /\ ProcessFinished(t, "FAILED", kind)
    /\ ~cancelling /\ kind # "cancelled"
    /\ kind \in Retryable /\ ShouldRetry(attempts_made[t], MaxAttempts[t])
    /\ state' = [state EXCEPT ![t] = "READY"]
    /\ Promote(waiting_for_retry \cup {t},
               IF t \in Backoff THEN due \ {t} ELSE due \cup {t})
    /\ UNCHANGED <<remaining_deps, attempts_made, cancelling>>

(* on_task_failed with nothing left to try.                                *)
HandleFailure(t, kind) ==
    /\ kind # "succeeded"
    /\ ProcessFinished(t, "FAILED", kind)
    /\ ~cancelling /\ kind # "cancelled"
    /\ ~(kind \in Retryable /\ ShouldRetry(attempts_made[t], MaxAttempts[t]))
    /\ FailAndSkip({t})

(* The batch is empty: promote_backoff_ready() ends the round.             *)
EndRound ==
    /\ pc = "handle"
    /\ batch = <<>>
    /\ pc' = "check"
    /\ Promote(waiting_for_retry, due)
    /\ UNCHANGED <<state, remaining_deps, attempts_made, has_reservation, used,
                   running_count, cancelling, attempts, delivered, run_state,
                   events, batch, live, term, logged, caller>>

(* After the loop: late log lines are delivered, any other event that is   *)
(* still queued is dropped, and the run gets its final state.              *)
Finish ==
    /\ pc = "finish"
    /\ pc' = "done"
    /\ delivered' = delivered \cup {<<events[i].node, events[i].attempt>> :
                        i \in {j \in DOMAIN events : events[j].type = "log"}}
    /\ events' = <<>>
    /\ run_state' = Verdict
    /\ UNCHANGED <<sched, batch, live, term, logged, caller>>

SchedulerStep ==
    \/ Start \/ CheckCancel
    \/ \E t \in Tasks : StartMissingInput(t) \/ StartCached(t) \/ StartProcess(t)
    \/ SafetyNet \/ EndLaunch \/ Wait \/ Timeout \/ Swap
    \/ HandleCancel \/ HandleLog
    \/ \E t \in Tasks :
         \/ HandleSuccess(t)
         \/ \E kind \in ResultKind : HandleCancelled(t, kind)
                                       \/ HandleRetry(t, kind)
                                       \/ HandleFailure(t, kind)
    \/ EndRound \/ Finish

-----------------------------------------------------------------------------
(* The environment: the runner's reactor thread, the clock, the callers *)

(* on_stdout / on_stderr of a live child.                                  *)
LogLine(p) ==
    /\ p \in live \ logged
    /\ p[1] \in Talkative
    /\ logged' = logged \cup {p}
    /\ PushEvent([type |-> "log", node |-> p[1], attempt |-> p[2]])
    /\ UNCHANGED <<sched, delivered, run_state, batch, live, term, caller>>

(* on_exit, once per child.  Only a child that was asked to terminate is   *)
(* reported as cancelled, and it may have ended otherwise before that.     *)
ProcessExit(p, outcome) ==
    /\ p \in live
    /\ outcome = "cancelled" => p \in term
    /\ live' = live \ {p}
    /\ term' = term \ {p}
    /\ PushEvent([type |-> "finished", node |-> p[1], attempt |-> p[2],
                  outcome |-> outcome])
    /\ UNCHANGED <<sched, delivered, run_state, batch, logged, caller>>

(* The retry delay of t is over.                                           *)
Elapse(t) ==
    /\ t \in waiting_for_retry \ due
    /\ due' = due \cup {t}
    /\ UNCHANGED <<pc, state, remaining_deps, attempts_made, waiting_for_retry,
                   has_reservation, used, ready, running_count, cancelling,
                   attempts, delivered, run_state, events, batch, live, term,
                   logged, caller>>

(* cancel() stores the flag without the mutex ...                          *)
CancelStore(c) ==
    /\ caller[c] = "idle"
    /\ caller' = [caller EXCEPT ![c] = "stored"]
    /\ UNCHANGED <<pc, sched, delivered, run_state, events, batch, live, term,
                   logged>>

(* Only the flag: the sleeping scheduler is not woken.                     *)
BugCancelPush(c) ==
    /\ caller[c] = "stored"
    /\ caller' = [caller EXCEPT ![c] = "pushed"]
    /\ UNCHANGED <<pc, sched, delivered, run_state, events, batch, live, term,
                   logged>>

(* ... then pushes the event and notifies.                                 *)
CancelPush(c) ==
    /\ caller[c] = "stored"
    /\ caller' = [caller EXCEPT ![c] = "pushed"]
    /\ PushEvent([type |-> "cancel"])
    /\ UNCHANGED <<sched, delivered, run_state, batch, live, term, logged>>

(* run() has returned.                                                     *)
Returned == pc = "done" /\ UNCHANGED vars

Next ==
    \/ SchedulerStep \/ SpuriousWake
    \/ \E p \in live : LogLine(p) \/ \E o \in Outcomes : ProcessExit(p, o)
    \/ \E t \in Tasks : Elapse(t)
    \/ \E c \in Callers : CancelStore(c) \/ CancelPush(c)
    \/ Returned

Spec == Init /\ [][Next]_vars

(* Fairness.  The scheduler thread keeps running; a notified or expired    *)
(* wait returns (a spurious wakeup is never relied on); delays end; a      *)
(* caller inside cancel() finishes it; a child that was asked to terminate *)
(* ends, because the runner escalates from SIGTERM to SIGKILL.  Nothing is *)
(* assumed of a child that nobody asked to terminate: it may run forever.  *)
Fairness ==
    /\ WF_vars(SchedulerStep)
    /\ \A t \in Tasks : WF_vars(Elapse(t))
    /\ \A c \in Callers : WF_vars(CancelPush(c))
    /\ WF_vars(\E p \in term, o \in Outcomes : ProcessExit(p, o))

CancelSpec == Spec /\ Fairness

-----------------------------------------------------------------------------
(* Properties *)

(* The places of the results in a queue; the queue holds t's result.       *)
Queued(q) == {i \in DOMAIN q : q[i].type = "finished"}
HasReport(q, t) == \E i \in Queued(q) : q[i].node = t

(* Every result in q is that of the current attempt of one of the running  *)
(* tasks, and no task has two.                                             *)
ReportsSound(q, running, current) ==
    \A i \in Queued(q) :
        /\ q[i].node \in running
        /\ q[i].attempt = current[q[i].node]
        /\ \A j \in Queued(q) : q[i].node = q[j].node => i = j

(* running_count_ and the reservations are exactly those of the RUNNING    *)
(* tasks, and there are never more of them than max_concurrency allows:    *)
(* every way out of handle_process_finished gives back what start_process  *)
(* took, and nothing else does.                                            *)
SlotsAccounted ==
    /\ running_count = Cardinality(Running)
    /\ running_count <= MaxConcurrency
    /\ has_reservation = Running

(* The pool holds exactly what the RUNNING tasks asked for, and never more *)
(* than the machine has: the clamp at zero of ResourcePool::release hides  *)
(* no double release.                                                      *)
ResourcesAccounted ==
    \A x \in Dims :
        /\ used[x] = MapThenSumSet(LAMBDA t : Req[t][x], Running)
        /\ used[x] <= Capacity[x]

(* The safety net of launch_phase fails no task that could have run: each  *)
(* of them asks for more than the machine has.  "Only reachable if         *)
(* validation against the resource pool was skipped" (scheduler.cpp:226).  *)
SafetyNetIsJust ==
    (pc = "launch" /\ ScanOver /\ Stuck) =>
      \A t \in ready : \E x \in Dims : Req[t][x] > Capacity[x]

(* Between start_process and handle_process_finished, each RUNNING task    *)
(* has exactly one thing outstanding, for its current attempt: a child the *)
(* runner will report, or one finished event in the queue or in the batch; *)
(* and there is no child and no finished event of any other task.          *)
OneReportPerAttempt ==
    /\ \A p \in live : p[1] \in Running /\ p[2] = attempts_made[p[1]]
    /\ ReportsSound(events, Running, attempts_made)
    /\ ReportsSound(batch, Running, attempts_made)
    /\ \A t \in Running :
         LET alive == <<t, attempts_made[t]>> \in live
             queued == HasReport(events, t)
             taken == HasReport(batch, t)
         IN  /\ alive \/ queued \/ taken
             /\ ~(alive /\ queued) /\ ~(alive /\ taken) /\ ~(queued /\ taken)

(* A task that was ever made READY has all its dependencies SUCCEEDED or   *)
(* CACHED, whatever happened to the rest of the graph in the meantime.     *)
DepsSucceeded ==
    \A t \in Tasks :
        state[t] \in {"READY", "RUNNING", "SUCCEEDED", "FAILED", "CACHED"}
            => \A d \in Deps[t] : state[d] \in SuccessLike

(* The dependency counter of a task is the number of its dependencies that *)
(* have not succeeded: no success is counted twice (a retry, a cache hit)  *)
(* and none is lost.                                                       *)
RemainingExact ==
    \A t \in Tasks : remaining_deps[t] =
        Cardinality({d \in Deps[t] : state[d] \notin SuccessLike})

(* No task is started too early, and none that could start is forgotten.   *)
DependenciesExact == RemainingExact /\ DepsSucceeded

(* Once run() has started, a task is READY exactly when it is in the ready *)
(* queue or behind its backoff timer, never in both.                       *)
ReadyExact ==
    /\ ready \cap waiting_for_retry = {}
    /\ {t \in Tasks : state[t] = "READY"} = ready \cup waiting_for_retry

(* all_settled() does not look at PENDING tasks; still, when the loop has  *)
(* ended every task of the pipeline is in a terminal state.                *)
AllTerminalWhenDone ==
    pc \in {"finish", "done"} => \A t \in Tasks : state[t] \in Terminal

(* Failure is branch-local: as long as the run is not cancelled, a task is *)
(* SKIPPED exactly when one of its dependencies has FAILED or was SKIPPED. *)
SkippedIffBlocked ==
    ~cancelling =>
        \A t \in Tasks : state[t] = "SKIPPED"
            <=> \E d \in Deps[t] : state[d] \in {"FAILED", "SKIPPED"}

(* No task runs more often than its retry policy allows, and a task FAILED *)
(* by a retryable result has used up every attempt.                        *)
RetryBudget ==
    \A t \in Tasks :
        /\ attempts_made[t] <= MaxAttempts[t]
        /\ (state[t] = "FAILED" /\ attempts[t][Len(attempts[t])].kind \in Retryable)
             => attempts_made[t] = MaxAttempts[t]

(* From the moment the scheduler honours a cancellation, every child that  *)
(* is still alive has been asked to terminate and no new one appears, even *)
(* when the request lands while a retry or a launch is under way.          *)
CancelReachesEveryChild == cancelling => live \subseteq term

(* The drain after the loop throws away everything but log lines; nothing  *)
(* that matters is there: no child is alive and no result is queued.       *)
FinishDropsNothing ==
    pc \in {"finish", "done"} =>
        live = {} /\ Queued(events) = {} /\ batch = <<>>

(* The observer sees the log lines of an attempt before its result, and    *)
(* none is lost: a line that was written is queued or delivered, and once  *)
(* the attempt is over it is delivered.                                    *)
LogsBeforeResult ==
    \A p \in logged \ delivered :
        /\ p[1] \in Running /\ p[2] = attempts_made[p[1]]
        /\ \A i \in Queued(batch) : batch[i].node = p[1] =>
             \E j \in 1..i : batch[j].type = "log" /\ batch[j].node = p[1]

(* Every task changes state only as Lifecycle says, from whichever of the  *)
(* handlers the change comes; in particular a terminal state is final.     *)
TaskLifecycle ==
    [][\A t \in Tasks : state'[t] # state[t]
            => <<state[t], state'[t]>> \in Lifecycle]_vars

(* run() returns if children end, by themselves or by their timeouts,      *)
(* whatever the order of their results and of the retries, and even if a   *)
(* task that fits no machine was let through.                              *)
Termination ==
    WF_vars(\E p \in live, o \in Outcomes : ProcessExit(p, o)) => <>(pc = "done")

(* Once cancel() has been called run() returns, even if no child would     *)
(* ever end by itself: no interleaving of the flag, the event and the two  *)
(* waits loses the request.                                                *)
CancelStopsRun == CancelRequested ~> (pc = "done")

(* The loop implements what the engine relies on (RunContract): tasks move *)
(* only for the reasons the pipeline gives them, a cancellation is only    *)
(* honoured when it was asked for, and the verdict is that of the tasks.   *)
Run == INSTANCE RunContract WITH cancelled <- CancelRequested,
                                 stopping <- cancelling

ImplementsRun == Run!RunSpec

-----------------------------------------------------------------------------
(* What the documentation says and the code does not do *)

(* enums.hpp says that is_valid_transition guards the runtime state        *)
(* machine, and execution-model.md that it is the full legal table.        *)
LegalTransitions ==
    [][\A t \in Tasks : state'[t] # state[t]
            => <<state[t], state'[t]>> \in ValidTransition]_vars

(* The schema has UNIQUE (task_run_id, attempt_number) on task_attempts.   *)
AttemptNumbersUnique ==
    \A t \in Tasks : \A i, j \in DOMAIN attempts[t] :
        attempts[t][i].number = attempts[t][j].number => i = j

(* scheduler.hpp: "Never busy-waits".  A round of a cancelling scheduler   *)
(* starts because something was queued or a retry deadline passed.         *)
NeverBusyWaits ==
    [][(pc # "handle" /\ pc' = "handle" /\ cancelling)
            => (batch' # <<>> \/ ~NobodyWaits)]_vars
=============================================================================

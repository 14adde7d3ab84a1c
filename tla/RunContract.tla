---------------------------- MODULE RunContract -----------------------------
(***************************************************************************)
(* What one pipeline run looks like to the engine that executes it with    *)
(* Scheduler::run() and Scheduler::cancel() (include/flowforge/scheduler/  *)
(* scheduler.hpp) and to the observers of its task states: no queue, no    *)
(* slots, no children, no attempts.  Scheduler implements it; Engine is    *)
(* built on it.                                                            *)
(***************************************************************************)
EXTENDS Domain

CONSTANTS
    Tasks,      \* the task ids of the pipeline
    Deps        \* Deps[t]: the tasks t depends on

VARIABLES
    state,      \* the state of each task
    run_state,  \* the state of the run
    cancelled,  \* cancel() has been called
    stopping    \* the scheduler has begun to honour it

rvars == <<state, run_state, cancelled, stopping>>

RunInit ==
    /\ state = [t \in Tasks |-> "PENDING"]
    /\ run_state = "CREATED"
    /\ cancelled = FALSE
    /\ stopping = FALSE

(* Why a task may enter its new state.  Nothing is started, retried or     *)
(* failed once the run is stopping, and nothing is cancelled before.       *)
Justified(t) ==
    CASE state'[t] = "READY"     -> /\ ~stopping'
                                    /\ \A d \in Deps[t] : state'[d] \in SuccessLike
      [] state'[t] = "SKIPPED"   -> /\ ~stopping'
                                    /\ \E d \in Deps[t] :
                                         state'[d] \in {"FAILED", "SKIPPED"}
      [] state'[t] = "CANCELLED" -> stopping'
      [] state'[t] = "SUCCEEDED" -> TRUE
      [] OTHER                   -> ~stopping'

(* Any number of tasks move, each along its life cycle.                    *)
Moves ==
    /\ state' \in [Tasks -> TaskState]
    /\ \A t \in Tasks : state'[t] # state[t] =>
         <<state[t], state'[t]>> \in Lifecycle /\ Justified(t)

(* run() begins: the tasks without dependencies become READY.              *)
Begin ==
    /\ run_state = "CREATED"
    /\ run_state' = "RUNNING"
    /\ UNCHANGED <<cancelled, stopping>>
    /\ Moves

Work ==
    /\ run_state = "RUNNING"
    /\ UNCHANGED <<run_state, cancelled, stopping>>
    /\ Moves

(* cancel(), from any thread at any time.                                  *)
RequestCancel ==
    /\ cancelled' = TRUE
    /\ UNCHANGED <<state, run_state, stopping>>

(* begin_cancel: what has not started is cancelled at once.                *)
Honour ==
    /\ run_state = "RUNNING"
    /\ cancelled /\ ~stopping
    /\ stopping' = TRUE
    /\ UNCHANGED <<run_state, cancelled>>
    /\ state' = [t \in Tasks |-> IF state[t] \in {"PENDING", "READY"}
                                 THEN "CANCELLED" ELSE state[t]]

RunVerdict ==
    IF cancelled THEN "CANCELLED"
    ELSE IF \E t \in Tasks : state[t] = "FAILED" THEN "FAILED"
    ELSE "SUCCEEDED"

(* run() returns, once every task is in a terminal state.                  *)
End ==
    /\ run_state = "RUNNING"
    /\ \A t \in Tasks : state[t] \in Terminal
    /\ run_state' = RunVerdict
    /\ UNCHANGED <<state, cancelled, stopping>>

RunNext == Begin \/ Work \/ RequestCancel \/ Honour \/ End

RunSpec == RunInit /\ [][RunNext]_rvars
=============================================================================

------------------------------- MODULE Domain -------------------------------
(***************************************************************************)
(* The enumerations of include/flowforge/domain and the pure functions on  *)
(* them (src/core/domain/enums.cpp, run_state.cpp, retry_policy.hpp): task *)
(* states, pipeline states, result kinds, process outcomes.                *)
(***************************************************************************)
EXTENDS Integers

TaskState == {"PENDING", "READY", "RUNNING", "SUCCEEDED", "FAILED",
              "SKIPPED", "CANCELLED", "CACHED"}

PipelineState == {"CREATED", "RUNNING", "SUCCEEDED", "FAILED", "CANCELLED",
                  "INTERRUPTED"}

(* is_terminal(TaskState) and is_success_like: a dependent may proceed.    *)
Terminal == {"SUCCEEDED", "FAILED", "SKIPPED", "CANCELLED", "CACHED"}

SuccessLike == {"SUCCEEDED", "CACHED"}

(* is_terminal(PipelineState).                                             *)
TerminalRun == {"SUCCEEDED", "FAILED", "CANCELLED", "INTERRUPTED"}

(* is_valid_transition(from, to): the table of legal task transitions.     *)
ValidTransition ==
    ({"PENDING"} \X {"READY", "SKIPPED", "CANCELLED"})
      \cup ({"READY"} \X {"RUNNING", "CACHED", "SKIPPED", "CANCELLED"})
      \cup ({"RUNNING"} \X {"SUCCEEDED", "FAILED", "CANCELLED", "READY"})

(* The life of a task, as the scheduler really drives it: what the table   *)
(* above has, and the step from READY to FAILED of a missing input or of   *)
(* the safety net; never from READY to SKIPPED, because only PENDING tasks *)
(* have a failed dependency.  A terminal state is final.                   *)
Lifecycle ==
    (ValidTransition \ {<<"READY", "SKIPPED">>}) \cup {<<"READY", "FAILED">>}

ResultKind == {"succeeded", "failed_exit", "timeout", "crashed",
               "start_failure", "missing_output", "missing_input", "cancelled"}

(* is_retryable: deterministic configuration errors and cancellation are   *)
(* never retried.                                                          *)
Retryable == {"failed_exit", "timeout", "crashed", "missing_output"}

(* What the process runner reports for one attempt; an exit carries its    *)
(* code, of which only zero or not zero matters.                           *)
ProcessOutcome == {"exited_zero", "exited_nonzero", "signalled", "timed_out",
                   "cancelled", "spawn_failed"}

(* Scheduler::classify.                                                    *)
Classify(outcome) ==
    CASE outcome = "exited_zero"    -> "succeeded"
      [] outcome = "exited_nonzero" -> "failed_exit"
      [] outcome = "signalled"      -> "crashed"
      [] outcome = "timed_out"      -> "timeout"
      [] outcome = "cancelled"      -> "cancelled"
      [] outcome = "spawn_failed"   -> "start_failure"

(* A seeded fault: one attempt too many.                                   *)
BugShouldRetry(attempts_made, max) == attempts_made >= 1 /\ attempts_made <= max

(* RetryPolicy::should_retry, max being max_attempts() >= 1.               *)
ShouldRetry(attempts_made, max) == attempts_made >= 1 /\ attempts_made < max
=============================================================================

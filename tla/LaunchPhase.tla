----------------------------- MODULE LaunchPhase ----------------------------
(***************************************************************************)
(* Which ready task starts next, and when a failed one starts again: the   *)
(* ready queue (ready_queue.cpp) in the order of the default policy        *)
(* (scheduling_policy.cpp), the scan of Scheduler::launch_phase, the       *)
(* backoff of retries, and the clock that stamps them.                     *)
(*                                                                         *)
(* Module Scheduler has the threads, the cancellation and the records of a *)
(* run; it keeps the ready tasks as a set and lets any deadline pass.      *)
(* Here they are a queue and numbers, and the tasks are the definitions    *)
(* that were read from a document.  An attempt has its times only.         *)
(***************************************************************************)
EXTENDS Validation, Domain

CONSTANTS
    IdOrder,     \* the task ids in the order of std::string
    MaxClock     \* the clock stands still here unless a retry is pending

ASSUME LaunchPhaseAssumption == MaxClock \in Nat

VARIABLES
    run,         \* [pipeline, config, slots, cache, checksums, database, machine]
    files,       \* the locations of the files on disk
    state,       \* TaskState of every task
    ready,       \* ReadyQueue::entries_
    scan,        \* i of the loop in launch_phase
    used,        \* ResourcePool: what is reserved
    attempts,    \* the started attempts of every task
    retry_not_before,  \* the deadline of each task that is waiting_for_retry
    clock,       \* now()
    pc           \* where the scheduler's loop is

launchVars == <<run, files, state, ready, scan, used, attempts,
                retry_not_before, clock, pc>>

-----------------------------------------------------------------------------
(* DefaultSchedulingPolicy::prefer and ReadyQueue *)

Before(a, b) == \E i, j \in DOMAIN IdOrder :
                  i < j /\ IdOrder[i] = a /\ IdOrder[j] = b

Prefer(a, b) ==
    \/ a.priority > b.priority
    \/ a.priority = b.priority /\ a.since < b.since
    \/ a.priority = b.priority /\ a.since = b.since /\ Before(a.id, b.id)

(* The arguments of prefer are swapped.                                    *)
BugPush(queue, entry) ==
    InsertAt(queue,
             Min({i \in DOMAIN queue : Prefer(queue[i], entry)} \cup {Len(queue) + 1}),
             entry)

Push(queue, entry) ==
    InsertAt(queue,
             Min({i \in DOMAIN queue : Prefer(entry, queue[i])} \cup {Len(queue) + 1}),
             entry)

(* The entry is dropped where the scan found it.                           *)
BugDrop(queue, position, id) == RemoveAt(queue, position)

(* ReadyQueue::remove, of the entry the scan found at position: it may     *)
(* have moved since.                                                       *)
Drop(queue, position, id) == SelectSeq(queue, LAMBDA entry : entry.id # id)

-----------------------------------------------------------------------------
(* The tasks of the run *)

Nodes == [i \in DOMAIN run.pipeline.tasks |-> run.pipeline.tasks[i].id]

TaskOf(id) == FindTask(run.pipeline, id)

Predecessors(id) == {e[1] : e \in {e \in EdgeSet(run.pipeline) : e[2] = id}}

(* Dag::dependents, without the edges that are given twice.                *)
Successors(id) ==
    FoldLeft(LAMBDA seen, e : IF e[1] # id \/ Contains(seen, e[2]) THEN seen
                              ELSE Append(seen, e[2]),
             <<>>, run.pipeline.edges)

Running == {id \in DOMAIN state : state[id] = "RUNNING"}

Waiting == DOMAIN retry_not_before

SlotFree == Cardinality(Running) < run.slots

(* ResourcePool::try_reserve.                                              *)
Fits(id) ==
    \A dim \in DOMAIN used :
      used[dim] + TaskOf(id).resources[dim] <= run.config.resource_capacity[dim]

Present == files \cup run.machine.dirs

Outputs(id) == Locations(run.pipeline.base_directory, TaskOf(id), TaskOf(id).outputs)

MissingInputs(id) ==
    Locations(run.pipeline.base_directory, TaskOf(id), TaskOf(id).inputs) \ Present

(* The machine as it is now.                                               *)
MachineNow == [run.machine EXCEPT !.files = files]

-----------------------------------------------------------------------------
(* Every push reads the clock: the stamps of one step are equal, or they   *)
(* follow each other if the clock goes on meanwhile.                       *)
PushAll(queue, ids, spread) ==
    FoldLeftDomain(LAMBDA q, i :
        Push(q, [id |-> ids[i], priority |-> TaskOf(ids[i]).priority,
                 since |-> clock + (IF spread THEN i - 1 ELSE 0)]),
      queue, ids)

ClockAfter(ids, spread) ==
    IF spread /\ ids # <<>> THEN clock + Len(ids) - 1 ELSE clock

MaySpread(ids, spread) == spread => Len(ids) > 1 /\ clock + Len(ids) - 1 <= MaxClock

(* seed_ready, for a run r that has just begun.                            *)
Seed(r, spread) ==
    LET ids == [i \in DOMAIN r.pipeline.tasks |-> r.pipeline.tasks[i].id]
        roots == SelectSeq(ids, LAMBDA id : id \notin {e[2] : e \in EdgeSet(r.pipeline)})
    IN
    /\ run' = r
    /\ spread => Len(roots) > 1 /\ Len(roots) - 1 <= MaxClock
    /\ state' = [id \in Ids(r.pipeline) |->
                   IF id \in Range(roots) THEN "READY" ELSE "PENDING"]
    /\ ready' = FoldLeftDomain(LAMBDA q, i :
                    Push(q, [id |-> roots[i],
                             priority |-> FindTask(r.pipeline, roots[i]).priority,
                             since |-> IF spread THEN i - 1 ELSE 0]),
                  <<>>, roots)
    /\ clock' = IF spread THEN Len(roots) - 1 ELSE 0
    /\ scan' = 1
    /\ used' = [dim \in DOMAIN r.config.resource_capacity |-> 0]
    /\ attempts' = [id \in Ids(r.pipeline) |-> <<>>]
    /\ retry_not_before' = <<>>
    /\ pc' = "scan"
    /\ UNCHANGED files

-----------------------------------------------------------------------------
(* launch_phase *)

(* The entry the scan looks at.                                            *)
Candidate == ready[scan].id

Trying == pc = "scan" /\ SlotFree /\ scan <= Len(ready)

(* on_task_succeeded: dependents whose last dependency this was.           *)
NewlyReady(id) ==
    SelectSeq(Successors(id), LAMBDA u :
        state[u] = "PENDING"
          /\ \A d \in Predecessors(u) \ {id} : state[d] \in SuccessLike)

SucceedAs(id, final, next) ==
    state' = [u \in DOMAIN state |-> IF u = id THEN final
                                     ELSE IF Contains(next, u) THEN "READY"
                                     ELSE state[u]]

(* mark_state(FAILED) and skip_downstream.  What is downstream of a task   *)
(* that has not succeeded is PENDING: there is nothing to take out of the  *)
(* queue (Scheduler's DepsSucceeded).                                      *)
FailAndSkip(ids) ==
    LET below == UNION {Dependents(run.pipeline, id) : id \in ids} IN
    state' = [u \in DOMAIN state |->
                IF u \in ids THEN "FAILED"
                ELSE IF u \in below /\ state[u] \notin Terminal \cup {"RUNNING"}
                THEN "SKIPPED" ELSE state[u]]

(* try_start: an input is not there.                                       *)
TryMissing ==
    /\ Trying /\ MissingInputs(Candidate) # {}
    /\ FailAndSkip({Candidate})
    /\ ready' = Drop(ready, scan, Candidate)
    /\ scan' = 1
    /\ UNCHANGED <<run, files, used, attempts, retry_not_before, clock, pc>>

(* try_start: the cache has a valid entry for the key of the candidate.    *)
(* It may have been stored by a task with the same command or before the   *)
(* outputs were declared, so it says nothing of the outputs that are       *)
(* declared now (module Cache).  The dependents enter the queue before the *)
(* candidate leaves it.                                                    *)
TryCached(spread) ==
    LET next == NewlyReady(Candidate) IN
    /\ Trying /\ MissingInputs(Candidate) = {}
    /\ run.cache /\ TaskOf(Candidate).cache_enabled
    /\ MaySpread(next, spread)
    /\ SucceedAs(Candidate, "CACHED", next)
    /\ ready' = Drop(PushAll(ready, next, spread), scan, Candidate)
    /\ clock' = ClockAfter(next, spread)
    /\ scan' = 1
    /\ UNCHANGED <<run, files, used, attempts, retry_not_before, pc>>

(* try_start: the next entry is tried.                                     *)
TryBlocked ==
    /\ Trying /\ MissingInputs(Candidate) = {} /\ ~Fits(Candidate)
    /\ scan' = scan + 1
    /\ UNCHANGED <<run, files, state, ready, used, attempts, retry_not_before,
                   clock, pc>>

(* try_start and start_process.                                            *)
TryLaunch ==
    /\ Trying /\ MissingInputs(Candidate) = {} /\ Fits(Candidate)
    /\ used' = [dim \in DOMAIN used |-> used[dim] + TaskOf(Candidate).resources[dim]]
    /\ state' = [state EXCEPT ![Candidate] = "RUNNING"]
    /\ attempts' = [attempts EXCEPT ![Candidate] =
                       Append(@, [started |-> clock, finished |-> clock])]
    /\ ready' = Drop(ready, scan, Candidate)
    /\ scan' = 1
    /\ UNCHANGED <<run, files, retry_not_before, clock, pc>>

ScanOver == pc = "scan" /\ (~SlotFree \/ scan > Len(ready))

(* The tasks that the safety net fails.                                    *)
Stuck ==
    IF Running = {} /\ Waiting = {} THEN {entry.id : entry \in Range(ready)} ELSE {}

(* The end of launch_phase, and all_settled.                               *)
EndPhase ==
    /\ ScanOver
    /\ FailAndSkip(Stuck)
    /\ ready' = SelectSeq(ready, LAMBDA entry : entry.id \notin Stuck)
    /\ pc' = IF Running = {} /\ Waiting = {} THEN "over" ELSE "wait"
    /\ UNCHANGED <<run, files, scan, used, attempts, retry_not_before, clock>>

-----------------------------------------------------------------------------
(* Processes end, and the scheduler handles it *)

(* promote_backoff_ready.                                                  *)
Due(deadlines) ==
    SelectSeq(Nodes, LAMBDA id : id \in DOMAIN deadlines /\ deadlines[id] <= clock)

Promote(deadlines) ==
    /\ ready' = PushAll(ready, Due(deadlines), FALSE)
    /\ retry_not_before' = [id \in DOMAIN deadlines \ Range(Due(deadlines)) |->
                               deadlines[id]]

(* handle_process_finished, up to the verdict on the task.                 *)
Finished(id) ==
    /\ pc \in {"wait", "events"} /\ state[id] = "RUNNING"
    /\ pc' = "events"
    /\ used' = [dim \in DOMAIN used |-> used[dim] - TaskOf(id).resources[dim]]
    /\ attempts' = [attempts EXCEPT ![id][Len(attempts[id])].finished = clock]
    /\ UNCHANGED <<run, scan>>

(* Outputs are there, or nobody asks.                                      *)
Verified(id, disk) ==
    run.config.verify_outputs => Outputs(id) \subseteq disk \cup run.machine.dirs

(* on_task_failed.                                                         *)
RetryOrFail(id) ==
    LET made == Len(attempts[id])
        retry == TaskOf(id).retry
    IN  /\ IF ShouldRetry(made, MaxAttempts(retry))
           THEN /\ state' = [state EXCEPT ![id] = "READY"]
                /\ Promote((id :> (clock + DelayBefore(retry, made + 1)))
                             @@ retry_not_before)
           ELSE FailAndSkip({id}) /\ UNCHANGED <<ready, retry_not_before>>
        /\ UNCHANGED clock

(* The process exits with zero and leaves its outputs behind.              *)
ExitZero(id, spread) ==
    LET next == NewlyReady(id) IN
    /\ Finished(id)
    /\ Starts(run.pipeline.base_directory, TaskOf(id), MachineNow)
    /\ files' = files \cup Outputs(id)
    /\ MaySpread(next, spread)
    /\ SucceedAs(id, "SUCCEEDED", next)
    /\ ready' = PushAll(ready, next, spread)
    /\ clock' = ClockAfter(next, spread)
    /\ UNCHANGED retry_not_before

(* It exits with zero and has made nothing.                                *)
ExitZeroIdle(id) ==
    LET next == NewlyReady(id) IN
    /\ Finished(id)
    /\ Starts(run.pipeline.base_directory, TaskOf(id), MachineNow)
    /\ Outputs(id) # {}
    /\ IF Verified(id, files)
       THEN /\ SucceedAs(id, "SUCCEEDED", next)
            /\ ready' = PushAll(ready, next, FALSE)
            /\ UNCHANGED <<retry_not_before, clock>>
       ELSE RetryOrFail(id)
    /\ UNCHANGED files

(* It exits with another code, is killed, or runs into its timeout.        *)
ExitFailed(id) ==
    /\ Finished(id)
    /\ Spawns(run.pipeline.base_directory, TaskOf(id), MachineNow)
    /\ RetryOrFail(id)
    /\ UNCHANGED files

(* execvp fails, which is not tried again.                                 *)
SpawnFailed(id) ==
    /\ Finished(id)
    /\ ~Spawns(run.pipeline.base_directory, TaskOf(id), MachineNow)
    /\ FailAndSkip({id})
    /\ UNCHANGED <<files, ready, retry_not_before, clock>>

(* The batch is handled, or the wait ended at a deadline.                  *)
EndRound ==
    /\ pc = "events" \/ (pc = "wait" /\ Due(retry_not_before) # <<>>)
    /\ Promote(retry_not_before)
    /\ scan' = 1
    /\ pc' = "scan"
    /\ UNCHANGED <<run, files, state, used, attempts, clock>>

(* Time passes while the scheduler waits.                                  *)
Tick ==
    /\ pc = "wait"
    /\ clock < MaxClock \/ \E id \in Waiting : retry_not_before[id] > clock
    /\ clock' = clock + 1
    /\ UNCHANGED <<run, files, state, ready, scan, used, attempts,
                   retry_not_before, pc>>

LaunchNext ==
    \/ TryMissing \/ TryBlocked \/ TryLaunch \/ EndPhase \/ EndRound \/ Tick
    \/ \E spread \in BOOLEAN : TryCached(spread)
    \/ \E id \in DOMAIN state :
         \/ \E spread \in BOOLEAN : ExitZero(id, spread)
         \/ ExitZeroIdle(id) \/ ExitFailed(id) \/ SpawnFailed(id)
=============================================================================

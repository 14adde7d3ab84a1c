# FlowForge in TLA+

FlowForge executes pipelines of shell commands: a JSON document names tasks,
their dependencies, inputs and outputs, resources, retries and timeouts;
`flowforge run` validates it, starts each task when its dependencies have
succeeded and the machine has room, records everything in SQLite, and reuses
results of earlier runs.  This directory holds TLA+ models of the parts whose
correctness depends on order, failure or concurrency, TLC configurations that
check them, a model of the way from a document to a run, and TLAPS proofs about
the parts that meet in every run: the settings, the graph, the scheduler, the
process runner, the engine and the result cache.

Paths below are relative to the repository; `core/` stands for `src/core/`.

## 1. Inventory

| Component | Code | State | Operations | Modelled in |
|---|---|---|---|---|
| Scheduler | `core/scheduler/scheduler.cpp` | node states, dependency counters, ready queue, slots, event queue, cancel flag | `run`, `cancel`, the handlers | `Scheduler` |
| Ready queue, policy | `core/scheduler/ready_queue.cpp`, `scheduling_policy.cpp` | ordered entries | push, remove, drain, compare | `LaunchPhase` (as it is), `Scheduler` (as a set with priorities) |
| Resource pool | `core/resources/resource_pool.cpp` | used amounts | `try_reserve`, `release` | `Scheduler` |
| Process runner | `core/process/posix_process_runner.cpp` | command queue, wakeup pipe, child table, timers | `launch`, `request_terminate`, destructor, the reactor loop | `ProcessRunner` |
| Domain types | `core/domain`, `core/process/process_spec.cpp`, `core/artifacts` | none | transition table, retry decision, backoff, command, environment, paths | `Domain`, `Definitions` |
| Serialization | `core/serialization/pipeline_document.cpp` | none | `load_pipeline_from_json`, `dump_pipeline` | `Document` |
| Validation | `core/validation/pipeline_validator.cpp` | none | `validate_pipeline` | `Validation` |
| Configuration | `core/engine/config.cpp` | none | `Config::load` and its layers | `Settings` |
| Dag | `core/dag/dag.cpp` | adjacency, order | `build`, `transitive_dependents` | `Dag` |
| Engine | `core/engine/engine.cpp` | observer buffer, watcher thread | `run_pipeline`, `recover_orphaned_runs`, `request_cancel`, `get_run` | `Engine`, `Command` |
| Storage | `core/storage` | the SQLite file | migration, row updates | `Engine`, `Cache` |
| Result cache | `core/cache`, `core/artifacts` | cache entries, files | key, lookup, store, clean | `Cache` |
| CLI | `src/cli` | signal flag | `init`, `validate`, `graph`, `run`; `run`, `runs`, `status`, `cancel`; `clean-cache` | `Command` with `Settings`; `Engine`; `Cache` |
| SQLite wrapper, ASCII graph, utilities | `core/storage/database.cpp`, `core/engine/ascii_graph.cpp`, `core/util` | none | | not modelled (section 7) |

How they interact.  `Engine::run_pipeline` builds a `Dag`, creates a
`PosixProcessRunner` (one reactor thread) and a `Scheduler`, starts a watcher
thread that polls for a cancellation, and calls `Scheduler::run` on its own
thread.  The scheduler calls `launch` and `request_terminate`, which queue
commands for the reactor; the reactor calls back with log lines and one exit
per process, and the callbacks push events on the scheduler's queue.  The
scheduler tells an observer of every state change, and the observer writes it
to the database on the spot.  Other processes share the database and the
directory of sentinel files.

Before that, `flowforge run` parses its words, reads the document, resolves the
settings from four layers, and validates the pipeline against the machine as it
is at that moment; the scheduler trusts what was validated, and each task meets
the disk, the environment and the clock again when it is started.

What is hard here:

- three kinds of threads around one event queue, an atomic flag that is stored
  without the mutex, two different waits, a command queue with a wakeup pipe;
- the exit of a process, the end of its two pipes, its timeout and a request to
  terminate it come in any order;
- a process may die between any two statements, in recovery too;
- counters and clamps (dependency counters, slots, reservations) that hide a
  double decrement instead of failing;
- a task between two attempts is in no queue, and everything that ends a run
  must know of it;
- a cache entry is written from files that anybody may change, under a key that
  says neither whose it is nor which outputs it has;
- numbers and paths are checked at one time, in one representation, and used at
  another: widths, defaults, clamps, the search of a program;
- the scan of the ready queue goes on while the queue changes, and its order
  depends on a clock.

What makes each component correct: the **scheduler** starts a task only after
its dependencies succeeded and within the limits, ends every task in a terminal
state, skips exactly what is downstream of a failure, honours a cancellation
completely and always returns; the **runner** reports each process exactly
once, after its output, truthfully, and leaves nothing behind; the **engine**'s
rows agree with what happened, across crashes; the **Dag** accepts exactly the
acyclic graphs and yields exact counters; the **cache** executes nothing again
needlessly and, in pipelines that are careful with files and commands, serves
only what executing would produce; **validation** lets through only what can be
started and fits, so that the scheduler's safety net stays unused; a stored
**document** gives the pipeline it was made from; a **setting** has the value of
the highest layer that states it.  `PROJECT.json` lists the hazards, line by
line, with the properties aimed at them.

## 2. Modules

`Domain` (states and tables of `core/domain`) is extended by `Scheduler`,
`RunContract`, `RunnerContract`, `Engine`, `ProcessRunner` and `LaunchPhase`.
`MC...` modules only hold small pipelines and sets for TLC.

**Scheduler.** One action per step that another thread can see: `Start`
(`run()` up to the loop with `seed_ready`), `CheckCancel` with `BeginCancel`,
the three outcomes of `try_start` (`StartMissingInput`, `StartCached`,
`StartProcess`), `SafetyNet`, `EndLaunch`, the waits (`Wait`, `Swap`, with the
condition variable's blocked states as values of `pc`, and `SpuriousWake`), one
action per kind of event (`HandleCancel`, `HandleLog`, `HandleSuccess`,
`HandleCancelled`, `HandleRetry`, `HandleFailure`), `EndRound` with `Promote`,
and `Finish` with the last drain and the verdict.  The runner's thread acts
through `LogLine` and `ProcessExit`, the threads that cancel through
`CancelStore` and `CancelPush`, in this order.  Abstractions: the ready queue
is a set, and `Tried(t)` holds for a task that no preferred task which fits
stands in front of (equal priorities may be taken in any order); whether a
file exists or a cache entry is valid is chosen anew at each probe; time is the
set `due`; `skip_downstream`, a depth-first search, is the least closed set
`SkipSet`.

**RunContract** is what `Engine` relies on: no queue, no slots, no children,
only task states, the verdict and the cancellation.  `Scheduler` is checked to
implement it (`ImplementsRun`), and `Engine` is built on it by INSTANCE.

**ProcessRunner.** The reactor loop, one action per step of `run()`:
`SwapQueue`, `DrainWakeup`, `HandleLaunch`, `SpawnFailure`, `HandleTerminate`,
`HandleShutdown`, `EndCommands`, draining and `waitpid` for each child,
`EnforceDeadlines`, `FinalizeChildren`, `Poll` with its readiness and timeout
rules.  The operating system is the environment: a child writes, closes a pipe,
forks, ends, becomes a zombie; timers expire.  Output is a sequence of pieces,
which is enough for lines that are cut by reads and by `kMaxPartialLine`.

**RunnerContract** is `process_runner.hpp`'s promise: one exit per launch, with
an outcome that agrees with what was asked.  `ProcessRunner` is checked to
implement it; `ProcessExit` of `Scheduler` takes the same liberties.

**Engine.** One action per SQL statement that autocommits, or per transaction;
`Crash` between any two.  `RecoveryStep(p)` is `recover_orphaned_runs`,
statement by statement, for the process of a run and for `flowforge runs`.
The watcher (`WatchSee`, `WatchCancel`, `WatchStop`) and the signal handler are
actors of their own, and so are `request_cancel` calls in other processes, with
their read and their write apart, and `flowforge status`, whose two queries
(`StatusRun`, `StatusTasks`) may see the database at two different times.

**Dag.** One action per turn of a loop of `build` and `transitive_dependents`:
duplicates, edges, the iterative depth-first search with colours, parents and
cursors, the walk back along `parent[]`, Kahn's loop with its heap, the two
loops of the breadth-first search.

**Cache.** Files with contents and modification times, entries with keys and
snapshots; runs one after the other; the user edits and deletes files and
changes the definition of a task, its command, its inputs or its outputs
(`Revise`), between them.  The key is that of `compute_cache_key`: the command
of a task, which stands for type, program, script, arguments, environment,
working directory and the names of the inputs, and the identities of the inputs.
Neither the task nor its outputs are in it, so tasks share entries, replace and
remove them.  A child is given nothing of its task but the command
(`start_process`); so what it writes (`Makes`) depends on the command only,
whichever outputs the task declares.  It reads the inputs of its task and writes
its files in separate steps.  That a program is deterministic and reads nothing
but what its task declares is assumed; the code cannot know it either.

**Definitions, Document, Validation, Settings** have no state: they are the
functions from what the user has written to what the scheduler is given.  A
JSON value is a record of a type and a value, a path the sequence of its
components, an optional value a sequence of at most one element.  `Document`
has every field of the loader, with its type, default and width, and of
`dump_pipeline`; of an error only its place is kept.  `Validation` has every
check of `validate_pipeline`; `Dag::build` is replaced by what `Dag` shows it
to be.  `Settings` has the parser of the command line, `Config::load`, and the
choices of `cmd_run` and `run_pipeline`; what `strtol` and `stoi` make of a
string is a table, because they differ.  Ints have `IntBits` bits.

**LaunchPhase** is the loop of the scheduler once more, with other things in
focus: the sorted ready queue with time stamps, the index of the scan, the
numbers of resources, and the deadlines of retries; tasks are the definitions
that were loaded, and files come and go.  It has no threads, no cancellation
and no records, which `Scheduler` has.  An entry is stamped with the clock,
which may or may not move between two pushes (`spread`).

**Command** composes these: a session is a directory, a machine, an environment
and the commands that are typed, and `run` goes through words, document,
settings, validation and the loop.

`SchedulerProofs`, `SchedulerRefinement`, `SchedulerHistory`,
`ProcessRunnerProofs`, `EngineProofs`, `DagProofs`, `CacheProofs` and
`CommandProofs` hold the theorems about the modules they are named after
(section 5).

Definitions named `Bug...` are seeded faults, each a plausible wrong version of
the definition after it; `PROJECT.json` pairs every property with one of them
that it rejects.

## 3. Runs

| Run | Instance | What it checks |
|---|---|---|
| `sched_diamond` | a; b, c after a; d last. Two attempts each, backoff for b and c, an input, an output, a cacheable task, two `cancel()` callers | `DependenciesExact`, `ReadyExact`, `SkippedIffBlocked`, `AllTerminalWhenDone`, `RetryBudget`; implements `RunContract` |
| `sched_machine` | five tasks, two slots, two GPUs, one task that fits no machine, one that retries and logs | `SlotsAccounted`, `ResourcesAccounted`, `SafetyNetIsJust`, `OneReportPerAttempt`, `CancelReachesEveryChild`, `FinishDropsNothing`, `LogsBeforeResult`; liveness `Termination`, `CancelStopsRun` |
| `runner_two` | two processes, one of which may fail to spawn, terminate and destroy at any time | `NothingLost` (`LaunchAccounted`, `StoppedClean`); implements `RunnerContract` |
| `runner_one` | one process with a timeout, both pipes, closing early and forking | `ReportExact` (types, `ExitComesLast`, `OutcomeTrue`), `SignalsOnlyItsOwn`; liveness `TerminationEnds` |
| `engine_crash` | two runs of two tasks, two crashes anywhere, signals, `flowforge runs` | `FinishedRowsTrue`, `RecoveredClean`, `RunLifecycle` |
| `engine_live` | one run, two talkative tasks, a buffer of two lines, signal and sentinel, `flowforge status` at any time | `RecordExact` (types, `RowsFollowTasks`, `LogsExact`), `StatusConsistent`; liveness `CancelHonoured` |
| `dag_build` | all lists of up to four edges over three tasks (duplicates, self edges), unknown and duplicate ids, all lists of up to four different edges over four tasks | `AcceptsExactly`, `ResultExact` (`CountersExact`, `OrderDetermined`, `AnswerExact`), `SearchInvariant`; `Terminates` |
| `cache_runs` | two tasks in a row with commands of their own, and two tasks with one command and one input, whose program writes the outputs of both; five writes, edits, changed definitions and cleaning between runs | `HitIsRight`, `RunMakesEverything` (of the first pipeline), `UnchangedIsReused` (of both) |
| `command` | 1101 sessions: pairs of forty edits of a document of three tasks, combinations of settings, tasks that compete, commands in a row | `LaunchOrder`, `SafetyNetUnreachable`, `AcceptedStarts`, `RetriesBackOff`, `AcceptedEnds`, `RoundTrip`, `SettingsLayered` |
| `sched_attempt_rows`, `runner_lost_wakeup`, `engine_runs_command` | the smallest instance that shows it | one disagreement each (section 6) |

Why the bounds are enough.  The diamond is the smallest graph with two paths to
one task and a sibling that runs while another fails; with two attempts there
is a first, a last, and a wait between them.  In `sched_machine` three tasks
fit together but have two slots, two others compete for a resource, and one can
never run, so each of the three reasons for not starting occurs.  The event
queue is unbounded and grows with the tasks only.  One process exercises every
order of its own exit, pipes, timers and requests; two are needed only for the
accounting of the queue and the table, and share nothing else.  Two crashes
allow one within the recovery from the other.  Four nodes are enough for two
cycles, two paths of different length and a black node met again.  Five writes
allow a version, another, the first again, and the outputs of both tasks
between them; two tasks are enough to share an entry, and to replace and remove
it.  `MaxWrites`, `MaxRuns` and `MaxCrashes` cap the counters.  The versions of a
source file are symmetric: they are compared with each other only.

In `command` the document is a task that makes a program, one that makes a
script, and one that needs both; an edit changes one field, to another value, to
a wrong type, to a number beyond the width of an int, to null, or removes it,
and edits come in pairs because most checks relate two fields (a program and the
output of another task, a requirement and a capacity, a default and the field
that overrides it).  Ints have four bits there, so that 17 becomes 1 and 9
becomes -7 as 2^32 + 1 does in 32 bits; the clock has three values beside the
deadlines of retries, enough for entries that are older, equal and younger.
Competing tasks have two priorities, two sizes and two slots, and a cached task
whose dependent enters the queue during the scan.

`BufferLimit` is 128 in the code and 2 in the run, so that the buffer is
flushed in the middle of a run and at its end.

In `Engine`, `OneEngine` says that nobody uses `flowforge runs` during a run,
which is `docs/persistence.md`'s "one engine process at a time"; the passing
runs assume it, `engine_runs_command` shows what happens otherwise.

## 4. Fairness

- **Scheduler** (`CancelSpec`): the scheduler thread runs, delays end, a thread
  inside `cancel()` finishes it, and a child that was asked to terminate ends.
  The last is the runner's part: it follows SIGTERM by SIGKILL
  (`TerminationEnds`), except for a lost wakeup (`runner_lost_wakeup`) or a
  grandchild that keeps the pipes.  A spurious wakeup is possible and never
  relied on.  Nothing is assumed of children nobody asked to terminate;
  `Termination` has "children end" as its hypothesis.
- **ProcessRunner** (`FairSpec`): the reactor runs, time passes, SIGKILL ends a
  process and an ending process becomes a zombie.  A process may ignore SIGTERM
  and run for ever.  `TerminationEnds` excludes grandchildren by hypothesis.
- **Engine** (`FairSpec`): both threads of the process run; `SF(Honour)` since
  the scheduler tests the flag in every round however busy it is; tasks of a
  run that is stopping end, which is `CancelStopsRun`.
- **Dag**: a sequential program.  **Cache** has no liveness property, and
  `Command` none: that runs end is `Termination` of `Scheduler`; what is checked
  is that whatever the loop leaves behind when it ends is finished
  (`AcceptedEnds`).

## 5. Proofs

Everything here is proved for every value of the constants, from the
assumptions that the modules state by name and TLC evaluates on each run.

### The scheduler

Proved for every acyclic pipeline, machine, concurrency, retry policy and set of
cancelling threads.

| Theorem | States | Module |
|---|---|---|
| `TypeCorrect`, `Inductive` | `TypeOK`, which no run needs to check any more, and the invariant below | `SchedulerProofs` |
| `ReportsAlwaysSound` | `OneReportPerAttempt` | |
| `SlotsAlwaysAccounted` | `SlotsAccounted` | |
| `ReadyAlwaysExact` | `ReadyExact` | |
| `DependencyOrder` | `DependenciesExact` | |
| `FailureIsBranchLocal` | `SkippedIffBlocked` | |
| `EveryTaskEnds` | `AllTerminalWhenDone` | |
| `NothingIsDropped` | `FinishDropsNothing` | |
| `CancelIsComplete` | `CancelReachesEveryChild` | |
| `LifecycleHolds` | `TaskLifecycle`: each task moves only along the life cycle of `Domain` | |
| `RunImplemented` | `ImplementsRun`: every step is one of `RunContract`, or none | `SchedulerRefinement` |
| `RetriesWithinBudget` | `RetryBudget` | `SchedulerHistory` |
| `LinesAlwaysFirst` | `LogsBeforeResult` | |
| `PoolAlwaysExact` | `ResourcesAccounted`: what is reserved in each dimension is the sum of what the RUNNING tasks ask for, and within the capacity | |
| `NetIsAlwaysJust` | `SafetyNetIsJust`: the safety net fails only tasks that ask for more than the machine has | |

Assumptions: the tasks are finite; every non-empty set of tasks has one that
depends on no other of the set (what `DagProofs` proves of the graphs that
`build()` accepts); capacities and requirements are natural numbers, attempts positive
(`Validation` refuses a pipeline otherwise).  The configured concurrency is any
integer: the constructor's clamp is part of the model.

The argument.  None of the properties is inductive.  The invariant `IInv` joins

- the type invariant and `ControlInv`, which ties `pc` to the batch and to what
  is settled;
- the graph part: `RemainingExact`, `DepsSucceeded`, `PendingInv` (a PENDING
  task still waits for a dependency, none of its dependencies has failed or was
  skipped, and a cancellation leaves none PENDING) and `SkippedInv` (a task is
  skipped only because of a dependency);
- the run part: slots and reservations are those of the RUNNING tasks, and each
  RUNNING task has exactly one thing outstanding, a child, a queued result or a
  result in the batch;
- `ReadyExact`, and `CancelledInv`: as long as `cancelling` is not set nobody was
  asked to terminate and no result says "cancelled".

Each part has its own lemmas, one per kind of change (a push on the queue, a
head taken from the batch, a success, a failure with its skips, a cancellation),
and `IInvStep` combines them action by action.  The depth-first skip enters
through two facts about the least closed set: it is closed, and each member has
a failed or skipped dependency.  `EveryTaskEnds` is where acyclicity is needed:
when nothing runs, nothing is ready and nobody waits, the non-terminal tasks
would all be PENDING; one of them depends on no other, so all its dependencies
are terminal, hence successful or not, hence it is READY or SKIPPED.

Three more invariants stand on `IInv`.  `RequestInv`, for the refinement: the
state of the run follows the place of `run()`, and what cancels, a flag or an
event, was put there by a caller of `cancel()`; without it the contract could
not be asked to allow a CANCELLED verdict.  With it each action maps to
one action of `RunContract`; the waits, the queue and the slots map to
stuttering.  `BudgetInv`: a task that is READY or between two attempts has an
attempt left, so that starting it stays within the policy.  `LineInv`: an
undelivered log line belongs to the attempt
that is running and is in the batch or the queue *in front of* that attempt's
result; `LogsBeforeResult` alone says nothing of the order inside the queue and
is not kept by the swap.

`PoolAlwaysExact` needs sums over sets of tasks.  The library folds over the
subsets of a set with a recursive function, and induction over the size of a
set is not at hand; `SchedulerHistory` uses the well-founded order of finite
sets instead (`LeastSet`): of the sets of which a statement is false there would
be a smallest one.  In this way it shows that the recursion has a solution,
that two solutions agree, and that it does not matter which element is taken
first; a start then adds one task's request to each sum and an exit takes it
away.  That no reservation exceeds the capacity (`NeverOvercommitted`) comes
first, because `release` clamps at zero and a clamp hides a difference.
`NetIsAlwaysJust` reads off the rest: the net acts when no task is running, so
the pool is empty, and what does not fit into an empty pool never will.

### The process runner

Proved in `ProcessRunnerProofs` for any number of processes, output, timeouts
and order of requests.

| Theorem | States |
|---|---|
| `RunnerInvariant` | the invariant below |
| `NoProcessLost` | `NothingLost`: a launch is in exactly one of the queue, the commands taken from it and the table until it is reported; a stopped reactor leaves no process alive, unreaped or unreported |
| `ReportsExact` | `ReportExact`: the report comes after all the output of the process and after it was reaped, and its outcome is true |
| `SignalsItsOwn` | `SignalsOnlyItsOwn`: no signal goes to a process that was reaped (whose pid may be somebody else's) |
| `ContractKept` | `ImplementsContract`: every step is one of `RunnerContract`, or none |

`ContractKept` assumes `AsCancellation \subseteq {TRUE}`: every
`request_terminate` is a cancellation.  `scheduler.cpp:493` is the only caller
and passes `true`; a request that is not a cancellation makes the runner report
a timeout of a task that has none, which the contract does not have.

The invariant has seven parts: the types; `LoopInv`, which local variables of
`run()` are in use where; `CommandInv`, a queued command is one that was given,
no launch is queued twice and a shutdown is the last command; `PlaceInv`, a
launched process is in one place until it is reported, and the process exists as
long as it is in the table; `ChildInv`, what a child's record claims (a forced
outcome had its reason: a deadline, a request, the destructor); `PipeInv`, a
pipe the reactor has closed has no writer and is empty, and every piece written
is in the pipe, in the partial line or emitted; `ReportInv`, a reported process
is reaped, its pipes are closed and its outcome is true.  `PipeInv` is what "after all its output"
needs, and `CommandInv` is what keeps the destructor from overtaking a launch.
That what was read has a last line break is shown with the well-founded order of
finite sets instead of induction over sequences.

### The engine

Proved in `EngineProofs` for any number of runs, tasks, crashes and watchers,
and any limit of the buffer.

| Theorem | States |
|---|---|
| `TypeCorrect` | types and places; needs nothing of the users |
| `RecordInvariant` | the invariant below |
| `VerdictsTrue` | `FinishedRowsTrue`: a run with a verdict has only finished tasks, whose states agree with it |
| `RecordAlwaysExact` | `RecordExact`: types, rows follow the tasks, no log line is recorded twice and none of a finished run is missing |
| `RecoveryCleans` | `RecoveredClean`: after recovery no run but the current one looks alive, and an INTERRUPTED run is closed unless its recovery was cut short |
| `RowsLiveOnce` | `RunLifecycle`: CREATED, RUNNING, one verdict; INTERRUPTED only for the run of a dead process; no verdict is revised |
| `StatusNeverContradicts` | `StatusConsistent`: the two queries of `flowforge status` never show a verdict next to tasks that contradict it |

All but `TypeCorrect` assume `OneEngine`, that nobody uses `flowforge runs`
during a run; without it they are false, which is what `engine_runs_command`
shows.  `EngineAssumption` also keeps `"engine"`, the name under which the engine
logs, apart from the names of tasks, and `DepsAssumption` is the acyclicity of
`Scheduler`.

The invariant is built in layers, each proved from those before it.  `PlaceInv`:
the engine recovers in one place of its program.  `MemoryInv`: outside `run()`
the memory is as new; a skipped task has a failed or skipped dependency; when
`run()` has returned everything is written and the verdict is that of the tasks.
(Here acyclicity is used: without a failure there is no skipped task, so
SUCCEEDED means that all succeeded.)  `RecoveryInv`: how far the closing of a run
has come, at each of its statements, and that the tasks it has passed over are
not alive; it carries the argument across a crash within recovery.  `RowsInv`:
the current run has the state of its place, a run without a row has no task
rows, an INTERRUPTED run is closed unless its recovery is under way or was cut
short.  `LogInv`: where each line is, in the buffer or in the table, once.
`ViewInv`: what `status` has read of a run with a verdict is still true.

### The graph

Proved in `DagProofs` for every list of ids and every list of edges.

| Theorem | States |
|---|---|
| `BuildInvariant` | the invariant below |
| `SearchAlwaysSound` | `SearchInvariant`: types and bounds, and the shape of the depth-first search |
| `AcceptsTheExecutable` | `AcceptsExactly`: `build()` accepts exactly the calls with distinct ids, known endpoints and no cycle, and a cycle it reports is one |
| `ResultAlwaysExact` | `ResultExact`: counters, order, and the answers of `transitive_dependents` |

The only assumption, `CallsAssumption`, is the signature of `build()`.
The invariant: `Shape` and `BoundsInv`, types and cursors; `EdgesInv`, `succ_`
holds the edges read so far and `pred_` its converse without repetition;
`SearchInv`, the grey nodes are those of the stack, everything in front of a
cursor is finished or next on the stack, what a finished node leads to is
finished, *and every non-empty set of finished nodes has one that depends on no
other of it*.  The last clause is what makes acyclicity provable without
induction: a node is finished when all it leads to is, no finished node leads
to it, so it can join any such set, as the member that depends on no other; when
all nodes are finished the clause is `WellFounded`, the very assumption of
`Scheduler`.  `TraceInv`, the walk back stands on the stack between the node that
closes the cycle and the top; `KahnInv`, the counters are the numbers of
missing dependencies, the heap holds the tasks that miss none, and each task
placed was the first of those possible; `ReachInv`, what was seen is downstream,
was reached from something seen, and leads to what was seen unless it waits.
That Kahn's loop places every task, and that the root is not downstream of
itself, follow from `WellFounded` again.

### The result cache

Proved in `CacheProofs` for every pipeline, every choice of files with and
without checksums, and any number of runs, edits and changed definitions, with
the key of the code.

| Theorem | States |
|---|---|
| `CacheInvariant` | types and `ReuseInv`; whatever the user defines and does |
| `UnchangedAlwaysReused` | `UnchangedIsReused`: a task whose definition, inputs and outputs are as they were when it was stored is not executed again, unless another task has stored under the same key since; whatever the user defines and does |
| `CarefulInvariant` | types and, of a careful pipeline, `KeyInv`, `EntryInv` and `RunInv` |
| `HitsAreRight` | `HitIsRight`: of a careful pipeline, a reused task has on disk what executing it would make |
| `RunsMakeEverything` | `RunMakesEverything`: of a careful pipeline, a run that succeeds has made everything |

The first two hold of every pipeline.  Tasks that share a key do not disturb each
other's reuse: the one finds the entry of the other valid, since nothing of it
has been touched, and does not remove it; or it replaces the entry, and then the
other no longer counts as untouched.

The others say something of a pipeline that is `Careful`, a predicate of module
`Cache` that is part of the properties: no file is edited while a run is on,
every output has a checksum, every file has one writer, upstream of its readers,
and a command always comes with the same outputs, which its program makes.  **The
code enforces none of this**: `pipeline_validator.cpp:190` silently keeps the last
of several producers and matches no input with a producer, and `cache_key.cpp`
looks at no output.  Tasks with the same command are then careful only if their
program makes no file.  Of other pipelines the two properties would be false:
section 6 has what fails, and under which configuration.  `MCCache` has TLC
evaluate the predicate: the chain of `cache_runs` is careful, the twins are not.
`CacheAssumption` has types only.  No two writes share a modification time.

The difficulty is that a hit compares nothing with what the entry was made
from: it compares identities of the inputs now with a key of the past, and an
identity without a checksum is a size and a time.  `EntryInv` says what a key
still tells: the snapshot of each output is what the command makes of some
contents, and each identity in the key is the checksum of such a content or a
time at which the file can have had no other.  Every write takes a new
time, so that a file which has the time of the key has its content too.
`KeyInv` says that an entry has the outputs which go with the command of its key;
it takes the place of the task, which the key does not have.
`RunInv` is about the tasks of the current run: a busy task has all its inputs
and its dependencies have succeeded, what it has read is what is there, what it
has written is made from it, and a task that has succeeded is up to date.  It is
kept because the writers of a task's inputs are among its dependencies, which
have ended, so nobody writes them while it runs; and it is what `EntryInv` needs
when an entry is stored, since its key is computed after the execution.

### The settings

Proved in `CommandProofs` for every command line, environment, pipeline and set
of configuration files.

| Theorem | States |
|---|---|
| `RunsAreSettled` | `SettingsLayered`: each setting of a run has the value of the first of its layers that says something |

`CommandAssumption` has what the JSON parser guarantees of a configuration file:
an integer is one and a boolean is TRUE or FALSE.  `DefinitionsAssumption` states
that 2^(`IntBits` - 1) is a positive number, which the provers do not compute.

The invariant `SettingsInv` is that every configuration file keeps this form,
the one that `init` writes included, and that a run has the settings that were
resolved when it began: the files, the words and the environment they were read
from do not change before the run has ended.  The rest is about functions.  The
code overwrites a record layer by layer, from the weakest layer to the
strongest, clamps twice and narrows some numbers on the way; the property names
the strongest layer first.  `FirstOfIs` and the lemmas after it relate the two,
and `ConfigFields` follows each field through the layers.

### Only model-checked

- Liveness and fairness: `Termination`, `CancelStopsRun`, `TerminationEnds`,
  `CancelHonoured`, `Terminates`.  The prover has neither fairness nor ENABLED.
- `RetriesBackOff` and `RoundTrip`.  The first is about powers, of which the
  provers know nothing, not even that they are numbers; the second is about what
  the loader makes of a document, item by item.  Both are inductions over data.
- `LaunchOrder`, `SafetyNetUnreachable`, `AcceptedStarts` and `AcceptedEnds`.
  The queue of `LaunchPhase` is filled and emptied by operators of the library
  that go along a sequence (`FoldLeftDomain`, `SelectSeq`): whatever is said of it
  needs the argument of `LeastSet` for sequences first, and the types of all that
  the loader makes of a document.  This has not been done.  What these properties
  say of the loop is proved of `Scheduler`, where the ready tasks are a set:
  `EveryTaskEnds`, and `NetIsAlwaysJust` for the safety net.  That validation
  refuses what does not fit, that the queue is sorted, and that programs are
  found, is checked on the sessions of `command` only.

## 6. Where documents and code disagree

Three disagreements have a run that shows them:

1. `sched_attempt_rows`: a retry whose input has disappeared is recorded under
   the attempt number of the attempt before it; `schema.cpp` has
   `UNIQUE(task_run_id, attempt_number)`.
2. `runner_lost_wakeup`: `drain_commands` swaps the queue and then empties the
   wakeup pipe; a command pushed in between waits until something else wakes
   `poll()`.
3. `engine_runs_command`: `flowforge runs` during a run marks it INTERRUPTED,
   and `flowforge cancel` then refuses it; the user guide recommends the pair.

Others are stated as properties at the end of each module and have no run of
their own.  To see one fail, put it in place of the properties of the
configuration named:

| Property | Says | Configuration |
|---|---|---|
| `Scheduler!LegalTransitions` | `enums.hpp:25`, `docs/execution-model.md:21`: the transition table is the full one; READY to FAILED happens and is not in it | `Scheduler_attempt_rows.cfg` |
| `Scheduler!NeverBusyWaits` | `scheduler.hpp:84`: never busy-waits; it does while a cancellation waits for children | `Scheduler_attempt_rows.cfg` |
| `ProcessRunner!KilledIfSaidSo` (invariant) | `process_result.hpp:17`: timed out means killed; a child that has just ended is reported so too | `ProcessRunner_one.cfg` |
| `ProcessRunner!TimeoutEndsTask` | `docs/user-guide.md:989`: a timeout ends a task; not if a grandchild keeps a pipe | `ProcessRunner_one.cfg` |
| `ProcessRunner!NeverSpins` | `docs/final-report.md:31`: no busy-wait; a child that closed its pipes is polled with timeout zero | `ProcessRunner_one.cfg` |
| `Engine!RecoveryIsComplete` (invariant) | `docs/persistence.md:53`: tasks of an interrupted run are CANCELLED; not if recovery itself is interrupted | `Engine_crash.cfg` |
| `Engine!OpensItsOwnDatabase` (invariant) | `schema.hpp:14`: one transaction; the version is set after it | `Engine_crash.cfg` |
| `Engine!SentinelRemoved` (invariant) | `docs/persistence.md:66`: the sentinel goes when the run ends; a late `cancel` leaves one | `Engine_live.cfg` |
| `Cache!DeletedNeverReused` | `docs/user-guide.md:821`, `docs/caching.md:60`: a task whose output was deleted is executed; not if the entry is that of another task or of an earlier definition (see below) | `Cache_runs.cfg` |
| `Cache!ChangedNeverReused` | `docs/user-guide.md:820`: changed inputs are executed again; an input that is edited while its task runs gives an entry with the old result under the new key | `Cache_runs.cfg` with `EditWhile = TRUE` |
| `Cache!ModifiedNeverReused` | `docs/user-guide.md:821`: a modified output is never reused; it is if it has no checksum and its old size | `Cache_runs.cfg` with `HashOut = {}` |

On `DeletedNeverReused`: `compute_cache_key` covers neither the task nor its
outputs, and `CacheStore::lookup` validates the outputs of the entry, not those of
the task.  Two tasks have the same command and inputs; the first executes and is
stored, the second is CACHED.  Then the output of the second is deleted, and in
the next run it is CACHED again, without its output, and the run succeeds.  The
fan-out of `docs/user-guide.md:857` has three tasks of this kind, and caching is
on by default.  An output that a task comes to declare later is missed in the
same way.  `docs/caching.md:22` lists what the key leaves out on purpose; the
outputs are not in that list.

`docs/persistence.md:50` says that recovery runs in every command that touches
the database; only `run` and `runs` call it (`cli_app.cpp:263`, `:312`), and the
model follows the code.

Read off while modelling, without a property of their own; in all of them the
model does what the code does:

- `python_interpreter` of the configuration and `FLOWFORGE_PYTHON` are read and
  never used; tasks get `defaults.python_interpreter` of the document or
  `python3` (`pipeline_document.cpp:259`, `docs/user-guide.md`).
- `config.hpp:16` names `<state_dir>/config.json`; the file is looked for in the
  default state directory only, before `--state-dir` or `FLOWFORGE_STATE_DIR`
  is applied, while `init` writes it to the chosen one.
- `docs/user-guide.md:915` names `--config` as the last choice of a file, after
  `.flowforge/config.json` and `./flowforge.json`; if it is given, nothing else is
  tried (`config.cpp:121`).
- 64 bit numbers of a document are cut to ints (`pipeline_document.cpp:127`,
  `:156`, `:162`, `:359`), so a requirement of 2^32 + 1 cores is one of 1 core.
- `retry_policy.hpp:15` gives the delay as a power of the multiplier; a
  multiplier below one counts as one (`retry_policy.cpp:18`).  A negative
  `base_delay_ms` or `max_delay_ms` is not refused.
- A program is validated with the PATH of the command and started with that of
  the task; without the clause on PATH `AcceptedStarts` fails under
  `Command.cfg`.
- A program that an earlier task makes is accepted although it is not there; if
  the cache answers for that task (`DeletedNeverReused`), it may still not be
  there when it is to be started.  `AcceptedStarts` exempts what a CACHED task
  upstream should have made (`Vouched`); without that it fails under
  `Command.cfg`.
- Of several producers of a program the validator knows only the last
  (`pipeline_validator.cpp:195`), and may refuse a pipeline that would run.
- `FLOWFORGE_MAX_CONCURRENCY=2x` means 2, `--max-concurrency 2x` means nothing.
- An option takes the next word as its value even if it is a flag: in
  `run --no-cache p.json` there is no pipeline file, and the cache stays on.
  `Args::unconsumed`, which would tell, has no caller.

## 7. Not modelled

The SQLite wrapper (`core/storage/database.cpp`: prepare, bind, step and their
errors), the text of JSON, SHA-256 (taken to be injective), time formatting, and
everything that is only printed: the console reporter, the ASCII graph, `logs`
and the columns of `runs`.  They have no state and no choice to get wrong beyond
what a unit test sees.  Counters and time stamps that nothing reads are left
out, and no two writes share a modification time.  Of paths only `.` is
normalised, and every file may be executed.  Attempt rows and the exception that
`sched_attempt_rows` leads to are not in `Engine`, nor is the refusal of a
database with a newer schema (`schema.cpp:110`): there is only one version.  Two
processes that execute runs on one state directory at once are outside what
`docs/persistence.md` allows.

## 8. Plan

Done: `Domain`, `Scheduler`, `RunContract`, `ProcessRunner`, `RunnerContract`,
`Engine`, `Dag`, `Cache`, then `Definitions`, `Document`, `Validation`,
`Settings`, `LaunchPhase` and `Command`, their runs, and the theorems of section
5.  The order was that of importance: the scheduler, what it relies on, what
relies on it, what feeds it, and the cache beside it.

The proofs of the settings, the graph, the scheduler, its refinement, the runner,
the engine and the cache are done.  What is left of them is `LaunchPhase`: that
the ready queue is sorted, from which `LaunchOrder` follows, and that validated
requirements fit, from which `SafetyNetUnreachable` follows.

And in the models, attempt rows in `Engine`.

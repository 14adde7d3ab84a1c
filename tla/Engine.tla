------------------------------- MODULE Engine -------------------------------
(***************************************************************************)
(* engine::Engine (src/core/engine/engine.cpp): one `flowforge run' after  *)
(* the other on the same state directory, each a process that opens and    *)
(* migrates the database, recovers what a dead process left behind, and    *)
(* executes one pipeline while it mirrors the run into SQLite, one         *)
(* statement at a time.  The process may die between any two statements.   *)
(* Meanwhile other terminals run `flowforge cancel', which leaves a        *)
(* sentinel file, `flowforge runs', which recovers as well, and `flowforge *)
(* status', which reads a run in two statements.                           *)
(*                                                                         *)
(* The scheduler is what RunContract says of it.  A statement that         *)
(* autocommits is one step and survives the process; so is a transaction.  *)
(* Of a row only the state and whether finished_at is set are kept.        *)
(***************************************************************************)
EXTENDS Domain, Sequences, FiniteSets

CONSTANTS
    Tasks,         \* the task ids of the pipeline
    Deps,          \* Deps[t]: the tasks t depends on
    Talkative,     \* the tasks that write a log line in each run
    BufferLimit,   \* PersistenceObserver flushes at this many lines (128)
    MaxRuns,       \* run ids are 1 .. MaxRuns
    MaxCrashes,    \* how often a process may die
    Commands,      \* what other terminals do: of {"cancel", "runs", "status"}
    OneEngine      \* nobody uses `runs' during a `run': persistence.md's
                   \* "one engine process at a time"

ASSUME EngineAssumption ==
    /\ BufferLimit \in Nat \ {0}
    /\ MaxRuns \in Nat \ {0}
    /\ MaxCrashes \in Nat
    /\ Commands \subseteq {"cancel", "runs", "status"}
    /\ OneEngine \in BOOLEAN
    /\ "engine" \notin Tasks

(* Dag::build rejects cycles: every non-empty set of tasks has one that    *)
(* depends on none of the others.                                          *)
ASSUME DepsAssumption ==
    /\ Deps \in [Tasks -> SUBSET Tasks]
    /\ \A S \in SUBSET Tasks : S # {} => \E t \in S : Deps[t] \cap S = {}

VARIABLES
    \* what survives the process
    user_version,  \* PRAGMA user_version
    tables,        \* the schema has been created
    run_row,       \* pipeline_runs
    task_row,      \* task_runs of each run
    log_rows,      \* logs: <<run, task or "engine">>
    sentinels,     \* the files in the cancel directory
    \* the process of `flowforge run'
    pc,            \* where it is
    cur,           \* the id of the run it executes, 0 if none
    mem, mem_run, cancelled, stopping,  \* the scheduler: see RunContract
    unwritten,     \* task states the observer is told of but has not written
    stamping,      \* the task whose finished_at comes next
    buffer,        \* PersistenceObserver::buffer_
    watcher,       \* the cancellation watcher thread
    ext,           \* external_cancel, set by SIGINT and SIGTERM
    \* both processes that recover, and the cancel commands
    rec,           \* progress of recover_orphaned_runs
    asker,         \* progress of request_cancel, one call for each run
    view,          \* the rows as `flowforge status' found them
    \* history
    emitted,       \* the log lines the observer was given
    abandoned,     \* the runs whose recovery was cut short by a crash
    crashes

db == <<user_version, tables, run_row, task_row, log_rows, sentinels>>
sch == <<mem, mem_run, cancelled, stopping>>
obs == <<unwritten, stamping, buffer>>
past == <<emitted, abandoned, crashes>>
vars == <<db, pc, cur, sch, obs, watcher, ext, rec, asker, view, past>>

R == INSTANCE RunContract WITH state <- mem, run_state <- mem_run

-----------------------------------------------------------------------------
(* Types *)

Runs == 1 .. MaxRuns

Processes == {"engine", "viewer"}

Row(states) == [state : states \cup {"none"}, finished : BOOLEAN]

NoRow == [state |-> "none", finished |-> FALSE]

Points == {"down", "open", "set_version", "failed", "recover", "validate",
           "create_tasks", "running", "joining", "remove", "mark"}

(* From the row of the run to its last update.                             *)
Executing == {"create_tasks", "running", "joining", "remove", "mark"}

(* recover_orphaned_runs: the state it is looking for, the runs it has     *)
(* read and not yet handled, the run it works on, the tasks of it that are *)
(* left, and the statement that comes next.                                *)
Recovery == [at : {"off", "list", "run", "finish", "tasks", "task", "stamp"},
             stale : {"RUNNING", "CREATED"}, runs : SUBSET Runs,
             run : Runs \cup {0}, tasks : SUBSET Tasks, task : SUBSET Tasks]

NoRecovery == [at |-> "off", stale |-> "RUNNING", runs |-> {}, run |-> 0,
               tasks |-> {}, task |-> {}]

RowsType == [state : PipelineState \cup {"none"}, tasks : SUBSET (TaskState \cup {"none"})]

NoView == [run |-> 0, rows |-> [state |-> "none", tasks |-> {}]]

(* Every variable has a value its field, column or file can hold, and the  *)
(* observer never holds more lines than the limit at which it flushes.     *)
TypeOK ==
    /\ user_version \in 0 .. 1 /\ tables \in BOOLEAN
    /\ run_row \in [Runs -> Row(PipelineState)]
    /\ task_row \in [Runs -> [Tasks -> Row(TaskState)]]
    /\ log_rows \in Seq(Runs \X (Tasks \cup {"engine"}))
    /\ sentinels \subseteq Runs
    /\ pc \in Points
    /\ cur \in 0 .. MaxRuns
    /\ pc \in Executing <=> cur # 0
    /\ mem \in [Tasks -> TaskState] /\ mem_run \in PipelineState
    /\ cancelled \in BOOLEAN /\ stopping \in BOOLEAN
    /\ unwritten \subseteq Tasks
    /\ stamping \subseteq Tasks /\ Cardinality(stamping) <= 1
    /\ buffer \in Seq(Runs \X Tasks) /\ Len(buffer) < BufferLimit
    /\ watcher \in {"none", "polling", "seen", "done"}
    /\ ext \in BOOLEAN
    /\ rec \in [Processes -> Recovery]
    /\ asker \in [Runs -> {"idle", "checked", "yes", "no"}]
    /\ view \in [run : Runs \cup {0}, rows : RowsType]
    /\ emitted \subseteq Runs \X Tasks /\ abandoned \subseteq Runs
    /\ crashes \in 0 .. MaxCrashes

-----------------------------------------------------------------------------
Init ==
    /\ user_version = 0 /\ tables = FALSE
    /\ run_row = [r \in Runs |-> NoRow]
    /\ task_row = [r \in Runs |-> [t \in Tasks |-> NoRow]]
    /\ log_rows = <<>> /\ sentinels = {}
    /\ pc = "down" /\ cur = 0
    /\ R!RunInit
    /\ unwritten = {} /\ stamping = {} /\ buffer = <<>>
    /\ watcher = "none" /\ ext = FALSE
    /\ rec = [p \in Processes |-> NoRecovery]
    /\ asker = [r \in Runs |-> "idle"]
    /\ view = NoView
    /\ emitted = {} /\ abandoned = {} /\ crashes = 0

(* The process is gone, and its memory with it.                            *)
ProcessEnds ==
    /\ pc' = "down" /\ cur' = 0
    /\ mem' = [t \in Tasks |-> "PENDING"] /\ mem_run' = "CREATED"
    /\ cancelled' = FALSE /\ stopping' = FALSE
    /\ unwritten' = {} /\ stamping' = {} /\ buffer' = <<>>
    /\ watcher' = "none" /\ ext' = FALSE
    /\ rec' = [rec EXCEPT !["engine"] = NoRecovery]

-----------------------------------------------------------------------------
(* The statements of the repositories *)

InsertRun(r) ==
    run_row' = [run_row EXCEPT ![r] = [state |-> "CREATED", finished |-> FALSE]]

SetRunState(r, s) == run_row' = [run_row EXCEPT ![r].state = s]

MarkRunStarted(r) == run_row' = [run_row EXCEPT ![r].state = "RUNNING"]

MarkRunFinished(r, s) ==
    run_row' = [run_row EXCEPT ![r] = [state |-> s, finished |-> TRUE]]

InsertTask(r, t) == task_row' = [task_row EXCEPT ![r][t].state = "PENDING"]

SetTaskState(r, t, s) == task_row' = [task_row EXCEPT ![r][t].state = s]

SetTaskFinished(r, t) == task_row' = [task_row EXCEPT ![r][t].finished = TRUE]

(* One transaction.                                                        *)
InsertLogs(lines) == log_rows' = log_rows \o lines

-----------------------------------------------------------------------------
(* cmd_run: Engine's constructor with migrate_to_latest *)

Boot ==
    /\ pc = "down"
    /\ OneEngine => rec["viewer"].at = "off"
    /\ pc' = "open"
    /\ UNCHANGED <<db, cur, sch, obs, watcher, ext, rec, asker, view, past>>

(* The constructor has returned; recover_orphaned_runs() is next.          *)
Opened ==
    /\ pc' = "recover"
    /\ rec' = [rec EXCEPT !["engine"].at = "list"]
    /\ UNCHANGED <<cur, sch, obs, watcher, ext, asker, view, past>>

OpenCurrent ==
    /\ pc = "open" /\ user_version = 1
    /\ Opened
    /\ UNCHANGED db

(* All migrations run in one transaction ...                               *)
Migrate ==
    /\ pc = "open" /\ user_version = 0 /\ ~tables
    /\ tables' = TRUE
    /\ pc' = "set_version"
    /\ UNCHANGED <<user_version, run_row, task_row, log_rows, sentinels, cur, sch,
                   obs, watcher, ext, rec, asker, view, past>>

(* ... and the version is set in a statement of its own after the commit.  *)
SetVersion ==
    /\ pc = "set_version"
    /\ user_version' = 1
    /\ Opened
    /\ UNCHANGED <<tables, run_row, task_row, log_rows, sentinels>>

(* CREATE TABLE throws when the table is there.                            *)
MigrateFails ==
    /\ pc = "open" /\ user_version = 0 /\ tables
    /\ pc' = "failed"
    /\ UNCHANGED <<db, cur, sch, obs, watcher, ext, rec, asker, view, past>>

ExitFailed ==
    /\ pc = "failed"
    /\ ProcessEnds
    /\ UNCHANGED <<db, asker, view, past>>

-----------------------------------------------------------------------------
(* recover_orphaned_runs, in process p *)

RecFrame == UNCHANGED <<user_version, tables, log_rows, sentinels, cur, sch, obs,
                        watcher, ext, asker, view, past>>

(* Finished runs are not left out.                                         *)
BugStaleRuns(stale) == {r \in Runs : run_row[r].state # "none"}

(* list_in_state(stale_state).                                             *)
StaleRuns(stale) == {r \in Runs : run_row[r].state = stale}

ListStale(p) ==
    /\ rec[p].at = "list"
    /\ rec' = [rec EXCEPT ![p] = [@ EXCEPT !.at = "run",
                                           !.runs = StaleRuns(rec[p].stale)]]
    /\ UNCHANGED <<pc, run_row, task_row>> /\ RecFrame

(* set_state: the next run, in the order of their ids.                     *)
Interrupt(p) ==
    /\ rec[p].at = "run"
    /\ \E r \in rec[p].runs :
         /\ \A q \in rec[p].runs : r <= q
         /\ SetRunState(r, "INTERRUPTED")
         /\ rec' = [rec EXCEPT ![p] = [@ EXCEPT !.at = "finish", !.run = r,
                                                !.runs = rec[p].runs \ {r}]]
    /\ UNCHANGED <<pc, task_row>> /\ RecFrame

(* mark_finished.                                                          *)
MarkInterrupted(p) ==
    /\ rec[p].at = "finish"
    /\ MarkRunFinished(rec[p].run, "INTERRUPTED")
    /\ rec' = [rec EXCEPT ![p].at = "tasks"]
    /\ UNCHANGED <<pc, task_row>> /\ RecFrame

(* Only the tasks that were executing are looked for.                      *)
BugListTasks(p) ==
    /\ rec[p].at = "tasks"
    /\ rec' = [rec EXCEPT ![p] = [@ EXCEPT !.at = "task",
                 !.tasks = {t \in Tasks : task_row[rec[p].run][t].state
                                                = "RUNNING"}]]
    /\ UNCHANGED <<pc, run_row, task_row>> /\ RecFrame

(* list_for_run, of which the terminal ones are passed over.               *)
ListTasks(p) ==
    /\ rec[p].at = "tasks"
    /\ rec' = [rec EXCEPT ![p] = [@ EXCEPT !.at = "task",
                 !.tasks = {t \in Tasks : task_row[rec[p].run][t].state
                                                \notin Terminal \cup {"none"}}]]
    /\ UNCHANGED <<pc, run_row, task_row>> /\ RecFrame

CancelTask(p) ==
    /\ rec[p].at = "task"
    /\ \E t \in rec[p].tasks :
         /\ SetTaskState(rec[p].run, t, "CANCELLED")
         /\ rec' = [rec EXCEPT ![p] = [@ EXCEPT !.at = "stamp", !.task = {t},
                                                !.tasks = rec[p].tasks \ {t}]]
    /\ UNCHANGED <<pc, run_row>> /\ RecFrame

StampTask(p) ==
    /\ rec[p].at = "stamp"
    /\ \E t \in rec[p].task : SetTaskFinished(rec[p].run, t)
    /\ rec' = [rec EXCEPT ![p] = [@ EXCEPT !.at = "task", !.task = {}]]
    /\ UNCHANGED <<pc, run_row>> /\ RecFrame

NextRun(p) ==
    /\ rec[p].at = "task" /\ rec[p].tasks = {}
    /\ rec' = [rec EXCEPT ![p].at = "run"]
    /\ UNCHANGED <<pc, run_row, task_row>> /\ RecFrame

(* First the RUNNING runs, then the CREATED ones, then the command itself. *)
NextState(p) ==
    /\ rec[p].at = "run" /\ rec[p].runs = {}
    /\ IF rec[p].stale = "RUNNING"
       THEN /\ rec' = [rec EXCEPT ![p] = [@ EXCEPT !.at = "list", !.stale = "CREATED"]]
            /\ pc' = pc
       ELSE /\ rec' = [rec EXCEPT ![p] = NoRecovery]
            /\ pc' = IF p = "engine" THEN "validate" ELSE pc
    /\ UNCHANGED <<run_row, task_row>> /\ RecFrame

RecoveryStep(p) ==
    \/ ListStale(p) \/ Interrupt(p) \/ MarkInterrupted(p) \/ ListTasks(p)
    \/ CancelTask(p) \/ StampTask(p) \/ NextRun(p) \/ NextState(p)

-----------------------------------------------------------------------------
(* run_pipeline *)

(* Validation or Dag::build rejects the pipeline: no row is created.       *)
Reject ==
    /\ pc = "validate"
    /\ ProcessEnds
    /\ UNCHANGED <<db, asker, view, past>>

CreateRun ==
    /\ pc = "validate"
    /\ \E r \in Runs :
         /\ {q \in Runs : run_row[q].state # "none"} = 1 .. r - 1
         /\ cur' = r
         /\ InsertRun(r)
    /\ pc' = "create_tasks"
    /\ UNCHANGED <<user_version, tables, task_row, log_rows, sentinels, sch, obs,
                   watcher, ext, rec, asker, view, past>>

CreateTask(t) ==
    /\ pc = "create_tasks"
    /\ task_row[cur][t] = NoRow
    /\ InsertTask(cur, t)
    /\ UNCHANGED <<user_version, tables, run_row, log_rows, sentinels, pc, cur, sch,
                   obs, watcher, ext, rec, asker, view, past>>

(* mark_started; then the watcher thread is created and run() is called.   *)
MarkStarted ==
    /\ pc = "create_tasks"
    /\ \A t \in Tasks : task_row[cur][t] # NoRow
    /\ MarkRunStarted(cur)
    /\ pc' = "running"
    /\ watcher' = "polling"
    /\ UNCHANGED <<user_version, tables, task_row, log_rows, sentinels, cur, sch,
                   obs, ext, rec, asker, view, past>>

(* Steps of the scheduler.  The observer runs on the scheduler's thread:   *)
(* nothing else happens in it until the changes are written.               *)
Written == unwritten = {} /\ stamping = {}

Scheduling(step) ==
    /\ pc = "running" /\ Written
    /\ step
    /\ unwritten' = {t \in Tasks : mem'[t] # mem[t]}
    /\ UNCHANGED <<db, pc, cur, stamping, buffer, watcher, ext, rec, asker,
                   view, past>>

BeginRun == Scheduling(R!Begin)
Work == Scheduling(R!Work /\ mem' # mem)
Honour == Scheduling(R!Honour)

(* on_task_state_changed: set_state, then the time stamps.                 *)
WriteState(t) ==
    /\ t \in unwritten /\ stamping = {}
    /\ SetTaskState(cur, t, mem[t])
    /\ unwritten' = unwritten \ {t}
    /\ stamping' = IF mem[t] \in Terminal THEN {t} ELSE {}
    /\ UNCHANGED <<user_version, tables, run_row, log_rows, sentinels, pc, cur, sch,
                   buffer, watcher, ext, rec, asker, view, past>>

WriteStamp(t) ==
    /\ t \in stamping
    /\ SetTaskFinished(cur, t)
    /\ stamping' = {}
    /\ UNCHANGED <<user_version, tables, run_row, log_rows, sentinels, pc, cur, sch,
                   unwritten, buffer, watcher, ext, rec, asker, view, past>>

(* flush().                                                                *)
Flush(lines) == InsertLogs(lines) /\ buffer' = <<>>

(* on_task_log.                                                            *)
LogLine(t) ==
    /\ pc = "running" /\ Written
    /\ mem[t] = "RUNNING" /\ t \in Talkative
    /\ <<cur, t>> \notin emitted
    /\ emitted' = emitted \cup {<<cur, t>>}
    /\ LET lines == Append(buffer, <<cur, t>>) IN
         IF Len(lines) >= BufferLimit
         THEN Flush(lines)
         ELSE buffer' = lines /\ UNCHANGED log_rows
    /\ UNCHANGED <<user_version, tables, run_row, task_row, sentinels, pc, cur, sch,
                   unwritten, stamping, watcher, ext, rec, asker, abandoned, crashes, view>>

(* Only what the limit makes it write is ever written.                     *)
BugRunReturns ==
    /\ pc = "running" /\ Written
    /\ R!End
    /\ pc' = "joining"
    /\ UNCHANGED <<db, cur, obs, watcher, ext, rec, asker, view, past>>

(* run() ends: on_run_finished adds a line of its own and flushes; then    *)
(* run_active is cleared.                                                  *)
RunReturns ==
    /\ pc = "running" /\ Written
    /\ R!End
    /\ Flush(Append(buffer, <<cur, "engine">>))
    /\ pc' = "joining"
    /\ UNCHANGED <<user_version, tables, run_row, task_row, sentinels, cur,
                   unwritten, stamping, watcher, ext, rec, asker, view, past>>

Join ==
    /\ pc = "joining" /\ watcher = "done"
    /\ pc' = "remove"
    /\ UNCHANGED <<db, cur, sch, obs, watcher, ext, rec, asker, view, past>>

RemoveSentinel ==
    /\ pc = "remove"
    /\ sentinels' = sentinels \ {cur}
    /\ pc' = "mark"
    /\ UNCHANGED <<user_version, tables, run_row, task_row, log_rows, cur, sch, obs,
                   watcher, ext, rec, asker, view, past>>

(* The result is that of a run nobody cancelled.                           *)
BugMarkFinished ==
    /\ pc = "mark"
    /\ MarkRunFinished(cur, "SUCCEEDED")
    /\ ProcessEnds
    /\ UNCHANGED <<user_version, tables, task_row, log_rows, sentinels, asker,
                   view, past>>

(* mark_finished with the scheduler's verdict; the command returns.        *)
MarkFinished ==
    /\ pc = "mark"
    /\ MarkRunFinished(cur, mem_run)
    /\ ProcessEnds
    /\ UNCHANGED <<user_version, tables, task_row, log_rows, sentinels, asker,
                   view, past>>

-----------------------------------------------------------------------------
(* The watcher thread *)

WatchFrame == UNCHANGED <<db, pc, cur, obs, ext, rec, asker, view, past>>

(* The file is never looked at.                                            *)
BugAsked == ext

(* What the watcher polls.                                                 *)
Asked == ext \/ cur \in sentinels

WatchSee ==
    /\ watcher = "polling" /\ Asked
    /\ watcher' = "seen"
    /\ UNCHANGED sch /\ WatchFrame

(* Scheduler::cancel(), which may come after run() has returned.           *)
WatchCancel ==
    /\ watcher = "seen"
    /\ R!RequestCancel
    /\ watcher' = "done"
    /\ WatchFrame

(* run_active is false.                                                    *)
WatchStop ==
    /\ watcher = "polling" /\ pc = "joining"
    /\ watcher' = "done"
    /\ UNCHANGED sch /\ WatchFrame

-----------------------------------------------------------------------------
(* The environment: signals, crashes, other terminals *)

(* The handlers of SIGINT and SIGTERM are installed around run_pipeline.   *)
Signal ==
    /\ pc \in Executing \cup {"validate"} /\ ~ext
    /\ ext' = TRUE
    /\ UNCHANGED <<db, pc, cur, sch, obs, watcher, rec, asker, view, past>>

(* SIGKILL, an exception out of a statement, or a power button that leaves *)
(* what was committed.                                                     *)
Crash ==
    /\ pc # "down"
    /\ crashes < MaxCrashes
    /\ crashes' = crashes + 1
    /\ abandoned' = IF rec["engine"].at \in {"finish", "tasks", "task", "stamp"}
                    THEN abandoned \cup {rec["engine"].run} ELSE abandoned
    /\ ProcessEnds
    /\ UNCHANGED <<db, asker, emitted, view>>

(* request_cancel(r) in another process: it reads the row ...              *)
AskCheck(r) ==
    /\ "cancel" \in Commands /\ user_version = 1
    /\ asker[r] = "idle"
    /\ asker' = [asker EXCEPT ![r] =
                    IF run_row[r].state \in TerminalRun \cup {"none"}
                    THEN "no" ELSE "checked"]
    /\ UNCHANGED <<db, pc, cur, sch, obs, watcher, ext, rec, view, past>>

(* ... and writes the sentinel.                                            *)
AskWrite(r) ==
    /\ asker[r] = "checked"
    /\ asker' = [asker EXCEPT ![r] = "yes"]
    /\ sentinels' = sentinels \cup {r}
    /\ UNCHANGED <<user_version, tables, run_row, task_row, log_rows, pc, cur, sch,
                   obs, watcher, ext, rec, view, past>>

(* cmd_runs in another process: it recovers before it lists.               *)
ViewRuns ==
    /\ "runs" \in Commands /\ user_version = 1
    /\ rec["viewer"].at = "off"
    /\ OneEngine => pc = "down"
    /\ rec' = [rec EXCEPT !["viewer"].at = "list"]
    /\ UNCHANGED <<db, pc, cur, sch, obs, watcher, ext, asker, view, past>>

(* The rows of run r; of its tasks, the states that RunCounts counts.      *)
Rows(r) == [state |-> run_row[r].state, tasks |-> {task_row[r][t].state : t \in Tasks}]

(* The tasks are read before the run.                                      *)
BugShown(before, now) == [state |-> now.state, tasks |-> before.tasks]

(* get_run: what is read before and what is read now, when the run's row   *)
(* is read first and the rows of its tasks in a second statement.          *)
Shown(before, now) == [state |-> before.state, tasks |-> now.tasks]

(* cmd_status between its two statements.                                  *)
StatusRun(r) ==
    /\ "status" \in Commands /\ user_version = 1
    /\ view = NoView /\ run_row[r].state # "none"
    /\ view' = [run |-> r, rows |-> Rows(r)]
    /\ UNCHANGED <<db, pc, cur, sch, obs, watcher, ext, rec, asker, past>>

(* It prints the view and returns.                                         *)
StatusTasks ==
    /\ view # NoView
    /\ view' = NoView
    /\ UNCHANGED <<db, pc, cur, sch, obs, watcher, ext, rec, asker, past>>

-----------------------------------------------------------------------------
(* What the engine's thread does without waiting for anybody but itself.   *)
EngineStep ==
    \/ OpenCurrent \/ Migrate \/ SetVersion \/ MigrateFails \/ ExitFailed
    \/ RecoveryStep("engine")
    \/ Reject \/ CreateRun \/ \E t \in Tasks : CreateTask(t)
    \/ MarkStarted \/ BeginRun \/ Honour
    \/ \E t \in Tasks : WriteState(t) \/ WriteStamp(t)
    \/ RunReturns \/ Join \/ RemoveSentinel \/ MarkFinished

WatcherStep == WatchSee \/ WatchCancel \/ WatchStop

Next ==
    \/ Boot \/ EngineStep \/ Work \/ WatcherStep
    \/ \E t \in Tasks : LogLine(t)
    \/ Signal \/ Crash
    \/ \E r \in Runs : AskCheck(r) \/ AskWrite(r) \/ StatusRun(r)
    \/ StatusTasks
    \/ ViewRuns \/ RecoveryStep("viewer")

Spec == Init /\ [][Next]_vars

(* Fairness.  Both threads of the process keep running; the scheduler      *)
(* tests the flag in every round, however busy it is, and the children of  *)
(* a run that is stopping end (Scheduler's CancelStopsRun).  Nothing is    *)
(* assumed of the tasks of a run that is not, nor of any user.             *)
FairSpec ==
    /\ Spec
    /\ WF_vars(EngineStep)
    /\ WF_vars(WatcherStep)
    /\ SF_vars(Honour)
    /\ WF_vars(stopping /\ Work)

-----------------------------------------------------------------------------
(* Properties *)

(* A run whose row has one of the scheduler's verdicts is recorded         *)
(* completely: every task row is there, in a terminal state, stamped, and  *)
(* the states add up to the verdict.  A crash anywhere leaves the row      *)
(* without a verdict instead.                                              *)
FinishedRowsTrue ==
    \A r \in Runs : run_row[r].state \in {"SUCCEEDED", "FAILED", "CANCELLED"} =>
        /\ run_row[r].finished
        /\ \A t \in Tasks : task_row[r][t].state \in Terminal
                              /\ task_row[r][t].finished
        /\ run_row[r].state = "SUCCEEDED" =>
             \A t \in Tasks : task_row[r][t].state \in SuccessLike
        /\ run_row[r].state = "FAILED" =>
             \E t \in Tasks : task_row[r][t].state = "FAILED"

(* What the database says while a run executes is never ahead of what      *)
(* happened: outside the writes under way, the rows of the run are the     *)
(* scheduler's own states.                                                 *)
RowsFollowTasks ==
    pc \in {"running", "joining", "remove", "mark"} =>
        \A t \in Tasks \ unwritten :
            /\ task_row[cur][t].state = mem[t]
            /\ task_row[cur][t].finished <=> mem[t] \in Terminal /\ t \notin stamping

(* Every line the observer was given is in the database once the run has   *)
(* its verdict, and none is there twice, in whatever portions the buffer   *)
(* was flushed.                                                            *)
LogsExact ==
    /\ \A i, j \in DOMAIN log_rows : log_rows[i] = log_rows[j] => i = j
    /\ \A r \in Runs : run_row[r].state \in {"SUCCEEDED", "FAILED", "CANCELLED"} =>
         \A line \in emitted \cup {<<r, "engine">>} :
             line[1] = r => \E i \in DOMAIN log_rows : log_rows[i] = line

(* The record of a run that executes, and of one that has ended, is what   *)
(* happened, rows and lines.                                               *)
RecordExact == TypeOK /\ RowsFollowTasks /\ LogsExact

(* `status' may show what was true at no time, because it reads the run    *)
(* and its tasks one after the other; but a verdict is not shown next to   *)
(* tasks that are under way, nor a success next to a task that failed.     *)
StatusConsistent ==
    [][(view # NoView /\ view' = NoView) =>
         LET shown == Shown(view.rows, Rows(view.run)) IN
         shown.state \in {"SUCCEEDED", "FAILED", "CANCELLED"} =>
           /\ shown.tasks \subseteq Terminal
           /\ shown.state = "SUCCEEDED" => shown.tasks \subseteq SuccessLike
           /\ shown.state = "FAILED" => "FAILED" \in shown.tasks]_vars

(* A run's row goes from CREATED to RUNNING to one verdict; INTERRUPTED is *)
(* for a run whose process is dead; and a verdict is never revised.        *)
RunLifecycle ==
    [][\A r \in Runs : run_row'[r].state # run_row[r].state =>
         \/ run_row[r].state = "none" /\ run_row'[r].state = "CREATED"
         \/ run_row[r].state = "CREATED" /\ run_row'[r].state = "RUNNING"
         \/ run_row[r].state = "RUNNING" /\ cur = r /\ run_row'[r].state = mem_run
         \/ /\ run_row[r].state \in {"CREATED", "RUNNING"} /\ cur # r
            /\ run_row'[r].state = "INTERRUPTED"]_vars

Closed(r) ==
    /\ run_row[r].finished
    /\ \A t \in Tasks : task_row[r][t].state \in Terminal \cup {"none"}

(* Once a process has recovered, no run but its own looks alive, whatever  *)
(* instant the processes before it died at and whichever process recovered *)
(* their runs; and an INTERRUPTED run has its end recorded and no task     *)
(* that looks alive, if recovery itself was not interrupted.               *)
RecoveredClean ==
    pc \in Executing \cup {"validate"} =>
        /\ \A r \in Runs \ {cur} : run_row[r].state \notin {"CREATED", "RUNNING"}
        /\ \A r \in Runs \ abandoned : run_row[r].state = "INTERRUPTED" => Closed(r)

(* Whoever asks for it, with a signal or with a sentinel file, at whatever *)
(* point of run_pipeline: the run ends and its row says how, even if none  *)
(* of its tasks would end by itself.                                       *)
CancelHonoured ==
    \A r \in Runs : (cur = r /\ (ext \/ r \in sentinels))
                        ~> run_row[r].state \in TerminalRun

-----------------------------------------------------------------------------
(* What the documentation says and the code does not do *)

(* user-guide.md: a run in progress is cancelled from another terminal     *)
(* with the id that `flowforge runs' shows.  The command is not refused    *)
(* for a run that is still executing.                                      *)
CancelNotRefused ==
    [][\A r \in Runs : asker[r] = "idle" /\ asker'[r] = "no"
            => ~(cur = r /\ pc \in Executing)]_vars

(* persistence.md: a run that was interrupted is marked INTERRUPTED with   *)
(* its end, and its non-terminal tasks CANCELLED.                          *)
RecoveryIsComplete ==
    pc \in Executing \cup {"validate"} =>
        \A r \in Runs : run_row[r].state = "INTERRUPTED" => Closed(r)

(* schema.hpp: the database is brought up to date in a single transaction. *)
(* A process can always open a database that one of its like has created.  *)
OpensItsOwnDatabase == pc # "failed"

(* persistence.md: the sentinel is removed when the run ends.              *)
SentinelRemoved ==
    \A r \in sentinels : run_row[r].state \notin TerminalRun
=============================================================================

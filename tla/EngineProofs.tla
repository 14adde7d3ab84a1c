---------------------------- MODULE EngineProofs ----------------------------
(***************************************************************************)
(* What the database says is what happened, for every pipeline, every      *)
(* number of runs and crashes, and every instant a process may die at.     *)
(* But for the types, everything rests on OneEngine, the rule of           *)
(* persistence.md that only one engine process uses a state directory at a *)
(* time: without it `flowforge runs' takes a live run for an orphan.       *)
(*                                                                         *)
(* The invariant is built in layers, each inductive relative to those      *)
(* before it: types, the memory of the process, the progress of recovery,  *)
(* the rows, the log lines, and what `flowforge status' has read.          *)
(***************************************************************************)
EXTENDS Engine, FiniteSetTheorems, TLAPS

(* What the scheduler may say of a run.                                    *)
Verdicts == {"SUCCEEDED", "FAILED", "CANCELLED"}

(* The scheduler has returned.                                             *)
Returned == {"joining", "remove", "mark"}

-----------------------------------------------------------------------------
(* The memory of the process.  Outside run() it is as new; a task is       *)
(* skipped only because of a dependency and cancelled only when the run is *)
(* stopping; a task that is to be written or stamped is one of a run that  *)
(* is under way; and once run() has returned everything is written, every  *)
(* task is terminal and the verdict is that of the tasks.                  *)

FreshInv ==
    pc \notin {"running"} \cup Returned =>
        /\ mem = [t \in Tasks |-> "PENDING"] /\ mem_run = "CREATED"
        /\ ~cancelled /\ ~stopping
        /\ unwritten = {} /\ stamping = {} /\ buffer = <<>>
        /\ watcher = "none"

(* Why a task is where it is, and what remains to be written of it.        *)
TasksInv ==
    /\ stopping => cancelled
    /\ \A t \in Tasks : mem[t] = "CANCELLED" => stopping
    /\ \A t \in Tasks : mem[t] = "SKIPPED" =>
           \E d \in Deps[t] : mem[d] \in {"FAILED", "SKIPPED"}
    /\ \A t \in stamping : mem[t] \in Terminal /\ t \notin unwritten
    /\ \A t, u \in stamping : t = u

(* What holds while run() executes and after it has returned.              *)
VerdictInv ==
    /\ pc = "running" => mem_run \in {"CREATED", "RUNNING"}
    /\ pc \in Returned =>
        /\ unwritten = {} /\ stamping = {} /\ buffer = <<>>
        /\ \A t \in Tasks : mem[t] \in Terminal
        /\ mem_run \in Verdicts
        /\ mem_run = "SUCCEEDED" => \A t \in Tasks : mem[t] \in SuccessLike
        /\ mem_run = "FAILED" => \E t \in Tasks : mem[t] = "FAILED"

(* The parts together.                                                     *)
MemoryInv == FreshInv /\ TasksInv /\ VerdictInv

-----------------------------------------------------------------------------
(* The progress of recovery.  Only one process recovers, and none while a  *)
(* run is executed; the list it has read is exactly the runs that are      *)
(* still in the state it looks for; the run it works on is INTERRUPTED,    *)
(* and the tasks it has passed over or handled are not alive.              *)

Closing == {"finish", "tasks", "task", "stamp"}

(* The engine recovers in one place of its program, and a run that is      *)
(* being closed is a run.                                                  *)
PlaceInv ==
    /\ rec["engine"].at # "off" <=> pc = "recover"
    /\ \A p \in Processes : rec[p].at \in Closing => rec[p].run \in Runs

(* Nobody else recovers then, and progress is forgotten at the end.        *)
RecoveryPlace ==
    /\ rec["viewer"].at # "off" => pc = "down"
    /\ \A p \in Processes : rec[p].at = "off" => rec[p] = NoRecovery

(* What process p has read is still so, and what it has done is done.      *)
RecoveryOk(p) ==
    /\ rec[p].stale = "CREATED" => \A r \in Runs : run_row[r].state # "RUNNING"
    /\ rec[p].at \in {"run"} \cup Closing =>
         \A r \in Runs : run_row[r].state = rec[p].stale <=> r \in rec[p].runs
    /\ rec[p].at \in Closing =>
         /\ run_row[rec[p].run].state = "INTERRUPTED"
         /\ rec[p].at # "finish" => run_row[rec[p].run].finished
    /\ rec[p].at \in {"task", "stamp"} =>
         \A t \in Tasks \ rec[p].tasks :
             task_row[rec[p].run][t].state \in Terminal \cup {"none"}

(* Both processes together.                                                *)
RecoveryInv == RecoveryPlace /\ \A p \in Processes : RecoveryOk(p)

-----------------------------------------------------------------------------
(* The rows.  The run that is executed has the state of its place, and no  *)
(* other looks alive once recovery is over; a run that has no row has no   *)
(* task rows; an INTERRUPTED run is closed, unless its recovery is under   *)
(* way or was cut short; a verdict is recorded completely.                 *)

CurrentInv ==
    /\ pc \in Executing \cup {"validate"} =>
         \A r \in Runs \ {cur} : run_row[r].state \notin {"CREATED", "RUNNING"}
    /\ pc = "create_tasks" =>
         /\ run_row[cur].state = "CREATED"
         /\ \A t \in Tasks : task_row[cur][t] \in {NoRow, [state |-> "PENDING", finished |-> FALSE]}
    /\ pc \in {"running"} \cup Returned => run_row[cur].state = "RUNNING"

(* The row of a task that is to be written has no end yet.                 *)
UnwrittenInv == \A t \in unwritten : ~task_row[cur][t].finished

(* Some process is closing run r.                                          *)
Recovering(r) == \E p \in Processes : rec[p].at \in Closing /\ rec[p].run = r

(* The rows of one run that has no row, or was interrupted.                *)
RowOk(r) ==
    /\ run_row[r].state = "none" => \A t \in Tasks : task_row[r][t] = NoRow
    /\ run_row[r].state = "INTERRUPTED" =>
         Closed(r) \/ r \in abandoned \/ Recovering(r)

(* The parts together, with the two properties they strengthen.            *)
RowsInv == CurrentInv /\ UnwrittenInv /\ RowsFollowTasks /\ FinishedRowsTrue
             /\ \A r \in Runs : RowOk(r)

-----------------------------------------------------------------------------
(* The log lines.  No line is in the table twice, in the buffer twice, or  *)
(* in both; the buffer holds lines of the run that is executed; what the   *)
(* observer was given is in one of them; and the line of the engine itself *)
(* is in the table exactly for the runs whose run() has returned.          *)

Lines(q) == {q[i] : i \in DOMAIN q}

(* No element occurs twice.                                                *)
Distinct(q) == \A i, j \in DOMAIN q : q[i] = q[j] => i = j

(* Where each line is.                                                     *)
LogInv ==
    /\ Distinct(log_rows) /\ Distinct(buffer)
    /\ Lines(log_rows) \cap Lines(buffer) = {}
    /\ Lines(buffer) \subseteq emitted
    /\ \A line \in Lines(buffer) : line[1] = cur
    /\ \A r \in Runs : \A t \in Tasks : <<r, t>> \in Lines(log_rows) => <<r, t>> \in emitted
    /\ \A r \in Runs : \A t \in Tasks : <<r, t>> \in emitted => run_row[r].state # "none"
    /\ \A r \in Runs : <<r, "engine">> \in Lines(log_rows) =>
         run_row[r].state # "none" /\ (cur = r => pc \in Returned)
    /\ pc = "create_tasks" => \A t \in Tasks : <<cur, t>> \notin emitted
    /\ pc \in {"running"} \cup Returned =>
         \A t \in Tasks : <<cur, t>> \in emitted => <<cur, t>> \in Lines(log_rows) \cup Lines(buffer)
    /\ pc \in Returned => <<cur, "engine">> \in Lines(log_rows)
    /\ \A r \in Runs : run_row[r].state \in Verdicts =>
         /\ <<r, "engine">> \in Lines(log_rows)
         /\ \A t \in Tasks : <<r, t>> \in emitted => <<r, t>> \in Lines(log_rows)

-----------------------------------------------------------------------------
(* What `flowforge status' has read of a run with a verdict is still true. *)
ViewInv ==
    view # NoView =>
        /\ view.run \in Runs
        /\ view.rows.state \in Verdicts => run_row[view.run].state = view.rows.state

-----------------------------------------------------------------------------
(* Types *)

(* The states the contract of a run knows are those of the engine.         *)
LEMMA SameStates ==
    /\ R!TaskState = TaskState /\ R!Terminal = Terminal
    /\ R!SuccessLike = SuccessLike /\ R!Lifecycle = Lifecycle
  BY DEF R!TaskState, R!Terminal, R!SuccessLike, R!Lifecycle, R!ValidTransition,
     TaskState, Terminal, SuccessLike, Lifecycle, ValidTransition

(* An update of one row of a run's tasks changes the field it names and    *)
(* nothing else.                                                           *)
LEMMA SetTaskStateDoes ==
    ASSUME TypeOK, NEW r \in Runs, NEW t \in Tasks, NEW s \in TaskState, SetTaskState(r, t, s)
    PROVE  /\ task_row' \in [Runs -> [Tasks -> Row(TaskState)]]
           /\ \A q \in Runs : q # r => task_row'[q] = task_row[q]
           /\ \A u \in Tasks : u # t => task_row'[r][u] = task_row[r][u]
           /\ task_row'[r][t].state = s /\ task_row'[r][t].finished = task_row[r][t].finished
  <1>1. /\ task_row \in [Runs -> [Tasks -> Row(TaskState)]]
        /\ task_row[r] \in [Tasks -> Row(TaskState)] /\ task_row[r][t] \in Row(TaskState)
    BY DEF TypeOK
  <1>2. task_row' = [task_row EXCEPT ![r][t].state = s]
    BY DEF SetTaskState
  <1>3. task_row'[r][t] = [task_row[r][t] EXCEPT !.state = s]
    BY <1>1, <1>2
  <1>4. \A u \in Tasks : u # t => task_row'[r][u] = task_row[r][u]
    BY <1>1, <1>2
  <1>5. \A q \in Runs : q # r => task_row'[q] = task_row[q]
    BY <1>1, <1>2
  <1>6. task_row'[r] \in [Tasks -> Row(TaskState)]
    BY <1>1, <1>2, <1>3, <1>4 DEF Row
  <1>7. task_row' \in [Runs -> [Tasks -> Row(TaskState)]]
    BY <1>1, <1>2, <1>5, <1>6
  <1>8. task_row'[r][t].state = s /\ task_row'[r][t].finished = task_row[r][t].finished
    BY <1>1, <1>3 DEF Row
  <1> QED BY <1>4, <1>5, <1>7, <1>8

(* The time stamp, likewise.                                               *)
LEMMA SetTaskFinishedDoes ==
    ASSUME TypeOK, NEW r \in Runs, NEW t \in Tasks, SetTaskFinished(r, t)
    PROVE  /\ task_row' \in [Runs -> [Tasks -> Row(TaskState)]]
           /\ \A q \in Runs : q # r => task_row'[q] = task_row[q]
           /\ \A u \in Tasks : u # t => task_row'[r][u] = task_row[r][u]
           /\ task_row'[r][t].finished /\ task_row'[r][t].state = task_row[r][t].state
  <1>1. /\ task_row \in [Runs -> [Tasks -> Row(TaskState)]]
        /\ task_row[r] \in [Tasks -> Row(TaskState)] /\ task_row[r][t] \in Row(TaskState)
    BY DEF TypeOK
  <1>2. task_row' = [task_row EXCEPT ![r][t].finished = TRUE]
    BY DEF SetTaskFinished
  <1>3. task_row'[r][t] = [task_row[r][t] EXCEPT !.finished = TRUE]
    BY <1>1, <1>2
  <1>4. \A u \in Tasks : u # t => task_row'[r][u] = task_row[r][u]
    BY <1>1, <1>2
  <1>5. \A q \in Runs : q # r => task_row'[q] = task_row[q]
    BY <1>1, <1>2
  <1>6. task_row'[r] \in [Tasks -> Row(TaskState)]
    BY <1>1, <1>2, <1>3, <1>4 DEF Row
  <1>7. task_row' \in [Runs -> [Tasks -> Row(TaskState)]]
    BY <1>1, <1>2, <1>5, <1>6
  <1>8. task_row'[r][t].finished /\ task_row'[r][t].state = task_row[r][t].state
    BY <1>1, <1>3 DEF Row
  <1> QED BY <1>4, <1>5, <1>7, <1>8

(* The progress of process p becomes d, that of the other one stays.       *)
Progressed(p, d) ==
    /\ rec'[p] = d /\ d \in Recovery
    /\ rec' \in [Processes -> Recovery]
    /\ \A q \in Processes : q # p => rec'[q] = rec[q]

(* list_in_state: the progress after it.                                   *)
LEMMA ListStaleDoes ==
    ASSUME TypeOK, NEW p \in Processes, ListStale(p)
    PROVE  \E d : /\ Progressed(p, d)
                  /\ d.at = "run" /\ d.stale = rec[p].stale /\ d.runs = StaleRuns(rec[p].stale)
  <1> DEFINE d == [rec[p] EXCEPT !.at = "run", !.runs = StaleRuns(rec[p].stale)]
  <1>1. rec' = [rec EXCEPT ![p] = d]
    BY DEF ListStale
  <1>2. rec \in [Processes -> Recovery] /\ rec[p] \in Recovery /\ StaleRuns(rec[p].stale) \in SUBSET Runs
    BY DEF TypeOK, StaleRuns
  <1>3. d \in Recovery /\ d.at = "run" /\ d.stale = rec[p].stale /\ d.runs = StaleRuns(rec[p].stale)
    BY <1>2 DEF Recovery
  <1> HIDE DEF d
  <1>4. Progressed(p, d)
    BY <1>1, <1>2, <1>3 DEF Progressed
  <1> QED BY <1>3, <1>4

(* set_state of one of the runs found: the progress after it.              *)
LEMMA InterruptDoes ==
    ASSUME TypeOK, NEW p \in Processes, Interrupt(p)
    PROVE  \E r \in rec[p].runs : \E d :
             /\ Progressed(p, d) /\ SetRunState(r, "INTERRUPTED")
             /\ d.at = "finish" /\ d.stale = rec[p].stale /\ d.runs = rec[p].runs \ {r}
             /\ d.run = r
  <1>1. PICK r \in rec[p].runs :
          /\ SetRunState(r, "INTERRUPTED")
          /\ rec' = [rec EXCEPT ![p] = [@ EXCEPT !.at = "finish", !.run = r,
                                                 !.runs = rec[p].runs \ {r}]]
    BY DEF Interrupt
  <1> DEFINE d == [rec[p] EXCEPT !.at = "finish", !.run = r, !.runs = rec[p].runs \ {r}]
  <1>2. rec' = [rec EXCEPT ![p] = d]
    BY <1>1
  <1>3. rec \in [Processes -> Recovery] /\ rec[p] \in Recovery /\ r \in Runs
          /\ rec[p].runs \ {r} \in SUBSET Runs
    BY DEF TypeOK, Recovery
  <1>4. d \in Recovery /\ d.at = "finish" /\ d.stale = rec[p].stale
          /\ d.runs = rec[p].runs \ {r} /\ d.run = r
    BY <1>3 DEF Recovery
  <1> HIDE DEF d
  <1>5. Progressed(p, d)
    BY <1>2, <1>3, <1>4 DEF Progressed
  <1> QED BY <1>1, <1>4, <1>5

(* mark_finished of that run: the progress after it.                       *)
LEMMA MarkInterruptedDoes ==
    ASSUME TypeOK, NEW p \in Processes, MarkInterrupted(p)
    PROVE  \E d : /\ Progressed(p, d)
                  /\ d.at = "tasks" /\ d.stale = rec[p].stale /\ d.runs = rec[p].runs
                  /\ d.run = rec[p].run
  <1> DEFINE d == [rec[p] EXCEPT !.at = "tasks"]
  <1>1. rec' = [rec EXCEPT ![p] = d]
    BY DEF MarkInterrupted, TypeOK
  <1>2. rec \in [Processes -> Recovery] /\ rec[p] \in Recovery
    BY DEF TypeOK
  <1>3. d \in Recovery /\ d.at = "tasks" /\ d.stale = rec[p].stale /\ d.runs = rec[p].runs
          /\ d.run = rec[p].run
    BY <1>2 DEF Recovery
  <1> HIDE DEF d
  <1>4. Progressed(p, d)
    BY <1>1, <1>2, <1>3 DEF Progressed
  <1> QED BY <1>3, <1>4

(* list_for_run: the progress after it.                                    *)
LEMMA ListTasksDoes ==
    ASSUME TypeOK, NEW p \in Processes, ListTasks(p)
    PROVE  \E d : /\ Progressed(p, d)
                  /\ d.at = "task" /\ d.stale = rec[p].stale /\ d.runs = rec[p].runs
                  /\ d.run = rec[p].run
                  /\ d.tasks = {t \in Tasks : task_row[rec[p].run][t].state
                                                \notin Terminal \cup {"none"}}
  <1> DEFINE alive == {t \in Tasks : task_row[rec[p].run][t].state
                                                \notin Terminal \cup {"none"}}
             d == [rec[p] EXCEPT !.at = "task", !.tasks = alive]
  <1>1. rec' = [rec EXCEPT ![p] = d]
    BY DEF ListTasks
  <1>2. rec \in [Processes -> Recovery] /\ rec[p] \in Recovery /\ alive \in SUBSET Tasks
    BY DEF TypeOK
  <1> HIDE DEF alive
  <1>3. d \in Recovery /\ d.at = "task" /\ d.stale = rec[p].stale /\ d.runs = rec[p].runs
          /\ d.run = rec[p].run /\ d.tasks = alive
    BY <1>2 DEF Recovery
  <1> HIDE DEF d
  <1>4. Progressed(p, d)
    BY <1>1, <1>2, <1>3 DEF Progressed
  <1> QED BY <1>3, <1>4 DEF alive

(* set_state of one of the tasks found: the progress after it.             *)
LEMMA CancelTaskDoes ==
    ASSUME TypeOK, NEW p \in Processes, CancelTask(p)
    PROVE  \E t \in rec[p].tasks : \E d :
             /\ Progressed(p, d) /\ SetTaskState(rec[p].run, t, "CANCELLED")
             /\ d.at = "stamp" /\ d.stale = rec[p].stale /\ d.runs = rec[p].runs
             /\ d.run = rec[p].run /\ d.tasks = rec[p].tasks \ {t}
  <1>1. PICK t \in rec[p].tasks :
          /\ SetTaskState(rec[p].run, t, "CANCELLED")
          /\ rec' = [rec EXCEPT ![p] = [@ EXCEPT !.at = "stamp", !.task = {t},
                                                 !.tasks = rec[p].tasks \ {t}]]
    BY DEF CancelTask
  <1> DEFINE d == [rec[p] EXCEPT !.at = "stamp", !.task = {t}, !.tasks = rec[p].tasks \ {t}]
  <1>2. rec' = [rec EXCEPT ![p] = d]
    BY <1>1
  <1>3. rec \in [Processes -> Recovery] /\ rec[p] \in Recovery /\ t \in Tasks
          /\ rec[p].tasks \ {t} \in SUBSET Tasks
    BY DEF TypeOK, Recovery
  <1>4. d \in Recovery /\ d.at = "stamp" /\ d.stale = rec[p].stale
          /\ d.runs = rec[p].runs /\ d.run = rec[p].run /\ d.tasks = rec[p].tasks \ {t}
    BY <1>3 DEF Recovery
  <1> HIDE DEF d
  <1>5. Progressed(p, d)
    BY <1>2, <1>3, <1>4 DEF Progressed
  <1> QED BY <1>1, <1>4, <1>5

(* set_finished of that task: the progress after it.                       *)
LEMMA StampTaskDoes ==
    ASSUME TypeOK, NEW p \in Processes, StampTask(p)
    PROVE  \E d : /\ Progressed(p, d)
                  /\ d.at = "task" /\ d.stale = rec[p].stale /\ d.runs = rec[p].runs
                  /\ d.run = rec[p].run /\ d.tasks = rec[p].tasks
  <1> DEFINE d == [rec[p] EXCEPT !.at = "task", !.task = {}]
  <1>1. rec' = [rec EXCEPT ![p] = d]
    BY DEF StampTask
  <1>2. rec \in [Processes -> Recovery] /\ rec[p] \in Recovery
    BY DEF TypeOK
  <1>3. d \in Recovery /\ d.at = "task" /\ d.stale = rec[p].stale /\ d.runs = rec[p].runs
          /\ d.run = rec[p].run /\ d.tasks = rec[p].tasks
    BY <1>2 DEF Recovery
  <1> HIDE DEF d
  <1>4. Progressed(p, d)
    BY <1>1, <1>2, <1>3 DEF Progressed
  <1> QED BY <1>3, <1>4

(* The loop over the runs: the progress after one of them.                 *)
LEMMA NextRunDoes ==
    ASSUME TypeOK, NEW p \in Processes, NextRun(p)
    PROVE  \E d : /\ Progressed(p, d)
                  /\ d.at = "run" /\ d.stale = rec[p].stale /\ d.runs = rec[p].runs
  <1> DEFINE d == [rec[p] EXCEPT !.at = "run"]
  <1>1. rec' = [rec EXCEPT ![p] = d]
    BY DEF NextRun, TypeOK
  <1>2. rec \in [Processes -> Recovery] /\ rec[p] \in Recovery
    BY DEF TypeOK
  <1>3. d \in Recovery /\ d.at = "run" /\ d.stale = rec[p].stale /\ d.runs = rec[p].runs
    BY <1>2 DEF Recovery
  <1> HIDE DEF d
  <1>4. Progressed(p, d)
    BY <1>1, <1>2, <1>3 DEF Progressed
  <1> QED BY <1>3, <1>4

(* The loop over the two stale states: the progress after one of them.     *)
LEMMA NextStateDoes ==
    ASSUME TypeOK, NEW p \in Processes, NextState(p)
    PROVE  \E d : /\ Progressed(p, d)
                  /\ IF rec[p].stale = "RUNNING"
                     THEN d.at = "list" /\ d.stale = "CREATED" /\ pc' = pc
                     ELSE d = NoRecovery /\ pc' = IF p = "engine" THEN "validate" ELSE pc
  <1>1. rec \in [Processes -> Recovery] /\ rec[p] \in Recovery
    BY DEF TypeOK
  <1>2. CASE rec[p].stale = "RUNNING"
    <2> DEFINE d == [rec[p] EXCEPT !.at = "list", !.stale = "CREATED"]
    <2>1. rec' = [rec EXCEPT ![p] = d] /\ pc' = pc
      BY <1>2, Zenon DEF NextState
    <2>2. d \in Recovery /\ d.at = "list" /\ d.stale = "CREATED"
      BY <1>1 DEF Recovery
    <2> HIDE DEF d
    <2>3. Progressed(p, d)
      BY <1>1, <2>1, <2>2 DEF Progressed
    <2> QED BY <1>2, <2>1, <2>2, <2>3
  <1>3. CASE rec[p].stale # "RUNNING"
    <2>1. rec' = [rec EXCEPT ![p] = NoRecovery] /\ pc' = IF p = "engine" THEN "validate" ELSE pc
      BY <1>3, Zenon DEF NextState
    <2>2. NoRecovery \in Recovery
      BY DEF NoRecovery, Recovery
    <2>3. Progressed(p, NoRecovery)
      BY <1>1, <2>1, <2>2 DEF Progressed
    <2> QED BY <1>3, <2>1, <2>3
  <1> QED BY <1>2, <1>3

(* The two places where recovery begins.                                   *)
LEMMA BeginsDoes ==
    ASSUME TypeOK, NEW p \in Processes, rec' = [rec EXCEPT ![p].at = "list"]
    PROVE  \E d : /\ Progressed(p, d)
                  /\ d.at = "list" /\ d.stale = rec[p].stale
  <1> DEFINE d == [rec[p] EXCEPT !.at = "list"]
  <1>1. rec' = [rec EXCEPT ![p] = d]
    BY DEF TypeOK
  <1>2. rec \in [Processes -> Recovery] /\ rec[p] \in Recovery
    BY DEF TypeOK
  <1>3. d \in Recovery /\ d.at = "list" /\ d.stale = rec[p].stale
    BY <1>2 DEF Recovery
  <1> HIDE DEF d
  <1>4. Progressed(p, d)
    BY <1>1, <1>2, <1>3 DEF Progressed
  <1> QED BY <1>3, <1>4

(* The process ends in the middle of recovery, or not in recovery at all.  *)
LEMMA EndsDoes ==
    ASSUME TypeOK, ProcessEnds
    PROVE  Progressed("engine", NoRecovery)
  BY DEF TypeOK, ProcessEnds, Progressed, Processes, NoRecovery, Recovery


(* The new memory of a process that has ended has the right types.         *)
LEMMA EndsTyped ==
    ASSUME TypeOK, ProcessEnds, UNCHANGED <<user_version, tables, task_row, log_rows, sentinels>>,
           run_row' \in [Runs -> Row(PipelineState)],
           UNCHANGED <<asker, view, emitted>>, abandoned' \subseteq Runs, crashes' \in 0 .. MaxCrashes
    PROVE  TypeOK'
  <1>1. rec' \in [Processes -> Recovery]
    BY EndsDoes DEF Progressed
  <1>2. Cardinality({}) <= 1
    BY FS_EmptySet
  <1>3. <<>> \in Seq(Runs \X Tasks) /\ Len(<<>>) < BufferLimit
    BY EngineAssumption
  <1>4. mem' \in [Tasks -> TaskState] /\ mem_run' \in PipelineState
    BY DEF ProcessEnds, TaskState, PipelineState
  <1>5. "down" \in Points /\ "down" \notin Executing
    BY DEF Points, Executing
  <1>6. 0 \in 0 .. MaxRuns
    BY EngineAssumption
  <1> QED
    BY <1>1, <1>2, <1>3, <1>4, <1>5, <1>6 DEF TypeOK, ProcessEnds

(* An update of the row of a run, likewise.                                *)
LEMMA RunRowUpdate ==
    ASSUME TypeOK, NEW r \in Runs, NEW s \in PipelineState, NEW f \in BOOLEAN,
           \/ run_row' = [run_row EXCEPT ![r].state = s] /\ f = run_row[r].finished
           \/ run_row' = [run_row EXCEPT ![r] = [state |-> s, finished |-> f]]
    PROVE  /\ run_row' \in [Runs -> Row(PipelineState)]
           /\ \A q \in Runs : q # r => run_row'[q] = run_row[q]
           /\ run_row'[r].state = s /\ run_row'[r].finished = f
  <1>1. run_row \in [Runs -> Row(PipelineState)] /\ run_row[r] \in Row(PipelineState)
    BY DEF TypeOK
  <1>2. CASE run_row' = [run_row EXCEPT ![r].state = s] /\ f = run_row[r].finished
    <2>1. run_row' = [run_row EXCEPT ![r] = [run_row[r] EXCEPT !.state = s]]
      BY <1>1, <1>2
    <2> DEFINE row == [run_row[r] EXCEPT !.state = s]
    <2>2. row \in Row(PipelineState) /\ row.state = s /\ row.finished = f
      BY <1>1, <1>2 DEF Row
    <2>3. run_row' = [run_row EXCEPT ![r] = row]
      BY <2>1
    <2> HIDE DEF row
    <2> QED BY <1>1, <2>2, <2>3
  <1>3. CASE run_row' = [run_row EXCEPT ![r] = [state |-> s, finished |-> f]]
    <2> DEFINE row == [state |-> s, finished |-> f]
    <2>1. row \in Row(PipelineState) /\ row.state = s /\ row.finished = f
      BY DEF Row
    <2> HIDE DEF row
    <2> QED BY <1>1, <1>3, <2>1 DEF row
  <1> QED BY <1>2, <1>3

(* Row updates keep the type of the table.                                 *)
LEMMA RunRowTyped ==
    ASSUME TypeOK, NEW r, NEW s \in PipelineState,
           SetRunState(r, s) \/ MarkRunFinished(r, s) \/ MarkRunStarted(r) \/ InsertRun(r)
    PROVE  run_row' \in [Runs -> Row(PipelineState)]
  <1>1. CASE r \in Runs
    <2>1. run_row[r].finished \in BOOLEAN
      BY <1>1 DEF TypeOK, Row
    <2>2. "RUNNING" \in PipelineState /\ "CREATED" \in PipelineState
      BY DEF PipelineState
    <2> QED
      BY <1>1, <2>1, <2>2, RunRowUpdate DEF SetRunState, MarkRunFinished, MarkRunStarted, InsertRun
  <1>2. CASE r \notin Runs
    <2>1. run_row' = run_row
      BY <1>2 DEF TypeOK, SetRunState, MarkRunFinished, MarkRunStarted, InsertRun
    <2> QED BY <2>1 DEF TypeOK
  <1> QED BY <1>1, <1>2

(* An update of the row of a task, likewise.                               *)
LEMMA TaskRowTyped ==
    ASSUME TypeOK, NEW r, NEW t \in Tasks, NEW s \in TaskState,
           SetTaskState(r, t, s) \/ SetTaskFinished(r, t) \/ InsertTask(r, t)
    PROVE  task_row' \in [Runs -> [Tasks -> Row(TaskState)]]
  <1>0. "PENDING" \in TaskState /\ task_row \in [Runs -> [Tasks -> Row(TaskState)]]
    BY DEF TaskState, TypeOK
  <1>1. CASE r \in Runs
    <2>1. InsertTask(r, t) => SetTaskState(r, t, "PENDING")
      BY DEF InsertTask, SetTaskState
    <2> QED BY <1>0, <1>1, <2>1, SetTaskStateDoes, SetTaskFinishedDoes
  <1>2. CASE r \notin Runs
    <2>1. task_row' = task_row
      BY <1>0, <1>2 DEF SetTaskState, SetTaskFinished, InsertTask
    <2> QED BY <1>0, <2>1
  <1> QED BY <1>1, <1>2

(* What the scheduler may do keeps the types of its variables.             *)
LEMMA ContractTyped ==
    ASSUME TypeOK, R!Begin \/ R!Work \/ R!Honour \/ R!End \/ R!RequestCancel
    PROVE  /\ mem' \in [Tasks -> TaskState] /\ mem_run' \in PipelineState
           /\ cancelled' \in BOOLEAN /\ stopping' \in BOOLEAN
  <1>1. CASE R!Begin \/ R!Work
    BY <1>1, SameStates DEF R!Begin, R!Work, R!Moves, TypeOK, PipelineState
  <1>2. CASE R!Honour
    BY <1>2 DEF R!Honour, TypeOK, TaskState
  <1>3. CASE R!End
    BY <1>3 DEF R!End, R!RunVerdict, TypeOK, PipelineState
  <1>4. CASE R!RequestCancel
    BY <1>4 DEF R!RequestCancel, TypeOK
  <1> QED BY <1>1, <1>2, <1>3, <1>4

(* Whichever way the observer takes a line, the buffer stays below its     *)
(* limit.                                                                  *)
LEMMA LogTyped ==
    ASSUME TypeOK, cur \in Runs, NEW t \in Tasks, LogLine(t)
    PROVE  /\ buffer' \in Seq(Runs \X Tasks) /\ Len(buffer') < BufferLimit
           /\ log_rows' \in Seq(Runs \X (Tasks \cup {"engine"}))
  <1> DEFINE lines == Append(buffer, <<cur, t>>)
  <1>1. lines \in Seq(Runs \X Tasks)
    BY DEF TypeOK
  <1>2. lines \in Seq(Runs \X (Tasks \cup {"engine"})) /\ Len(lines) \in Nat
    BY <1>1
  <1>3. /\ Len(lines) >= BufferLimit => log_rows' = log_rows \o lines /\ buffer' = <<>>
        /\ ~(Len(lines) >= BufferLimit) => buffer' = lines /\ log_rows' = log_rows
    BY DEF LogLine, Flush, InsertLogs
  <1>4. <<>> \in Seq(Runs \X Tasks) /\ Len(<<>>) < BufferLimit
    BY EngineAssumption
  <1>5. log_rows \in Seq(Runs \X (Tasks \cup {"engine"}))
    BY DEF TypeOK
  <1> HIDE DEF lines
  <1>6. CASE Len(lines) >= BufferLimit
    <2>1. log_rows \o lines \in Seq(Runs \X (Tasks \cup {"engine"}))
      BY <1>2, <1>5
    <2> QED BY <1>3, <1>4, <1>6, <2>1
  <1>7. CASE ~(Len(lines) >= BufferLimit)
    BY <1>1, <1>2, <1>3, <1>5, <1>7, EngineAssumption
  <1> QED BY <1>6, <1>7

(* The last flush adds the engine's own line.                              *)
LEMMA FlushTyped ==
    ASSUME TypeOK, cur \in Runs, Flush(Append(buffer, <<cur, "engine">>))
    PROVE  log_rows' \in Seq(Runs \X (Tasks \cup {"engine"}))
  <1>1. buffer \in Seq(Runs \X (Tasks \cup {"engine"}))
    BY DEF TypeOK
  <1> QED BY <1>1 DEF TypeOK, Flush, InsertLogs

(* A state directory that is new, and no process.                          *)
LEMMA TypeOKInit == Init => TypeOK
  <1> SUFFICES ASSUME Init PROVE TypeOK
    OBVIOUS
  <1>1. Cardinality({}) <= 1
    BY FS_EmptySet
  <1>2. /\ <<>> \in Seq(Runs \X Tasks) /\ Len(<<>>) < BufferLimit
        /\ <<>> \in Seq(Runs \X (Tasks \cup {"engine"}))
    BY EngineAssumption
  <1>3. NoRow \in Row(PipelineState) /\ NoRow \in Row(TaskState)
    BY DEF NoRow, Row
  <1>4. NoRecovery \in Recovery
    BY DEF NoRecovery, Recovery
  <1>5. NoView \in [run : Runs \cup {0}, rows : RowsType]
    BY DEF NoView, RowsType
  <1>6. 0 \in 0 .. MaxRuns /\ 0 \in 0 .. MaxCrashes /\ 0 \in 0 .. 1
    BY EngineAssumption
  <1>7. mem \in [Tasks -> TaskState] /\ mem_run \in PipelineState
          /\ cancelled \in BOOLEAN /\ stopping \in BOOLEAN
    BY DEF Init, R!RunInit, TaskState, PipelineState
  <1>8. "down" \in Points /\ "down" \notin Executing
    BY DEF Points, Executing
  <1> QED BY <1>1, <1>2, <1>3, <1>4, <1>5, <1>6, <1>7, <1>8 DEF Init, TypeOK

(* One step of any process keeps the types.                                *)
LEMMA TypeOKStep == TypeOK /\ PlaceInv /\ [Next]_vars => TypeOK'
  <1> SUFFICES ASSUME TypeOK, PlaceInv, [Next]_vars PROVE TypeOK'
    OBVIOUS
  <1>0. Points = {"down", "open", "set_version", "failed", "recover", "validate"} \cup Executing
    BY DEF Points, Executing
  <1>1. CASE Boot \/ MigrateFails \/ Migrate
    BY <1>1 DEF Boot, MigrateFails, Migrate, TypeOK, Points, Executing, db, sch, obs, past
  <1>2. CASE OpenCurrent \/ SetVersion
    <2>1. rec' \in [Processes -> Recovery]
      BY <1>2, BeginsDoes DEF OpenCurrent, SetVersion, Opened, Progressed, Processes
    <2> QED
      BY <1>2, <2>1 DEF OpenCurrent, SetVersion, Opened, TypeOK, Points, Executing, db, sch, obs, past
  <1>3. CASE ExitFailed \/ Reject
    BY <1>3, EndsTyped DEF ExitFailed, Reject, TypeOK, db, past
  <1>4. ASSUME NEW p \in Processes, RecoveryStep(p) PROVE TypeOK'
    <2>1. rec' \in [Processes -> Recovery]
      BY <1>4, ListStaleDoes, InterruptDoes, MarkInterruptedDoes, ListTasksDoes, CancelTaskDoes,
         StampTaskDoes, NextRunDoes, NextStateDoes DEF RecoveryStep, Progressed
    <2>2. run_row' \in [Runs -> Row(PipelineState)]
      <3>1. "INTERRUPTED" \in PipelineState
        BY DEF PipelineState
      <3> QED
        BY <1>4, <3>1, RunRowTyped DEF TypeOK, RecoveryStep, ListStale, Interrupt, MarkInterrupted,
           ListTasks, CancelTask, StampTask, NextRun, NextState
    <2>3. task_row' \in [Runs -> [Tasks -> Row(TaskState)]]
      <3>1. "CANCELLED" \in TaskState /\ rec[p].tasks \subseteq Tasks /\ rec[p].task \subseteq Tasks
        BY DEF TaskState, TypeOK, Recovery
      <3> QED
        BY <1>4, <3>1, TaskRowTyped DEF TypeOK, RecoveryStep, ListStale, Interrupt, MarkInterrupted,
           ListTasks, CancelTask, StampTask, NextRun, NextState
    <2>4. pc' = pc \/ (pc' = "validate" /\ pc = "recover")
      <3>1. CASE NextState(p)
        <4>1. rec[p].at = "run"
          BY <3>1, Zenon DEF NextState
        <4> QED BY <3>1, <4>1, NextStateDoes DEF PlaceInv
      <3>2. CASE ~NextState(p)
        BY <1>4, <3>2, Zenon DEF RecoveryStep, ListStale, Interrupt, MarkInterrupted,
           ListTasks, CancelTask, StampTask, NextRun
      <3> QED BY <3>1, <3>2
    <2>5. RecFrame
      BY <1>4 DEF RecoveryStep, ListStale, Interrupt, MarkInterrupted,
         ListTasks, CancelTask, StampTask, NextRun, NextState
    <2> QED
      BY <2>1, <2>2, <2>3, <2>4, <2>5 DEF TypeOK, RecFrame, Points, Executing, sch, obs, past
  <1>5. CASE CreateRun
    <2>1. run_row' \in [Runs -> Row(PipelineState)] /\ cur' \in Runs
      BY <1>5, RunRowTyped, "CREATED" \in PipelineState DEF CreateRun, PipelineState
    <2>2. cur' # 0 /\ cur' \in 0 .. MaxRuns
      BY <2>1, EngineAssumption DEF Runs
    <2> QED
      BY <1>5, <2>1, <2>2 DEF CreateRun, TypeOK, Points, Executing, sch, obs, past
  <1>6. ASSUME NEW t \in Tasks, CreateTask(t) \/ WriteState(t) \/ WriteStamp(t) PROVE TypeOK'
    <2>1. mem[t] \in TaskState
      BY DEF TypeOK
    <2>2. task_row' \in [Runs -> [Tasks -> Row(TaskState)]]
      BY <1>6, <2>1, TaskRowTyped DEF CreateTask, WriteState, WriteStamp
    <2>3. Cardinality({}) <= 1 /\ Cardinality({t}) <= 1
      <3>1. Cardinality({}) = 0 /\ Cardinality({t}) = 1
        BY FS_EmptySet, FS_Singleton, Zenon
      <3> QED BY <3>1
    <2>4. stamping' \subseteq Tasks /\ Cardinality(stamping') <= 1 /\ unwritten' \subseteq Tasks
      BY <1>6, <2>3 DEF CreateTask, WriteState, WriteStamp, TypeOK, obs
    <2> QED
      BY <1>6, <2>2, <2>4 DEF CreateTask, WriteState, WriteStamp, TypeOK, sch, obs, past
  <1>7. CASE MarkStarted
    <2>1. run_row' \in [Runs -> Row(PipelineState)]
      BY <1>7, RunRowTyped, "RUNNING" \in PipelineState DEF MarkStarted, PipelineState
    <2> QED
      BY <1>7, <2>1 DEF MarkStarted, TypeOK, Points, Executing, sch, obs, past
  <1>8. CASE BeginRun \/ Work \/ Honour
    <2>1. R!Begin \/ R!Work \/ R!Honour
      BY <1>8 DEF BeginRun, Work, Honour, Scheduling
    <2>2. unwritten' \subseteq Tasks
      BY <1>8 DEF BeginRun, Work, Honour, Scheduling
    <2> QED
      BY <1>8, <2>1, <2>2, ContractTyped
         DEF BeginRun, Work, Honour, Scheduling, TypeOK, db, past
  <1>9. CASE RunReturns
    <2>1. cur \in Runs
      BY <1>9, EngineAssumption DEF RunReturns, TypeOK, Executing, Runs
    <2>2. log_rows' \in Seq(Runs \X (Tasks \cup {"engine"}))
      BY <1>9, <2>1, FlushTyped DEF RunReturns
    <2>3. buffer' = <<>> /\ <<>> \in Seq(Runs \X Tasks) /\ Len(<<>>) < BufferLimit
      BY <1>9, EngineAssumption DEF RunReturns, Flush
    <2> QED
      BY <1>9, <2>2, <2>3, ContractTyped DEF RunReturns, TypeOK, Points, Executing, past
  <1>10. CASE Join \/ RemoveSentinel
    BY <1>10 DEF Join, RemoveSentinel, TypeOK, Points, Executing, db, sch, obs, past
  <1>11. CASE MarkFinished
    BY <1>11, EndsTyped, RunRowTyped DEF MarkFinished, TypeOK, past
  <1>12. CASE WatcherStep
    BY <1>12, ContractTyped
       DEF WatcherStep, WatchSee, WatchCancel, WatchStop, WatchFrame, TypeOK, db, obs, past, sch
  <1>13. ASSUME NEW t \in Tasks, LogLine(t) PROVE TypeOK'
    <2>1. cur \in Runs
      BY <1>13, EngineAssumption DEF LogLine, TypeOK, Executing, Runs
    <2>2. /\ buffer' \in Seq(Runs \X Tasks) /\ Len(buffer') < BufferLimit
          /\ log_rows' \in Seq(Runs \X (Tasks \cup {"engine"}))
      BY <1>13, <2>1, LogTyped
    <2>3. emitted' \subseteq Runs \X Tasks
      BY <1>13, <2>1 DEF LogLine, TypeOK
    <2> QED
      BY <1>13, <2>2, <2>3 DEF LogLine, TypeOK, sch
  <1>14. CASE Signal
    BY <1>14 DEF Signal, TypeOK, db, sch, obs, past
  <1>15. CASE Crash
    <2>1. abandoned' \subseteq Runs
      BY <1>15 DEF Crash, TypeOK, PlaceInv, Processes, Closing
    <2>2. crashes' \in 0 .. MaxCrashes
      BY <1>15, EngineAssumption DEF Crash, TypeOK
    <2> QED
      BY <1>15, <2>1, <2>2, EndsTyped DEF Crash, TypeOK, db
  <1>16. ASSUME NEW r \in Runs, AskCheck(r) \/ AskWrite(r) \/ StatusRun(r) PROVE TypeOK'
    <2>1. CASE AskCheck(r) \/ AskWrite(r)
      BY <2>1 DEF AskCheck, AskWrite, TypeOK, db, sch, obs, past
    <2>2. CASE StatusRun(r)
      <3>1. run_row[r].state \in PipelineState \cup {"none"}
        BY DEF TypeOK, Row
      <3>2. {task_row[r][t].state : t \in Tasks} \in SUBSET (TaskState \cup {"none"})
        BY DEF TypeOK, Row
      <3>3. Rows(r) \in RowsType
        BY <3>1, <3>2 DEF Rows, RowsType
      <3>4. view' \in [run : Runs \cup {0}, rows : RowsType]
        BY <2>2, <3>3 DEF StatusRun
      <3> QED
        BY <2>2, <3>4 DEF StatusRun, TypeOK, db, sch, obs, past
    <2> QED BY <1>16, <2>1, <2>2
  <1>17. CASE StatusTasks
    <2>1. NoView \in [run : Runs \cup {0}, rows : RowsType]
      BY DEF NoView, RowsType
    <2> QED
      BY <1>17, <2>1 DEF StatusTasks, TypeOK, db, sch, obs, past
  <1>18. CASE ViewRuns
    <2>1. rec' \in [Processes -> Recovery]
      BY <1>18, BeginsDoes DEF ViewRuns, Progressed, Processes
    <2> QED
      BY <1>18, <2>1 DEF ViewRuns, TypeOK, db, sch, obs, past
  <1>19. CASE UNCHANGED vars
    BY <1>19 DEF vars, TypeOK, db, sch, obs, past
  <1> QED
    BY <1>1, <1>2, <1>3, <1>4, <1>5, <1>6, <1>7, <1>8, <1>9, <1>10, <1>11, <1>12, <1>13, <1>14,
       <1>15, <1>16, <1>17, <1>18, <1>19 DEF Next, EngineStep, Processes


(* Nobody recovers at first.                                               *)
LEMMA PlaceInit == Init => PlaceInv
  BY DEF Init, PlaceInv, NoRecovery, Processes, Closing

(* The actions in which no recovery begins, goes on or ends.               *)
Aside ==
    \/ Boot \/ MigrateFails \/ Migrate \/ CreateRun \/ MarkStarted \/ BeginRun \/ Work \/ Honour
    \/ \E t \in Tasks : CreateTask(t) \/ WriteState(t) \/ WriteStamp(t) \/ LogLine(t)
    \/ RunReturns \/ Join \/ RemoveSentinel \/ WatcherStep \/ Signal
    \/ \E r \in Runs : AskCheck(r) \/ AskWrite(r) \/ StatusRun(r)
    \/ StatusTasks \/ UNCHANGED vars

(* They leave its progress alone, and they neither reach nor leave the     *)
(* place where the engine recovers.                                        *)
LEMMA AsideFrame ==
    ASSUME Aside
    PROVE  /\ rec' = rec /\ abandoned' = abandoned
           /\ pc' = pc \/ (pc # "recover" /\ pc' # "recover")
           /\ pc = "down" => (pc' = "down" \/ Boot)
  <1>1. CASE Boot \/ MigrateFails \/ Migrate \/ Signal \/ Join \/ RemoveSentinel \/ StatusTasks
    BY <1>1 DEF Boot, MigrateFails, Migrate, Signal, Join, RemoveSentinel, StatusTasks, past
  <1>2. CASE CreateRun \/ MarkStarted
    BY <1>2 DEF CreateRun, MarkStarted, past
  <1>3. CASE BeginRun \/ Work \/ Honour \/ RunReturns
    BY <1>3 DEF BeginRun, Work, Honour, Scheduling, RunReturns, past
  <1>4. ASSUME NEW t \in Tasks, CreateTask(t) \/ WriteState(t) \/ WriteStamp(t) \/ LogLine(t)
        PROVE  rec' = rec /\ pc' = pc /\ abandoned' = abandoned
    BY <1>4 DEF CreateTask, WriteState, WriteStamp, LogLine, past
  <1>5. CASE WatcherStep
    BY <1>5 DEF WatcherStep, WatchSee, WatchCancel, WatchStop, WatchFrame, past
  <1>6. ASSUME NEW r \in Runs, AskCheck(r) \/ AskWrite(r) \/ StatusRun(r)
        PROVE  rec' = rec /\ pc' = pc /\ abandoned' = abandoned
    BY <1>6 DEF AskCheck, AskWrite, StatusRun, past
  <1>7. CASE UNCHANGED vars
    BY <1>7 DEF vars, past
  <1> QED BY <1>1, <1>2, <1>3, <1>4, <1>5, <1>6, <1>7 DEF Aside


(* Every step is one of these, or one of recovery, or the end of the       *)
(* process.                                                                *)
LEMMA StepKinds ==
    ASSUME [Next]_vars
    PROVE  \/ Aside \/ OpenCurrent \/ SetVersion \/ ViewRuns
           \/ \E p \in Processes : RecoveryStep(p)
           \/ ExitFailed \/ Reject \/ MarkFinished \/ Crash
  BY DEF Next, EngineStep, Aside, Processes

(* A step of recovery is made by a process that recovers, and a run it     *)
(* works on is one it has found.                                           *)
LEMMA RecoveryProgress ==
    ASSUME TypeOK, PlaceInv, NEW p \in Processes, RecoveryStep(p)
    PROVE  \E d : /\ Progressed(p, d) /\ rec[p].at # "off"
                  /\ d.at \in Closing => d.run \in Runs
                  /\ IF d.at = "off"
                     THEN d = NoRecovery /\ pc' = IF p = "engine" THEN "validate" ELSE pc
                     ELSE pc' = pc
  <1>0. rec[p].runs \subseteq Runs
    BY DEF TypeOK, Recovery
  <1>1. CASE ListStale(p)
    <2>1. rec[p].at = "list" /\ pc' = pc
      BY <1>1, Zenon DEF ListStale
    <2> QED BY <1>0, <1>1, <2>1, ListStaleDoes DEF Closing, PlaceInv
  <1>2. CASE Interrupt(p)
    <2>1. rec[p].at = "run" /\ pc' = pc
      BY <1>2, Zenon DEF Interrupt
    <2> QED BY <1>0, <1>2, <2>1, InterruptDoes DEF Closing, PlaceInv
  <1>3. CASE MarkInterrupted(p)
    <2>1. rec[p].at = "finish" /\ pc' = pc
      BY <1>3, Zenon DEF MarkInterrupted
    <2> QED BY <1>0, <1>3, <2>1, MarkInterruptedDoes DEF Closing, PlaceInv
  <1>4. CASE ListTasks(p)
    <2>1. rec[p].at = "tasks" /\ pc' = pc
      BY <1>4, Zenon DEF ListTasks
    <2> QED BY <1>0, <1>4, <2>1, ListTasksDoes DEF Closing, PlaceInv
  <1>5. CASE CancelTask(p)
    <2>1. rec[p].at = "task" /\ pc' = pc
      BY <1>5, Zenon DEF CancelTask
    <2> QED BY <1>0, <1>5, <2>1, CancelTaskDoes DEF Closing, PlaceInv
  <1>6. CASE StampTask(p)
    <2>1. rec[p].at = "stamp" /\ pc' = pc
      BY <1>6, Zenon DEF StampTask
    <2> QED BY <1>0, <1>6, <2>1, StampTaskDoes DEF Closing, PlaceInv
  <1>7. CASE NextRun(p)
    <2>1. rec[p].at = "task" /\ pc' = pc
      BY <1>7, Zenon DEF NextRun
    <2> QED BY <1>0, <1>7, <2>1, NextRunDoes DEF Closing, PlaceInv
  <1>8. CASE NextState(p)
    <2>1. rec[p].at = "run" /\ NoRecovery.at = "off"
      BY <1>8, Zenon DEF NextState, NoRecovery
    <2> QED BY <1>8, <2>1, NextStateDoes DEF Closing
  <1> QED BY <1>1, <1>2, <1>3, <1>4, <1>5, <1>6, <1>7, <1>8 DEF RecoveryStep

(* One step of any process keeps the places of recovery.                   *)
LEMMA PlaceStep == TypeOK /\ PlaceInv /\ [Next]_vars => PlaceInv'
  <1> SUFFICES ASSUME TypeOK, PlaceInv, [Next]_vars PROVE PlaceInv'
    OBVIOUS
  <1>0. "engine" \in Processes /\ "viewer" \in Processes /\ "engine" # "viewer"
    BY DEF Processes
  <1>1. CASE Aside
    BY <1>1, AsideFrame DEF PlaceInv
  <1>2. CASE OpenCurrent \/ SetVersion
    <2>1. pc' = "recover" /\ rec' = [rec EXCEPT !["engine"].at = "list"]
      BY <1>2 DEF OpenCurrent, SetVersion, Opened
    <2>2. PICK d : Progressed("engine", d) /\ d.at = "list"
      BY <1>0, <2>1, BeginsDoes
    <2> QED BY <1>0, <2>1, <2>2 DEF PlaceInv, Progressed, Closing
  <1>3. CASE ViewRuns
    <2>1. pc' = pc /\ rec' = [rec EXCEPT !["viewer"].at = "list"]
      BY <1>3 DEF ViewRuns
    <2>2. PICK d : Progressed("viewer", d) /\ d.at = "list"
      BY <1>0, <2>1, BeginsDoes
    <2> QED BY <1>0, <2>1, <2>2 DEF PlaceInv, Progressed, Closing
  <1>4. ASSUME NEW p \in Processes, RecoveryStep(p) PROVE PlaceInv'
    BY <1>0, <1>4, RecoveryProgress DEF PlaceInv, Progressed
  <1>5. CASE ExitFailed \/ Reject \/ MarkFinished \/ Crash
    <2>1. ProcessEnds
      BY <1>5 DEF ExitFailed, Reject, MarkFinished, Crash
    <2>2. pc' = "down"
      BY <2>1 DEF ProcessEnds
    <2>3. NoRecovery.at = "off"
      BY DEF NoRecovery
    <2> QED BY <1>0, <2>1, <2>2, <2>3, EndsDoes DEF PlaceInv, Progressed, Closing
  <1> QED BY <1>1, <1>2, <1>3, <1>4, <1>5, StepKinds

(* Every variable has a value its field, column or file can hold, whoever  *)
(* uses the state directory.                                               *)
THEOREM TypeCorrect == Spec => [](TypeOK /\ PlaceInv)
  <1>1. Init => TypeOK /\ PlaceInv
    BY TypeOKInit, PlaceInit
  <1>2. TypeOK /\ PlaceInv /\ [Next]_vars => (TypeOK /\ PlaceInv)'
    BY TypeOKStep, PlaceStep
  <1> QED BY <1>1, <1>2, PTL DEF Spec


-----------------------------------------------------------------------------
(* The memory of the process *)

memory == <<mem, mem_run, cancelled, stopping, unwritten, stamping, buffer, watcher>>

(* No process, and a memory as new.                                        *)
LEMMA MemoryInit == Init => MemoryInv
  BY DEF Init, R!RunInit, MemoryInv, FreshInv, TasksInv, VerdictInv, Returned

(* Steps around run() and those of other processes.                        *)
LEMMA MemoryFrame ==
    ASSUME MemoryInv, UNCHANGED memory,
           \/ pc' = pc
           \/ pc \notin {"running"} \cup Returned /\ pc' \notin {"running"} \cup Returned
           \/ pc \in Returned /\ pc' \in Returned
    PROVE  MemoryInv'
  BY DEF MemoryInv, FreshInv, TasksInv, VerdictInv, memory, Returned

(* Tasks that move along their life cycle do so for a reason, and a        *)
(* terminal one does not move.                                             *)
LEMMA MovesOk ==
    ASSUME TypeOK, TasksInv, R!Begin \/ R!Work
    PROVE  /\ \A t \in Tasks : mem[t] \in Terminal => mem'[t] = mem[t]
           /\ \A t \in Tasks : mem'[t] = "CANCELLED" => stopping'
           /\ \A t \in Tasks : mem'[t] = "SKIPPED" =>
                  \E d \in Deps[t] : mem'[d] \in {"FAILED", "SKIPPED"}
  <1>1. R!Moves /\ stopping' = stopping
    BY DEF R!Begin, R!Work
  <1>2. \A t \in Tasks : mem[t] \in Terminal => mem'[t] = mem[t]
    BY <1>1, SameStates DEF R!Moves, Lifecycle, ValidTransition, Terminal
  <1>3. \A t \in Tasks : mem'[t] # mem[t] => R!Justified(t)
    BY <1>1 DEF R!Moves
  <1>4. ASSUME NEW t \in Tasks, mem'[t] = "CANCELLED" PROVE stopping'
    BY <1>1, <1>3, <1>4 DEF R!Justified, TasksInv
  <1>5. ASSUME NEW t \in Tasks, mem'[t] = "SKIPPED"
        PROVE  \E d \in Deps[t] : mem'[d] \in {"FAILED", "SKIPPED"}
    <2>1. CASE mem'[t] # mem[t]
      BY <1>3, <1>5, <2>1 DEF R!Justified
    <2>2. CASE mem'[t] = mem[t]
      <3>1. PICK d \in Deps[t] : mem[d] \in {"FAILED", "SKIPPED"}
        BY <1>5, <2>2 DEF TasksInv
      <3>2. d \in Tasks
        BY DepsAssumption
      <3> QED BY <1>2, <3>1, <3>2 DEF Terminal
    <2> QED BY <2>1, <2>2
  <1> QED BY <1>2, <1>4, <1>5

(* When no task has failed none is skipped, since there is no cycle.       *)
LEMMA NoFailureNoSkip ==
    ASSUME TypeOK, TasksInv, \A t \in Tasks : mem[t] # "FAILED"
    PROVE  \A t \in Tasks : mem[t] # "SKIPPED"
  <1> DEFINE S == {t \in Tasks : mem[t] = "SKIPPED"}
  <1>1. SUFFICES ASSUME S # {} PROVE FALSE
    OBVIOUS
  <1>2. PICK t \in S : Deps[t] \cap S = {}
    BY <1>1, DepsAssumption
  <1>3. PICK d \in Deps[t] : mem[d] \in {"FAILED", "SKIPPED"}
    BY DEF TasksInv
  <1>4. d \in Tasks
    BY DepsAssumption
  <1> QED BY <1>2, <1>3, <1>4

(* The verdict that run() returns is that of its tasks.                    *)
LEMMA EndOk ==
    ASSUME TypeOK, TasksInv, R!End
    PROVE  /\ mem' = mem /\ \A t \in Tasks : mem[t] \in Terminal
           /\ mem_run' \in Verdicts
           /\ mem_run' = "SUCCEEDED" => \A t \in Tasks : mem[t] \in SuccessLike
           /\ mem_run' = "FAILED" => \E t \in Tasks : mem[t] = "FAILED"
  <1>1. mem' = mem /\ (\A t \in Tasks : mem[t] \in Terminal) /\ mem_run' = R!RunVerdict
    BY SameStates DEF R!End
  <1>2. CASE cancelled
    BY <1>1, <1>2 DEF R!RunVerdict, Verdicts
  <1>3. CASE ~cancelled /\ \E t \in Tasks : mem[t] = "FAILED"
    BY <1>1, <1>3 DEF R!RunVerdict, Verdicts
  <1>4. CASE ~cancelled /\ \A t \in Tasks : mem[t] # "FAILED"
    <2>1. \A t \in Tasks : mem[t] # "CANCELLED"
      BY <1>4 DEF TasksInv
    <2>2. \A t \in Tasks : mem[t] # "SKIPPED"
      BY <1>4, NoFailureNoSkip
    <2>3. \A t \in Tasks : mem[t] \in SuccessLike
      BY <1>1, <1>4, <2>1, <2>2 DEF Terminal, SuccessLike
    <2> QED BY <1>1, <1>4, <2>3 DEF R!RunVerdict, Verdicts
  <1> QED BY <1>2, <1>3, <1>4

(* One step of any process keeps the invariant of the memory.              *)
LEMMA MemoryStep == TypeOK /\ PlaceInv /\ MemoryInv /\ [Next]_vars => MemoryInv'
  <1> SUFFICES ASSUME TypeOK, PlaceInv, MemoryInv, [Next]_vars PROVE MemoryInv'
    OBVIOUS
  <1>1. CASE Boot \/ MigrateFails \/ Migrate \/ OpenCurrent \/ SetVersion \/ ViewRuns \/ CreateRun
               \/ Join \/ RemoveSentinel \/ Signal \/ StatusTasks \/ UNCHANGED vars
    BY <1>1, MemoryFrame DEF Boot, MigrateFails, Migrate, OpenCurrent, SetVersion, Opened, ViewRuns,
       CreateRun, Join, RemoveSentinel, Signal, StatusTasks, vars, sch, obs, memory, Returned
  <1>2. ASSUME NEW r \in Runs, AskCheck(r) \/ AskWrite(r) \/ StatusRun(r) PROVE MemoryInv'
    BY <1>2, MemoryFrame DEF AskCheck, AskWrite, StatusRun, sch, obs, memory
  <1>3. ASSUME NEW p \in Processes, RecoveryStep(p) PROVE MemoryInv'
    <2>1. UNCHANGED memory
      BY <1>3, Zenon DEF RecoveryStep, ListStale, Interrupt, MarkInterrupted,
         ListTasks, CancelTask, StampTask, NextRun, NextState, RecFrame, sch, obs, memory
    <2>2. pc' = pc \/ (pc = "recover" /\ pc' = "validate")
      BY <1>3, RecoveryProgress DEF PlaceInv
    <2> QED BY <2>1, <2>2, MemoryFrame DEF Returned
  <1>4. ASSUME NEW t \in Tasks, CreateTask(t) PROVE MemoryInv'
    BY <1>4, MemoryFrame DEF CreateTask, sch, obs, memory
  <1>5. CASE MarkStarted
    BY <1>5 DEF MarkStarted, MemoryInv, FreshInv, TasksInv, VerdictInv, sch, obs, Returned
  <1>6. CASE BeginRun \/ Work
    <2>1. /\ pc = "running" /\ pc' = pc /\ stamping = {} /\ stamping' = {}
          /\ R!Begin \/ R!Work
      BY <1>6 DEF BeginRun, Work, Scheduling, Written
    <2>2. stopping' = stopping /\ cancelled' = cancelled /\ mem_run' = "RUNNING"
      BY <2>1 DEF R!Begin, R!Work
    <2> QED BY <2>1, <2>2, MovesOk DEF MemoryInv, FreshInv, TasksInv, VerdictInv, Returned
  <1>7. CASE Honour
    <2>1. pc = "running" /\ pc' = pc /\ stamping' = {} /\ R!Honour
      BY <1>7 DEF Honour, Scheduling, Written
    <2>2. stopping' /\ cancelled' /\ mem_run' = "RUNNING"
      BY <2>1 DEF R!Honour
    <2>3. \A t \in Tasks : mem'[t] = "SKIPPED" =>
              \E d \in Deps[t] : mem'[d] \in {"FAILED", "SKIPPED"}
      <3>1. SUFFICES ASSUME NEW t \in Tasks, mem'[t] = "SKIPPED"
                     PROVE  \E d \in Deps[t] : mem'[d] \in {"FAILED", "SKIPPED"}
        OBVIOUS
      <3>2. mem[t] = "SKIPPED"
        BY <2>1, <3>1 DEF R!Honour
      <3>3. PICK d \in Deps[t] : mem[d] \in {"FAILED", "SKIPPED"}
        BY <3>2 DEF MemoryInv, TasksInv
      <3>4. d \in Tasks
        BY DepsAssumption
      <3> QED BY <2>1, <3>3, <3>4 DEF R!Honour
    <2> QED BY <2>1, <2>2, <2>3 DEF MemoryInv, FreshInv, TasksInv, VerdictInv, Returned
  <1>8. ASSUME NEW t \in Tasks, WriteState(t) \/ WriteStamp(t) PROVE MemoryInv'
    <2>1. pc = "running"
      BY <1>8 DEF WriteState, WriteStamp, MemoryInv, FreshInv, VerdictInv
    <2> QED
      BY <1>8, <2>1
         DEF WriteState, WriteStamp, MemoryInv, FreshInv, TasksInv, VerdictInv, sch, Returned
  <1>9. ASSUME NEW t \in Tasks, LogLine(t) PROVE MemoryInv'
    BY <1>9 DEF LogLine, MemoryInv, FreshInv, TasksInv, VerdictInv, sch, Returned
  <1>10. CASE RunReturns
    <2>1. /\ pc' \in Returned /\ R!End /\ stopping' = stopping /\ cancelled' = cancelled
          /\ unwritten' = {} /\ stamping' = {} /\ buffer' = <<>>
      BY <1>10 DEF RunReturns, Written, Flush, Returned, R!End
    <2> QED BY <2>1, EndOk DEF MemoryInv, FreshInv, TasksInv, VerdictInv, Returned
  <1>11. CASE WatcherStep
    <2>1. pc \in {"running"} \cup Returned /\ pc' = pc
      BY <1>11 DEF WatcherStep, WatchSee, WatchCancel, WatchStop, WatchFrame, MemoryInv, FreshInv
    <2>2. /\ UNCHANGED <<mem, mem_run, stopping, unwritten, stamping, buffer>>
          /\ cancelled => cancelled'
      BY <1>11 DEF WatcherStep, WatchSee, WatchCancel, WatchStop, WatchFrame, R!RequestCancel, obs, sch
    <2> QED BY <2>1, <2>2 DEF MemoryInv, FreshInv, TasksInv, VerdictInv
  <1>12. CASE ExitFailed \/ Reject \/ MarkFinished \/ Crash
    <2>1. ProcessEnds
      BY <1>12 DEF ExitFailed, Reject, MarkFinished, Crash
    <2> QED BY <2>1 DEF ProcessEnds, MemoryInv, FreshInv, TasksInv, VerdictInv, Returned
  <1> QED
    BY <1>1, <1>2, <1>3, <1>4, <1>5, <1>6, <1>7, <1>8, <1>9, <1>10, <1>11, <1>12
       DEF Next, EngineStep, Processes


-----------------------------------------------------------------------------
(* The progress of recovery *)

(* Updates of the row of a run.                                            *)
LEMMA SetRunStateDoes ==
    ASSUME TypeOK, NEW r \in Runs, NEW s \in PipelineState,
           SetRunState(r, s) \/ (MarkRunStarted(r) /\ s = "RUNNING")
    PROVE  /\ \A q \in Runs : q # r => run_row'[q] = run_row[q]
           /\ run_row'[r].state = s /\ run_row'[r].finished = run_row[r].finished
  <1>1. run_row[r].finished \in BOOLEAN
    BY DEF TypeOK, Row
  <1> QED BY <1>1, RunRowUpdate DEF SetRunState, MarkRunStarted

(* The verdict with the end, likewise.                                     *)
LEMMA MarkRunFinishedDoes ==
    ASSUME TypeOK, NEW r \in Runs, NEW s \in PipelineState, MarkRunFinished(r, s)
    PROVE  /\ \A q \in Runs : q # r => run_row'[q] = run_row[q]
           /\ run_row'[r].state = s /\ run_row'[r].finished
  BY RunRowUpdate DEF MarkRunFinished

(* Where a process may recover, nothing else touches the rows.             *)
LEMMA RowsUntouched ==
    ASSUME MemoryInv, Aside, pc \in {"down", "recover"}
    PROVE  run_row' = run_row /\ task_row' = task_row
  <1>1. unwritten = {} /\ stamping = {}
    BY DEF MemoryInv, FreshInv, Returned
  <1>2. CASE Boot \/ MigrateFails \/ Migrate \/ Signal \/ Join \/ RemoveSentinel \/ StatusTasks
    BY <1>2 DEF Boot, MigrateFails, Migrate, Signal, Join, RemoveSentinel, StatusTasks, db
  <1>3. CASE CreateRun \/ MarkStarted \/ BeginRun \/ Work \/ Honour \/ RunReturns
    BY <1>3 DEF CreateRun, MarkStarted, BeginRun, Work, Honour, Scheduling, RunReturns
  <1>4. ASSUME NEW t \in Tasks, CreateTask(t) \/ WriteState(t) \/ WriteStamp(t) \/ LogLine(t)
        PROVE  FALSE
    BY <1>1, <1>4 DEF CreateTask, WriteState, WriteStamp, LogLine
  <1>5. CASE WatcherStep
    BY <1>5 DEF WatcherStep, WatchSee, WatchCancel, WatchStop, WatchFrame, db
  <1>6. ASSUME NEW r \in Runs, AskCheck(r) \/ AskWrite(r) \/ StatusRun(r)
        PROVE  run_row' = run_row /\ task_row' = task_row
    BY <1>6 DEF AskCheck, AskWrite, StatusRun, db
  <1>7. CASE UNCHANGED vars
    BY <1>7 DEF vars, db
  <1> QED BY <1>2, <1>3, <1>4, <1>5, <1>6, <1>7 DEF Aside

(* Nobody recovers at first.                                               *)
LEMMA RecoveryInit == Init => RecoveryInv
  BY DEF Init, RecoveryInv, RecoveryPlace, RecoveryOk, NoRecovery, Closing, Processes

(* The process that recovers is alone.                                     *)
LEMMA RecoversAlone ==
    ASSUME PlaceInv, RecoveryInv, NEW p \in Processes, rec[p].at # "off"
    PROVE  /\ pc \in {"down", "recover"}
           /\ \A q \in Processes : q # p => rec[q].at = "off"
  BY DEF PlaceInv, RecoveryInv, RecoveryPlace, Processes

(* Without rows that change, and without progress, nothing changes.        *)
LEMMA RecoveryOkFrame ==
    ASSUME NEW p \in Processes, RecoveryOk(p), UNCHANGED <<run_row, task_row>>, rec'[p] = rec[p]
    PROVE  RecoveryOk(p)'
  BY DEF RecoveryOk

(* A process that does not recover has no progress to be right about.      *)
LEMMA RecoveryOkOff ==
    ASSUME NEW p \in Processes, rec'[p] = NoRecovery
    PROVE  RecoveryOk(p)'
  BY DEF RecoveryOk, NoRecovery, Closing


(* The process that makes a step of recovery keeps its progress right.     *)
LEMMA RecoveryOkStep ==
    ASSUME TypeOK, PlaceInv, NEW p \in Processes, RecoveryOk(p), RecoveryStep(p)
    PROVE  RecoveryOk(p)'
  <1>0. /\ rec[p].runs \subseteq Runs /\ rec[p].tasks \subseteq Tasks
        /\ rec[p].stale \in {"RUNNING", "CREATED"}
    BY DEF TypeOK, Recovery
  <1>1. CASE ListStale(p)
    <2>1. UNCHANGED <<run_row, task_row>>
      BY <1>1, Zenon DEF ListStale
    <2>2. PICK d : /\ Progressed(p, d)
                   /\ d.at = "run" /\ d.stale = rec[p].stale /\ d.runs = StaleRuns(rec[p].stale)
      BY <1>1, ListStaleDoes
    <2> QED BY <2>1, <2>2 DEF RecoveryOk, Progressed, StaleRuns, Closing
  <1>2. CASE Interrupt(p)
    <2>1. UNCHANGED task_row /\ rec[p].at = "run"
      BY <1>2, Zenon DEF Interrupt
    <2>2. PICK r \in rec[p].runs : \E d :
             /\ Progressed(p, d) /\ SetRunState(r, "INTERRUPTED")
             /\ d.at = "finish" /\ d.stale = rec[p].stale /\ d.runs = rec[p].runs \ {r}
             /\ d.run = r
      BY <1>2, InterruptDoes
    <2>3. r \in Runs /\ "INTERRUPTED" \in PipelineState
      BY <1>0 DEF PipelineState
    <2>4. /\ \A q \in Runs : q # r => run_row'[q] = run_row[q]
          /\ run_row'[r].state = "INTERRUPTED"
      BY <2>2, <2>3, SetRunStateDoes
    <2>5. /\ rec'[p].at = "finish" /\ rec'[p].stale = rec[p].stale
          /\ rec'[p].runs = rec[p].runs \ {r} /\ rec'[p].run = r
      BY <2>2 DEF Progressed
    <2> QED BY <1>0, <2>1, <2>3, <2>4, <2>5 DEF RecoveryOk, Closing
  <1>3. CASE MarkInterrupted(p)
    <2>1. UNCHANGED task_row /\ rec[p].at = "finish" /\ MarkRunFinished(rec[p].run, "INTERRUPTED")
      BY <1>3, Zenon DEF MarkInterrupted
    <2>2. /\ rec'[p].at = "tasks" /\ rec'[p].stale = rec[p].stale
          /\ rec'[p].runs = rec[p].runs /\ rec'[p].run = rec[p].run
      BY <1>3, MarkInterruptedDoes DEF Progressed
    <2>3. PICK r \in Runs : r = rec[p].run
      BY <2>1 DEF PlaceInv, Closing
    <2>4. /\ \A q \in Runs : q # r => run_row'[q] = run_row[q]
          /\ run_row'[r].state = "INTERRUPTED" /\ run_row'[r].finished
      BY <2>1, <2>3, MarkRunFinishedDoes, "INTERRUPTED" \in PipelineState DEF PipelineState
    <2> QED BY <1>0, <2>1, <2>2, <2>3, <2>4 DEF RecoveryOk, Closing
  <1>4. CASE ListTasks(p)
    <2>1. UNCHANGED <<run_row, task_row>> /\ rec[p].at = "tasks"
      BY <1>4, Zenon DEF ListTasks
    <2>2. /\ rec'[p].at = "task" /\ rec'[p].stale = rec[p].stale
          /\ rec'[p].runs = rec[p].runs /\ rec'[p].run = rec[p].run
          /\ rec'[p].tasks = {t \in Tasks : task_row[rec[p].run][t].state
                                              \notin Terminal \cup {"none"}}
      BY <1>4, ListTasksDoes DEF Progressed
    <2> QED BY <2>1, <2>2 DEF RecoveryOk, Closing
  <1>5. CASE CancelTask(p)
    <2>1. UNCHANGED run_row /\ rec[p].at = "task"
      BY <1>5, Zenon DEF CancelTask
    <2>2. PICK t \in rec[p].tasks : \E d :
             /\ Progressed(p, d) /\ SetTaskState(rec[p].run, t, "CANCELLED")
             /\ d.at = "stamp" /\ d.stale = rec[p].stale /\ d.runs = rec[p].runs
             /\ d.run = rec[p].run /\ d.tasks = rec[p].tasks \ {t}
      BY <1>5, CancelTaskDoes
    <2>3. /\ rec'[p].at = "stamp" /\ rec'[p].stale = rec[p].stale
          /\ rec'[p].runs = rec[p].runs /\ rec'[p].run = rec[p].run
          /\ rec'[p].tasks = rec[p].tasks \ {t}
      BY <2>2 DEF Progressed
    <2>4. PICK r \in Runs : r = rec[p].run
      BY <2>1 DEF PlaceInv, Closing
    <2>5. /\ \A u \in Tasks : u # t => task_row'[r][u] = task_row[r][u]
          /\ task_row'[r][t].state = "CANCELLED"
      BY <1>0, <2>2, <2>4, SetTaskStateDoes, "CANCELLED" \in TaskState DEF TaskState
    <2> QED BY <1>0, <2>1, <2>3, <2>4, <2>5 DEF RecoveryOk, Closing, Terminal
  <1>6. CASE StampTask(p)
    <2>1. /\ UNCHANGED run_row /\ rec[p].at = "stamp"
          /\ \E t \in rec[p].task : SetTaskFinished(rec[p].run, t)
      BY <1>6, Zenon DEF StampTask
    <2>2. /\ rec'[p].at = "task" /\ rec'[p].stale = rec[p].stale
          /\ rec'[p].runs = rec[p].runs /\ rec'[p].run = rec[p].run
          /\ rec'[p].tasks = rec[p].tasks
      BY <1>6, StampTaskDoes DEF Progressed
    <2>3. PICK r \in Runs : r = rec[p].run
      BY <2>1 DEF PlaceInv, Closing
    <2>4. \A u \in Tasks : task_row'[r][u].state = task_row[r][u].state
      <3>1. PICK t \in Tasks : SetTaskFinished(r, t)
        BY <2>1, <2>3 DEF TypeOK, Recovery
      <3> QED BY <3>1, SetTaskFinishedDoes
    <2> QED BY <1>0, <2>1, <2>2, <2>3, <2>4 DEF RecoveryOk, Closing
  <1>7. CASE NextRun(p)
    <2>1. UNCHANGED <<run_row, task_row>> /\ rec[p].at = "task"
      BY <1>7, Zenon DEF NextRun
    <2>2. /\ rec'[p].at = "run" /\ rec'[p].stale = rec[p].stale /\ rec'[p].runs = rec[p].runs
      BY <1>7, NextRunDoes DEF Progressed
    <2> QED BY <2>1, <2>2 DEF RecoveryOk, Closing
  <1>8. CASE NextState(p)
    <2>1. UNCHANGED <<run_row, task_row>> /\ rec[p].at = "run" /\ rec[p].runs = {}
      BY <1>8, Zenon DEF NextState
    <2>2. CASE rec[p].stale = "RUNNING"
      <3>1. rec'[p].at = "list" /\ rec'[p].stale = "CREATED"
        BY <1>8, <2>2, NextStateDoes DEF Progressed
      <3> QED BY <2>1, <2>2, <3>1 DEF RecoveryOk, Closing
    <2>3. CASE rec[p].stale # "RUNNING"
      BY <1>8, <2>3, NextStateDoes, RecoveryOkOff DEF Progressed
    <2> QED BY <2>2, <2>3
  <1> QED BY <1>1, <1>2, <1>3, <1>4, <1>5, <1>6, <1>7, <1>8 DEF RecoveryStep

(* One step of any process keeps the progress of recovery right, as long   *)
(* as one engine at a time is used.                                        *)
LEMMA RecoveryInvStep ==
    ASSUME OneEngine, TypeOK, PlaceInv, MemoryInv, RecoveryInv, [Next]_vars
    PROVE  RecoveryInv'
  <1>0. "engine" \in Processes /\ "viewer" \in Processes /\ "engine" # "viewer"
          /\ \A p \in Processes : p = "engine" \/ p = "viewer"
    BY DEF Processes
  <1>1. CASE Aside
    <2>1. rec' = rec /\ (pc = "down" => (pc' = "down" \/ Boot))
      BY <1>1, AsideFrame
    <2>2. RecoveryPlace'
      BY <1>0, <2>1 DEF RecoveryInv, RecoveryPlace, Boot
    <2>3. ASSUME NEW p \in Processes PROVE RecoveryOk(p)'
      <3>1. CASE rec[p].at = "off"
        BY <2>1, <3>1, RecoveryOkOff DEF RecoveryInv, RecoveryPlace
      <3>2. CASE rec[p].at # "off"
        BY <1>1, <2>1, <3>2, RecoversAlone, RowsUntouched, RecoveryOkFrame DEF RecoveryInv
      <3> QED BY <3>1, <3>2
    <2> QED BY <2>2, <2>3 DEF RecoveryInv
  <1>2. ASSUME NEW p \in Processes, rec' = [rec EXCEPT ![p].at = "list"], rec[p].at = "off",
               \A q \in Processes : q # p => rec[q].at = "off", p = "viewer" => pc' = "down"
        PROVE  RecoveryInv'
    <2>1. PICK d : Progressed(p, d) /\ d.at = "list" /\ d.stale = rec[p].stale
      BY <1>2, BeginsDoes
    <2>2. rec[p].stale = "RUNNING"
      BY <1>2 DEF RecoveryInv, RecoveryPlace, NoRecovery
    <2>3. RecoveryOk(p)'
      BY <2>1, <2>2 DEF RecoveryOk, Progressed, Closing
    <2>4. \A q \in Processes : q # p => rec'[q] = NoRecovery
      BY <1>2, <2>1 DEF RecoveryInv, RecoveryPlace, Progressed
    <2>5. RecoveryPlace'
      BY <1>0, <1>2, <2>1, <2>4 DEF RecoveryPlace, Progressed, NoRecovery
    <2> QED BY <2>3, <2>4, <2>5, RecoveryOkOff DEF RecoveryInv
  <1>3. CASE OpenCurrent \/ SetVersion
    <2>1. rec' = [rec EXCEPT !["engine"].at = "list"] /\ pc \in {"open", "set_version"}
      BY <1>3 DEF OpenCurrent, SetVersion, Opened
    <2>2. \A q \in Processes : rec[q].at = "off"
      BY <1>0, <2>1 DEF PlaceInv, RecoveryInv, RecoveryPlace
    <2> QED BY <1>0, <1>2, <2>1, <2>2
  <1>4. CASE ViewRuns
    <2>1. rec' = [rec EXCEPT !["viewer"].at = "list"] /\ pc = "down" /\ pc' = "down"
            /\ rec["viewer"].at = "off"
      BY <1>4 DEF ViewRuns
    <2>2. \A q \in Processes : rec[q].at = "off"
      BY <1>0, <2>1 DEF PlaceInv
    <2> QED BY <1>0, <1>2, <2>1, <2>2
  <1>5. ASSUME NEW p \in Processes, RecoveryStep(p) PROVE RecoveryInv'
    <2>1. PICK d : /\ Progressed(p, d) /\ rec[p].at # "off"
                   /\ IF d.at = "off"
                      THEN d = NoRecovery /\ pc' = IF p = "engine" THEN "validate" ELSE pc
                      ELSE pc' = pc
      BY <1>5, RecoveryProgress
    <2>2. \A q \in Processes : q # p => rec[q].at = "off" /\ rec'[q] = NoRecovery
      BY <2>1, RecoversAlone DEF RecoveryInv, RecoveryPlace, Progressed
    <2>3. RecoveryPlace'
      BY <1>0, <2>1, <2>2 DEF RecoveryInv, RecoveryPlace, Progressed, NoRecovery
    <2>4. RecoveryOk(p)'
      BY <1>5, RecoveryOkStep DEF RecoveryInv
    <2> QED BY <2>2, <2>3, <2>4, RecoveryOkOff DEF RecoveryInv
  <1>6. CASE ExitFailed \/ Reject \/ MarkFinished \/ Crash
    <2>1. ProcessEnds /\ pc # "down"
      BY <1>6 DEF ExitFailed, Reject, MarkFinished, Crash
    <2>2. \A q \in Processes : rec'[q] = NoRecovery
      BY <1>0, <2>1, EndsDoes DEF RecoveryInv, RecoveryPlace, Progressed
    <2>3. RecoveryPlace'
      BY <1>0, <2>2 DEF RecoveryPlace, NoRecovery
    <2> QED BY <2>2, <2>3, RecoveryOkOff DEF RecoveryInv
  <1> QED BY <1>1, <1>3, <1>4, <1>5, <1>6, StepKinds


-----------------------------------------------------------------------------
(* The rows *)

(* There are no rows at first.                                             *)
LEMMA RowsInit == Init => RowsInv
  <1>1. ASSUME Init PROVE RowsInv
    <2>1. /\ \A r \in Runs : run_row[r] = NoRow /\ \A t \in Tasks : task_row[r][t] = NoRow
          /\ pc = "down" /\ unwritten = {}
      BY <1>1 DEF Init
    <2>2. NoRow.state = "none"
      BY DEF NoRow
    <2> QED
      BY <2>1, <2>2 DEF RowsInv, CurrentInv, UnwrittenInv, RowsFollowTasks, FinishedRowsTrue, RowOk,
         Executing, Returned
  <1> QED BY <1>1

(* A run whose rows do not change stays right.                             *)
LEMMA RowOkFrame ==
    ASSUME NEW r \in Runs, RowOk(r), run_row'[r] = run_row[r], task_row'[r] = task_row[r],
           abandoned \subseteq abandoned', Recovering(r) => Recovering(r)'
    PROVE  RowOk(r)'
  BY DEF RowOk, Closed

(* The property of the runs with a verdict, when their rows stay.          *)
LEMMA FinishedFrame ==
    ASSUME FinishedRowsTrue,
           \A r \in Runs : run_row'[r].state \in Verdicts =>
               run_row'[r] = run_row[r] /\ task_row'[r] = task_row[r]
    PROVE  FinishedRowsTrue'
  <1>1. SUFFICES ASSUME NEW r \in Runs, run_row'[r].state \in Verdicts
                 PROVE  /\ run_row'[r].finished
                        /\ \A t \in Tasks : task_row'[r][t].state \in Terminal
                                              /\ task_row'[r][t].finished
                        /\ run_row'[r].state = "SUCCEEDED" =>
                             \A t \in Tasks : task_row'[r][t].state \in SuccessLike
                        /\ run_row'[r].state = "FAILED" =>
                             \E t \in Tasks : task_row'[r][t].state = "FAILED"
    BY DEF FinishedRowsTrue, Verdicts
  <1>2. run_row'[r] = run_row[r] /\ task_row'[r] = task_row[r]
    BY <1>1
  <1> QED BY <1>1, <1>2 DEF FinishedRowsTrue, Verdicts

(* Steps that touch neither rows nor the states of the tasks.              *)
LEMMA RowsFrame ==
    ASSUME RowsInv, UNCHANGED <<run_row, task_row, unwritten, stamping, mem, cur, abandoned>>,
           \/ pc' = pc
           \/ pc' \notin Executing \cup {"validate"}
           \/ pc \in {"running"} \cup Returned /\ pc' \in {"running"} \cup Returned,
           \A r \in Runs : Recovering(r) => Recovering(r)'
    PROVE  RowsInv'
  <1>1. CurrentInv' /\ UnwrittenInv' /\ RowsFollowTasks'
    BY DEF RowsInv, CurrentInv, UnwrittenInv, RowsFollowTasks, Executing, Returned
  <1>2. FinishedRowsTrue'
    BY FinishedFrame DEF RowsInv
  <1>3. \A r \in Runs : RowOk(r)'
    BY RowOkFrame DEF RowsInv
  <1> QED BY <1>1, <1>2, <1>3 DEF RowsInv

(* A step of recovery touches only rows of runs without a verdict, and     *)
(* what it has closed stays closed.                                        *)
LEMMA RowsRecovery ==
    ASSUME TypeOK, PlaceInv, MemoryInv, RecoveryInv, RowsInv, NEW p \in Processes, RecoveryStep(p)
    PROVE  FinishedRowsTrue' /\ \A r \in Runs : RowOk(r)'
  <1>0. /\ rec[p].runs \subseteq Runs /\ rec[p].tasks \subseteq Tasks /\ rec[p].task \subseteq Tasks
        /\ rec[p].stale \in {"RUNNING", "CREATED"} /\ RecoveryOk(p)
        /\ FinishedRowsTrue /\ \A r \in Runs : RowOk(r)
    BY DEF TypeOK, Recovery, RecoveryInv, RowsInv
  <1>1. RecFrame
    BY Zenon DEF RecoveryStep, ListStale, Interrupt, MarkInterrupted,
       ListTasks, CancelTask, StampTask, NextRun, NextState
  <1>2. abandoned' = abandoned
    BY <1>1 DEF RecFrame, past
  <1>3. ASSUME NEW r \in Runs, NEW q \in Processes, q # p, rec[q].at \in Closing PROVE FALSE
    BY <1>3, RecoveryProgress, RecoversAlone DEF Closing
  <1>4. ASSUME NEW r \in Runs, Recovering(r) PROVE rec[p].at \in Closing /\ rec[p].run = r
    BY <1>3, <1>4 DEF Recovering
  <1>5. CASE UNCHANGED <<run_row, task_row>> /\ rec[p].at \notin Closing
    BY <1>0, <1>2, <1>4, <1>5, RowOkFrame, FinishedFrame
  <1>6. CASE ListStale(p) \/ NextState(p)
    <2>1. UNCHANGED <<run_row, task_row>> /\ rec[p].at \in {"list", "run"}
      BY <1>6, Zenon DEF ListStale, NextState
    <2> QED BY <1>5, <2>1 DEF Closing
  <1>7. CASE Interrupt(p)
    <2>1. UNCHANGED task_row /\ rec[p].at = "run"
      BY <1>7, Zenon DEF Interrupt
    <2>2. PICK r \in rec[p].runs : \E d :
             /\ Progressed(p, d) /\ SetRunState(r, "INTERRUPTED")
             /\ d.at = "finish" /\ d.stale = rec[p].stale /\ d.runs = rec[p].runs \ {r}
             /\ d.run = r
      BY <1>7, InterruptDoes
    <2>3. /\ \A q \in Runs : q # r => run_row'[q] = run_row[q]
          /\ run_row'[r].state = "INTERRUPTED"
      BY <1>0, <2>2, SetRunStateDoes, "INTERRUPTED" \in PipelineState DEF PipelineState
    <2>4. Recovering(r)'
      BY <2>2 DEF Recovering, Progressed, Closing
    <2>5. RowOk(r)'
      BY <2>3, <2>4 DEF RowOk
    <2>6. \A q \in Runs : q # r => RowOk(q)'
      BY <1>0, <1>2, <1>4, <2>1, <2>3, RowOkFrame DEF Closing
    <2>7. FinishedRowsTrue'
      BY <1>0, <2>1, <2>3, FinishedFrame DEF Verdicts
    <2> QED BY <2>5, <2>6, <2>7
  <1>8. ASSUME NEW w \in Runs, w = rec[p].run, rec[p].at \in Closing,
               \A q \in Runs : q # w => run_row'[q] = run_row[q] /\ task_row'[q] = task_row[q],
               run_row'[w].state = "INTERRUPTED", Closed(w)' \/ Recovering(w)'
        PROVE  FinishedRowsTrue' /\ \A r \in Runs : RowOk(r)'
    <2>1. FinishedRowsTrue'
      BY <1>0, <1>8, FinishedFrame DEF Verdicts
    <2>2. RowOk(w)'
      BY <1>8 DEF RowOk
    <2>3. \A q \in Runs : q # w => RowOk(q)'
      BY <1>0, <1>2, <1>4, <1>8, RowOkFrame
    <2> QED BY <2>1, <2>2, <2>3
  <1>9. rec[p].at \in Closing => rec[p].run \in Runs /\ run_row[rec[p].run].state = "INTERRUPTED"
    BY <1>0 DEF RecoveryOk, PlaceInv
  <1>10. CASE MarkInterrupted(p)
    <2>1. UNCHANGED task_row /\ rec[p].at = "finish" /\ MarkRunFinished(rec[p].run, "INTERRUPTED")
      BY <1>10, Zenon DEF MarkInterrupted
    <2>2. PICK w \in Runs : w = rec[p].run
      BY <1>9, <2>1 DEF Closing
    <2>3. Recovering(w)'
      BY <1>10, <2>2, MarkInterruptedDoes DEF Progressed, Recovering, Closing
    <2>4. /\ \A q \in Runs : q # w => run_row'[q] = run_row[q]
          /\ run_row'[w].state = "INTERRUPTED"
      BY <2>1, <2>2, MarkRunFinishedDoes, "INTERRUPTED" \in PipelineState DEF PipelineState
    <2> QED BY <1>8, <2>1, <2>2, <2>3, <2>4 DEF Closing
  <1>11. CASE ListTasks(p)
    <2>1. UNCHANGED <<run_row, task_row>> /\ rec[p].at = "tasks"
      BY <1>11, Zenon DEF ListTasks
    <2>2. PICK w \in Runs : w = rec[p].run
      BY <1>9, <2>1 DEF Closing
    <2>3. Recovering(w)'
      BY <1>11, <2>2, ListTasksDoes DEF Progressed, Recovering, Closing
    <2> QED BY <1>8, <1>9, <2>1, <2>2, <2>3 DEF Closing
  <1>12. CASE CancelTask(p)
    <2>1. UNCHANGED run_row /\ rec[p].at = "task"
      BY <1>12, Zenon DEF CancelTask
    <2>2. PICK w \in Runs : w = rec[p].run
      BY <1>9, <2>1 DEF Closing
    <2>3. PICK t \in rec[p].tasks : \E d :
             /\ Progressed(p, d) /\ SetTaskState(rec[p].run, t, "CANCELLED")
             /\ d.at = "stamp" /\ d.stale = rec[p].stale /\ d.runs = rec[p].runs
             /\ d.run = rec[p].run /\ d.tasks = rec[p].tasks \ {t}
      BY <1>12, CancelTaskDoes
    <2>4. Recovering(w)'
      BY <2>2, <2>3 DEF Progressed, Recovering, Closing
    <2>5. \A q \in Runs : q # w => task_row'[q] = task_row[q]
      BY <1>0, <2>2, <2>3, SetTaskStateDoes, "CANCELLED" \in TaskState DEF TaskState
    <2> QED BY <1>8, <1>9, <2>1, <2>2, <2>4, <2>5 DEF Closing
  <1>13. CASE StampTask(p)
    <2>1. /\ UNCHANGED run_row /\ rec[p].at = "stamp"
          /\ \E t \in rec[p].task : SetTaskFinished(rec[p].run, t)
      BY <1>13, Zenon DEF StampTask
    <2>2. PICK w \in Runs : w = rec[p].run
      BY <1>9, <2>1 DEF Closing
    <2>3. Recovering(w)'
      BY <1>13, <2>2, StampTaskDoes DEF Progressed, Recovering, Closing
    <2>4. PICK t \in Tasks : SetTaskFinished(w, t)
      BY <1>0, <2>1, <2>2
    <2>5. \A q \in Runs : q # w => task_row'[q] = task_row[q]
      BY <2>4, SetTaskFinishedDoes
    <2> QED BY <1>8, <1>9, <2>1, <2>2, <2>3, <2>5 DEF Closing
  <1>14. CASE NextRun(p)
    <2>1. UNCHANGED <<run_row, task_row>> /\ rec[p].at = "task" /\ rec[p].tasks = {}
      BY <1>14, Zenon DEF NextRun
    <2>2. PICK w \in Runs : w = rec[p].run
      BY <1>9, <2>1 DEF Closing
    <2>3. Closed(w)
      BY <1>0, <2>1, <2>2 DEF Closed, RecoveryOk, Closing
    <2>4. Closed(w)'
      BY <2>1, <2>3 DEF Closed
    <2> QED BY <1>8, <1>9, <2>1, <2>2, <2>4 DEF Closing
  <1> QED BY <1>6, <1>7, <1>10, <1>11, <1>12, <1>13, <1>14 DEF RecoveryStep


(* The engine executes a run that has an id, and nobody recovers then.     *)
LEMMA CurrentRun ==
    ASSUME TypeOK, PlaceInv, RecoveryInv, pc \in Executing \cup {"validate"}
    PROVE  /\ pc \in Executing => cur \in Runs
           /\ pc = "validate" => cur = 0
           /\ \A r \in Runs : ~Recovering(r)
  <1>1. \A p \in Processes : rec[p].at = "off"
    BY DEF PlaceInv, RecoveryInv, RecoveryPlace, Processes, Executing
  <1>2. \A r \in Runs : ~Recovering(r)
    BY <1>1 DEF Recovering, Closing
  <1>3. pc \in Executing => cur \in Runs
    BY EngineAssumption DEF TypeOK, Runs
  <1>4. pc = "validate" => cur = 0
    BY DEF TypeOK, Executing
  <1> QED BY <1>2, <1>3, <1>4

(* The row of the run and those of its tasks are created.                  *)
LEMMA RowsCreate ==
    ASSUME TypeOK, PlaceInv, MemoryInv, RecoveryInv, RowsInv,
           CreateRun \/ (\E t \in Tasks : CreateTask(t)) \/ MarkStarted
    PROVE  RowsInv'
  <1>0. /\ FinishedRowsTrue /\ CurrentInv /\ (\A r \in Runs : RowOk(r))
        /\ pc \in {"validate", "create_tasks"}
    BY DEF RowsInv, CreateRun, CreateTask, MarkStarted
  <1>1. unwritten = {} /\ stamping = {} /\ mem = [t \in Tasks |-> "PENDING"]
    BY <1>0 DEF MemoryInv, FreshInv, Returned
  <1>2. \A r \in Runs : ~Recovering(r)
    BY <1>0, CurrentRun DEF Executing
  <1>3. UNCHANGED <<abandoned, unwritten, stamping, mem>>
    BY DEF CreateRun, CreateTask, MarkStarted, past, obs, sch
  <1>4. UnwrittenInv'
    BY <1>1, <1>3 DEF UnwrittenInv
  <1>5. CASE CreateRun
    <2>1. PICK r \in Runs :
            /\ {q \in Runs : run_row[q].state # "none"} = 1 .. r - 1
            /\ cur' = r /\ InsertRun(r)
      BY <1>5 DEF CreateRun
    <2>2. run_row[r].state = "none"
      BY <2>1, EngineAssumption DEF Runs
    <2>3. /\ \A q \in Runs : q # r => run_row'[q] = run_row[q]
          /\ run_row'[r].state = "CREATED"
      BY <2>1, RunRowUpdate, "CREATED" \in PipelineState DEF InsertRun, PipelineState
    <2>4. UNCHANGED task_row /\ pc' = "create_tasks" /\ cur = 0
      BY <1>5, CurrentRun DEF CreateRun
    <2>5. \A t \in Tasks : task_row[r][t] = NoRow
      BY <1>0, <2>2 DEF RowOk
    <2>6. CurrentInv'
      BY <1>0, <1>5, <2>1, <2>3, <2>4, <2>5 DEF CurrentInv, Returned, CreateRun
    <2>7. FinishedRowsTrue'
      BY <1>0, <2>3, <2>4, FinishedFrame DEF Verdicts
    <2>8. \A q \in Runs : RowOk(q)'
      BY <1>0, <1>2, <1>3, <2>3, <2>4, RowOkFrame DEF RowOk
    <2>9. RowsFollowTasks'
      BY <2>4 DEF RowsFollowTasks
    <2> QED BY <1>4, <2>6, <2>7, <2>8, <2>9 DEF RowsInv
  <1>6. ASSUME NEW t \in Tasks, CreateTask(t) PROVE RowsInv'
    <2>1. /\ pc = "create_tasks" /\ pc' = pc /\ UNCHANGED <<run_row, cur>>
          /\ task_row[cur][t] = NoRow /\ SetTaskState(cur, t, "PENDING")
      BY <1>6 DEF CreateTask, InsertTask, SetTaskState
    <2>2. cur \in Runs
      BY <2>1, CurrentRun DEF Executing
    <2>3. /\ task_row' \in [Runs -> [Tasks -> Row(TaskState)]]
          /\ \A q \in Runs : q # cur => task_row'[q] = task_row[q]
          /\ \A u \in Tasks : u # t => task_row'[cur][u] = task_row[cur][u]
          /\ task_row'[cur][t].state = "PENDING" /\ ~task_row'[cur][t].finished
      BY <2>1, <2>2, SetTaskStateDoes, "PENDING" \in TaskState DEF TaskState, NoRow
    <2>4. task_row'[cur][t] = [state |-> "PENDING", finished |-> FALSE]
      BY <2>2, <2>3 DEF Row
    <2>5. CurrentInv'
      BY <1>0, <2>1, <2>3, <2>4 DEF CurrentInv, Returned
    <2>6. FinishedRowsTrue'
      BY <1>0, <2>1, <2>3, FinishedFrame DEF Verdicts, CurrentInv
    <2>7. \A q \in Runs : RowOk(q)'
      BY <1>0, <1>2, <1>3, <2>1, <2>2, <2>3, RowOkFrame DEF RowOk, CurrentInv
    <2>8. RowsFollowTasks'
      BY <2>1 DEF RowsFollowTasks
    <2> QED BY <1>4, <2>5, <2>6, <2>7, <2>8 DEF RowsInv
  <1>7. CASE MarkStarted
    <2>1. /\ pc = "create_tasks" /\ pc' = "running" /\ UNCHANGED <<task_row, cur>>
          /\ MarkRunStarted(cur) /\ \A t \in Tasks : task_row[cur][t] # NoRow
      BY <1>7 DEF MarkStarted
    <2>2. cur \in Runs
      BY <2>1, CurrentRun DEF Executing
    <2>3. /\ \A q \in Runs : q # cur => run_row'[q] = run_row[q]
          /\ run_row'[cur].state = "RUNNING"
      BY <2>1, <2>2, SetRunStateDoes, "RUNNING" \in PipelineState DEF PipelineState
    <2>4. \A t \in Tasks : task_row[cur][t] = [state |-> "PENDING", finished |-> FALSE]
      BY <1>0, <2>1 DEF CurrentInv
    <2>5. RowsFollowTasks'
      BY <1>1, <1>3, <2>1, <2>4 DEF RowsFollowTasks, Terminal
    <2>6. CurrentInv'
      BY <1>0, <2>1, <2>3 DEF CurrentInv, Executing
    <2>7. FinishedRowsTrue'
      BY <1>0, <2>1, <2>3, FinishedFrame DEF Verdicts
    <2>8. \A q \in Runs : RowOk(q)'
      BY <1>0, <1>2, <1>3, <2>1, <2>3, RowOkFrame DEF RowOk
    <2> QED BY <1>4, <2>5, <2>6, <2>7, <2>8 DEF RowsInv
  <1> QED BY <1>5, <1>6, <1>7

(* The scheduler moves tasks; their rows are not final.                    *)
LEMMA RowsSchedule ==
    ASSUME TypeOK, PlaceInv, MemoryInv, RecoveryInv, RowsInv, BeginRun \/ Work \/ Honour
    PROVE  RowsInv'
  <1>1. /\ pc = "running" /\ pc' = pc /\ unwritten = {} /\ stamping = {} /\ stamping' = {}
        /\ unwritten' = {t \in Tasks : mem'[t] # mem[t]}
        /\ UNCHANGED <<run_row, task_row, cur, rec, abandoned>>
        /\ R!Begin \/ R!Work \/ R!Honour
    BY DEF BeginRun, Work, Honour, Scheduling, Written, db, past
  <1>2. \A t \in Tasks : mem'[t] # mem[t] => mem[t] \notin Terminal
    <2>1. CASE R!Begin \/ R!Work
      BY <2>1, MovesOk DEF MemoryInv
    <2>2. CASE R!Honour
      BY <2>2 DEF R!Honour, Terminal
    <2> QED BY <1>1, <2>1, <2>2
  <1>3. UnwrittenInv'
    BY <1>1, <1>2 DEF UnwrittenInv, RowsInv, RowsFollowTasks
  <1>4. RowsFollowTasks'
    BY <1>1 DEF RowsInv, RowsFollowTasks
  <1>5. CurrentInv'
    BY <1>1 DEF RowsInv, CurrentInv
  <1>6. FinishedRowsTrue'
    BY <1>1, FinishedFrame DEF RowsInv
  <1>7. \A r \in Runs : RowOk(r)'
    BY <1>1, RowOkFrame DEF RowsInv, Recovering
  <1> QED BY <1>3, <1>4, <1>5, <1>6, <1>7 DEF RowsInv

(* The observer writes the state of a task, and its stamp.                 *)
LEMMA RowsWrite ==
    ASSUME TypeOK, PlaceInv, MemoryInv, RecoveryInv, RowsInv, NEW t \in Tasks,
           WriteState(t) \/ WriteStamp(t)
    PROVE  RowsInv'
  <1>1. pc = "running"
    BY DEF WriteState, WriteStamp, MemoryInv, FreshInv, VerdictInv
  <1>2. cur \in Runs
    BY <1>1, CurrentRun DEF Executing
  <1>3. UNCHANGED <<run_row, pc, cur, mem, rec, abandoned>>
    BY DEF WriteState, WriteStamp, sch, past
  <1>4. mem[t] \in TaskState /\ unwritten \subseteq Tasks /\ stamping \subseteq Tasks
    BY DEF TypeOK
  <1>5. /\ \A q \in Runs : q # cur => task_row'[q] = task_row[q]
        /\ \A u \in Tasks : u # t => task_row'[cur][u] = task_row[cur][u]
    BY <1>2, <1>4, SetTaskStateDoes, SetTaskFinishedDoes DEF WriteState, WriteStamp
  <1>6. run_row[cur].state = "RUNNING"
    BY <1>1 DEF RowsInv, CurrentInv
  <1>7. UnwrittenInv' /\ RowsFollowTasks'
    <2>1. CASE WriteState(t)
      <3>1. /\ t \in unwritten /\ unwritten' = unwritten \ {t} /\ stamping = {}
            /\ stamping' = IF mem[t] \in Terminal THEN {t} ELSE {}
        BY <2>1 DEF WriteState
      <3>2. task_row'[cur][t].state = mem[t] /\ ~task_row'[cur][t].finished
        BY <1>2, <1>4, <2>1, <3>1, SetTaskStateDoes DEF WriteState, RowsInv, UnwrittenInv
      <3>3. UnwrittenInv'
        BY <1>3, <1>4, <1>5, <3>1 DEF RowsInv, UnwrittenInv
      <3>4. RowsFollowTasks'
        BY <1>1, <1>3, <1>5, <3>1, <3>2 DEF RowsInv, RowsFollowTasks
      <3> QED BY <3>3, <3>4
    <2>2. CASE WriteStamp(t)
      <3>1. /\ t \in stamping /\ unwritten' = unwritten /\ stamping' = {}
            /\ mem[t] \in Terminal /\ t \notin unwritten
        BY <2>2 DEF WriteStamp, MemoryInv, TasksInv
      <3>2. \A u \in Tasks : u # t => u \notin stamping
        BY <3>1 DEF MemoryInv, TasksInv
      <3>3. task_row'[cur][t].state = task_row[cur][t].state /\ task_row'[cur][t].finished
        BY <1>2, <2>2, SetTaskFinishedDoes DEF WriteStamp
      <3>4. UnwrittenInv'
        BY <1>3, <1>4, <1>5, <3>1 DEF RowsInv, UnwrittenInv
      <3>5. RowsFollowTasks'
        BY <1>1, <1>3, <1>5, <3>1, <3>2, <3>3 DEF RowsInv, RowsFollowTasks
      <3> QED BY <3>4, <3>5
    <2> QED BY <2>1, <2>2
  <1>8. CurrentInv'
    BY <1>1, <1>3 DEF RowsInv, CurrentInv
  <1>9. FinishedRowsTrue'
    BY <1>2, <1>3, <1>5, <1>6, FinishedFrame DEF RowsInv, Verdicts
  <1>10. ASSUME NEW r \in Runs PROVE RowOk(r)'
    <2>1. CASE r = cur
      BY <1>3, <1>6, <2>1 DEF RowOk
    <2>2. CASE r # cur
      BY <1>3, <1>5, <2>2, RowOkFrame DEF RowsInv, Recovering
    <2> QED BY <2>1, <2>2
  <1> QED BY <1>7, <1>8, <1>9, <1>10 DEF RowsInv


(* The process ends; what it leaves in the database is right.              *)
LEMMA RowsEnd ==
    ASSUME TypeOK, PlaceInv, MemoryInv, RecoveryInv, RowsInv,
           ExitFailed \/ Reject \/ MarkFinished \/ Crash
    PROVE  RowsInv'
  <1>0. pc' = "down" /\ unwritten' = {} /\ UNCHANGED task_row
          /\ FinishedRowsTrue /\ \A r \in Runs : RowOk(r)
    BY DEF ExitFailed, Reject, MarkFinished, Crash, ProcessEnds, RowsInv, db
  <1>1. CurrentInv' /\ UnwrittenInv' /\ RowsFollowTasks'
    BY <1>0 DEF CurrentInv, UnwrittenInv, RowsFollowTasks, Executing, Returned
  <1>2. CASE ExitFailed \/ Reject
    <2>1. UNCHANGED <<run_row, abandoned>> /\ pc \notin {"recover", "down"}
      BY <1>2 DEF ExitFailed, Reject, db, past
    <2>2. \A p \in Processes : rec[p].at = "off"
      BY <2>1 DEF PlaceInv, RecoveryInv, RecoveryPlace, Processes
    <2>3. \A r \in Runs : ~Recovering(r)
      BY <2>2 DEF Recovering, Closing
    <2>4. \A r \in Runs : RowOk(r)'
      BY <1>0, <2>1, <2>3, RowOkFrame
    <2>5. FinishedRowsTrue'
      BY <1>0, <2>1, FinishedFrame
    <2> QED BY <1>1, <2>4, <2>5 DEF RowsInv
  <1>3. CASE Crash
    <2>1. /\ UNCHANGED run_row /\ pc # "down"
          /\ abandoned' = IF rec["engine"].at \in Closing
                          THEN abandoned \cup {rec["engine"].run} ELSE abandoned
      BY <1>3 DEF Crash, db, Closing
    <2>2. rec["viewer"].at = "off"
      BY <2>1 DEF RecoveryInv, RecoveryPlace
    <2>3. \A r \in Runs : Recovering(r) => r \in abandoned'
      BY <2>1, <2>2 DEF Recovering, Closing, Processes
    <2>4. \A r \in Runs : RowOk(r)'
      BY <1>0, <2>1, <2>3 DEF RowOk, Closed
    <2>5. FinishedRowsTrue'
      BY <1>0, <2>1, FinishedFrame
    <2> QED BY <1>1, <2>4, <2>5 DEF RowsInv
  <1>4. CASE MarkFinished
    <2>1. pc = "mark" /\ MarkRunFinished(cur, mem_run) /\ UNCHANGED abandoned
      BY <1>4 DEF MarkFinished, past
    <2>2. cur \in Runs /\ \A r \in Runs : ~Recovering(r)
      BY <2>1, CurrentRun DEF Executing
    <2>3. /\ unwritten = {} /\ stamping = {} /\ mem_run \in Verdicts
          /\ \A t \in Tasks : mem[t] \in Terminal
          /\ mem_run = "SUCCEEDED" => \A t \in Tasks : mem[t] \in SuccessLike
          /\ mem_run = "FAILED" => \E t \in Tasks : mem[t] = "FAILED"
      BY <2>1 DEF MemoryInv, VerdictInv, Returned
    <2>4. /\ \A q \in Runs : q # cur => run_row'[q] = run_row[q]
          /\ run_row'[cur].state = mem_run /\ run_row'[cur].finished
      BY <2>1, <2>2, MarkRunFinishedDoes DEF TypeOK
    <2>5. \A t \in Tasks : task_row'[cur][t].state = mem[t] /\ task_row'[cur][t].finished
      BY <1>0, <2>1, <2>3 DEF RowsInv, RowsFollowTasks
    <2>6. FinishedRowsTrue'
      <3>1. SUFFICES ASSUME NEW r \in Runs, run_row'[r].state \in Verdicts
                     PROVE  /\ run_row'[r].finished
                            /\ \A t \in Tasks : task_row'[r][t].state \in Terminal
                                                  /\ task_row'[r][t].finished
                            /\ run_row'[r].state = "SUCCEEDED" =>
                                 \A t \in Tasks : task_row'[r][t].state \in SuccessLike
                            /\ run_row'[r].state = "FAILED" =>
                                 \E t \in Tasks : task_row'[r][t].state = "FAILED"
        BY DEF FinishedRowsTrue, Verdicts
      <3>2. CASE r = cur
        BY <2>3, <2>4, <2>5, <3>2
      <3>3. CASE r # cur
        BY <1>0, <2>4, <3>1, <3>3 DEF FinishedRowsTrue, Verdicts
      <3> QED BY <3>2, <3>3
    <2>7. ASSUME NEW r \in Runs PROVE RowOk(r)'
      <3>1. CASE r = cur
        BY <2>3, <2>4, <3>1 DEF RowOk, Verdicts
      <3>2. CASE r # cur
        BY <1>0, <2>1, <2>2, <2>4, <3>2, RowOkFrame
      <3> QED BY <3>1, <3>2
    <2> QED BY <1>1, <2>6, <2>7 DEF RowsInv
  <1> QED BY <1>2, <1>3, <1>4

(* One step of any process keeps the rows right.                           *)
LEMMA RowsStep ==
    ASSUME TypeOK, PlaceInv, MemoryInv, RecoveryInv, RowsInv, [Next]_vars
    PROVE  RowsInv'
  <1>0. "engine" \in Processes /\ "viewer" \in Processes
    BY DEF Processes
  <1>1. CASE Boot \/ MigrateFails \/ Migrate \/ Signal \/ Join \/ RemoveSentinel \/ StatusTasks
               \/ UNCHANGED vars
    BY <1>1, RowsFrame DEF Boot, MigrateFails, Migrate, Signal, Join, RemoveSentinel, StatusTasks,
       vars, db, sch, obs, past, Returned, Executing, Recovering
  <1>2. ASSUME NEW r \in Runs, AskCheck(r) \/ AskWrite(r) \/ StatusRun(r) PROVE RowsInv'
    BY <1>2, RowsFrame DEF AskCheck, AskWrite, StatusRun, db, sch, obs, past, Recovering
  <1>3. CASE OpenCurrent \/ SetVersion \/ ViewRuns
    <2>1. PICK p \in Processes : rec' = [rec EXCEPT ![p].at = "list"] /\ rec[p].at = "off"
      BY <1>0, <1>3 DEF OpenCurrent, SetVersion, Opened, ViewRuns, PlaceInv
    <2>2. PICK d : Progressed(p, d)
      BY <2>1, BeginsDoes
    <2>3. \A r \in Runs : Recovering(r) => Recovering(r)'
      BY <2>1, <2>2 DEF Recovering, Progressed, Closing
    <2> QED
      BY <1>3, <2>3, RowsFrame DEF OpenCurrent, SetVersion, Opened, ViewRuns, db, sch, obs, past,
         Executing
  <1>4. ASSUME NEW p \in Processes, RecoveryStep(p) PROVE RowsInv'
    <2>1. pc \in {"down", "recover"} /\ unwritten = {}
      BY <1>4, RecoveryProgress, RecoversAlone DEF MemoryInv, FreshInv, Returned
    <2>2. UNCHANGED <<unwritten, cur>>
      BY <1>4, Zenon DEF RecoveryStep, ListStale, Interrupt, MarkInterrupted,
         ListTasks, CancelTask, StampTask, NextRun, NextState, RecFrame, obs
    <2>3. UnwrittenInv'
      BY <2>1, <2>2 DEF UnwrittenInv
    <2>4. RowsFollowTasks' /\ CurrentInv'
      <3>1. PICK d : /\ Progressed(p, d)
                     /\ IF d.at = "off"
                        THEN d = NoRecovery /\ pc' = IF p = "engine" THEN "validate" ELSE pc
                        ELSE pc' = pc
        BY <1>4, RecoveryProgress
      <3>2. pc' = pc \/ (pc' = "validate" /\ d.at = "off")
        BY <3>1
      <3>3. CASE pc' = pc
        BY <2>1, <3>3 DEF RowsFollowTasks, CurrentInv, Executing, Returned
      <3>4. CASE pc' = "validate" /\ d.at = "off"
        <4>1. NextState(p) /\ rec[p].stale # "RUNNING"
          <5>1. rec'[p].at = "off"
            BY <3>1, <3>4 DEF Progressed
          <5>2. NextState(p)
            BY <1>4, <5>1, ListStaleDoes, InterruptDoes, MarkInterruptedDoes, ListTasksDoes,
               CancelTaskDoes, StampTaskDoes, NextRunDoes DEF RecoveryStep, Progressed
          <5> QED BY <5>1, <5>2, NextStateDoes DEF Progressed
        <4>2. UNCHANGED run_row /\ rec[p].at = "run" /\ rec[p].runs = {}
          BY <4>1, Zenon DEF NextState
        <4>3. rec[p].stale = "CREATED"
          BY <4>1 DEF TypeOK, Recovery
        <4>4. \A r \in Runs : run_row[r].state \notin {"CREATED", "RUNNING"}
          BY <4>2, <4>3 DEF RecoveryInv, RecoveryOk
        <4> QED BY <3>4, <4>2, <4>4 DEF RowsFollowTasks, CurrentInv, Returned
      <3> QED BY <3>2, <3>3, <3>4
    <2> QED BY <1>4, <2>3, <2>4, RowsRecovery DEF RowsInv
  <1>5. CASE CreateRun \/ (\E t \in Tasks : CreateTask(t)) \/ MarkStarted
    BY <1>5, RowsCreate
  <1>6. CASE BeginRun \/ Work \/ Honour
    BY <1>6, RowsSchedule
  <1>7. ASSUME NEW t \in Tasks, WriteState(t) \/ WriteStamp(t) PROVE RowsInv'
    BY <1>7, RowsWrite
  <1>8. ASSUME NEW t \in Tasks, LogLine(t) PROVE RowsInv'
    BY <1>8, RowsFrame DEF LogLine, sch, Recovering
  <1>9. CASE RunReturns
    BY <1>9, RowsFrame DEF RunReturns, R!End, past, Returned, Recovering
  <1>10. CASE WatcherStep
    BY <1>10, RowsFrame DEF WatcherStep, WatchSee, WatchCancel, WatchStop, WatchFrame,
       R!RequestCancel, db, obs, sch, past, Recovering
  <1>11. CASE ExitFailed \/ Reject \/ MarkFinished \/ Crash
    BY <1>11, RowsEnd
  <1> QED
    BY <1>1, <1>2, <1>3, <1>4, <1>5, <1>6, <1>7, <1>8, <1>9, <1>10, <1>11
       DEF Next, EngineStep, Processes


-----------------------------------------------------------------------------
(* The life of a run *)

(* Which action moves a run from one state to the next.                    *)
RunMoves(r) ==
    run_row'[r].state # run_row[r].state =>
        \/ CreateRun /\ run_row[r].state = "none" /\ run_row'[r].state = "CREATED"
        \/ run_row[r].state = "CREATED" /\ run_row'[r].state = "RUNNING"
        \/ MarkFinished /\ run_row[r].state = "RUNNING" /\ cur = r /\ run_row'[r].state = mem_run
        \/ /\ run_row[r].state \in {"CREATED", "RUNNING"} /\ cur # r
           /\ run_row'[r].state = "INTERRUPTED"

(* No other step of any process changes the state of a run.                *)
LEMMA RunMovesStep ==
    ASSUME TypeOK, PlaceInv, MemoryInv, RecoveryInv, RowsInv, [Next]_vars, NEW r \in Runs
    PROVE  RunMoves(r)
  <1>1. CASE CreateRun
    <2>1. PICK n \in Runs :
            /\ {q \in Runs : run_row[q].state # "none"} = 1 .. n - 1
            /\ InsertRun(n)
      BY <1>1 DEF CreateRun
    <2>2. run_row[n].state = "none"
      BY <2>1, EngineAssumption DEF Runs
    <2>3. /\ \A q \in Runs : q # n => run_row'[q] = run_row[q]
          /\ run_row'[n].state = "CREATED"
      BY <2>1, RunRowUpdate, "CREATED" \in PipelineState DEF InsertRun, PipelineState
    <2> QED BY <1>1, <2>2, <2>3 DEF RunMoves
  <1>2. CASE MarkStarted
    <2>1. pc = "create_tasks" /\ MarkRunStarted(cur)
      BY <1>2 DEF MarkStarted
    <2>2. cur \in Runs /\ run_row[cur].state = "CREATED"
      BY <2>1, CurrentRun DEF Executing, RowsInv, CurrentInv
    <2>3. /\ \A q \in Runs : q # cur => run_row'[q] = run_row[q]
          /\ run_row'[cur].state = "RUNNING"
      BY <2>1, <2>2, SetRunStateDoes, "RUNNING" \in PipelineState DEF PipelineState
    <2> QED BY <2>2, <2>3 DEF RunMoves
  <1>3. CASE MarkFinished
    <2>1. pc = "mark" /\ MarkRunFinished(cur, mem_run)
      BY <1>3 DEF MarkFinished
    <2>2. cur \in Runs /\ run_row[cur].state = "RUNNING"
      BY <2>1, CurrentRun DEF Executing, RowsInv, CurrentInv, Returned
    <2>3. /\ \A q \in Runs : q # cur => run_row'[q] = run_row[q]
          /\ run_row'[cur].state = mem_run
      BY <2>1, <2>2, MarkRunFinishedDoes DEF TypeOK
    <2> QED BY <1>3, <2>2, <2>3 DEF RunMoves
  <1>4. ASSUME NEW p \in Processes, Interrupt(p) PROVE RunMoves(r)
    <2>1. rec[p].at = "run"
      BY <1>4, Zenon DEF Interrupt
    <2>2. PICK n \in rec[p].runs : SetRunState(n, "INTERRUPTED")
      BY <1>4, InterruptDoes
    <2>3. n \in Runs /\ run_row[n].state \in {"CREATED", "RUNNING"}
      BY <2>1 DEF TypeOK, Recovery, RecoveryInv, RecoveryOk
    <2>4. cur = 0
      BY <2>1, RecoversAlone DEF TypeOK, Executing
    <2>5. /\ \A q \in Runs : q # n => run_row'[q] = run_row[q]
          /\ run_row'[n].state = "INTERRUPTED"
      BY <2>2, <2>3, SetRunStateDoes, "INTERRUPTED" \in PipelineState DEF PipelineState
    <2>6. n # cur
      BY <2>3, <2>4, EngineAssumption DEF Runs
    <2> QED BY <2>3, <2>5, <2>6 DEF RunMoves
  <1>5. ASSUME NEW p \in Processes, MarkInterrupted(p) PROVE RunMoves(r)
    <2>1. rec[p].at = "finish" /\ MarkRunFinished(rec[p].run, "INTERRUPTED")
      BY <1>5, Zenon DEF MarkInterrupted
    <2>2. PICK n \in Runs : n = rec[p].run
      BY <2>1 DEF PlaceInv, Closing
    <2>3. run_row[n].state = "INTERRUPTED"
      BY <2>1, <2>2 DEF RecoveryInv, RecoveryOk, Closing
    <2>4. /\ \A q \in Runs : q # n => run_row'[q] = run_row[q]
          /\ run_row'[n].state = "INTERRUPTED"
      BY <2>1, <2>2, MarkRunFinishedDoes, "INTERRUPTED" \in PipelineState DEF PipelineState
    <2> QED BY <2>3, <2>4 DEF RunMoves
  <1>6. CASE UNCHANGED run_row
    BY <1>6 DEF RunMoves
  <1>7. ASSUME NEW p \in Processes, RecoveryStep(p), ~Interrupt(p), ~MarkInterrupted(p)
        PROVE  UNCHANGED run_row
    BY <1>7, Zenon DEF RecoveryStep, ListStale, ListTasks, CancelTask, StampTask, NextRun, NextState
  <1>8. CASE Boot \/ OpenCurrent \/ Migrate \/ SetVersion \/ MigrateFails \/ ExitFailed \/ Reject
               \/ BeginRun \/ Work \/ Honour \/ RunReturns \/ Join \/ RemoveSentinel
               \/ Signal \/ Crash \/ StatusTasks \/ ViewRuns \/ UNCHANGED vars
    BY <1>6, <1>8 DEF Boot, OpenCurrent, Migrate, SetVersion, MigrateFails, ExitFailed, Reject,
       BeginRun, Work, Honour, Scheduling, RunReturns, Join, RemoveSentinel,
       Signal, Crash, StatusTasks, ViewRuns, vars, db
  <1>9. ASSUME NEW t \in Tasks, CreateTask(t) \/ WriteState(t) \/ WriteStamp(t) \/ LogLine(t)
        PROVE  UNCHANGED run_row
    BY <1>9 DEF CreateTask, WriteState, WriteStamp, LogLine
  <1>10. CASE WatcherStep
    BY <1>6, <1>10 DEF WatcherStep, WatchSee, WatchCancel, WatchStop, WatchFrame, db
  <1>11. ASSUME NEW q \in Runs, AskCheck(q) \/ AskWrite(q) \/ StatusRun(q) PROVE UNCHANGED run_row
    BY <1>11 DEF AskCheck, AskWrite, StatusRun, db
  <1> QED
    BY <1>1, <1>2, <1>3, <1>4, <1>5, <1>6, <1>7, <1>8, <1>9, <1>10, <1>11
       DEF Next, EngineStep, Processes

-----------------------------------------------------------------------------
(* The log lines *)

(* What a sequence holds when a line, or another sequence, is added.       *)
LEMMA AppendLines ==
    ASSUME NEW S, NEW q \in Seq(S), NEW x \in S
    PROVE  /\ Lines(Append(q, x)) = Lines(q) \cup {x}
           /\ Distinct(q) /\ x \notin Lines(q) => Distinct(Append(q, x))
  <1> DEFINE a == Append(q, x)
  <1>1. /\ DOMAIN a = 1 .. Len(q) + 1 /\ DOMAIN q = 1 .. Len(q) /\ Len(q) \in Nat
        /\ a[Len(q) + 1] = x /\ \A i \in 1 .. Len(q) : a[i] = q[i]
    OBVIOUS
  <1> HIDE DEF a
  <1>2. Lines(a) = Lines(q) \cup {x}
    BY <1>1 DEF Lines
  <1>3. ASSUME Distinct(q), x \notin Lines(q) PROVE Distinct(a)
    BY <1>1, <1>3 DEF Distinct, Lines
  <1> QED BY <1>2, <1>3 DEF a

(* Two sequences, one after the other.                                     *)
LEMMA ConcatLines ==
    ASSUME NEW S, NEW p \in Seq(S), NEW q \in Seq(S)
    PROVE  /\ Lines(p \o q) = Lines(p) \cup Lines(q)
           /\ Distinct(p) /\ Distinct(q) /\ Lines(p) \cap Lines(q) = {} => Distinct(p \o q)
  <1> DEFINE a == p \o q
  <1>1. /\ DOMAIN a = 1 .. Len(p) + Len(q) /\ DOMAIN q = 1 .. Len(q) /\ DOMAIN p = 1 .. Len(p)
        /\ Len(q) \in Nat /\ Len(p) \in Nat
        /\ \A i \in 1 .. Len(p) : a[i] = p[i]
        /\ \A i \in 1 .. Len(p) + Len(q) : i > Len(p) => a[i] = q[i - Len(p)]
    OBVIOUS
  <1>2. \A i \in 1 .. Len(q) : Len(p) + i \in DOMAIN a /\ a[Len(p) + i] = q[i]
    BY <1>1
  <1> HIDE DEF a
  <1>3. Lines(a) = Lines(p) \cup Lines(q)
    <2>1. \A i \in DOMAIN a : a[i] \in Lines(p) \cup Lines(q)
      BY <1>1 DEF Lines
    <2>2. Lines(p) \subseteq Lines(a)
      BY <1>1 DEF Lines
    <2>3. Lines(q) \subseteq Lines(a)
      BY <1>1, <1>2 DEF Lines
    <2> QED BY <2>1, <2>2, <2>3 DEF Lines
  <1>4. ASSUME Distinct(p), Distinct(q), Lines(p) \cap Lines(q) = {} PROVE Distinct(a)
    <2>1. SUFFICES ASSUME NEW i \in DOMAIN a, NEW j \in DOMAIN a, a[i] = a[j] PROVE i = j
      BY DEF Distinct
    <2>2. /\ i \in Int /\ j \in Int
          /\ i > Len(p) => i - Len(p) \in DOMAIN q /\ a[i] = q[i - Len(p)]
          /\ j > Len(p) => j - Len(p) \in DOMAIN q /\ a[j] = q[j - Len(p)]
          /\ i <= Len(p) => i \in DOMAIN p /\ a[i] = p[i]
          /\ j <= Len(p) => j \in DOMAIN p /\ a[j] = p[j]
      BY <1>1
    <2>3. CASE i <= Len(p) /\ j <= Len(p)
      BY <1>4, <2>1, <2>2, <2>3 DEF Distinct
    <2>4. CASE i > Len(p) /\ j > Len(p)
      <3>1. i - Len(p) = j - Len(p)
        BY <1>4, <2>1, <2>2, <2>4 DEF Distinct
      <3> QED BY <1>1, <2>2, <3>1
    <2>5. CASE i <= Len(p) /\ j > Len(p)
      <3>1. a[i] \in Lines(p) /\ a[j] \in Lines(q)
        BY <2>2, <2>5 DEF Lines
      <3> QED BY <1>4, <2>1, <3>1
    <2>6. CASE i > Len(p) /\ j <= Len(p)
      <3>1. a[j] \in Lines(p) /\ a[i] \in Lines(q)
        BY <2>2, <2>6 DEF Lines
      <3> QED BY <1>4, <2>1, <3>1
    <2> QED BY <1>1, <2>2, <2>3, <2>4, <2>5, <2>6
  <1> QED BY <1>3, <1>4 DEF a

(* There are no lines at first.                                            *)
LEMMA LogInit == Init => LogInv
  <1>1. ASSUME Init PROVE LogInv
    <2>1. log_rows = <<>> /\ buffer = <<>> /\ emitted = {} /\ pc = "down"
            /\ \A r \in Runs : run_row[r] = NoRow
      BY <1>1 DEF Init
    <2>2. Lines(<<>>) = {} /\ Distinct(<<>>) /\ NoRow.state = "none"
      BY DEF Lines, Distinct, NoRow
    <2> QED BY <2>1, <2>2 DEF LogInv, Returned, Verdicts
  <1> QED BY <1>1


(* A step without lines, unless it creates a run or ends the process.      *)
LEMMA LogFrame ==
    ASSUME TypeOK, LogInv, UNCHANGED <<log_rows, buffer, emitted, cur>>,
           \A r \in Runs : /\ run_row'[r].state = "none" => run_row[r].state = "none"
                           /\ run_row'[r].state \in Verdicts => run_row[r].state \in Verdicts,
           \/ pc' = pc
           \/ pc \notin Executing /\ pc' \notin Executing
           \/ pc \in Returned /\ pc' \in Returned
           \/ pc = "create_tasks" /\ pc' = "running"
    PROVE  LogInv'
  <1>1. pc \notin Executing => \A r \in Runs : cur # r
    BY EngineAssumption DEF TypeOK, Runs
  <1>2. \A r \in Runs : cur = r /\ pc \in Returned => pc' \in Returned
    BY <1>1 DEF Returned, Executing
  <1>3. pc' = "create_tasks" => pc = "create_tasks"
    BY DEF Returned, Executing
  <1>4. pc' \in {"running"} \cup Returned => pc = "create_tasks" \/ pc \in {"running"} \cup Returned
    BY DEF Returned, Executing
  <1>5. pc' \in Returned => pc \in Returned
    BY DEF Returned, Executing
  <1> QED BY <1>2, <1>3, <1>4, <1>5 DEF LogInv

(* The process ends: what was in the buffer is lost.  Only if it ends by   *)
(* recording its verdict does a run get one, and then the buffer is empty. *)
LEMMA LogEnd ==
    ASSUME TypeOK, MemoryInv, LogInv, ProcessEnds, UNCHANGED <<log_rows, emitted>>,
           \A r \in Runs : /\ run_row'[r].state = "none" => run_row[r].state = "none"
                           /\ run_row'[r].state \in Verdicts =>
                                run_row[r].state \in Verdicts \/ (cur = r /\ pc \in Returned)
    PROVE  LogInv'
  <1>1. /\ cur' = 0 /\ \A r \in Runs : cur' # r
        /\ pc' = "down" /\ buffer' = <<>>
    BY EngineAssumption DEF ProcessEnds, Runs
  <1>2. Lines(buffer') = {} /\ Distinct(buffer')
    BY <1>1 DEF Lines, Distinct
  <1>3. pc \in Returned => Lines(buffer) = {}
    BY DEF MemoryInv, VerdictInv, Lines
  <1>4. \A r \in Runs : run_row'[r].state \in Verdicts =>
          /\ <<r, "engine">> \in Lines(log_rows)
          /\ \A t \in Tasks : <<r, t>> \in emitted => <<r, t>> \in Lines(log_rows)
    BY <1>3 DEF LogInv
  <1> QED BY <1>1, <1>2, <1>4 DEF LogInv, Returned

(* The buffer holds lines of tasks only.                                   *)
LEMMA NoEngineLine ==
    ASSUME TypeOK, LogInv, NEW r \in Runs PROVE <<r, "engine">> \notin Lines(buffer)
  <1>1. Lines(buffer) \subseteq Runs \X Tasks
    BY DEF LogInv, TypeOK
  <1>2. <<r, "engine">> \notin Runs \X Tasks
    BY EngineAssumption
  <1> QED BY <1>1, <1>2

(* on_task_log: the line is new, and it is in the buffer or in the table.  *)
LEMMA LogLineOk ==
    ASSUME TypeOK, PlaceInv, RecoveryInv, RowsInv, LogInv, NEW t \in Tasks, LogLine(t)
    PROVE  LogInv'
  <1>1. /\ pc = "running" /\ UNCHANGED <<run_row, pc, cur>>
        /\ emitted' = emitted \cup {<<cur, t>>} /\ <<cur, t>> \notin emitted
    BY DEF LogLine
  <1>2. cur \in Runs /\ run_row[cur].state = "RUNNING"
    BY <1>1, CurrentRun DEF Executing, RowsInv, CurrentInv
  <1> DEFINE S == Runs \X (Tasks \cup {"engine"})
             line == <<cur, t>>
             lines == Append(buffer, line)
  <1>3. line \in S /\ buffer \in Seq(S) /\ log_rows \in Seq(S) /\ lines \in Seq(S)
    BY <1>2 DEF TypeOK
  <1>4. line \notin Lines(buffer) /\ line \notin Lines(log_rows)
    BY <1>1, <1>2 DEF LogInv
  <1>5. Lines(lines) = Lines(buffer) \cup {line} /\ Distinct(lines)
    BY <1>3, <1>4, AppendLines DEF LogInv
  <1>6. Lines(log_rows) \cap Lines(lines) = {} /\ Distinct(log_rows)
    BY <1>4, <1>5 DEF LogInv
  <1>7. Lines(log_rows \o lines) = Lines(log_rows) \cup Lines(lines) /\ Distinct(log_rows \o lines)
    <2> HIDE DEF lines, S
    <2> QED BY <1>3, <1>5, <1>6, ConcatLines
  <1>8. \/ log_rows' = log_rows \o lines /\ buffer' = <<>>
        \/ log_rows' = log_rows /\ buffer' = lines
    BY DEF LogLine, Flush, InsertLogs
  <1>9. Lines(<<>>) = {} /\ Distinct(<<>>)
    BY DEF Lines, Distinct
  <1>10. /\ Distinct(log_rows') /\ Distinct(buffer')
         /\ Lines(log_rows') \cap Lines(buffer') = {}
         /\ Lines(log_rows') \cup Lines(buffer') = Lines(log_rows) \cup Lines(buffer) \cup {line}
         /\ Lines(log_rows) \subseteq Lines(log_rows')
         /\ Lines(buffer') \subseteq Lines(buffer) \cup {line}
    <2> HIDE DEF lines, line, S
    <2>2. CASE log_rows' = log_rows \o lines /\ buffer' = <<>>
      BY <1>5, <1>7, <1>9, <2>2
    <2>3. CASE log_rows' = log_rows /\ buffer' = lines
      BY <1>5, <1>6, <2>3
    <2> QED BY <1>8, <2>2, <2>3
  <1>11. \A r \in Runs : <<r, "engine">> # line
    BY EngineAssumption
  <1>12. line[1] = cur /\ \A r \in Runs : \A u \in Tasks : <<r, u>> = line => r = cur
    OBVIOUS
  <1>13. line \in emitted' /\ \A x : x \in emitted' => x \in emitted \/ x = line
    BY <1>1
  <1>14. emitted \subseteq emitted'
    BY <1>1
  <1> HIDE DEF line, lines, S
  <1>15. /\ Lines(buffer') \subseteq emitted'
         /\ \A x \in Lines(buffer') : x[1] = cur
    BY <1>10, <1>12, <1>13, <1>14 DEF LogInv
  <1>16. \A r \in Runs : \A u \in Tasks : <<r, u>> \in Lines(log_rows') => <<r, u>> \in emitted'
    BY <1>10, <1>13, <1>14 DEF LogInv
  <1>17. \A r \in Runs : \A u \in Tasks : <<r, u>> \in emitted' => run_row[r].state # "none"
    BY <1>2, <1>12, <1>13 DEF LogInv
  <1>18. \A r \in Runs : <<r, "engine">> \in Lines(log_rows') => <<r, "engine">> \in Lines(log_rows)
    <2>1. \A r \in Runs : <<r, "engine">> \notin Lines(buffer)
      BY NoEngineLine
    <2> QED BY <1>10, <1>11, <2>1
  <1>19. \A u \in Tasks : <<cur, u>> \in emitted' => <<cur, u>> \in Lines(log_rows') \cup Lines(buffer')
    BY <1>1, <1>10, <1>13 DEF LogInv
  <1>20. \A r \in Runs : run_row[r].state \in Verdicts =>
          /\ <<r, "engine">> \in Lines(log_rows')
          /\ \A u \in Tasks : <<r, u>> \in emitted' => <<r, u>> \in Lines(log_rows')
    BY <1>2, <1>10, <1>12, <1>13 DEF LogInv, Verdicts
  <1> QED BY <1>1, <1>10, <1>15, <1>16, <1>17, <1>18, <1>19, <1>20 DEF LogInv, Returned

(* run() returns: everything that was in the buffer and the engine's own   *)
(* line are in the table.                                                  *)
LEMMA LogReturnOk ==
    ASSUME TypeOK, PlaceInv, RecoveryInv, RowsInv, LogInv, RunReturns
    PROVE  LogInv'
  <1>1. /\ pc = "running" /\ pc' = "joining" /\ UNCHANGED <<run_row, cur, emitted>>
        /\ log_rows' = log_rows \o Append(buffer, <<cur, "engine">>) /\ buffer' = <<>>
    BY DEF RunReturns, Flush, InsertLogs, past
  <1>2. cur \in Runs /\ run_row[cur].state = "RUNNING"
    BY <1>1, CurrentRun DEF Executing, RowsInv, CurrentInv
  <1> DEFINE S == Runs \X (Tasks \cup {"engine"})
             line == <<cur, "engine">>
             lines == Append(buffer, line)
  <1>3. line \in S /\ buffer \in Seq(S) /\ log_rows \in Seq(S) /\ lines \in Seq(S)
    BY <1>2 DEF TypeOK
  <1>4. line \notin Lines(buffer) /\ line \notin Lines(log_rows)
    <2>1. line \notin Lines(buffer)
      BY <1>2, NoEngineLine
    <2>2. line \notin Lines(log_rows)
      BY <1>1, <1>2 DEF LogInv, Returned
    <2> QED BY <2>1, <2>2
  <1>5. Lines(lines) = Lines(buffer) \cup {line} /\ Distinct(lines)
    BY <1>3, <1>4, AppendLines DEF LogInv
  <1>6. Lines(log_rows) \cap Lines(lines) = {} /\ Distinct(log_rows)
    BY <1>4, <1>5 DEF LogInv
  <1>7. Lines(log_rows') = Lines(log_rows) \cup Lines(buffer) \cup {line} /\ Distinct(log_rows')
    <2>1. log_rows' = log_rows \o lines
      BY <1>1
    <2> HIDE DEF lines, line, S
    <2>2. Lines(log_rows \o lines) = Lines(log_rows) \cup Lines(lines) /\ Distinct(log_rows \o lines)
      BY <1>3, <1>5, <1>6, ConcatLines
    <2> QED BY <1>5, <2>1, <2>2
  <1>8. Lines(buffer') = {} /\ Distinct(buffer')
    BY <1>1 DEF Lines, Distinct
  <1>9. /\ \A r \in Runs : <<r, "engine">> = line => r = cur
        /\ \A r \in Runs : \A t \in Tasks : <<r, t>> # line
    BY EngineAssumption
  <1>10. \A r \in Runs : <<r, "engine">> \notin Lines(buffer)
    BY NoEngineLine
  <1>11. \A r \in Runs : <<r, "engine">> \in Lines(log_rows') =>
           run_row'[r].state # "none" /\ (cur' = r => pc' \in Returned)
    BY <1>1, <1>2, <1>7, <1>9, <1>10 DEF LogInv, Returned
  <1>12. line \in Lines(log_rows')
    BY <1>7
  <1>13. Lines(log_rows) \subseteq Lines(log_rows')
    BY <1>7
  <1>14. \A r \in Runs : \A t \in Tasks : <<r, t>> \in Lines(log_rows') => <<r, t>> \in emitted
    BY <1>7, <1>9 DEF LogInv
  <1>15. \A t \in Tasks : <<cur, t>> \in emitted => <<cur, t>> \in Lines(log_rows')
    BY <1>1, <1>7 DEF LogInv
  <1> QED BY <1>1, <1>7, <1>8, <1>11, <1>12, <1>13, <1>14, <1>15 DEF LogInv, Returned


(* One step of any process keeps the log right.                            *)
LEMMA LogStep ==
    ASSUME TypeOK, PlaceInv, MemoryInv, RecoveryInv, RowsInv, LogInv, [Next]_vars
    PROVE  LogInv'
  <1>0. \A r \in Runs : RunMoves(r)
    BY RunMovesStep
  <1>1. \A r \in Runs : run_row'[r].state = "none" => run_row[r].state = "none"
    <2>1. ASSUME MarkFinished PROVE mem_run # "none"
      BY DEF TypeOK, PipelineState
    <2> QED BY <1>0, <2>1 DEF RunMoves
  <1>2. ~MarkFinished =>
          \A r \in Runs : run_row'[r].state \in Verdicts => run_row[r].state \in Verdicts
    BY <1>0 DEF RunMoves, Verdicts
  <1>3. CASE CreateRun
    <2>1. PICK n \in Runs :
            /\ {q \in Runs : run_row[q].state # "none"} = 1 .. n - 1
            /\ cur' = n
      BY <1>3 DEF CreateRun
    <2>2. run_row[n].state = "none"
      BY <2>1, EngineAssumption DEF Runs
    <2>3. pc = "validate" /\ pc' = "create_tasks" /\ UNCHANGED <<log_rows, buffer, emitted>>
      BY <1>3 DEF CreateRun, obs, past
    <2>4. Lines(buffer) = {}
      BY <2>3 DEF MemoryInv, FreshInv, Returned, Lines
    <2>5. \A t \in Tasks : <<n, t>> \notin emitted
      BY <2>2 DEF LogInv
    <2>6. <<n, "engine">> \notin Lines(log_rows)
      BY <2>2 DEF LogInv
    <2>7. ~MarkFinished
      BY <2>3 DEF MarkFinished
    <2>8. \A r \in Runs : <<r, "engine">> \in Lines(log_rows) => run_row'[r].state # "none" /\ cur' # r
      BY <1>1, <2>1, <2>6 DEF LogInv
    <2> QED BY <1>1, <1>2, <2>1, <2>3, <2>4, <2>5, <2>7, <2>8 DEF LogInv, Returned
  <1>4. ASSUME NEW t \in Tasks, LogLine(t) PROVE LogInv'
    BY <1>4, LogLineOk
  <1>5. CASE RunReturns
    BY <1>5, LogReturnOk
  <1>6. CASE ExitFailed \/ Reject \/ MarkFinished \/ Crash
    <2>1. ProcessEnds /\ UNCHANGED <<log_rows, emitted>>
      BY <1>6 DEF ExitFailed, Reject, MarkFinished, Crash, db, past
    <2>2. MarkFinished => pc \in Returned
      BY DEF MarkFinished, Returned
    <2>3. \A r \in Runs : run_row'[r].state \in Verdicts =>
            run_row[r].state \in Verdicts \/ (cur = r /\ pc \in Returned)
      BY <1>0, <2>2 DEF RunMoves, Verdicts
    <2> QED BY <1>1, <2>1, <2>3, LogEnd
  <1>7. ASSUME NEW p \in Processes, RecoveryStep(p) PROVE LogInv'
    <2>1. UNCHANGED <<log_rows, buffer, emitted, cur>>
      BY <1>7, Zenon DEF RecoveryStep, ListStale, Interrupt, MarkInterrupted,
         ListTasks, CancelTask, StampTask, NextRun, NextState, RecFrame, obs, past
    <2>2. pc \in {"down", "recover"} /\ pc' \in {pc, "validate"}
      BY <1>7, RecoveryProgress, RecoversAlone
    <2>3. ~MarkFinished
      BY <2>2 DEF MarkFinished
    <2> QED BY <1>1, <1>2, <2>1, <2>2, <2>3, LogFrame DEF Executing
  <1>8. ASSUME UNCHANGED <<log_rows, buffer, emitted, cur>>, pc # "mark",
               \/ pc' = pc
               \/ pc \notin Executing /\ pc' \notin Executing
               \/ pc \in Returned /\ pc' \in Returned
               \/ pc = "create_tasks" /\ pc' = "running"
        PROVE  LogInv'
    BY <1>1, <1>2, <1>8, LogFrame DEF MarkFinished
  <1>9. CASE UNCHANGED <<run_row, log_rows, buffer, emitted, cur, pc>>
    BY <1>9, LogFrame
  <1>10. CASE Boot \/ OpenCurrent \/ Migrate \/ SetVersion \/ MigrateFails
                \/ Join \/ RemoveSentinel \/ MarkStarted
    BY <1>8, <1>10 DEF Boot, OpenCurrent, Migrate, SetVersion, Opened, MigrateFails,
       Join, RemoveSentinel, MarkStarted, db, obs, past, Executing, Returned
  <1>11. CASE BeginRun \/ Work \/ Honour \/ Signal \/ StatusTasks \/ ViewRuns \/ UNCHANGED vars
    BY <1>9, <1>11 DEF BeginRun, Work, Honour, Scheduling, Signal, StatusTasks, ViewRuns, vars,
       db, obs, past
  <1>12. ASSUME NEW t \in Tasks, CreateTask(t) \/ WriteState(t) \/ WriteStamp(t)
         PROVE  UNCHANGED <<run_row, log_rows, buffer, emitted, cur, pc>>
    BY <1>12 DEF CreateTask, WriteState, WriteStamp, obs, past
  <1>13. CASE WatcherStep
    BY <1>9, <1>13 DEF WatcherStep, WatchSee, WatchCancel, WatchStop, WatchFrame, db, obs, past
  <1>14. ASSUME NEW q \in Runs, AskCheck(q) \/ AskWrite(q) \/ StatusRun(q)
         PROVE  UNCHANGED <<run_row, log_rows, buffer, emitted, cur, pc>>
    BY <1>14 DEF AskCheck, AskWrite, StatusRun, db, obs, past
  <1> QED
    BY <1>3, <1>4, <1>5, <1>6, <1>7, <1>9, <1>10, <1>11, <1>12, <1>13, <1>14
       DEF Next, EngineStep, Processes

-----------------------------------------------------------------------------
(* What `flowforge status' has read *)

(* Nothing has been read at first.                                         *)
LEMMA ViewInit == Init => ViewInv
  BY DEF Init, ViewInv

(* A verdict is never revised, so what was read of it stays true.          *)
LEMMA ViewStep ==
    ASSUME TypeOK, PlaceInv, MemoryInv, RecoveryInv, RowsInv, ViewInv, [Next]_vars
    PROVE  ViewInv'
  <1>1. \A r \in Runs : run_row[r].state \in Verdicts => run_row'[r].state = run_row[r].state
    BY RunMovesStep DEF RunMoves, Verdicts
  <1>2. CASE view' = view
    BY <1>1, <1>2 DEF ViewInv
  <1>3. CASE StatusTasks
    BY <1>3 DEF StatusTasks, ViewInv
  <1>4. ASSUME NEW r \in Runs, StatusRun(r) PROVE ViewInv'
    <2>1. view' = [run |-> r, rows |-> Rows(r)] /\ UNCHANGED run_row
      BY <1>4 DEF StatusRun, db
    <2>2. view'.run = r /\ view'.rows.state = run_row[r].state
      BY <2>1 DEF Rows
    <2> QED BY <2>1, <2>2 DEF ViewInv
  <1>5. ASSUME NEW p \in Processes, RecoveryStep(p) PROVE view' = view
    BY <1>5, Zenon DEF RecoveryStep, ListStale, Interrupt, MarkInterrupted,
       ListTasks, CancelTask, StampTask, NextRun, NextState, RecFrame
  <1>6. CASE Boot \/ OpenCurrent \/ Migrate \/ SetVersion \/ MigrateFails \/ ExitFailed \/ Reject
               \/ CreateRun \/ MarkStarted \/ MarkFinished
               \/ BeginRun \/ Work \/ Honour \/ RunReturns \/ Join \/ RemoveSentinel
               \/ Signal \/ Crash \/ ViewRuns \/ UNCHANGED vars
    BY <1>2, <1>6 DEF Boot, OpenCurrent, Migrate, SetVersion, Opened, MigrateFails, ExitFailed, Reject,
       CreateRun, MarkStarted, MarkFinished, BeginRun, Work, Honour, Scheduling, RunReturns, Join,
       RemoveSentinel, Signal, Crash, ViewRuns, vars
  <1>7. ASSUME NEW t \in Tasks, CreateTask(t) \/ WriteState(t) \/ WriteStamp(t) \/ LogLine(t)
        PROVE  view' = view
    BY <1>7 DEF CreateTask, WriteState, WriteStamp, LogLine
  <1>8. CASE WatcherStep
    BY <1>2, <1>8 DEF WatcherStep, WatchSee, WatchCancel, WatchStop, WatchFrame
  <1>9. ASSUME NEW q \in Runs, AskCheck(q) \/ AskWrite(q) PROVE view' = view
    BY <1>9 DEF AskCheck, AskWrite
  <1> QED
    BY <1>2, <1>3, <1>4, <1>5, <1>6, <1>7, <1>8, <1>9 DEF Next, EngineStep, Processes

-----------------------------------------------------------------------------
(* Theorems *)

(* The whole invariant.                                                    *)
IInv == TypeOK /\ PlaceInv /\ MemoryInv /\ RecoveryInv /\ RowsInv /\ LogInv /\ ViewInv

(* The inductive invariant holds in every reachable state of engines that  *)
(* are used one at a time: memory, recovery, rows, lines and views agree.  *)
THEOREM RecordInvariant ==
    ASSUME OneEngine PROVE Spec => []IInv
  <1>1. Init => IInv
    BY TypeOKInit, PlaceInit, MemoryInit, RecoveryInit, RowsInit, LogInit, ViewInit DEF IInv
  <1>2. IInv /\ [Next]_vars => IInv'
    BY TypeOKStep, PlaceStep, MemoryStep, RecoveryInvStep, RowsStep, LogStep, ViewStep DEF IInv
  <1> QED BY <1>1, <1>2, PTL DEF Spec

(* A run with a verdict is recorded completely: every task row terminal    *)
(* and stamped, and the states add up to the verdict, whatever crashed     *)
(* (MarkFinished comes after everything else of run_pipeline).             *)
THEOREM VerdictsTrue ==
    ASSUME OneEngine PROVE Spec => []FinishedRowsTrue
  <1>1. IInv => FinishedRowsTrue
    BY DEF IInv, RowsInv
  <1> QED BY <1>1, RecordInvariant, PTL

(* Rows follow the scheduler's states, and every log line is written once  *)
(* and before the verdict.                                                 *)
THEOREM RecordAlwaysExact ==
    ASSUME OneEngine PROVE Spec => []RecordExact
  <1>1. IInv => TypeOK /\ RowsFollowTasks
    BY DEF IInv, RowsInv
  <1>2. IInv => LogsExact
    <2>1. SUFFICES ASSUME IInv PROVE LogsExact
      OBVIOUS
    <2>2. LogInv /\ emitted \subseteq Runs \X Tasks
      BY <2>1 DEF IInv, TypeOK
    <2>3. \A i, j \in DOMAIN log_rows : log_rows[i] = log_rows[j] => i = j
      BY <2>2 DEF LogInv, Distinct
    <2>4. ASSUME NEW r \in Runs, run_row[r].state \in Verdicts,
                 NEW line \in emitted \cup {<<r, "engine">>}, line[1] = r
          PROVE  line \in Lines(log_rows)
      <3>1. CASE line = <<r, "engine">>
        BY <2>2, <2>4, <3>1 DEF LogInv
      <3>2. CASE line \in emitted
        <4>1. PICK q \in Runs, t \in Tasks : line = <<q, t>>
          BY <2>2, <3>2
        <4>2. q = r
          BY <2>4, <4>1
        <4> QED BY <2>2, <2>4, <3>2, <4>1, <4>2 DEF LogInv
      <3> QED BY <2>4, <3>1, <3>2
    <2> QED BY <2>3, <2>4 DEF LogsExact, Lines, Verdicts
  <1>3. IInv => RecordExact
    BY <1>1, <1>2 DEF RecordExact
  <1> QED BY <1>3, RecordInvariant, PTL

(* After recover_orphaned_runs no run but the engine's own looks alive,    *)
(* and an INTERRUPTED one is closed unless recovery was cut short.         *)
THEOREM RecoveryCleans ==
    ASSUME OneEngine PROVE Spec => []RecoveredClean
  <1>1. IInv => RecoveredClean
    <2>1. SUFFICES ASSUME IInv, pc \in Executing \cup {"validate"}
                   PROVE  /\ \A r \in Runs \ {cur} : run_row[r].state \notin {"CREATED", "RUNNING"}
                          /\ \A r \in Runs \ abandoned : run_row[r].state = "INTERRUPTED" => Closed(r)
      BY DEF RecoveredClean
    <2>2. \A r \in Runs : ~Recovering(r)
      BY <2>1, CurrentRun DEF IInv
    <2> QED BY <2>1, <2>2 DEF IInv, RowsInv, CurrentInv, RowOk
  <1> QED BY <1>1, RecordInvariant, PTL

(* A run's row goes from CREATED to RUNNING to its one verdict, or to      *)
(* INTERRUPTED when its process is dead; nothing is ever revised.          *)
THEOREM RowsLiveOnce ==
    ASSUME OneEngine PROVE Spec => RunLifecycle
  <1> DEFINE A == \A r \in Runs : run_row'[r].state # run_row[r].state =>
                     \/ run_row[r].state = "none" /\ run_row'[r].state = "CREATED"
                     \/ run_row[r].state = "CREATED" /\ run_row'[r].state = "RUNNING"
                     \/ run_row[r].state = "RUNNING" /\ cur = r /\ run_row'[r].state = mem_run
                     \/ /\ run_row[r].state \in {"CREATED", "RUNNING"} /\ cur # r
                        /\ run_row'[r].state = "INTERRUPTED"
  <1>1. IInv /\ [Next]_vars => A
    BY RunMovesStep DEF IInv, RunMoves
  <1>2. IInv /\ [Next]_vars => [A]_vars
    BY <1>1
  <1> HIDE DEF A
  <1>3. Spec => [][A]_vars
    BY <1>2, RecordInvariant, PTL DEF Spec
  <1> QED BY <1>3 DEF RunLifecycle, A

(* Although get_run reads the run and its tasks in two statements, a       *)
(* verdict is never shown next to tasks that contradict it.                *)
THEOREM StatusNeverContradicts ==
    ASSUME OneEngine PROVE Spec => StatusConsistent
  <1> DEFINE A == (view # NoView /\ view' = NoView) =>
                    LET shown == Shown(view.rows, Rows(view.run)) IN
                    shown.state \in {"SUCCEEDED", "FAILED", "CANCELLED"} =>
                      /\ shown.tasks \subseteq Terminal
                      /\ shown.state = "SUCCEEDED" => shown.tasks \subseteq SuccessLike
                      /\ shown.state = "FAILED" => "FAILED" \in shown.tasks
  <1>1. IInv => A
    <2>1. SUFFICES ASSUME IInv, view # NoView, view.rows.state \in Verdicts
                   PROVE  LET tasks == {task_row[view.run][t].state : t \in Tasks} IN
                          /\ tasks \subseteq Terminal
                          /\ view.rows.state = "SUCCEEDED" => tasks \subseteq SuccessLike
                          /\ view.rows.state = "FAILED" => "FAILED" \in tasks
      BY DEF Shown, Rows, Verdicts
    <2>2. view.run \in Runs /\ run_row[view.run].state = view.rows.state
      BY <2>1 DEF IInv, ViewInv
    <2>3. FinishedRowsTrue
      BY <2>1 DEF IInv, RowsInv
    <2> QED BY <2>1, <2>2, <2>3 DEF FinishedRowsTrue, Verdicts
  <1>2. IInv /\ [Next]_vars => [A]_vars
    BY <1>1
  <1> HIDE DEF A
  <1>3. Spec => [][A]_vars
    BY <1>2, RecordInvariant, PTL DEF Spec
  <1> QED BY <1>3 DEF StatusConsistent, A

=============================================================================

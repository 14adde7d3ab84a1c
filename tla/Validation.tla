----------------------------- MODULE Validation -----------------------------
(***************************************************************************)
(* validation::validate_pipeline (src/core/validation/pipeline_validator.  *)
(* cpp): the checks between the document and the scheduler.  An issue is a *)
(* task id ("" for the pipeline) and a field.  Dag::build is what module   *)
(* Dag shows it to be: it accepts exactly the acyclic graphs.              *)
(*                                                                         *)
(* The machine is a record: dirs and files, the locations that exist; path,*)
(* the directories of PATH.  Every file may be executed.                   *)
(***************************************************************************)
EXTENDS Document, FiniteSets

Ids(p) == {task.id : task \in Range(p.tasks)}

EdgeSet(p) == Range(p.edges)

(* Dag::transitive_dependents: the least set that is closed under edges.   *)
Dependents(p, id) ==
    LET Closed(S) == \A e \in EdgeSet(p) : e[1] \in S \cup {id} => e[2] \in S
    IN  {u \in Ids(p) : \A S \in SUBSET Ids(p) : Closed(S) => u \in S}

(* Dag::build accepts what module Dag shows it to accept.                  *)
GraphBuilds(nodes, edges) ==
    /\ IsInjective(nodes)
    /\ \A e \in edges : {e[1], e[2]} \subseteq Range(nodes)
    /\ \E order \in Permutations(DOMAIN nodes) : \A i, j \in DOMAIN nodes :
         <<nodes[i], nodes[j]>> \in edges => order[i] < order[j]

(* The graph of the tasks that have an id.                                 *)
Graph(p) ==
    LET ids == [i \in DOMAIN p.tasks |-> p.tasks[i].id]
    IN  GraphBuilds(SelectSeq(ids, LAMBDA id : id # ""), EdgeSet(p))

-----------------------------------------------------------------------------
(* Programs that a task of the pipeline makes *)

(* produced_by: of several producers of a file the last one is kept.       *)
ProducedBy(p) ==
    FoldLeft(LAMBDA map, task :
               [l \in Locations(p.base_directory, task,
                        SelectSeq(task.outputs, LAMBDA d : d.path # NoPath)) |-> task.id]
                 @@ map,
             <<>>, p.tasks)

(* The producer need not come before the consumer.                         *)
BugProducedUpstream(p, consumer, location) ==
    LET map == ProducedBy(p) IN
    /\ location \in DOMAIN map
    /\ map[location] # consumer.id

(* produced_upstream, which is lenient if there is no graph.               *)
ProducedUpstream(p, consumer, location) ==
    LET map == ProducedBy(p) IN
    /\ location \in DOMAIN map
    /\ map[location] # consumer.id
    /\ Graph(p) => consumer.id \in Dependents(p, map[location])

(* A bare name is never a pipeline output.                                 *)
ProgramFound(p, task, machine) ==
    LET dir == ResolveWorkingDir(p.base_directory, task) IN
    \/ Runnable(task.program, dir, machine.path, machine.files)
    \/ HasSlash(task.program)
         /\ ProducedUpstream(p, task, ResolveAgainst(dir, task.program))

ScriptFound(p, task, machine) ==
    LET script == ResolveAgainst(ResolveWorkingDir(p.base_directory, task), task.script)
    IN  script \in machine.files \/ ProducedUpstream(p, task, script)

-----------------------------------------------------------------------------
(* The issues *)

PipelineErrors(p) ==
    UNION {{<<"", "name">> : s \in {p.name} \cap {""}},
           {<<"", "id">> : s \in Ids(p) \cap {""}},
           {<<id, "id">> : id \in {i \in Ids(p) \ {""} :
               Len(SelectSeq(p.tasks, LAMBDA task : task.id = i)) > 1}},
           IF Graph(p) THEN {} ELSE {<<"", "dependencies">>}}

(* The fields of a task that are wrong in themselves.                      *)
FieldErrors(task) ==
    {f \in {"script", "program", "max_retries", "backoff_multiplier", "cpu_cores",
            "resources", "timeout_ms", "inputs", "outputs"} :
       CASE f = "script"  -> task.type = "python" /\ task.script = NoPath
         [] f = "program" -> task.program = NoPath
         [] f = "max_retries" -> task.retry.max_retries < 0
         [] f = "backoff_multiplier" -> task.retry.backoff_multiplier < 0
         [] f = "cpu_cores"  -> task.resources.cpu_cores < 1
         [] f = "resources"  -> task.resources.memory_mb < 0
                                  \/ task.resources.gpu_count < 0
         [] f = "timeout_ms" -> \E ms \in Range(task.timeout) : ms <= 0
         [] OTHER -> \E decl \in Range(task[f]) : decl.path = NoPath}

(* The fields of a task that ask for something which is not there.         *)
MachineErrors(p, task, machine, capacity) ==
    LET dir == ResolveWorkingDir(p.base_directory, task) IN
    {f \in {"working_directory", "program", "script", "resources"} :
       CASE f = "working_directory" -> task.working_directory # NoPath
                                         /\ dir \notin machine.dirs
         [] f = "program" -> task.program # NoPath /\ ~ProgramFound(p, task, machine)
         [] f = "script"  -> task.type = "python" /\ task.script # NoPath
                               /\ ~ScriptFound(p, task, machine)
         [] f = "resources" -> ~FitsWithin(task.resources, capacity)}

(* check_root_inputs_exist, which only `validate --strict' asks for.       *)
RootInputErrors(p, task, machine) ==
    IF task.id \in {e[2] : e \in EdgeSet(p)} THEN {}
    ELSE {<<task.id, "inputs">> :
            l \in Locations(p.base_directory, task, task.inputs)
                    \ (machine.files \cup machine.dirs)}

(* Whether a task ever fits is not asked.                                  *)
BugErrors(p, machine, capacity, strict) ==
    PipelineErrors(p) \cup UNION {
        {<<task.id, f>> : f \in FieldErrors(task)
            \cup (MachineErrors(p, task, machine, capacity) \ {"resources"})}
          \cup (IF strict THEN RootInputErrors(p, task, machine) ELSE {}) :
        task \in {t \in Range(p.tasks) : t.id # ""}}

Errors(p, machine, capacity, strict) ==
    PipelineErrors(p) \cup UNION {
        {<<task.id, f>> : f \in FieldErrors(task)
            \cup MachineErrors(p, task, machine, capacity)}
          \cup (IF strict THEN RootInputErrors(p, task, machine) ELSE {}) :
        task \in {t \in Range(p.tasks) : t.id # ""}}

(* Artifacts of a task with the same name; they fail `validate --strict'.  *)
Warnings(p) ==
    LET twice(decls) == \E i, j \in DOMAIN decls :
                          i < j /\ decls[i].name = decls[j].name /\ decls[i].name # ""
    IN  {w \in (Ids(p) \ {""}) \X {"inputs", "outputs"} :
           \E task \in Range(p.tasks) : task.id = w[1] /\ twice(task[w[2]])}
=============================================================================

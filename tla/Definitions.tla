---------------------------- MODULE Definitions -----------------------------
(***************************************************************************)
(* What a pipeline is made of (include/flowforge/domain): requirements,    *)
(* retry policies, tasks, and the values derived from a task when it is    *)
(* validated and started: its directories and files (artifact_manager.cpp),*)
(* its command (task_definition.cpp) and its environment (process_spec.cpp)*)
(*                                                                         *)
(* A path is its components and whether it begins with a slash; a location *)
(* is the components of an absolute, normal path.  Other strings are       *)
(* atoms.  An optional value is a sequence of at most one element.         *)
(***************************************************************************)
EXTENDS Integers, Sequences, SequencesExt

CONSTANTS
    IntBits,          \* the width of an int (32)
    DefaultMaxDelay   \* RetryPolicy::max_delay if nothing is stated (5 min)

ASSUME DefinitionsAssumption ==
    /\ IntBits \in Nat \ {0} /\ 2 ^ (IntBits - 1) \in Nat \ {0}
    /\ DefaultMaxDelay \in Nat

(* static_cast<int> of a 64 bit integer.                                   *)
Narrow(n) == LET half == 2 ^ (IntBits - 1) IN ((n + half) % (2 * half)) - half

OrElse(optional, default) == IF optional = <<>> THEN default ELSE optional[1]

-----------------------------------------------------------------------------
(* Paths *)

Rel(parts) == [abs |-> FALSE, parts |-> parts]
Abs(parts) == [abs |-> TRUE, parts |-> parts]
NoPath == Rel(<<>>)

HasSlash(path) == path.abs \/ Len(path.parts) > 1

(* The part after the last slash.                                          *)
Basename(path) == IF path.parts = <<>> THEN "" ELSE Last(path.parts)

(* resolve_against, with lexically_normal.                                 *)
ResolveAgainst(dir, path) ==
    SelectSeq(IF path.abs THEN path.parts ELSE dir \o path.parts,
              LAMBDA part : part # ".")

ResolveWorkingDir(base, task) == ResolveAgainst(base, task.working_directory)

ResolveArtifactPath(base, task, decl) ==
    ResolveAgainst(ResolveWorkingDir(base, task), decl.path)

(* The locations of a list of declarations of a task.                      *)
Locations(base, task, decls) ==
    {ResolveArtifactPath(base, task, decl) : decl \in Range(decls)}

-----------------------------------------------------------------------------
(* Requirements and retries *)

NoRequirements == [cpu_cores |-> 1, memory_mb |-> 0, gpu_count |-> 0]

FitsWithin(req, pool) == \A dim \in DOMAIN pool : req[dim] <= pool[dim]

(* A multiplier is counted in halves.                                      *)
NoRetry == [max_retries |-> 0, base_delay |-> 0, backoff_multiplier |-> 2,
            max_delay |-> DefaultMaxDelay]

MaxAttempts(retry) == IF retry.max_retries < 0 THEN 1 ELSE retry.max_retries + 1

(* std::round of a quotient of naturals.                                   *)
Rounded(num, den) == (2 * num + den) \div (2 * den)

(* The growth begins one attempt too late.                                 *)
BugDelayBefore(retry, next_attempt) ==
    IF next_attempt <= 1 \/ retry.base_delay <= 0 THEN 0
    ELSE LET exponent == next_attempt - 3
             grows == retry.backoff_multiplier > 2 /\ exponent > 0
             millis == IF grows
                       THEN Rounded(retry.base_delay
                                      * retry.backoff_multiplier ^ exponent,
                                    2 ^ exponent)
                       ELSE retry.base_delay
         IN  Min({retry.max_delay, millis})

(* RetryPolicy::delay_before.  A factor below one counts as one.           *)
DelayBefore(retry, next_attempt) ==
    IF next_attempt <= 1 \/ retry.base_delay <= 0 THEN 0
    ELSE LET exponent == next_attempt - 2
             grows == retry.backoff_multiplier > 2 /\ exponent > 0
             millis == IF grows
                       THEN Rounded(retry.base_delay
                                      * retry.backoff_multiplier ^ exponent,
                                    2 ^ exponent)
                       ELSE retry.base_delay
         IN  Min({retry.max_delay, millis})

-----------------------------------------------------------------------------
(* Tasks *)

(* PipelineDefinition::find_task.                                          *)
FindTask(pipeline, id) ==
    SelectSeq(pipeline.tasks, LAMBDA task : task.id = id)[1]

(* TaskDefinition::resolve_command, the arguments being strings or paths.  *)
ResolveCommand(task) ==
    [program |-> task.program,
     script  |-> IF task.type = "python" /\ task.script # NoPath
                 THEN <<task.script>> ELSE <<>>,
     arguments |-> task.arguments]

(* Names of variables that are skipped: "=" stands for those that contain  *)
(* that character.                                                         *)
MalformedNames == {"", "="}

(* build_environment_block: the entries of the task replace inherited ones.*)
BuildEnvironment(overrides, inherited) ==
    [k \in DOMAIN overrides \ MalformedNames |-> overrides[k]] @@ inherited

(* A program is looked up as execvp does: a path with a slash in the       *)
(* directory dir, a bare name in the directories of search.                *)
Runnable(program, dir, search, files) ==
    IF HasSlash(program) THEN ResolveAgainst(dir, program) \in files
    ELSE \E d \in Range(search) : d \o program.parts \in files

(* execvp succeeds in the child of a task, which has changed to its        *)
(* directory and replaced its environment: handle_launch.                  *)
Spawns(base, task, machine) ==
    LET dir == ResolveWorkingDir(base, task)
        env == BuildEnvironment(task.environment, [PATH |-> machine.path])
    IN  dir \in machine.dirs
          /\ Runnable(ResolveCommand(task).program, dir, env["PATH"], machine.files)

(* The interpreter, if there is one, finds the script too.                 *)
Starts(base, task, machine) ==
    /\ Spawns(base, task, machine)
    /\ \A script \in Range(ResolveCommand(task).script) :
          ResolveAgainst(ResolveWorkingDir(base, task), script) \in machine.files
=============================================================================

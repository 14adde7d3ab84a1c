------------------------------ MODULE Command -------------------------------
(***************************************************************************)
(* The commands of the program that read a pipeline document (src/cli/     *)
(* cli_app.cpp): init, validate, graph and run, one after the other in one *)
(* working directory.  `run' composes what the other modules have: the     *)
(* words of the command line and the settings (Settings), the document     *)
(* (Document), the validation (Validation), and the run itself             *)
(* (LaunchPhase), of which run_pipeline (engine.cpp) is the frame.         *)
(*                                                                         *)
(* The other commands (runs, status, logs, cancel, clean-cache) read no    *)
(* pipeline; they are in modules Engine and Cache and are not typed here.  *)
(*                                                                         *)
(* A session is what surrounds the commands: the documents, configuration  *)
(* files, environment and machine, and the commands that are typed.        *)
(***************************************************************************)
EXTENDS LaunchPhase, Settings

CONSTANTS
    Sessions,      \* names of sessions
    SessionOf(_),  \* and what they stand for
    Base           \* the location of the working directory

(* Numbers are numbers in a file, and what is true or false is.            *)
HonestFields(o) ==
    \A key \in DOMAIN o : /\ o[key].t = "int" => o[key].v \in Int
                          /\ o[key].t = "bool" => o[key].v \in BOOLEAN

HonestConfig(json) ==
    json.t = "obj" => HonestFields(json.v) /\ HonestFields(AsObject(json.v, "resources"))

ASSUME CommandAssumption ==
    \A s \in Sessions :
      /\ Base \in SessionOf(s).machine.dirs
      /\ \A path \in DOMAIN SessionOf(s).configs : HonestConfig(SessionOf(s).configs[path])

VARIABLES
    session,     \* [documents, configs, environ, machine, commands]
    at,          \* "main", "loaded", "running", or "end" after the last command
    loaded,      \* the pipeline that was read, if any
    configs,     \* the configuration files
    documents,   \* the pipeline files
    exits        \* the exit codes of the commands that have ended

vars == <<launchVars, session, at, loaded, configs, documents, exits>>

-----------------------------------------------------------------------------
(* The command that is being executed *)

Environ == session.environ

Typed == session.commands[Len(exits) + 1]

CmdArgs == ParseArgs(Typed.words)

TakesPipeline == {"run", "validate", "graph"}

(* load_pipeline_from_file: a file that is not there is an error too.      *)
FileContent ==
    LET path == OrElse(Positional(CmdArgs), "") IN
    IF path \in DOMAIN documents THEN documents[path] ELSE Discarded

(* Every command reads the settings anew.                                  *)
CmdConfig == ResolveConfig(configs, Environ, CmdArgs)

Pipeline == loaded[1]

(* The machine, with what the tasks have left on disk.                     *)
Machine == [session.machine EXCEPT !.files = files]

-----------------------------------------------------------------------------
Init ==
    /\ \E s \in Sessions : session = SessionOf(s)
    /\ at = "main" /\ loaded = <<>> /\ exits = <<>>
    /\ configs = session.configs
    /\ documents = session.documents
    /\ files = session.machine.files
    /\ run = <<>> /\ state = <<>> /\ ready = <<>> /\ scan = 1 /\ used = <<>>
    /\ attempts = <<>> /\ retry_not_before = <<>> /\ clock = 0 /\ pc = "over"

(* The command returns; the next one, if any, finds what it has left.      *)
Exit(code) ==
    /\ exits' = Append(exits, code)
    /\ at' = IF Len(exits') = Len(session.commands) THEN "end" ELSE "main"
    /\ loaded' = <<>>
    /\ UNCHANGED session

Stay == UNCHANGED <<session, configs, documents>>

(* main, fail_usage: a command nobody knows, or no pipeline file.          *)
Usage ==
    /\ at = "main"
    /\ \/ Typed.name \notin TakesPipeline \cup {"init"}
       \/ Typed.name \in TakesPipeline /\ Positional(CmdArgs) = <<>>
    /\ Exit(2)
    /\ UNCHANGED <<launchVars, configs, documents>>

(* cmd_init writes what is not there yet.                                  *)
InitConfig ==
    Obj([max_concurrency |-> Whole(4), python_interpreter |-> Str("python3"),
         cache_enabled |-> Bool(TRUE), compute_checksums |-> Bool(FALSE)])

SamplePipeline ==
    Obj([schema_version |-> Whole(1), name |-> Str("sample"),
         tasks |-> Arr(<<Obj([id |-> Str("hello"), type |-> Str("executable"),
                              executable |-> Str(Abs(<<"bin", "echo">>)),
                              arguments |-> StringsToJson(<<"hello", "from", "flowforge">>)])>>),
         dependencies |-> Arr(<<>>)])

WrittenIfAbsent(map, path, document) ==
    [p \in DOMAIN map \cup {path} |-> IF p \in DOMAIN map THEN map[p] ELSE document]

CmdInit ==
    /\ at = "main" /\ Typed.name = "init"
    /\ configs' = WrittenIfAbsent(configs, <<CmdConfig.state_dir, "config.json">>,
                                  InitConfig)
    /\ documents' = WrittenIfAbsent(documents, "pipeline.json", SamplePipeline)
    /\ Exit(0)
    /\ UNCHANGED launchVars

(* load_pipeline_or_report.                                                *)
LoadPipeline ==
    /\ at = "main" /\ Typed.name \in TakesPipeline /\ Positional(CmdArgs) # <<>>
    /\ LoadErrors(FileContent) = {}
    /\ loaded' = Load(FileContent, Base)
    /\ at' = "loaded"
    /\ UNCHANGED <<launchVars, exits>> /\ Stay

LoadRejects ==
    /\ at = "main" /\ Typed.name \in TakesPipeline /\ Positional(CmdArgs) # <<>>
    /\ LoadErrors(FileContent) # {}
    /\ Exit(1)
    /\ UNCHANGED <<launchVars, configs, documents>>

(* cmd_validate: with --strict a warning is an error.                      *)
CmdValidate ==
    LET strict == Flag(CmdArgs, "strict")
        valid == Errors(Pipeline, Machine, CmdConfig.resource_capacity, strict) = {}
    IN
    /\ at = "loaded" /\ Typed.name = "validate"
    /\ Exit(IF valid /\ ~(strict /\ Warnings(Pipeline) # {}) THEN 0 ELSE 1)
    /\ UNCHANGED <<launchVars, configs, documents>>

CmdGraph ==
    /\ at = "loaded" /\ Typed.name = "graph"
    /\ Exit(IF GraphBuilds([i \in DOMAIN Pipeline.tasks |-> Pipeline.tasks[i].id],
                           EdgeSet(Pipeline)) THEN 0 ELSE 1)
    /\ UNCHANGED <<launchVars, configs, documents>>

(* cmd_run and run_pipeline: the pipeline is not valid.                    *)
RunRejects ==
    /\ at = "loaded" /\ Typed.name = "run"
    /\ Errors(Pipeline, Machine, CmdConfig.resource_capacity, FALSE) # {}
    /\ Exit(1)
    /\ UNCHANGED <<launchVars, configs, documents>>

(* It is: the scheduler is set up and runs.                                *)
RunBegins(spread) ==
    /\ at = "loaded" /\ Typed.name = "run"
    /\ Errors(Pipeline, Machine, CmdConfig.resource_capacity, FALSE) = {}
    /\ Seed([pipeline |-> Pipeline, config |-> CmdConfig, machine |-> Machine,
             slots |-> Slots(CmdConfig, CmdArgs, Pipeline),
             cache |-> CacheEnabled(CmdConfig, CmdArgs),
             checksums |-> Checksums(CmdConfig, CmdArgs),
             database |-> DatabasePath(CmdConfig)], spread)
    /\ at' = "running"
    /\ UNCHANGED <<loaded, exits>> /\ Stay

Step ==
    /\ at = "running" /\ LaunchNext
    /\ UNCHANGED <<at, loaded, exits>> /\ Stay

(* The verdict of Scheduler::run is the exit code.                         *)
RunEnds ==
    /\ at = "running" /\ pc = "over"
    /\ Exit(IF "FAILED" \in Range(state) THEN 1 ELSE 0)
    /\ UNCHANGED <<launchVars, configs, documents>>

(* The user has no more commands.                                          *)
End == at = "end" /\ UNCHANGED vars

Next ==
    \/ Usage \/ CmdInit \/ LoadPipeline \/ LoadRejects \/ CmdValidate \/ CmdGraph
    \/ RunRejects \/ (\E spread \in BOOLEAN : RunBegins(spread)) \/ Step \/ RunEnds
    \/ End

Spec == Init /\ [][Next]_vars

-----------------------------------------------------------------------------
(* Properties *)

(* Tasks start in the order of the policy: whatever leaves the queue in a  *)
(* scan was preferred to every other entry that fits (launch_phase, and    *)
(* the comment of scheduling_policy.hpp); and the scan ends with a free    *)
(* slot only if nothing that is left fits.                                 *)
LaunchOrder ==
    [][pc = "scan" =>
         /\ \A i, j \in DOMAIN ready :
              (state'[ready[j].id] # "READY" /\ Prefer(ready[i], ready[j])
                 /\ ~ScanOver)
                => ~Fits(ready[i].id)
         /\ (pc' # "scan" /\ SlotFree) => \A i \in DOMAIN ready : ~Fits(ready[i].id)]_vars

(* "Only reachable if validation against the resource pool was skipped"    *)
(* (scheduler.cpp:226): the safety net never fails a task of a pipeline    *)
(* that was validated.                                                     *)
SafetyNetUnreachable == (at = "running" /\ ScanOver) => Stuck = {}

(* What the cache vouches for without having looked: the outputs of the    *)
(* tasks upstream that are CACHED.                                         *)
Vouched(id) ==
    UNION {Outputs(u) : u \in {u \in DOMAIN state :
             state[u] = "CACHED" /\ id \in Dependents(run.pipeline, u)}}

(* What was accepted can be started: the program and the script of every   *)
(* running task are there, made by an earlier task if not by the user,     *)
(* unless that task is CACHED (check_executable, verify_outputs).  Outputs *)
(* must be verified, and the task must not bring a PATH of its own.        *)
AcceptedStarts ==
    (at = "running" /\ run.config.verify_outputs) =>
      \A id \in Running :
        "PATH" \notin DOMAIN TaskOf(id).environment =>
          Starts(run.pipeline.base_directory, TaskOf(id),
                 [run.machine EXCEPT !.files = files \cup Vouched(id)])

(* An attempt follows the one before it at the distance that retry_policy. *)
(* hpp gives, base * multiplier^(n-1) and at most max_delay, up to         *)
(* rounding; a multiplier below one counts as one.  There are at most      *)
(* max_retries + 1 of them.                                                *)
Backoff(retry, waited, n) ==
    LET factor == Max({2, retry.backoff_multiplier}) IN
    \/ waited >= retry.max_delay
    \/ 2 * waited * 2 ^ (n - 1) >= 2 * retry.base_delay * factor ^ (n - 1) - 2 ^ (n - 1)

RetriesBackOff ==
    at = "running" => \A id \in DOMAIN attempts :
      /\ Len(attempts[id]) <= MaxAttempts(TaskOf(id).retry)
      /\ \A n \in 1 .. Len(attempts[id]) - 1 :
           Backoff(TaskOf(id).retry,
                   attempts[id][n + 1].started - attempts[id][n].finished, n)

(* When the loop of a run ends, every task of the accepted pipeline has    *)
(* come to an end: nothing is lost in the queue, left behind a cycle or    *)
(* forgotten in a backoff (run stops as soon as all_settled, which looks   *)
(* at the queue and not at the tasks).                                     *)
AcceptedEnds ==
    (at = "running" /\ pc = "over") => \A id \in DOMAIN state : state[id] \in Terminal

(* dump_pipeline writes all that was read: the document of a run, which is *)
(* stored with it, gives the same pipeline again.  A negative              *)
(* max_concurrency is exempt: it is not written, and comes back as zero,   *)
(* which means the same to a run.                                          *)
RoundTrip ==
    at = "loaded" => Load(Dump(Pipeline), Base)
                       = <<[Pipeline EXCEPT !.max_concurrency = Max({0, @})]>>

(* Each setting of a run has the value of the first of its layers that     *)
(* says something: the command line, the pipeline, the environment, the    *)
(* file, the built-in value (config.hpp:14).  A database without a name is *)
(* the one of the state directory.                                         *)
FirstOf(layers) == layers[Min({i \in DOMAIN layers : layers[i] # <<>>})][1]

SettingsLayered ==
    at = "running" =>
      LET doc == ConfigFile(configs, Value(CmdArgs, "config"))
          file == IF doc.t = "obj" THEN doc.v ELSE <<>>
          narrowed(s) == IF s = <<>> THEN <<>> ELSE <<Narrow(s[1])>>
          only(given, value) == IF given THEN <<value>> ELSE <<>>
          database == FirstOf(<<Value(CmdArgs, "db"), Env(Environ, "FLOWFORGE_DB"),
                                AsString(file, "database_path"), <<"">>>>)
      IN
      /\ run.slots = AtLeastOne(FirstOf(<<
             narrowed(IntValue(CmdArgs, "max-concurrency")),
             only(Pipeline.max_concurrency > 0, Pipeline.max_concurrency),
             EnvInt(Environ, "FLOWFORGE_MAX_CONCURRENCY"),
             narrowed(AsInt(file, "max_concurrency")),
             <<DefaultConfig.max_concurrency>>>>))
      /\ run.config.resource_capacity.cpu_cores = AtLeastOne(FirstOf(<<
             EnvInt(Environ, "FLOWFORGE_CPU_CORES"),
             narrowed(AsInt(AsObject(file, "resources"), "cpu_cores")), <<Cpus>>>>))
      /\ run.config.state_dir = FirstOf(<<Value(CmdArgs, "state-dir"),
             Env(Environ, "FLOWFORGE_STATE_DIR"), AsString(file, "state_dir"),
             <<DefaultConfig.state_dir>>>>)
      /\ run.cache = FirstOf(<<only(Flag(CmdArgs, "no-cache"), FALSE),
             EnvBool(Environ, "FLOWFORGE_CACHE"), AsBool(file, "cache_enabled"),
             <<TRUE>>>>)
      /\ run.checksums = FirstOf(<<only(Flag(CmdArgs, "checksums"), TRUE),
             EnvBool(Environ, "FLOWFORGE_CHECKSUMS"),
             AsBool(file, "compute_checksums"), <<FALSE>>>>)
      /\ run.database = IF database # "" THEN <<database>>
                        ELSE <<run.config.state_dir, "flowforge.sqlite">>
=============================================================================

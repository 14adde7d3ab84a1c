------------------------------ MODULE Settings ------------------------------
(***************************************************************************)
(* Where the settings of a command come from: the words of the command     *)
(* line (src/cli/args.cpp), the environment and the configuration file     *)
(* (src/core/engine/config.cpp), and how a run chooses between them        *)
(* (cli_app.cpp, engine.cpp, scheduler.cpp).                               *)
(*                                                                         *)
(* A word is a record: "plain", an option without a value, or an option    *)
(* with "=".  Strings are atoms; what strtol and stoi make of them is a    *)
(* table, and they are in lower case.                                      *)
(***************************************************************************)
EXTENDS Document

CONSTANTS
    LongOf,      \* strtol of the strings that are a number to the last letter
    IntOf,       \* stoi of the strings that begin with a number that fits
    Cpus,        \* hardware_concurrency
    NoLimit      \* the nominal memory (1 TiB)

ASSUME SettingsAssumption ==
    /\ \A s \in DOMAIN LongOf : LongOf[s] \in Int
    /\ \A s \in DOMAIN IntOf : IntOf[s] \in Int
    /\ Cpus \in Nat \ {0} /\ NoLimit \in Nat

-----------------------------------------------------------------------------
(* Args *)

Plain(s) == [kind |-> "plain", name |-> s, value |-> ""]
Opt(name) == [kind |-> "opt", name |-> name, value |-> "true"]
OptEq(name, value) == [kind |-> "eq", name |-> name, value |-> value]

NoArgs == [positionals |-> <<>>, options |-> <<>>]

(* Args::Args.  The word after an option without "=" is its value, unless  *)
(* it is an option itself: a flag swallows the file name that follows it.  *)
ParseArgs(words) ==
    LET swallowed(i) == i > 1 /\ words[i].kind = "plain" /\ words[i - 1].kind = "opt"
        value(i) == IF i < Len(words) /\ swallowed(i + 1)
                    THEN words[i + 1].name ELSE words[i].value
    IN  FoldLeftDomain(LAMBDA args, i :
            IF words[i].kind # "plain"
            THEN [args EXCEPT !.options = (words[i].name :> value(i)) @@ @]
            ELSE IF swallowed(i) THEN args
            ELSE [args EXCEPT !.positionals = Append(@, words[i].name)],
          NoArgs, words)

Positional(args) == IF args.positionals = <<>> THEN <<>> ELSE <<args.positionals[1]>>

Value(args, name) ==
    IF name \in DOMAIN args.options THEN <<args.options[name]>> ELSE <<>>

Flag(args, name) == Range(Value(args, name)) \cap {"true", "1", "yes"} # {}

(* An optional string, read with a table; what is not in it is none.       *)
Read(optional, table) ==
    IF optional # <<>> /\ optional[1] \in DOMAIN table THEN <<table[optional[1]]>>
    ELSE <<>>

IntValue(args, name) == Read(Value(args, name), LongOf)

-----------------------------------------------------------------------------
(* Config *)

(* env, env_int, env_bool: an empty variable is none.                      *)
Env(environ, name) ==
    IF name \in DOMAIN environ /\ environ[name] # "" THEN <<environ[name]>> ELSE <<>>

EnvInt(environ, name) == Read(Env(environ, name), IntOf)

EnvBool(environ, name) ==
    LET yes == {"1", "true", "yes", "on"}
        no  == {"0", "false", "no", "off"}
    IN  Read(Env(environ, name), [s \in yes \cup no |-> s \in yes])

(* Config::defaults.                                                       *)
DefaultConfig ==
    [state_dir |-> ".flowforge", max_concurrency |-> Min({Cpus, 8}),
     python_interpreter |-> "python3", database_path |-> "",
     cache_enabled |-> TRUE, compute_checksums |-> FALSE, verify_outputs |-> TRUE,
     log_level |-> "info",
     resource_capacity |->
         [cpu_cores |-> Cpus, memory_mb |-> NoLimit, gpu_count |-> 0]]

(* apply_json: what is mistyped is passed over without a word.             *)
ApplyJson(cfg, json) ==
    IF json.t # "obj" THEN cfg ELSE
    LET doc == json.v
        r == AsObject(doc, "resources")
        cap == cfg.resource_capacity
    IN
    [state_dir       |-> OrElse(AsString(doc, "state_dir"), cfg.state_dir),
     max_concurrency |-> NarrowOr(AsInt(doc, "max_concurrency"), cfg.max_concurrency),
     python_interpreter |-> OrElse(AsString(doc, "python_interpreter"),
                                   cfg.python_interpreter),
     database_path   |-> OrElse(AsString(doc, "database_path"), cfg.database_path),
     cache_enabled   |-> OrElse(AsBool(doc, "cache_enabled"), cfg.cache_enabled),
     compute_checksums |-> OrElse(AsBool(doc, "compute_checksums"),
                                  cfg.compute_checksums),
     verify_outputs  |-> OrElse(AsBool(doc, "verify_outputs"), cfg.verify_outputs),
     log_level       |-> OrElse(AsString(doc, "log_level"), cfg.log_level),
     resource_capacity |->
         [cpu_cores |-> NarrowOr(AsInt(r, "cpu_cores"), cap.cpu_cores),
          memory_mb |-> OrElse(AsInt(r, "memory_mb"), cap.memory_mb),
          gpu_count |-> NarrowOr(AsInt(r, "gpu_count"), cap.gpu_count)]]

ApplyEnvironment(cfg, environ) ==
    [cfg EXCEPT
       !.state_dir = OrElse(Env(environ, "FLOWFORGE_STATE_DIR"), @),
       !.max_concurrency = OrElse(EnvInt(environ, "FLOWFORGE_MAX_CONCURRENCY"), @),
       !.python_interpreter = OrElse(Env(environ, "FLOWFORGE_PYTHON"), @),
       !.database_path = OrElse(Env(environ, "FLOWFORGE_DB"), @),
       !.cache_enabled = OrElse(EnvBool(environ, "FLOWFORGE_CACHE"), @),
       !.compute_checksums = OrElse(EnvBool(environ, "FLOWFORGE_CHECKSUMS"), @),
       !.log_level = OrElse(Env(environ, "FLOWFORGE_LOG_LEVEL"), @),
       !.resource_capacity.cpu_cores = OrElse(EnvInt(environ, "FLOWFORGE_CPU_CORES"), @)]

AtLeastOne(n) == Max({n, 1})

(* The first of the candidates that can be opened, whatever it holds; the  *)
(* state directory is the default one.  configs maps paths to documents.   *)
ConfigFile(configs, explicit) ==
    LET candidates ==
            IF explicit # <<>> THEN <<explicit>>
            ELSE <<<<DefaultConfig.state_dir, "config.json">>, <<"flowforge.json">>>>
        found == {i \in DOMAIN candidates : candidates[i] \in DOMAIN configs}
    IN  IF found = {} THEN Discarded ELSE configs[candidates[Min(found)]]

(* The file is applied last and wins over the environment.                 *)
BugLoadConfig(configs, environ, explicit) ==
    LET cfg == ApplyJson(ApplyEnvironment(DefaultConfig, environ),
                         ConfigFile(configs, explicit))
    IN  [cfg EXCEPT !.max_concurrency = AtLeastOne(@),
                    !.resource_capacity.cpu_cores = AtLeastOne(@)]

(* Config::load.                                                           *)
LoadConfig(configs, environ, explicit) ==
    LET cfg == ApplyEnvironment(ApplyJson(DefaultConfig, ConfigFile(configs, explicit)),
                                environ)
    IN  [cfg EXCEPT !.max_concurrency = AtLeastOne(@),
                    !.resource_capacity.cpu_cores = AtLeastOne(@)]

(* resolve_config.                                                         *)
ResolveConfig(configs, environ, args) ==
    LET cfg == LoadConfig(configs, environ, Value(args, "config"))
    IN  [cfg EXCEPT !.state_dir = OrElse(Value(args, "state-dir"), @),
                    !.database_path = OrElse(Value(args, "db"), @)]

(* resolved_database_path.                                                 *)
DatabasePath(cfg) ==
    IF cfg.database_path # "" THEN <<cfg.database_path>>
    ELSE <<cfg.state_dir, "flowforge.sqlite">>

-----------------------------------------------------------------------------
(* What a run makes of them: cmd_run, Engine::run_pipeline, Scheduler *)

Slots(cfg, args, pipeline) ==
    LET request == IntValue(args, "max-concurrency") IN
    AtLeastOne(CASE request # <<>> -> Narrow(request[1])
                 [] request = <<>> /\ pipeline.max_concurrency > 0
                      -> pipeline.max_concurrency
                 [] OTHER -> cfg.max_concurrency)

CacheEnabled(cfg, args) == cfg.cache_enabled /\ ~Flag(args, "no-cache")

Checksums(cfg, args) == cfg.compute_checksums \/ Flag(args, "checksums")
=============================================================================

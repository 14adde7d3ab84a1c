--------------------------- MODULE CommandProofs ----------------------------
(***************************************************************************)
(* Proofs about the settings of a run, for every command line, pipeline,   *)
(* environment and configuration file.                                     *)
(***************************************************************************)
EXTENDS Command, TLAPS

-----------------------------------------------------------------------------
(* Layers *)

(* Layer k is the first that says something.                               *)
Speaks(l, k) ==
    /\ DOMAIN l \subseteq Int /\ k \in DOMAIN l /\ l[k] # <<>>
    /\ \A j \in DOMAIN l : j < k => l[j] = <<>>

(* It is the one that FirstOf chooses.                                     *)
LEMMA FirstOfIs ==
    ASSUME NEW l, NEW k, Speaks(l, k) PROVE FirstOf(l) = l[k][1]
  <1> DEFINE S == {i \in DOMAIN l : l[i] # <<>>}
  <1>1. k \in S /\ k \in Int /\ \A j \in S : j \in Int
    BY DEF Speaks
  <1>2. \A j \in S : ~(j < k)
    BY DEF Speaks
  <1> HIDE DEF S
  <1>3. ASSUME NEW j \in S PROVE k <= j
    <2>1. j \in Int /\ k \in Int /\ ~(j < k)
      BY <1>1, <1>2
    <2> QED BY <2>1
  <1>4. Min(S) \in S /\ \A j \in S : Min(S) <= j
    BY <1>1, <1>3, Zenon DEF Min
  <1>5. Min(S) = k
    <2>1. Min(S) <= k /\ k <= Min(S) /\ Min(S) \in Int /\ k \in Int
      BY <1>1, <1>3, <1>4
    <2> QED BY <2>1
  <1> QED BY <1>5 DEF FirstOf, S

(* One layer after the other, for as many layers as a setting has.         *)
LEMMA FirstOfThree ==
    ASSUME NEW a, NEW b, NEW c
    PROVE  FirstOf(<<a, b, <<c>>>>) = OrElse(a, OrElse(b, c))
  <1> DEFINE l == <<a, b, <<c>>>>
  <1>1. /\ DOMAIN l = 1 .. 3
        /\ l[1] = a /\ l[2] = b /\ l[3] = <<c>> /\ l[3] # <<>> /\ l[3][1] = c
    OBVIOUS
  <1> HIDE DEF l
  <1>2. CASE a # <<>>
    <2>1. Speaks(l, 1)
      BY <1>1, <1>2 DEF Speaks
    <2>2. FirstOf(l) = l[1][1]
      BY <2>1, FirstOfIs
    <2> QED BY <1>1, <1>2, <2>2 DEF OrElse, l
  <1>3. CASE a = <<>> /\ b # <<>>
    <2>1. Speaks(l, 2)
      BY <1>1, <1>3 DEF Speaks
    <2>2. FirstOf(l) = l[2][1]
      BY <2>1, FirstOfIs
    <2> QED BY <1>1, <1>3, <2>2 DEF OrElse, l
  <1>4. CASE a = <<>> /\ b = <<>>
    <2>1. Speaks(l, 3)
      BY <1>1, <1>4 DEF Speaks
    <2>2. FirstOf(l) = l[3][1]
      BY <2>1, FirstOfIs
    <2> QED BY <1>1, <1>4, <2>2 DEF OrElse, l
  <1> QED BY <1>2, <1>3, <1>4

(* The same for four layers...                                             *)
LEMMA FirstOfFour ==
    ASSUME NEW a, NEW b, NEW c, NEW d
    PROVE  FirstOf(<<a, b, c, <<d>>>>) = OrElse(a, OrElse(b, OrElse(c, d)))
  <1> DEFINE l == <<a, b, c, <<d>>>>
  <1>1. /\ DOMAIN l = 1 .. 4
        /\ l[1] = a /\ l[2] = b /\ l[3] = c /\ l[4] = <<d>> /\ l[4] # <<>> /\ l[4][1] = d
    OBVIOUS
  <1> HIDE DEF l
  <1>2. CASE a # <<>>
    <2>1. Speaks(l, 1)
      BY <1>1, <1>2 DEF Speaks
    <2>2. FirstOf(l) = l[1][1]
      BY <2>1, FirstOfIs
    <2> QED BY <1>1, <1>2, <2>2 DEF OrElse, l
  <1>3. CASE a = <<>> /\ b # <<>>
    <2>1. Speaks(l, 2)
      BY <1>1, <1>3 DEF Speaks
    <2>2. FirstOf(l) = l[2][1]
      BY <2>1, FirstOfIs
    <2> QED BY <1>1, <1>3, <2>2 DEF OrElse, l
  <1>4. CASE a = <<>> /\ b = <<>> /\ c # <<>>
    <2>1. Speaks(l, 3)
      BY <1>1, <1>4 DEF Speaks
    <2>2. FirstOf(l) = l[3][1]
      BY <2>1, FirstOfIs
    <2> QED BY <1>1, <1>4, <2>2 DEF OrElse, l
  <1>5. CASE a = <<>> /\ b = <<>> /\ c = <<>>
    <2>1. Speaks(l, 4)
      BY <1>1, <1>5 DEF Speaks
    <2>2. FirstOf(l) = l[4][1]
      BY <2>1, FirstOfIs
    <2> QED BY <1>1, <1>5, <2>2 DEF OrElse, l
  <1> QED BY <1>2, <1>3, <1>4, <1>5

(* ... and for five.                                                       *)
LEMMA FirstOfFive ==
    ASSUME NEW a, NEW b, NEW c, NEW d, NEW e
    PROVE  FirstOf(<<a, b, c, d, <<e>>>>)
             = OrElse(a, OrElse(b, OrElse(c, OrElse(d, e))))
  <1> DEFINE l == <<a, b, c, d, <<e>>>>
  <1>1. /\ DOMAIN l = 1 .. 5 /\ l[1] = a /\ l[2] = b /\ l[3] = c /\ l[4] = d
        /\ l[5] = <<e>> /\ l[5] # <<>> /\ l[5][1] = e
    OBVIOUS
  <1> HIDE DEF l
  <1>2. CASE a # <<>>
    <2>1. Speaks(l, 1)
      BY <1>1, <1>2 DEF Speaks
    <2>2. FirstOf(l) = l[1][1]
      BY <2>1, FirstOfIs
    <2> QED BY <1>1, <1>2, <2>2 DEF OrElse, l
  <1>3. CASE a = <<>> /\ b # <<>>
    <2>1. Speaks(l, 2)
      BY <1>1, <1>3 DEF Speaks
    <2>2. FirstOf(l) = l[2][1]
      BY <2>1, FirstOfIs
    <2> QED BY <1>1, <1>3, <2>2 DEF OrElse, l
  <1>4. CASE a = <<>> /\ b = <<>> /\ c # <<>>
    <2>1. Speaks(l, 3)
      BY <1>1, <1>4 DEF Speaks
    <2>2. FirstOf(l) = l[3][1]
      BY <2>1, FirstOfIs
    <2> QED BY <1>1, <1>4, <2>2 DEF OrElse, l
  <1>5. CASE a = <<>> /\ b = <<>> /\ c = <<>> /\ d # <<>>
    <2>1. Speaks(l, 4)
      BY <1>1, <1>5 DEF Speaks
    <2>2. FirstOf(l) = l[4][1]
      BY <2>1, FirstOfIs
    <2> QED BY <1>1, <1>5, <2>2 DEF OrElse, l
  <1>6. CASE a = <<>> /\ b = <<>> /\ c = <<>> /\ d = <<>>
    <2>1. Speaks(l, 5)
      BY <1>1, <1>6 DEF Speaks
    <2>2. FirstOf(l) = l[5][1]
      BY <2>1, FirstOfIs
    <2> QED BY <1>1, <1>6, <2>2 DEF OrElse, l
  <1> QED BY <1>2, <1>3, <1>4, <1>5, <1>6

-----------------------------------------------------------------------------
(* Numbers *)

(* An int is a number, whatever was narrowed.                              *)
LEMMA NarrowType == ASSUME NEW n \in Int PROVE Narrow(n) \in Int
  <1> DEFINE half == 2 ^ (IntBits - 1)
  <1>1. half \in Nat /\ half > 0
    BY DefinitionsAssumption
  <1>2. Narrow(n) = ((n + half) % (2 * half)) - half
    BY DEF Narrow
  <1> HIDE DEF half
  <1> QED BY <1>1, <1>2

(* The clamp of Config::load and the one of Scheduler are one.             *)
LEMMA AtLeastOneTwice ==
    ASSUME NEW n \in Int PROVE AtLeastOne(AtLeastOne(n)) = AtLeastOne(n)
  BY DEF AtLeastOne, Max

-----------------------------------------------------------------------------
(* Config *)

(* The fields of the settings, layer by layer: the file, the environment   *)
(* and the clamps.                                                         *)
LEMMA JsonFields ==
    ASSUME NEW json
    PROVE  LET cfg == ApplyJson(DefaultConfig, json)
               doc == IF json.t = "obj" THEN json.v ELSE <<>>
           IN  /\ cfg.state_dir = OrElse(AsString(doc, "state_dir"), ".flowforge")
               /\ cfg.max_concurrency
                    = NarrowOr(AsInt(doc, "max_concurrency"), Min({Cpus, 8}))
               /\ cfg.database_path = OrElse(AsString(doc, "database_path"), "")
               /\ cfg.cache_enabled = OrElse(AsBool(doc, "cache_enabled"), TRUE)
               /\ cfg.compute_checksums = OrElse(AsBool(doc, "compute_checksums"), FALSE)
               /\ cfg.resource_capacity.cpu_cores
                    = NarrowOr(AsInt(AsObject(doc, "resources"), "cpu_cores"), Cpus)
  <1>1. CASE json.t = "obj"
    BY <1>1 DEF ApplyJson, DefaultConfig
  <1>2. CASE json.t # "obj"
    <2>1. \A key : key \notin DOMAIN <<>>
      OBVIOUS
    <2>2. \A key, types : Field(<<>>, key, types) = <<>>
      BY <2>1 DEF Field, Given, HasKey
    <2>3. \A key : AsObject(<<>>, key) = <<>>
      BY <2>1 DEF AsObject, HasKey
    <2>4. \A v : OrElse(<<>>, v) = v /\ NarrowOr(<<>>, v) = v
      BY DEF OrElse, NarrowOr
    <2> QED BY <1>2, <2>2, <2>3, <2>4
            DEF ApplyJson, DefaultConfig, AsString, AsInt, AsBool
  <1> QED BY <1>1, <1>2

(* What the settings of a run are read from has these fields.              *)
Shaped(cfg) ==
    /\ {"state_dir", "max_concurrency", "database_path", "cache_enabled",
        "compute_checksums", "resource_capacity"} \subseteq DOMAIN cfg
    /\ "cpu_cores" \in DOMAIN cfg.resource_capacity

(* Reading a file keeps the fields.                                        *)
LEMMA JsonShaped == ASSUME NEW json PROVE Shaped(ApplyJson(DefaultConfig, json))
  <1>1. CASE json.t = "obj"
    BY <1>1 DEF ApplyJson, DefaultConfig, Shaped
  <1>2. CASE json.t # "obj"
    BY <1>2 DEF ApplyJson, DefaultConfig, Shaped
  <1> QED BY <1>1, <1>2

(* The environment over the file.                                          *)
LEMMA EnvironmentFields ==
    ASSUME NEW c, NEW environ, Shaped(c)
    PROVE  LET cfg == ApplyEnvironment(c, environ)
           IN  /\ Shaped(cfg)
               /\ cfg.state_dir = OrElse(Env(environ, "FLOWFORGE_STATE_DIR"), c.state_dir)
               /\ cfg.max_concurrency
                    = OrElse(EnvInt(environ, "FLOWFORGE_MAX_CONCURRENCY"),
                             c.max_concurrency)
               /\ cfg.database_path
                    = OrElse(Env(environ, "FLOWFORGE_DB"), c.database_path)
               /\ cfg.cache_enabled
                    = OrElse(EnvBool(environ, "FLOWFORGE_CACHE"), c.cache_enabled)
               /\ cfg.compute_checksums
                    = OrElse(EnvBool(environ, "FLOWFORGE_CHECKSUMS"),
                             c.compute_checksums)
               /\ cfg.resource_capacity.cpu_cores
                    = OrElse(EnvInt(environ, "FLOWFORGE_CPU_CORES"),
                             c.resource_capacity.cpu_cores)
  BY DEF ApplyEnvironment, Shaped

(* The settings that a command has, as its layers say.                     *)
LEMMA ConfigFields ==
    ASSUME NEW files_, NEW environ, NEW args
    PROVE  LET cfg == ResolveConfig(files_, environ, args)
               c   == ApplyJson(DefaultConfig, ConfigFile(files_, Value(args, "config")))
           IN  /\ cfg.state_dir
                    = OrElse(Value(args, "state-dir"),
                             OrElse(Env(environ, "FLOWFORGE_STATE_DIR"), c.state_dir))
               /\ cfg.max_concurrency
                    = AtLeastOne(OrElse(EnvInt(environ, "FLOWFORGE_MAX_CONCURRENCY"),
                                        c.max_concurrency))
               /\ cfg.database_path
                    = OrElse(Value(args, "db"),
                             OrElse(Env(environ, "FLOWFORGE_DB"), c.database_path))
               /\ cfg.cache_enabled
                    = OrElse(EnvBool(environ, "FLOWFORGE_CACHE"), c.cache_enabled)
               /\ cfg.compute_checksums
                    = OrElse(EnvBool(environ, "FLOWFORGE_CHECKSUMS"),
                             c.compute_checksums)
               /\ cfg.resource_capacity.cpu_cores
                    = AtLeastOne(OrElse(EnvInt(environ, "FLOWFORGE_CPU_CORES"),
                                        c.resource_capacity.cpu_cores))
  <1> DEFINE c == ApplyJson(DefaultConfig, ConfigFile(files_, Value(args, "config")))
             e == ApplyEnvironment(c, environ)
  <1>1. Shaped(c)
    BY JsonShaped
  <1> HIDE DEF c
  <1>2. /\ Shaped(e)
        /\ e.state_dir = OrElse(Env(environ, "FLOWFORGE_STATE_DIR"), c.state_dir)
        /\ e.max_concurrency
             = OrElse(EnvInt(environ, "FLOWFORGE_MAX_CONCURRENCY"), c.max_concurrency)
        /\ e.database_path = OrElse(Env(environ, "FLOWFORGE_DB"), c.database_path)
        /\ e.cache_enabled = OrElse(EnvBool(environ, "FLOWFORGE_CACHE"), c.cache_enabled)
        /\ e.compute_checksums
             = OrElse(EnvBool(environ, "FLOWFORGE_CHECKSUMS"), c.compute_checksums)
        /\ e.resource_capacity.cpu_cores
             = OrElse(EnvInt(environ, "FLOWFORGE_CPU_CORES"),
                      c.resource_capacity.cpu_cores)
    BY <1>1, EnvironmentFields
  <1> HIDE DEF e
  <1>3. LoadConfig(files_, environ, Value(args, "config"))
          = [e EXCEPT !.max_concurrency = AtLeastOne(e.max_concurrency),
                      !.resource_capacity.cpu_cores
                          = AtLeastOne(e.resource_capacity.cpu_cores)]
    BY <1>2 DEF LoadConfig, e, c, Shaped
  <1> DEFINE l == LoadConfig(files_, environ, Value(args, "config"))
  <1>4. /\ {"state_dir", "database_path"} \subseteq DOMAIN l
        /\ l.state_dir = e.state_dir
        /\ l.max_concurrency = AtLeastOne(e.max_concurrency)
        /\ l.database_path = e.database_path
        /\ l.cache_enabled = e.cache_enabled
        /\ l.compute_checksums = e.compute_checksums
        /\ l.resource_capacity.cpu_cores = AtLeastOne(e.resource_capacity.cpu_cores)
    BY <1>2, <1>3 DEF Shaped
  <1>5. ResolveConfig(files_, environ, args)
          = [l EXCEPT !.state_dir = OrElse(Value(args, "state-dir"), @),
                      !.database_path = OrElse(Value(args, "db"), @)]
    BY DEF ResolveConfig
  <1> HIDE DEF l
  <1> DEFINE r == ResolveConfig(files_, environ, args)
  <1>6. /\ r.state_dir = OrElse(Value(args, "state-dir"), l.state_dir)
        /\ r.database_path = OrElse(Value(args, "db"), l.database_path)
        /\ r.max_concurrency = l.max_concurrency
        /\ r.cache_enabled = l.cache_enabled
        /\ r.compute_checksums = l.compute_checksums
        /\ r.resource_capacity = l.resource_capacity
    BY <1>4, <1>5
  <1> HIDE DEF r
  <1>7. /\ r.state_dir = OrElse(Value(args, "state-dir"), e.state_dir)
        /\ r.database_path = OrElse(Value(args, "db"), e.database_path)
        /\ r.max_concurrency = AtLeastOne(e.max_concurrency)
        /\ r.cache_enabled = e.cache_enabled
        /\ r.compute_checksums = e.compute_checksums
        /\ r.resource_capacity.cpu_cores = AtLeastOne(e.resource_capacity.cpu_cores)
    BY <1>4, <1>6
  <1> QED BY <1>2, <1>7 DEF r, c


(* The numbers and truth values of the settings are such.                  *)
LEMMA FieldTypes ==
    ASSUME NEW o, HonestFields(o), NEW key
    PROVE  /\ AsInt(o, key) # <<>> => AsInt(o, key)[1] \in Int
           /\ AsBool(o, key) # <<>> => AsBool(o, key)[1] \in BOOLEAN
  BY DEF HonestFields, AsInt, AsBool, Field, Given, HasKey

(* So are those of the settings that a file leaves.                        *)
LEMMA JsonTypes ==
    ASSUME NEW json, HonestConfig(json)
    PROVE  LET c == ApplyJson(DefaultConfig, json)
           IN  /\ c.max_concurrency \in Int /\ c.resource_capacity.cpu_cores \in Int
               /\ c.cache_enabled \in BOOLEAN /\ c.compute_checksums \in BOOLEAN
  <1> DEFINE doc == IF json.t = "obj" THEN json.v ELSE <<>>
             c == ApplyJson(DefaultConfig, json)
             res == AsObject(doc, "resources")
  <1>1. HonestFields(<<>>)
    BY DEF HonestFields
  <1>2. HonestFields(doc)
    BY <1>1 DEF HonestConfig
  <1>3. HonestFields(res)
    <2>1. CASE json.t = "obj"
      BY <2>1 DEF HonestConfig
    <2>2. CASE json.t # "obj"
      BY <2>2, <1>1 DEF AsObject, HasKey
    <2> QED BY <2>1, <2>2
  <1>4. /\ c.max_concurrency = NarrowOr(AsInt(doc, "max_concurrency"), Min({Cpus, 8}))
        /\ c.cache_enabled = OrElse(AsBool(doc, "cache_enabled"), TRUE)
        /\ c.compute_checksums = OrElse(AsBool(doc, "compute_checksums"), FALSE)
        /\ c.resource_capacity.cpu_cores = NarrowOr(AsInt(res, "cpu_cores"), Cpus)
    BY JsonFields
  <1> HIDE DEF doc, c, res
  <1>5. Cpus \in Int /\ Min({Cpus, 8}) \in Int
    BY SettingsAssumption DEF Min
  <1>6. c.max_concurrency \in Int
    BY <1>2, <1>4, <1>5, FieldTypes, NarrowType DEF NarrowOr
  <1>7. c.resource_capacity.cpu_cores \in Int
    BY <1>3, <1>4, <1>5, FieldTypes, NarrowType DEF NarrowOr
  <1>8. c.cache_enabled \in BOOLEAN /\ c.compute_checksums \in BOOLEAN
    BY <1>2, <1>4, FieldTypes DEF OrElse
  <1> QED BY <1>6, <1>7, <1>8 DEF c

(* And those that the environment gives.                                   *)
LEMMA EnvironmentTypes ==
    ASSUME NEW environ, NEW name
    PROVE  /\ EnvInt(environ, name) # <<>> => EnvInt(environ, name)[1] \in Int
           /\ EnvBool(environ, name) # <<>> => EnvBool(environ, name)[1] \in BOOLEAN
  <1>1. EnvInt(environ, name) # <<>> => EnvInt(environ, name)[1] \in Int
    BY SettingsAssumption DEF EnvInt, Read
  <1>2. EnvBool(environ, name) # <<>> => EnvBool(environ, name)[1] \in BOOLEAN
    <2> DEFINE yes == {"1", "true", "yes", "on"}
               table == [s \in yes \cup {"0", "false", "no", "off"} |-> s \in yes]
    <2>1. EnvBool(environ, name) = Read(Env(environ, name), table)
      BY DEF EnvBool
    <2>2. ASSUME NEW s \in DOMAIN table PROVE table[s] \in BOOLEAN
      <3>1. table[s] = (s \in yes)
        OBVIOUS
      <3> HIDE DEF table, yes
      <3>2. (s \in yes) = TRUE \/ (s \in yes) = FALSE
        OBVIOUS
      <3>3. table[s] = TRUE \/ table[s] = FALSE
        BY <3>1, <3>2
      <3> QED BY <3>3, Zenon
    <2> HIDE DEF table
    <2> QED BY <2>1, <2>2 DEF Read
  <1> QED BY <1>1, <1>2

(* Whichever file is read is one of the configuration files, or none.      *)
LEMMA ConfigFileHonest ==
    ASSUME NEW files_, NEW explicit,
           \A path \in DOMAIN files_ : HonestConfig(files_[path])
    PROVE  HonestConfig(ConfigFile(files_, explicit))
  <1> DEFINE candidates ==
                 IF explicit # <<>> THEN <<explicit>>
                 ELSE <<<<DefaultConfig.state_dir, "config.json">>, <<"flowforge.json">>>>
             found == {i \in DOMAIN candidates : candidates[i] \in DOMAIN files_}
  <1>1. DOMAIN candidates \subseteq {1, 2}
    OBVIOUS
  <1>2. ConfigFile(files_, explicit)
          = IF found = {} THEN Discarded ELSE files_[candidates[Min(found)]]
    BY DEF ConfigFile
  <1>3. found \subseteq {1, 2}
    BY <1>1
  <1>4. \A i \in found : HonestConfig(files_[candidates[i]])
    OBVIOUS
  <1> HIDE DEF found, candidates
  <1>5. CASE found = {}
    BY <1>2, <1>5 DEF HonestConfig, Discarded
  <1>6. CASE found # {}
    <2>1. \E i \in found : \A j \in found : i <= j
      <3>1. CASE 1 \in found
        BY <1>3, <3>1
      <3>2. CASE 1 \notin found
        <4>1. found = {2}
          BY <1>3, <1>6, <3>2
        <4> QED BY <4>1
      <3> QED BY <3>1, <3>2
    <2>2. Min(found) \in found
      BY <2>1, Zenon DEF Min
    <2> QED BY <1>2, <1>4, <1>6, <2>2
  <1> QED BY <1>5, <1>6

-----------------------------------------------------------------------------
(* The invariant *)

(* A run keeps the settings that were resolved when it began.              *)
Resolved ==
    /\ run.config = CmdConfig
    /\ run.slots = Slots(CmdConfig, CmdArgs, Pipeline)
    /\ run.cache = CacheEnabled(CmdConfig, CmdArgs)
    /\ run.checksums = Checksums(CmdConfig, CmdArgs)
    /\ run.database = DatabasePath(CmdConfig)

(* Every configuration file holds JSON values.                             *)
ConfigsHonest == \A path \in DOMAIN configs : HonestConfig(configs[path])

(* The inductive invariant.                                                *)
SettingsInv == ConfigsHonest /\ (at = "running" => Resolved)

(* It holds at first...                                                    *)
LEMMA SettingsInit == ASSUME Init PROVE SettingsInv
  BY CommandAssumption DEF Init, SettingsInv, ConfigsHonest

(* No step of the scheduler changes the settings of its run.               *)
LEMMA LaunchKeepsRun == ASSUME LaunchNext PROVE run' = run
  BY DEF LaunchNext, TryMissing, TryBlocked, TryLaunch, EndPhase, EndRound, Tick,
         TryCached, ExitZero, ExitZeroIdle, ExitFailed, SpawnFailed, Finished

(* The file that cmd_init writes.                                          *)
LEMMA InitConfigHonest == HonestConfig(InitConfig)
  <1> DEFINE o == InitConfig.v
  <1>1. /\ DOMAIN o = {"max_concurrency", "python_interpreter", "cache_enabled",
                       "compute_checksums"}
        /\ o["max_concurrency"] = Whole(4) /\ o["python_interpreter"] = Str("python3")
        /\ o["cache_enabled"] = Bool(TRUE) /\ o["compute_checksums"] = Bool(FALSE)
    BY DEF InitConfig, Obj
  <1> HIDE DEF o
  <1>2. /\ Whole(4).t = "int" /\ Whole(4).v = 4 /\ Str("python3").t = "str"
        /\ Bool(TRUE).t = "bool" /\ Bool(TRUE).v = TRUE
        /\ Bool(FALSE).t = "bool" /\ Bool(FALSE).v = FALSE
    BY DEF Whole, Str, Bool
  <1>3. ASSUME NEW key \in DOMAIN o
        PROVE  /\ o[key].t = "int" => o[key].v \in Int
               /\ o[key].t = "bool" => o[key].v \in BOOLEAN
    <2>1. CASE key = "max_concurrency"
      BY <1>1, <1>2, <2>1
    <2>2. CASE key = "python_interpreter"
      BY <1>1, <1>2, <2>2
    <2>3. CASE key = "cache_enabled"
      BY <1>1, <1>2, <2>3
    <2>4. CASE key = "compute_checksums"
      BY <1>1, <1>2, <2>4
    <2> QED BY <1>1, <2>1, <2>2, <2>3, <2>4
  <1>4. HonestFields(o)
    BY <1>3 DEF HonestFields
  <1>5. AsObject(o, "resources") = <<>>
    BY <1>1 DEF AsObject, HasKey
  <1>6. HonestFields(<<>>)
    BY DEF HonestFields
  <1> QED BY <1>4, <1>5, <1>6 DEF HonestConfig, o

(* While a run is on, nothing that its settings were read from changes.    *)
LEMMA SameSettings ==
    ASSUME UNCHANGED <<run, session, exits, configs, loaded>>, Resolved PROVE Resolved'
  BY DEF Resolved, CmdConfig, CmdArgs, Typed, Environ, Pipeline

(* ... and every command and every step of a run preserves it.             *)
LEMMA SettingsNext == ASSUME SettingsInv, [Next]_vars PROVE SettingsInv'
  <1>1. CASE CmdInit
    <2>1. at' # "running"
      BY <1>1 DEF CmdInit, Exit
    <2>2. \A path \in DOMAIN configs' :
            \/ path \in DOMAIN configs /\ configs'[path] = configs[path]
            \/ configs'[path] = InitConfig
      BY <1>1 DEF CmdInit, WrittenIfAbsent
    <2>3. ConfigsHonest'
      BY <2>2, InitConfigHonest DEF SettingsInv, ConfigsHonest
    <2> QED BY <2>1, <2>3 DEF SettingsInv
  <1>2. CASE Usage \/ LoadRejects \/ CmdValidate \/ CmdGraph \/ RunRejects \/ RunEnds
    <2>1. at' # "running" /\ configs' = configs
      BY <1>2 DEF Usage, LoadRejects, CmdValidate, CmdGraph, RunRejects, RunEnds, Exit
    <2> QED BY <2>1 DEF SettingsInv, ConfigsHonest
  <1>3. CASE LoadPipeline
    <2>1. at' # "running" /\ configs' = configs
      BY <1>3 DEF LoadPipeline, Stay
    <2> QED BY <2>1 DEF SettingsInv, ConfigsHonest
  <1>4. ASSUME NEW spread \in BOOLEAN, RunBegins(spread) PROVE SettingsInv'
    <2>1. UNCHANGED <<session, exits, configs, loaded>>
      BY <1>4 DEF RunBegins, Stay
    <2>2. run' = [pipeline |-> Pipeline, config |-> CmdConfig, machine |-> Machine,
                  slots |-> Slots(CmdConfig, CmdArgs, Pipeline),
                  cache |-> CacheEnabled(CmdConfig, CmdArgs),
                  checksums |-> Checksums(CmdConfig, CmdArgs),
                  database |-> DatabasePath(CmdConfig)]
      BY <1>4 DEF RunBegins, Seed
    <2>3. CmdConfig' = CmdConfig /\ CmdArgs' = CmdArgs /\ Pipeline' = Pipeline
      BY <2>1 DEF CmdConfig, CmdArgs, Typed, Environ, Pipeline
    <2>4. Resolved'
      BY <2>2, <2>3 DEF Resolved
    <2> QED BY <2>1, <2>4 DEF SettingsInv, ConfigsHonest
  <1>5. CASE Step
    <2>1. run' = run
      BY <1>5, LaunchKeepsRun DEF Step
    <2>2. UNCHANGED <<session, at, exits, configs, loaded>>
      BY <1>5 DEF Step, Stay
    <2> QED BY <2>1, <2>2, SameSettings DEF SettingsInv, ConfigsHonest
  <1>6. CASE End \/ UNCHANGED vars
    <2>1. UNCHANGED <<run, session, at, exits, configs, loaded>>
      BY <1>6 DEF End, vars, launchVars
    <2> QED BY <2>1, SameSettings DEF SettingsInv, ConfigsHonest
  <1> QED BY <1>1, <1>2, <1>3, <1>4, <1>5, <1>6 DEF Next


-----------------------------------------------------------------------------
(* The settings of a run, one lemma each *)

(* A number that is narrowed if it is given.                               *)
LEMMA Narrowed ==
    ASSUME NEW s, NEW default
    PROVE  OrElse(IF s = <<>> THEN <<>> ELSE <<Narrow(s[1])>>, default)
             = NarrowOr(s, default)
  <1>1. <<Narrow(s[1])>> # <<>> /\ <<Narrow(s[1])>>[1] = Narrow(s[1])
    OBVIOUS
  <1> QED BY <1>1 DEF OrElse, NarrowOr

(* A value that counts only if a condition holds.                          *)
LEMMA Only ==
    ASSUME NEW given \in BOOLEAN, NEW value, NEW default
    PROVE  OrElse(IF given THEN <<value>> ELSE <<>>, default)
             = IF given THEN value ELSE default
  <1>1. <<value>> # <<>> /\ <<value>>[1] = value
    OBVIOUS
  <1> QED BY <1>1 DEF OrElse

(* The number of slots: clamped in the settings and again by the           *)
(* scheduler.                                                              *)
LEMMA SlotsLayered ==
    ASSUME NEW cfg, NEW args, NEW pipeline, NEW inner \in Int,
           cfg.max_concurrency = AtLeastOne(inner)
    PROVE  Slots(cfg, args, pipeline)
             = AtLeastOne(NarrowOr(IntValue(args, "max-concurrency"),
                   IF pipeline.max_concurrency > 0 THEN pipeline.max_concurrency
                   ELSE inner))
  <1> DEFINE request == IntValue(args, "max-concurrency")
  <1>1. CASE request # <<>>
    BY <1>1 DEF Slots, NarrowOr
  <1>2. CASE request = <<>> /\ pipeline.max_concurrency > 0
    BY <1>2 DEF Slots, NarrowOr
  <1>3. CASE request = <<>> /\ ~(pipeline.max_concurrency > 0)
    <2>1. Slots(cfg, args, pipeline) = AtLeastOne(cfg.max_concurrency)
      BY <1>3 DEF Slots
    <2> QED BY <1>3, <2>1, AtLeastOneTwice DEF NarrowOr
  <1> QED BY <1>1, <1>2, <1>3

(* The invariant implies the property, setting by setting.                 *)
LEMMA SettingsAreLayered == ASSUME SettingsInv PROVE SettingsLayered
  <1> SUFFICES ASSUME at = "running" PROVE SettingsLayered
    BY DEF SettingsLayered
  <1> DEFINE doc == ConfigFile(configs, Value(CmdArgs, "config"))
             file == IF doc.t = "obj" THEN doc.v ELSE <<>>
             c == ApplyJson(DefaultConfig, doc)
             cfg == CmdConfig
             request == IntValue(CmdArgs, "max-concurrency")
             wanted == Pipeline.max_concurrency
             envSlots == EnvInt(Environ, "FLOWFORGE_MAX_CONCURRENCY")
             fileSlots == AsInt(file, "max_concurrency")
             envCpus == EnvInt(Environ, "FLOWFORGE_CPU_CORES")
             fileCpus == AsInt(AsObject(file, "resources"), "cpu_cores")
             narrowed(s) == IF s = <<>> THEN <<>> ELSE <<Narrow(s[1])>>
             only(given, value) == IF given THEN <<value>> ELSE <<>>
             database == FirstOf(<<Value(CmdArgs, "db"), Env(Environ, "FLOWFORGE_DB"),
                                   AsString(file, "database_path"), <<"">>>>)
  <1>1. HonestConfig(doc)
    BY ConfigFileHonest DEF SettingsInv, ConfigsHonest
  <1>2. /\ c.max_concurrency \in Int /\ c.resource_capacity.cpu_cores \in Int
        /\ c.cache_enabled \in BOOLEAN /\ c.compute_checksums \in BOOLEAN
    BY <1>1, JsonTypes
  <1>3. /\ c.state_dir = OrElse(AsString(file, "state_dir"), ".flowforge")
        /\ c.max_concurrency = NarrowOr(fileSlots, Min({Cpus, 8}))
        /\ c.database_path = OrElse(AsString(file, "database_path"), "")
        /\ c.cache_enabled = OrElse(AsBool(file, "cache_enabled"), TRUE)
        /\ c.compute_checksums = OrElse(AsBool(file, "compute_checksums"), FALSE)
        /\ c.resource_capacity.cpu_cores = NarrowOr(fileCpus, Cpus)
    BY JsonFields
  <1>4. /\ cfg.state_dir
             = OrElse(Value(CmdArgs, "state-dir"),
                      OrElse(Env(Environ, "FLOWFORGE_STATE_DIR"), c.state_dir))
        /\ cfg.max_concurrency = AtLeastOne(OrElse(envSlots, c.max_concurrency))
        /\ cfg.database_path
             = OrElse(Value(CmdArgs, "db"),
                      OrElse(Env(Environ, "FLOWFORGE_DB"), c.database_path))
        /\ cfg.cache_enabled
             = OrElse(EnvBool(Environ, "FLOWFORGE_CACHE"), c.cache_enabled)
        /\ cfg.compute_checksums
             = OrElse(EnvBool(Environ, "FLOWFORGE_CHECKSUMS"), c.compute_checksums)
        /\ cfg.resource_capacity.cpu_cores
             = AtLeastOne(OrElse(envCpus, c.resource_capacity.cpu_cores))
    BY ConfigFields DEF CmdConfig
  <1>5. /\ run.config = cfg /\ run.slots = Slots(cfg, CmdArgs, Pipeline)
        /\ run.cache = CacheEnabled(cfg, CmdArgs)
        /\ run.checksums = Checksums(cfg, CmdArgs)
        /\ run.database = DatabasePath(cfg)
    BY DEF SettingsInv, Resolved
  <1>6. /\ DefaultConfig.state_dir = ".flowforge"
        /\ DefaultConfig.max_concurrency = Min({Cpus, 8})
    BY DEF DefaultConfig
  <1>7. OrElse(envSlots, c.max_concurrency) \in Int
    BY <1>2, EnvironmentTypes DEF OrElse
  <1>8. /\ OrElse(EnvBool(Environ, "FLOWFORGE_CACHE"), c.cache_enabled) \in BOOLEAN
        /\ OrElse(EnvBool(Environ, "FLOWFORGE_CHECKSUMS"), c.compute_checksums) \in BOOLEAN
    BY <1>2, EnvironmentTypes DEF OrElse
  <1> HIDE DEF doc, file, c, cfg, request, wanted, envSlots, fileSlots, envCpus, fileCpus
  <1>9. run.slots = AtLeastOne(FirstOf(<<narrowed(request), only(wanted > 0, wanted),
                        envSlots, narrowed(fileSlots), <<DefaultConfig.max_concurrency>>>>))
    <2>1. FirstOf(<<narrowed(request), only(wanted > 0, wanted), envSlots,
                    narrowed(fileSlots), <<DefaultConfig.max_concurrency>>>>)
            = OrElse(narrowed(request), OrElse(only(wanted > 0, wanted),
                OrElse(envSlots, OrElse(narrowed(fileSlots), Min({Cpus, 8})))))
      BY <1>6, FirstOfFive
    <2>2. OrElse(narrowed(fileSlots), Min({Cpus, 8})) = c.max_concurrency
      BY <1>3, Narrowed
    <2>3. (wanted > 0) \in BOOLEAN
      OBVIOUS
    <2>4. OrElse(only(wanted > 0, wanted), OrElse(envSlots, c.max_concurrency))
            = IF wanted > 0 THEN wanted ELSE OrElse(envSlots, c.max_concurrency)
      BY <2>3, Only
    <2>5. FirstOf(<<narrowed(request), only(wanted > 0, wanted), envSlots,
                    narrowed(fileSlots), <<DefaultConfig.max_concurrency>>>>)
            = NarrowOr(request, IF wanted > 0 THEN wanted
                                ELSE OrElse(envSlots, c.max_concurrency))
      BY <2>1, <2>2, <2>4, Narrowed
    <2>6. Slots(cfg, CmdArgs, Pipeline)
            = AtLeastOne(NarrowOr(request, IF wanted > 0 THEN wanted
                                           ELSE OrElse(envSlots, c.max_concurrency)))
      BY <1>4, <1>7, SlotsLayered DEF request, wanted
    <2> QED BY <1>5, <2>5, <2>6
  <1>10. run.config.resource_capacity.cpu_cores
           = AtLeastOne(FirstOf(<<envCpus, narrowed(fileCpus), <<Cpus>>>>))
    <2>1. FirstOf(<<envCpus, narrowed(fileCpus), <<Cpus>>>>)
            = OrElse(envCpus, OrElse(narrowed(fileCpus), Cpus))
      BY FirstOfThree
    <2>2. OrElse(narrowed(fileCpus), Cpus) = c.resource_capacity.cpu_cores
      BY <1>3, Narrowed
    <2> QED BY <1>4, <1>5, <2>1, <2>2
  <1>11. run.config.state_dir
           = FirstOf(<<Value(CmdArgs, "state-dir"), Env(Environ, "FLOWFORGE_STATE_DIR"),
                       AsString(file, "state_dir"), <<DefaultConfig.state_dir>>>>)
    <2>1. FirstOf(<<Value(CmdArgs, "state-dir"), Env(Environ, "FLOWFORGE_STATE_DIR"),
                    AsString(file, "state_dir"), <<DefaultConfig.state_dir>>>>)
            = OrElse(Value(CmdArgs, "state-dir"),
                OrElse(Env(Environ, "FLOWFORGE_STATE_DIR"),
                  OrElse(AsString(file, "state_dir"), DefaultConfig.state_dir)))
      BY FirstOfFour
    <2> QED BY <1>3, <1>4, <1>5, <1>6, <2>1
  <1>12. run.cache
           = FirstOf(<<only(Flag(CmdArgs, "no-cache"), FALSE),
                       EnvBool(Environ, "FLOWFORGE_CACHE"),
                       AsBool(file, "cache_enabled"), <<TRUE>>>>)
    <2> DEFINE flag == Flag(CmdArgs, "no-cache")
               inner == OrElse(EnvBool(Environ, "FLOWFORGE_CACHE"), c.cache_enabled)
    <2>1. flag \in BOOLEAN
      BY DEF Flag
    <2>2. FirstOf(<<only(flag, FALSE), EnvBool(Environ, "FLOWFORGE_CACHE"),
                    AsBool(file, "cache_enabled"), <<TRUE>>>>)
            = OrElse(only(flag, FALSE), inner)
      <3> DEFINE first == only(flag, FALSE)
                 last == TRUE
      <3> HIDE DEF first, last
      <3>1. FirstOf(<<first, EnvBool(Environ, "FLOWFORGE_CACHE"),
                      AsBool(file, "cache_enabled"), <<last>>>>)
              = OrElse(first, OrElse(EnvBool(Environ, "FLOWFORGE_CACHE"),
                  OrElse(AsBool(file, "cache_enabled"), last)))
        BY FirstOfFour
      <3> QED BY <1>3, <3>1 DEF first, last
    <2>3. OrElse(only(flag, FALSE), inner) = IF flag THEN FALSE ELSE inner
      BY <2>1, Only
    <2>4. run.cache = (inner /\ ~flag)
      BY <1>4, <1>5 DEF CacheEnabled
    <2>5. inner \in BOOLEAN
      BY <1>8
    <2> HIDE DEF flag, inner
    <2>6. (inner /\ ~flag) = IF flag THEN FALSE ELSE inner
      BY <2>1, <2>5
    <2> QED BY <2>2, <2>3, <2>4, <2>6 DEF flag
  <1>13. run.checksums
           = FirstOf(<<only(Flag(CmdArgs, "checksums"), TRUE),
                       EnvBool(Environ, "FLOWFORGE_CHECKSUMS"),
                       AsBool(file, "compute_checksums"), <<FALSE>>>>)
    <2> DEFINE flag == Flag(CmdArgs, "checksums")
               inner == OrElse(EnvBool(Environ, "FLOWFORGE_CHECKSUMS"),
                               c.compute_checksums)
    <2>1. flag \in BOOLEAN
      BY DEF Flag
    <2>2. FirstOf(<<only(flag, TRUE), EnvBool(Environ, "FLOWFORGE_CHECKSUMS"),
                    AsBool(file, "compute_checksums"), <<FALSE>>>>)
            = OrElse(only(flag, TRUE), inner)
      <3> DEFINE first == only(flag, TRUE)
                 last == FALSE
      <3> HIDE DEF first, last
      <3>1. FirstOf(<<first, EnvBool(Environ, "FLOWFORGE_CHECKSUMS"),
                      AsBool(file, "compute_checksums"), <<last>>>>)
              = OrElse(first, OrElse(EnvBool(Environ, "FLOWFORGE_CHECKSUMS"),
                  OrElse(AsBool(file, "compute_checksums"), last)))
        BY FirstOfFour
      <3> QED BY <1>3, <3>1 DEF first, last
    <2>3. OrElse(only(flag, TRUE), inner) = IF flag THEN TRUE ELSE inner
      BY <2>1, Only
    <2>4. run.checksums = (inner \/ flag)
      BY <1>4, <1>5 DEF Checksums
    <2>5. inner \in BOOLEAN
      BY <1>8
    <2> HIDE DEF flag, inner
    <2>6. (inner \/ flag) = IF flag THEN TRUE ELSE inner
      BY <2>1, <2>5
    <2> QED BY <2>2, <2>3, <2>4, <2>6 DEF flag
  <1>14. run.database = IF database # "" THEN <<database>>
                        ELSE <<run.config.state_dir, "flowforge.sqlite">>
    <2>1. database = cfg.database_path
      <3> DEFINE none == ""
      <3> HIDE DEF none
      <3>1. FirstOf(<<Value(CmdArgs, "db"), Env(Environ, "FLOWFORGE_DB"),
                      AsString(file, "database_path"), <<none>>>>)
              = OrElse(Value(CmdArgs, "db"), OrElse(Env(Environ, "FLOWFORGE_DB"),
                  OrElse(AsString(file, "database_path"), none)))
        BY FirstOfFour
      <3> QED BY <1>3, <1>4, <3>1 DEF none
    <2> HIDE DEF database
    <2> QED BY <1>5, <2>1 DEF DatabasePath
  <1> QED BY <1>9, <1>10, <1>11, <1>12, <1>13, <1>14
          DEF SettingsLayered, doc, file, request, wanted, envSlots, fileSlots,
              envCpus, fileCpus

(* Whatever is typed, written in the files and set in the environment,     *)
(* every setting of every run has the value of the first of its layers     *)
(* that says something (config.cpp, cli_app.cpp, engine.cpp).              *)
THEOREM RunsAreSettled == Spec => []SettingsLayered
  <1>1. Init => SettingsInv
    BY SettingsInit
  <1>2. SettingsInv /\ [Next]_vars => SettingsInv'
    BY SettingsNext
  <1>3. SettingsInv => SettingsLayered
    BY SettingsAreLayered
  <1> QED BY <1>1, <1>2, <1>3, PTL DEF Spec

=============================================================================

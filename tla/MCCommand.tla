----------------------------- MODULE MCCommand ------------------------------
(***************************************************************************)
(* Sessions for module Command: a document with up to two things changed   *)
(* in it, one layer of settings over the other, and tasks that compete for *)
(* two slots and two cores.  An int has four bits.                         *)
(***************************************************************************)
EXTENDS Command

MCIdOrder == <<"a", "b", "c", "d", "hello">>

MCLongOf == ("0" :> 0) @@ ("2" :> 2) @@ ("3" :> 3) @@ ("17" :> 17)

MCIntOf == ("0" :> 0) @@ ("2" :> 2) @@ ("3" :> 3) @@ ("2x" :> 2)

MCBase == <<"w">>

MCMachine ==
    [dirs  |-> {<<"w">>, <<"w", "sub">>, <<"bin">>},
     files |-> {<<"bin", "cc">>, <<"bin", "python3">>, <<"bin", "echo">>,
                <<"w", "in">>, <<"w", "s.py">>},
     path  |-> <<<<"w", "sub">>, <<"bin">>>>]

Session(document, typed, environ, found) ==
    [documents |-> ("p.json" :> document), commands |-> typed,
     environ |-> environ, configs |-> found, machine |-> MCMachine]

Typing(name, words) == [name |-> name, words |-> words]

-----------------------------------------------------------------------------
(* A document: a compiles the tool b, which writes the script c.           *)

Files(paths) == Arr([i \in DOMAIN paths |-> Str(Rel(<<paths[i]>>))])

TaskA == [id |-> Str("a"), type |-> Str("executable"), executable |-> Str(Rel(<<"cc">>)),
          inputs |-> Files(<<"in">>), outputs |-> Files(<<"tool">>)]

TaskB == [id |-> Str("b"), type |-> Str("executable"),
          executable |-> Str(Rel(<<".", "tool">>)), depends_on |-> Arr(<<Str("a")>>),
          outputs |-> Arr(<<Obj([path |-> Str(Rel(<<"gen.py">>)), name |-> Str("gen"),
                                 checksum |-> Bool(TRUE)])>>),
          timeout_ms |-> Whole(9)]

TaskC == [id |-> Str("c"), type |-> Str("python"), script |-> Str(Rel(<<"gen.py">>)),
          depends_on |-> Arr(<<Str("b")>>)]

DocumentOf(edit) ==
    Obj(edit.top
          @@ [name |-> Str("p"), schema_version |-> Whole(1),
              tasks |-> Arr(<<Obj(edit.a @@ TaskA), Obj(edit.b @@ TaskB),
                              Obj(edit.c @@ TaskC)>>)])

NoEdit == [top |-> <<>>, a |-> <<>>, b |-> <<>>, c |-> <<>>]

EditOf(part, key, value) == [NoEdit EXCEPT ![part] = (key :> value)]

Edge(from, to) == Obj([from |-> Str(from), to |-> Str(to)])

Edits == <<
    NoEdit,
    EditOf("top", "schema_version", Whole(2)),
    EditOf("top", "name", Null),
    EditOf("top", "tasks", Str("none")),
    EditOf("top", "description", Str("text")),
    EditOf("top", "max_concurrency", Whole(17)),
    EditOf("top", "max_concurrency", Whole(-1)),
    EditOf("top", "defaults", Obj([python_interpreter |-> Str(Rel(<<"py">>)),
        retry |-> Obj([max_retries |-> Num(1)])])),
    EditOf("top", "defaults", Obj([timeout_ms |-> Whole(5), cache |-> Bool(FALSE),
        retry |-> Obj([max_retries |-> Whole(1), base_delay_ms |-> Whole(1)])])),
    EditOf("top", "dependencies", Arr(<<Edge("c", "a")>>)),
    EditOf("top", "dependencies", Arr(<<Edge("a", "b"), Edge("a", "c")>>)),
    EditOf("top", "dependencies", Arr(<<Edge("a", "x")>>)),
    EditOf("top", "dependencies", Arr(<<Obj([from |-> Str("a")])>>)),
    EditOf("a", "id", Str("b")),
    EditOf("a", "id", Str("")),
    EditOf("a", "type", Str("shell")),
    EditOf("a", "executable", Str(Rel(<<"nope">>))),
    EditOf("a", "resources", Obj([cpu_cores |-> Whole(17)])),
    EditOf("a", "resources", Obj([cpu_cores |-> Whole(3)])),
    EditOf("b", "resources", Obj([cpu_cores |-> Whole(0), memory_mb |-> Whole(-1)])),
    EditOf("a", "env", Obj([PATH |-> Str(<<>>)])),
    EditOf("a", "env", Obj([N |-> Whole(1)])),
    EditOf("a", "working_directory", Str(Rel(<<"sub">>))),
    EditOf("a", "working_directory", Str(Rel(<<"none">>))),
    EditOf("a", "inputs", Files(<<"gone">>)),
    EditOf("a", "outputs", Files(<<"tool", "tool">>)),
    EditOf("a", "outputs", Arr(<<Obj([name |-> Str("tool")])>>)),
    EditOf("a", "priority", Whole(9)),
    EditOf("b", "depends_on", Arr(<<>>)),
    EditOf("b", "retry", Obj([max_retries |-> Whole(-1)])),
    EditOf("b", "retry", Obj([max_retries |-> Whole(2), base_delay_ms |-> Whole(1),
        backoff_multiplier |-> Whole(2), max_delay_ms |-> Whole(3)])),
    EditOf("b", "retry", Obj([max_retries |-> Whole(2), base_delay_ms |-> Whole(1),
        backoff_multiplier |-> Num(3), max_delay_ms |-> Whole(1)])),
    EditOf("b", "timeout_ms", Whole(0)),
    EditOf("b", "timeout_ms", Null),
    EditOf("b", "arguments", Arr(<<Str("x"), Null>>)),
    EditOf("c", "script", Str(Rel(<<"s.py">>))),
    EditOf("c", "script", Null),
    EditOf("c", "interpreter", Str(Rel(<<".", "tool">>))),
    EditOf("c", "outputs", Files(<<"tool">>)),
    EditOf("c", "cache", Bool(FALSE))>>

Both(x, y) == [part \in DOMAIN NoEdit |-> x[part] @@ y[part]]

RunWords == <<OptEq("state-dir", "x"), Opt("strict"), OptEq("max-concurrency", "2"),
              Plain("p.json")>>

DocumentSession(i, j) ==
    Session(DocumentOf(Both(Edits[i], Edits[j])),
            IF j > 1 THEN <<Typing("run", RunWords)>>
            ELSE <<Typing("validate", <<Plain("p.json"), Opt("strict")>>),
                   Typing("graph", <<Plain("p.json")>>),
                   Typing("run", RunWords)>>,
            <<>>, <<>>)

-----------------------------------------------------------------------------
(* One task, and the settings of its run.                                  *)

OneTask(top) ==
    Obj(top @@ [name |-> Str("one"),
                tasks |-> Arr(<<Obj([id |-> Str("a"), type |-> Str("executable"),
                                     executable |-> Str(Rel(<<"cc">>))])>>)])

Words == <<
    <<Plain("p.json")>>,
    <<Opt("no-cache"), Plain("p.json")>>,
    <<Plain("p.json"), Opt("no-cache"), OptEq("state-dir", "y"), Opt("checksums")>>,
    <<Opt("max-concurrency"), Plain("2x"), Plain("p.json")>>,
    <<Opt("max-concurrency"), Plain("17"), Plain("p.json"), OptEq("db", "d")>>,
    <<OptEq("max-concurrency", "0"), Opt("config"), Plain("other.json"), Plain("p.json"),
      OptEq("db", "")>>>>

Environs == <<
    <<>>,
    ("FLOWFORGE_MAX_CONCURRENCY" :> "2x") @@ ("FLOWFORGE_CPU_CORES" :> "2"),
    ("FLOWFORGE_MAX_CONCURRENCY" :> "0") @@ ("FLOWFORGE_STATE_DIR" :> "z")
      @@ ("FLOWFORGE_DB" :> "e"),
    ("FLOWFORGE_MAX_CONCURRENCY" :> "") @@ ("FLOWFORGE_CACHE" :> "off")
      @@ ("FLOWFORGE_CHECKSUMS" :> "no"),
    ("FLOWFORGE_CACHE" :> "maybe") @@ ("FLOWFORGE_CPU_CORES" :> "0")>>

StateConfig == <<".flowforge", "config.json">>

ConfigFiles == <<
    <<>>,
    (StateConfig :> Discarded) @@ (<<"flowforge.json">> :> InitConfig),
    (StateConfig :> Obj([max_concurrency |-> Whole(3), cache_enabled |-> Bool(FALSE),
                         state_dir |-> Str("s"), database_path |-> Str("f"),
                         compute_checksums |-> Bool(TRUE)])),
    (<<"flowforge.json">> :> Obj([max_concurrency |-> Str("3"),
                                  resources |-> Obj([cpu_cores |-> Whole(2)])])),
    (<<"other.json">> :> Obj([max_concurrency |-> Whole(5), cache_enabled |-> Null]))
      @@ (StateConfig :> Obj([max_concurrency |-> Whole(-1)]))>>

SettingsSession(w, e, c, limit) ==
    Session(OneTask(IF limit = 0 THEN <<>> ELSE [max_concurrency |-> Whole(limit)]),
            <<Typing("run", Words[w])>>, Environs[e], ConfigFiles[c])

-----------------------------------------------------------------------------
(* Tasks that compete: a, b and c are ready at once, d waits for a.        *)

Competitor(id, priority, cores, more) ==
    Obj(more @@ [id |-> Str(id), type |-> Str("executable"),
                 executable |-> Str(Rel(<<"cc">>)), priority |-> Whole(priority),
                 resources |-> Obj([cpu_cores |-> Whole(cores)])])

Competition(priorities, cores) ==
    LET once == [retry |-> Obj([max_retries |-> Whole(1)]), cache |-> Bool(FALSE)] IN
    Obj([name |-> Str("q"),
         tasks |-> Arr(<<Competitor("b", priorities[2], cores[2], once),
                         Competitor("a", priorities[1], cores[1], <<>>),
                         Competitor("c", 0, cores[3], [cache |-> Bool(FALSE)]),
                         Competitor("d", priorities[3], 1,
                                    [depends_on |-> Arr(<<Str("a")>>),
                                     cache |-> Bool(FALSE)])>>)])

CoreChoices == <<<<1, 1, 1>>, <<2, 1, 1>>, <<1, 2, 1>>>>

CompetitionSession(x, y, z, k) ==
    Session(Competition(<<x, y, z>>, CoreChoices[k]),
            <<Typing("run", <<OptEq("max-concurrency", "2"), Plain("p.json")>>)>>,
            "FLOWFORGE_CPU_CORES" :> "2", <<>>)

-----------------------------------------------------------------------------
(* Commands that follow each other.                                        *)

Tour ==
    Session(OneTask(<<>>),
            <<Typing("graph", <<>>), Typing("init", <<>>), Typing("runn", <<>>),
              Typing("run", <<Plain("pipeline.json")>>),
              Typing("validate", <<Plain("absent.json")>>)>>, <<>>, <<>>)

Unverified ==
    Session(DocumentOf(NoEdit), <<Typing("run", <<Plain("p.json")>>)>>, <<>>,
            <<"flowforge.json">> :> Obj([verify_outputs |-> Bool(FALSE)]))

MCSessions ==
    {<<1, i, j>> : i \in DOMAIN Edits, j \in DOMAIN Edits}
      \cup {<<2, w, e, c, n>> : w \in DOMAIN Words, e \in DOMAIN Environs,
                                c \in DOMAIN ConfigFiles, n \in {0, 3}}
      \cup {<<3, x, y, z, k>> : x \in {0, 1}, y \in {0, 1}, z \in {0, 1},
                                k \in DOMAIN CoreChoices}
      \cup {<<4>>, <<5>>}

MCSessionOf(k) ==
    CASE k[1] = 1 -> DocumentSession(Max({k[2], k[3]}), Min({k[2], k[3]}))
      [] k[1] = 2 -> SettingsSession(k[2], k[3], k[4], k[5])
      [] k[1] = 3 -> CompetitionSession(k[2], k[3], k[4], k[5])
      [] k[1] = 4 -> Tour
      [] k[1] = 5 -> Unverified
=============================================================================

------------------------------ MODULE Document ------------------------------
(***************************************************************************)
(* The pipeline document (src/core/serialization/pipeline_document.cpp):   *)
(* JSON to PipelineDefinition and back.                                    *)
(*                                                                         *)
(* A JSON value is a record of its type and its value; an object's value   *)
(* is a function from its keys.  "int" is a number that is_number_integer, *)
(* "num" another one, counted in halves.  Of an error only the place is    *)
(* kept.                                                                   *)
(***************************************************************************)
EXTENDS Definitions

Null == [t |-> "null", v |-> 0]
Str(s) == [t |-> "str", v |-> s]
Whole(n) == [t |-> "int", v |-> n]
Num(halves) == [t |-> "num", v |-> halves]
Bool(b) == [t |-> "bool", v |-> b]
Arr(s) == [t |-> "arr", v |-> s]
Obj(f) == [t |-> "obj", v |-> f]
Discarded == [t |-> "discarded", v |-> 0]   \* no JSON at all

-----------------------------------------------------------------------------
(* Accessors; o is the value of an object *)

HasKey(o, key) == key \in DOMAIN o

Given(o, key) == HasKey(o, key) /\ o[key].t # "null"

(* as_string, as_int, as_double, as_bool: the field if it has the type.    *)
Field(o, key, types) ==
    IF Given(o, key) /\ o[key].t \in types THEN <<o[key].v>> ELSE <<>>

AsString(o, key) == Field(o, key, {"str"})
AsInt(o, key) == Field(o, key, {"int"})
AsBool(o, key) == Field(o, key, {"bool"})

AsDouble(o, key) ==
    IF Given(o, key) /\ o[key].t = "int" THEN <<2 * o[key].v>>
    ELSE Field(o, key, {"num"})

AsArray(o, key) == OrElse(Field(o, key, {"arr"}), <<>>)

(* The strings of as_string_array; what is none is left out.               *)
AsStringArray(o, key) ==
    LET strings == SelectSeq(AsArray(o, key), LAMBDA item : item.t = "str")
    IN  [i \in DOMAIN strings |-> strings[i].v]

(* An object that need not be there; null is not an object.                *)
AsObject(o, key) ==
    IF HasKey(o, key) /\ o[key].t = "obj" THEN o[key].v ELSE <<>>

(* Places at which the accessors report an error.                          *)
Mistyped(o, types) ==
    {<<key>> : key \in {k \in DOMAIN types : Given(o, k) /\ o[k].t \notin types[k]}}

Missing(o, keys) == {<<key>> : key \in {k \in keys : ~Given(o, k)}}

In(place, errors) == {place \o e : e \in errors}

ObjectErrors(o, key, types) ==
    IF ~HasKey(o, key) THEN {}
    ELSE IF o[key].t # "obj" THEN {<<key>>}
    ELSE In(<<key>>, Mistyped(o[key].v, types))

(* Elements of an array for which Errors(element) is not empty.            *)
ItemErrors(o, key, Errors(_)) ==
    UNION {In(<<key, i>>, Errors(AsArray(o, key)[i])) : i \in DOMAIN AsArray(o, key)}

StringArrayErrors(o, key) ==
    Mistyped(o, key :> {"arr"})
      \cup ItemErrors(o, key, LAMBDA item : IF item.t = "str" THEN {} ELSE {<<>>})

-----------------------------------------------------------------------------
(* parse_retry, parse_resources, parse_artifacts *)

RetryTypes == [max_retries |-> {"int"}, base_delay_ms |-> {"int"},
               max_delay_ms |-> {"int"}, backoff_multiplier |-> {"int", "num"}]

ResourceTypes == [cpu_cores |-> {"int"}, memory_mb |-> {"int"}, gpu_count |-> {"int"}]

ArtifactTypes == [path |-> {"str"}, name |-> {"str"}, checksum |-> {"bool"}]

NarrowOr(optional, default) ==
    IF optional = <<>> THEN default ELSE Narrow(optional[1])

ParseRetry(o, base) ==
    LET r == AsObject(o, "retry") IN
    [max_retries |-> NarrowOr(AsInt(r, "max_retries"), base.max_retries),
     base_delay  |-> OrElse(AsInt(r, "base_delay_ms"), base.base_delay),
     backoff_multiplier |-> OrElse(AsDouble(r, "backoff_multiplier"),
                                   base.backoff_multiplier),
     max_delay   |-> OrElse(AsInt(r, "max_delay_ms"), base.max_delay)]

ParseResources(o, base) ==
    LET r == AsObject(o, "resources") IN
    [cpu_cores |-> NarrowOr(AsInt(r, "cpu_cores"), base.cpu_cores),
     memory_mb |-> OrElse(AsInt(r, "memory_mb"), base.memory_mb),
     gpu_count |-> NarrowOr(AsInt(r, "gpu_count"), base.gpu_count)]

(* The short form is a path; either way the name defaults to its last part.*)
ParseArtifact(item) ==
    LET o == IF item.t = "str" THEN [path |-> item] ELSE item.v
        path == OrElse(AsString(o, "path"), NoPath)
    IN  [name |-> OrElse(AsString(o, "name"), Basename(path)),
         path |-> path,
         checksum |-> OrElse(AsBool(o, "checksum"), FALSE)]

ParseArtifacts(o, key) ==
    LET items == SelectSeq(AsArray(o, key), LAMBDA item : item.t \in {"str", "obj"})
    IN  [i \in DOMAIN items |-> ParseArtifact(items[i])]

ArtifactErrors(o, key) ==
    Mistyped(o, key :> {"arr"})
      \cup ItemErrors(o, key, LAMBDA item :
             CASE item.t = "str" -> {}
               [] item.t = "obj" -> Missing(item.v, {"path"})
                                      \cup Mistyped(item.v, ArtifactTypes)
               [] OTHER -> {<<>>})

-----------------------------------------------------------------------------
(* load_pipeline_from_json *)

DefaultTypes == [python_interpreter |-> {"str"}, timeout_ms |-> {"int"},
                 cache |-> {"bool"}]

(* The values a task falls back on: the document's, or the built-in ones.  *)
Defaults(doc) ==
    LET def == AsObject(doc, "defaults") IN
    [interpreter |-> OrElse(AsString(def, "python_interpreter"), Rel(<<"python3">>)),
     retry     |-> ParseRetry(def, NoRetry),
     resources |-> ParseResources(def, NoRequirements),
     timeout   |-> AsInt(def, "timeout_ms"),
     cache     |-> OrElse(AsBool(def, "cache"), TRUE)]

DefaultErrors(doc) ==
    LET def == AsObject(doc, "defaults") IN
    ObjectErrors(doc, "defaults", DefaultTypes)
      \cup In(<<"defaults">>, ObjectErrors(def, "retry", RetryTypes)
                                \cup ObjectErrors(def, "resources", ResourceTypes))

(* A type that is missing or unknown leaves the task an executable.        *)
TaskType(tj) ==
    IF AsString(tj, "type") = <<"python">> THEN "python" ELSE "executable"

ParseTask(tj, def) ==
    LET id == OrElse(AsString(tj, "id"), "")
        python == TaskType(tj) = "python"
        env == AsObject(tj, "env")
    IN
    [id |-> id, name |-> OrElse(AsString(tj, "name"), id), type |-> TaskType(tj),
     program |-> IF python THEN OrElse(AsString(tj, "interpreter"), def.interpreter)
                 ELSE OrElse(AsString(tj, "executable"), NoPath),
     script  |-> IF python THEN OrElse(AsString(tj, "script"), NoPath) ELSE NoPath,
     arguments   |-> AsStringArray(tj, "arguments"),
     environment |-> [k \in {k \in DOMAIN env : env[k].t = "str"} |-> env[k].v],
     working_directory |-> OrElse(AsString(tj, "working_directory"), NoPath),
     inputs    |-> ParseArtifacts(tj, "inputs"),
     outputs   |-> ParseArtifacts(tj, "outputs"),
     retry     |-> ParseRetry(tj, def.retry),
     resources |-> ParseResources(tj, def.resources),
     timeout   |-> IF Given(tj, "timeout_ms") THEN AsInt(tj, "timeout_ms")
                   ELSE def.timeout,
     priority  |-> NarrowOr(AsInt(tj, "priority"), 0),
     cache_enabled |-> OrElse(AsBool(tj, "cache"), def.cache)]

TaskTypes == [id |-> {"str"}, name |-> {"str"}, type |-> {"str"},
              working_directory |-> {"str"}, timeout_ms |-> {"int"},
              priority |-> {"int"}, cache |-> {"bool"}]

TaskErrors(item) ==
    IF item.t # "obj" THEN {<<>>} ELSE
    LET tj == item.v
        env == AsObject(tj, "env")
        program == IF TaskType(tj) = "python"
                   THEN Missing(tj, {"script"})
                          \cup Mistyped(tj, [interpreter |-> {"str"}, script |-> {"str"}])
                   ELSE Missing(tj, {"executable"})
                          \cup Mistyped(tj, [executable |-> {"str"}])
        environment == IF HasKey(tj, "env") /\ tj["env"].t # "obj" THEN {<<"env">>}
                       ELSE {<<"env", k>> : k \in {k \in DOMAIN env : env[k].t # "str"}}
    IN  UNION {Missing(tj, {"id", "type"}), Mistyped(tj, TaskTypes),
               {<<"type">> : s \in Range(AsString(tj, "type"))
                                     \ {"python", "executable"}},
               program, environment, StringArrayErrors(tj, "arguments"),
               ArtifactErrors(tj, "inputs"), ArtifactErrors(tj, "outputs"),
               ObjectErrors(tj, "retry", RetryTypes),
               ObjectErrors(tj, "resources", ResourceTypes),
               StringArrayErrors(tj, "depends_on")}

(* The tasks that are objects.                                             *)
TaskObjects(doc) ==
    LET items == SelectSeq(AsArray(doc, "tasks"), LAMBDA item : item.t = "obj")
    IN  [i \in DOMAIN items |-> items[i].v]

(* depends_on of every task in turn, then the list of dependencies.        *)
Edges(doc) ==
    LET of(tj) == [i \in DOMAIN AsStringArray(tj, "depends_on") |->
                     <<AsStringArray(tj, "depends_on")[i],
                       OrElse(AsString(tj, "id"), "")>>]
        objects == TaskObjects(doc)
        listed == SelectSeq(AsArray(doc, "dependencies"), LAMBDA d :
                      d.t = "obj" /\ AsString(d.v, "from") # <<>>
                                  /\ AsString(d.v, "to") # <<>>)
    IN  FlattenSeq([i \in DOMAIN objects |-> of(objects[i])])
          \o [i \in DOMAIN listed |-> <<listed[i].v["from"].v, listed[i].v["to"].v>>]

ParsePipeline(doc, base) ==
    LET objects == TaskObjects(doc) IN
    [schema_version |-> NarrowOr(AsInt(doc, "schema_version"), 1),
     name  |-> OrElse(AsString(doc, "name"), ""),
     description |-> OrElse(AsString(doc, "description"), ""),
     base_directory |-> base,
     tasks |-> [i \in DOMAIN objects |-> ParseTask(objects[i], Defaults(doc))],
     edges |-> Edges(doc),
     max_concurrency |-> NarrowOr(AsInt(doc, "max_concurrency"), 0)]

DocumentTypes == [schema_version |-> {"int"}, name |-> {"str"},
                  description |-> {"str"}, max_concurrency |-> {"int"}]

EdgeErrors(item) ==
    IF item.t # "obj" THEN {<<>>}
    ELSE Missing(item.v, {"from", "to"})
           \cup Mistyped(item.v, [from |-> {"str"}, to |-> {"str"}])

(* Every error of the document is reported, not only the first one.        *)
LoadErrors(json) ==
    IF json.t # "obj" THEN {<<>>} ELSE
    LET doc == json.v IN
    UNION {Mistyped(doc, DocumentTypes), Missing(doc, {"name"}),
           {<<"schema_version">> : n \in Range(AsInt(doc, "schema_version")) \ {1}},
           {<<"name">> : s \in Range(AsString(doc, "name")) \cap {""}},
           DefaultErrors(doc),
           IF AsArray(doc, "tasks") = <<>> THEN {<<"tasks">>} ELSE {},
           ItemErrors(doc, "tasks", TaskErrors),
           IF HasKey(doc, "dependencies") /\ doc["dependencies"].t # "arr"
           THEN {<<"dependencies">>} ELSE {},
           ItemErrors(doc, "dependencies", EdgeErrors)}

(* LoadResult: the pipeline is set if there is no error.                   *)
Load(json, base) ==
    IF LoadErrors(json) # {} THEN <<>> ELSE <<ParsePipeline(json.v, base)>>

-----------------------------------------------------------------------------
(* dump_pipeline *)

(* Fields that are left out if they have no value.                         *)
If(given, key, value) == IF given THEN key :> value ELSE <<>>

StringsToJson(s) == Arr([i \in DOMAIN s |-> Str(s[i])])

RetryToJson(p) ==
    Obj([max_retries |-> Whole(p.max_retries), base_delay_ms |-> Whole(p.base_delay),
         backoff_multiplier |-> Num(p.backoff_multiplier),
         max_delay_ms |-> Whole(p.max_delay)])

ArtifactsToJson(decls) ==
    Arr([i \in DOMAIN decls |->
           Obj([name |-> Str(decls[i].name), path |-> Str(decls[i].path),
                checksum |-> Bool(decls[i].checksum)])])

TaskFields(t) ==
    [id |-> Str(t.id), name |-> Str(t.name), type |-> Str(t.type),
     arguments |-> StringsToJson(t.arguments),
     retry     |-> RetryToJson(t.retry),
     resources |-> Obj([dim \in DOMAIN t.resources |-> Whole(t.resources[dim])]),
     priority  |-> Whole(t.priority), cache |-> Bool(t.cache_enabled)]
      @@ (IF t.type = "python"
          THEN [interpreter |-> Str(t.program), script |-> Str(t.script)]
          ELSE [executable |-> Str(t.program)])
      @@ If(DOMAIN t.environment # {}, "env",
            Obj([k \in DOMAIN t.environment |-> Str(t.environment[k])]))
      @@ If(t.working_directory # NoPath, "working_directory",
            Str(t.working_directory))

(* A timeout is not written down.                                          *)
BugTaskToJson(t) ==
    Obj(TaskFields(t)
          @@ If(t.inputs # <<>>, "inputs", ArtifactsToJson(t.inputs))
          @@ If(t.outputs # <<>>, "outputs", ArtifactsToJson(t.outputs)))

TaskToJson(t) ==
    Obj(TaskFields(t)
          @@ If(t.inputs # <<>>, "inputs", ArtifactsToJson(t.inputs))
          @@ If(t.outputs # <<>>, "outputs", ArtifactsToJson(t.outputs))
          @@ If(t.timeout # <<>>, "timeout_ms", Whole(OrElse(t.timeout, 0))))

(* All defaults have become fields of the tasks, and all edges are listed. *)
Dump(p) ==
    Obj([schema_version |-> Whole(p.schema_version), name |-> Str(p.name),
         tasks |-> Arr([i \in DOMAIN p.tasks |-> TaskToJson(p.tasks[i])]),
         dependencies |-> Arr([i \in DOMAIN p.edges |->
                                 Obj([from |-> Str(p.edges[i][1]),
                                      to |-> Str(p.edges[i][2])])])]
          @@ If(p.description # "", "description", Str(p.description))
          @@ If(p.max_concurrency > 0, "max_concurrency", Whole(p.max_concurrency)))
=============================================================================

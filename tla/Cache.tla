------------------------------- MODULE Cache --------------------------------
(***************************************************************************)
(* The result cache: cache::CacheStore and compute_cache_key (src/core/    *)
(* cache), the artifacts they probe (src/core/artifacts) and the two       *)
(* places where Scheduler uses them, try_start and on_task_succeeded.  One *)
(* run of the pipeline follows the other; between runs, and if EditWhile   *)
(* also during one, the user changes and deletes files.                    *)
(*                                                                         *)
(* A content stands for the bytes of a file: a version the user wrote, or  *)
(* what a program makes of the contents it has read.  A program is told    *)
(* its command and nothing of the task that starts it, so tasks with the   *)
(* same command write the same files.  SHA-256 is taken to be injective,   *)
(* and no two writes get the same modification time.                       *)
(***************************************************************************)
EXTENDS Integers, FiniteSets, Functions

CONSTANTS
    Tasks,           \* the tasks that are cached
    Pipelines,       \* the pipelines: deps[t], the tasks t depends on, and
                     \* definitions[t], how the user may define t, records of
                     \* a command and of the paths of inputs and outputs
    Makes,           \* Makes[c]: the paths the program of command c writes
    HashIn, HashOut, \* the paths declared with a checksum, as input, as output
    Versions,        \* the contents a user writes
    Size(_),         \* the size of a content
    MaxWrites,       \* how often a file is written
    EditWhile        \* the user does not wait for a run to end

DefinitionsIn(pl) == UNION {pl.definitions[t] : t \in Tasks}

AllDefinitions == UNION {DefinitionsIn(pl) : pl \in Pipelines}

Paths == UNION {d.inputs \cup d.outputs \cup Makes[d.command] : d \in AllDefinitions}

ASSUME CacheAssumption ==
    /\ MaxWrites \in Nat
    /\ EditWhile \in BOOLEAN
    /\ \A pl \in Pipelines : \A t \in Tasks : pl.deps[t] \subseteq Tasks

(* The user waits for the run to end, hashes the outputs and defines tasks *)
(* so that each file has one writer, upstream of its readers, and that a   *)
(* command comes with one set of outputs, which its program writes.        *)
(* Nothing in the code asks for it: pipeline_validator.cpp lets two tasks  *)
(* declare one output and an input come from a task that is not upstream,  *)
(* and compute_cache_key looks at no output.                               *)
Careful(pl) ==
    /\ ~EditWhile
    /\ \A d \in DefinitionsIn(pl) :
         d.outputs \subseteq Makes[d.command] /\ d.outputs \subseteq HashOut
    /\ \A d, e \in DefinitionsIn(pl) :
         d.command = e.command => d.outputs = e.outputs
    /\ \A t, u \in Tasks : \A d \in pl.definitions[t], e \in pl.definitions[u] :
         /\ t # u => Makes[d.command] \cap Makes[e.command] = {}
         /\ Makes[d.command] \cap e.inputs # {} => t # u /\ t \in pl.deps[u]

VARIABLES
    pipeline,  \* the pipeline, the same throughout
    file,      \* what is at each path
    def,       \* the definition of each task: its command stands for type,
               \* program, script, arguments, environment, working directory
               \* and the names of its inputs
    clock,     \* the modification time of the last write
    entries,   \* cache_entries: the snapshots of the outputs, by key
    enabled,   \* the run is not one with --no-cache
    at,        \* where each task is
    took,      \* what the child of a task has read
    untouched  \* history: the tasks for which nothing has changed since they
               \* were stored, under a key that no other task has used since

vars == <<pipeline, file, def, clock, entries, enabled, at, took, untouched>>

Deps(t) == pipeline.deps[t]
Command(t) == def[t].command
Inputs(t) == def[t].inputs
Outputs(t) == def[t].outputs

(* What the child of t writes, declared or not.                            *)
Made(t) == Makes[Command(t)]

-----------------------------------------------------------------------------
(* Artifacts *)

Absent == [there |-> FALSE]
Written(content, mtime) == [there |-> TRUE, content |-> content, mtime |-> mtime]

Exists(S) == \A p \in S : file[p].there

(* Artifact::identity() of an input, probed now.                           *)
Identity(p) ==
    IF ~file[p].there THEN <<p, "absent">>
    ELSE IF p \in HashIn THEN <<p, "sha256", file[p].content>>
    ELSE <<p, "size_mtime", Size(file[p].content), file[p].mtime>>

(* A key that leaves the inputs out.                                       *)
BugKey(t) == <<Command(t), {}>>

(* compute_cache_key: what the task is told to do, and the identities of   *)
(* the inputs.  Neither the task nor its outputs are part of it.           *)
Key(t) == <<Command(t), {Identity(p) : p \in Inputs(t)}>>

(* What is recorded of an output.  The content counts only if it is hashed.*)
Snapshot(t) == [p \in Outputs(t) |-> file[p].content]

(* The file is still there.                                                *)
BugStillValid(p, content) == file[p].there

(* output_still_valid.                                                     *)
StillValid(p, content) ==
    /\ file[p].there
    /\ IF p \in HashOut THEN file[p].content = content
       ELSE Size(file[p].content) = Size(content)

(* What the child of t writes to p if it has read these contents, and what *)
(* it may leave there if it fails.                                         *)
Product(t, p, contents) == <<p, Command(t), contents>>
Partial(t, p) == <<p, Command(t), <<>>>>

Contents(t) == [p \in Inputs(t) |-> file[p].content]

-----------------------------------------------------------------------------
Points == {"waiting", "launched", "working", "exited", "cached", "succeeded",
           "failed"}

Ended == {"cached", "succeeded", "failed"}
Succeeded == {"cached", "succeeded"}

RunOver == \A t \in Tasks : at[t] \in Ended

Init ==
    /\ pipeline \in Pipelines
    /\ def \in [Tasks -> DefinitionsIn(pipeline)]
    /\ \A t \in Tasks : def[t] \in pipeline.definitions[t]
    /\ \E v \in Versions :
         file = [p \in Paths |-> IF \E d \in AllDefinitions : p \in Makes[d.command]
                                 THEN Absent ELSE Written(v, 0)]
    /\ clock = 0
    /\ entries = <<>>
    /\ enabled = TRUE
    /\ at = [t \in Tasks |-> "failed"]
    /\ took = [t \in Tasks |-> <<>>]
    /\ untouched = {}

StartRun ==
    /\ RunOver
    /\ enabled' \in BOOLEAN
    /\ at' = [t \in Tasks |-> "waiting"]
    /\ UNCHANGED <<file, def, clock, entries, took, untouched>>

-----------------------------------------------------------------------------
(* Scheduler::try_start *)

Ready(t) == at[t] = "waiting" /\ \A d \in Deps(t) : at[d] \in Succeeded

Moved(t, point) == at' = [at EXCEPT ![t] = point]

MissingInput(t) ==
    /\ Ready(t) /\ ~Exists(Inputs(t))
    /\ Moved(t, "failed")
    /\ UNCHANGED <<file, def, clock, entries, enabled, took, untouched>>

Found(t) == enabled /\ Key(t) \in DOMAIN entries

AllValid(t) == \A p \in DOMAIN entries[Key(t)] : StillValid(p, entries[Key(t)][p])

(* CacheRepository::remove, and store, which replaces an entry of the key, *)
(* whichever task it is of.                                                *)
Removed(t) == Restrict(entries, DOMAIN entries \ {Key(t)})

Stored(t) == [k \in DOMAIN entries \cup {Key(t)} |->
                IF k = Key(t) THEN Snapshot(t) ELSE entries[k]]

(* The entry is used once.                                                 *)
BugHit(t) ==
    /\ Ready(t) /\ Exists(Inputs(t)) /\ Found(t) /\ AllValid(t)
    /\ entries' = Removed(t)
    /\ Moved(t, "cached")
    /\ UNCHANGED <<file, def, clock, enabled, took, untouched>>

(* CacheStore::lookup finds a valid entry.                                 *)
Hit(t) ==
    /\ Ready(t) /\ Exists(Inputs(t)) /\ Found(t) /\ AllValid(t)
    /\ Moved(t, "cached")
    /\ UNCHANGED <<file, def, clock, entries, enabled, took, untouched>>

(* It finds none, or one that is not valid, which it removes.              *)
Miss(t) ==
    /\ Ready(t) /\ Exists(Inputs(t))
    /\ Found(t) => ~AllValid(t)
    /\ entries' = IF Found(t) THEN Removed(t) ELSE entries
    /\ Moved(t, "launched")
    /\ UNCHANGED <<file, def, clock, enabled, took, untouched>>

(* skip_downstream.                                                        *)
Skip(t) ==
    /\ at[t] = "waiting" /\ \E d \in Deps(t) : at[d] = "failed"
    /\ Moved(t, "failed")
    /\ UNCHANGED <<file, def, clock, entries, enabled, took, untouched>>

-----------------------------------------------------------------------------
(* The child: it reads the inputs of the task, then writes its files *)

(* What the files of S are changed to; those who use them are no longer    *)
(* untouched.                                                              *)
Changed(S, new) ==
    /\ file' = [p \in Paths |-> IF p \in S THEN new[p] ELSE file[p]]
    /\ untouched' = {t \in untouched : (Inputs(t) \cup Outputs(t)) \cap S = {}}

ChildReads(t) ==
    /\ at[t] = "launched" /\ Exists(Inputs(t))
    /\ took' = [took EXCEPT ![t] = Contents(t)]
    /\ Moved(t, "working")
    /\ UNCHANGED <<file, def, clock, entries, enabled, untouched>>

ChildWrites(t) ==
    /\ at[t] = "working" /\ clock < MaxWrites
    /\ clock' = clock + 1
    /\ Changed(Made(t),
               [p \in Made(t) |-> Written(Product(t, p, took[t]), clock + 1)])
    /\ took' = [took EXCEPT ![t] = <<>>]
    /\ Moved(t, "exited")
    /\ UNCHANGED <<def, entries, enabled>>

(* It exits with 0 and has left no file behind.                            *)
ChildMakesNothing(t) ==
    /\ at[t] = "working"
    /\ Changed(Made(t), [p \in Made(t) |-> Absent])
    /\ took' = [took EXCEPT ![t] = <<>>]
    /\ Moved(t, "exited")
    /\ UNCHANGED <<def, clock, entries, enabled>>

(* It fails, with or without half an output; on_task_failed ends the task  *)
(* or tries it again.                                                      *)
ChildFails(t) ==
    /\ at[t] \in {"launched", "working"}
    /\ took' = [took EXCEPT ![t] = <<>>]
    /\ \/ UNCHANGED <<file, clock, untouched>>
       \/ /\ clock < MaxWrites
          /\ clock' = clock + 1
          /\ Changed(Made(t),
                     [p \in Made(t) |-> Written(Partial(t, p), clock + 1)])
    /\ Moved(t, "failed") \/ Moved(t, "waiting")
    /\ UNCHANGED <<def, entries, enabled>>

(* on_task_succeeded: the outputs are recorded under the key that the      *)
(* inputs have now.                                                        *)
Finish(t) ==
    /\ at[t] = "exited" /\ Exists(Outputs(t))
    /\ IF enabled
       THEN /\ entries' = Stored(t)
            /\ untouched' = {u \in untouched : Key(u) # Key(t)} \cup {t}
       ELSE UNCHANGED <<entries, untouched>>
    /\ Moved(t, "succeeded")
    /\ UNCHANGED <<file, def, clock, enabled, took>>

(* verify_outputs.                                                         *)
MissingOutput(t) ==
    /\ at[t] = "exited" /\ ~Exists(Outputs(t))
    /\ Moved(t, "failed") \/ Moved(t, "waiting")
    /\ UNCHANGED <<file, def, clock, entries, enabled, took, untouched>>

-----------------------------------------------------------------------------
(* The user *)

MayEdit == EditWhile \/ RunOver

Edit(p) ==
    /\ MayEdit /\ clock < MaxWrites
    /\ clock' = clock + 1
    /\ \E v \in Versions : Changed({p}, [q \in {p} |-> Written(v, clock + 1)])
    /\ UNCHANGED <<def, entries, enabled, at, took>>

Delete(p) ==
    /\ MayEdit /\ file[p].there
    /\ Changed({p}, [q \in {p} |-> Absent])
    /\ UNCHANGED <<def, clock, entries, enabled, at, took>>

(* The task is defined otherwise, in the document that the next run reads: *)
(* told something else, or declared to read or to make something else.     *)
Revise(t) ==
    /\ RunOver
    /\ \E d \in pipeline.definitions[t] \ {def[t]} : def' = [def EXCEPT ![t] = d]
    /\ untouched' = untouched \ {t}
    /\ UNCHANGED <<file, clock, entries, enabled, at, took>>

(* clean-cache: all entries, or those that were not used for some time.    *)
CleanCache ==
    /\ \E S \in SUBSET DOMAIN entries : entries' = Restrict(entries, S)
    /\ entries' # entries
    /\ untouched' = {}
    /\ UNCHANGED <<file, def, clock, enabled, at, took>>

Next ==
    /\ \/ StartRun
       \/ \E t \in Tasks : \/ MissingInput(t) \/ Hit(t) \/ Miss(t) \/ Skip(t)
                           \/ ChildReads(t) \/ ChildWrites(t)
                           \/ ChildMakesNothing(t) \/ ChildFails(t)
                           \/ Finish(t) \/ MissingOutput(t)
       \/ \E p \in Paths : Edit(p) \/ Delete(p)
       \/ \E t \in Tasks : Revise(t)
       \/ CleanCache
    /\ UNCHANGED pipeline

Spec == Init /\ [][Next]_vars

-----------------------------------------------------------------------------
(* Properties *)

(* The outputs of t are what t would write if it were executed now.        *)
UpToDate(t) ==
    Exists(Inputs(t)) /\ \A p \in Outputs(t) :
        file[p].there /\ file[p].content = Product(t, p, Contents(t))

(* A task that is CACHED has outputs that executing it would not change,   *)
(* whatever was edited, revised, deleted, reverted, executed without the   *)
(* cache or left half-written by a failed execution since the entry was    *)
(* stored (CacheStore::lookup, compute_cache_key), if the pipeline is a    *)
(* careful one: see DeletedNeverReused.                                    *)
HitIsRight ==
    [][\A t \in Tasks : at[t] # "cached" /\ at'[t] = "cached" =>
         (Careful(pipeline) => UpToDate(t))]_vars

(* When a run ends in success, all its files are consistent with the       *)
(* sources, through every step of the pipeline, whichever of the tasks     *)
(* were executed (try_start, on_task_succeeded), if the pipeline is a      *)
(* careful one.                                                            *)
RunMakesEverything ==
    [][~RunOver /\ (\A t \in Tasks : at'[t] \in Succeeded) =>
         (Careful(pipeline) => \A t \in Tasks : UpToDate(t)')]_vars

(* The cache works: a task is not executed again (try_start) if its files, *)
(* its definition and the cache are as they were when its result was       *)
(* stored, and no other task has stored a result under the same key since: *)
(* other tasks share files, commands and entries with it as they like.     *)
UnchangedIsReused ==
    [][\A t \in Tasks : at[t] = "waiting" /\ at'[t] = "launched" /\ enabled
            => t \notin untouched]_vars

-----------------------------------------------------------------------------
(* What the documentation says and the code does not do *)

(* user-guide.md: a cached entry whose output file was deleted or modified *)
(* is discarded, never reused; caching.md: delete the output of a task and *)
(* it executes.  CacheStore::lookup asks for the outputs that the entry    *)
(* has recorded, and compute_cache_key leaves out whose they are: a task   *)
(* is CACHED without its outputs when the entry is that of another task,   *)
(* or of a definition that declared fewer.                                 *)
DeletedNeverReused ==
    [][\A t \in Tasks : at[t] # "cached" /\ at'[t] = "cached"
            => Exists(Outputs(t))]_vars

(* user-guide.md: a task is executed again when its inputs have changed.   *)
(* on_task_succeeded probes the inputs after the execution: an input that  *)
(* is edited while the task runs gives the old result the new key.         *)
ChangedNeverReused ==
    [][\A t \in Tasks : at[t] # "cached" /\ at'[t] = "cached" =>
         \A p \in DOMAIN entries[Key(t)], old \in [Inputs(t) -> Versions] :
             entries[Key(t)][p] = Product(t, p, old) => old = Contents(t)]_vars

(* The first sentence, of an output that is recorded without a checksum:   *)
(* output_still_valid compares its size only.                              *)
ModifiedNeverReused ==
    [][\A t \in Tasks : at[t] # "cached" /\ at'[t] = "cached" =>
         \A p \in DOMAIN entries[Key(t)] :
             file[p].there /\ file[p].content = entries[Key(t)][p]]_vars
=============================================================================

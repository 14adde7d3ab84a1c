---------------------------- MODULE CacheProofs -----------------------------
(***************************************************************************)
(* Proofs about module Cache, for any pipelines, files and commands and    *)
(* any number of runs.                                                     *)
(*                                                                         *)
(* An entry is never compared with what it was made from: a hit compares   *)
(* identities of inputs now with a key from the past.  EntryInv says what  *)
(* such a key still tells of the files, and RunInv what the tasks of the   *)
(* current run have seen of them.                                          *)
(***************************************************************************)
EXTENDS Cache, TLAPS

-----------------------------------------------------------------------------
(* The invariants *)

TypeInv ==
    /\ clock \in Nat /\ enabled \in BOOLEAN
    /\ at \in [Tasks -> Points]
    /\ pipeline \in Pipelines
    /\ def \in [Tasks -> DefinitionsIn(pipeline)]
    /\ \A t \in Tasks : def[t] \in pipeline.definitions[t]
    /\ DOMAIN took = Tasks /\ took = [t \in Tasks |-> took[t]]
    /\ untouched \subseteq Tasks
    /\ \A p \in Paths :
         file[p].there \in BOOLEAN /\ (file[p].there => file[p].mtime \in 0 .. clock)

(* The entry that t would find is its own, and is valid.                   *)
Reusable(t) ==
    /\ Key(t) \in DOMAIN entries /\ DOMAIN entries[Key(t)] = Outputs(t)
    /\ \A p \in Outputs(t) : StillValid(p, entries[Key(t)][p])

(* An untouched task would find it.                                        *)
ReuseInv == \A t \in untouched : Reusable(t)

(* The command of a key says which outputs are recorded: so it is only in  *)
(* a careful pipeline.                                                     *)
KeyInv ==
    \A k \in DOMAIN entries : \A d \in DefinitionsIn(pipeline) :
      d.command = k[1] => DOMAIN entries[k] = d.outputs

(* The identity id tells that q had this content: it has the checksum, or  *)
(* a modification time at which q can have had no other.                   *)
Tells(id, q, content) ==
    \/ q \in HashIn /\ id = <<q, "sha256", content>>
    \/ /\ q \notin HashIn
       /\ \E m \in 0 .. clock :
            /\ id = <<q, "size_mtime", Size(content), m>>
            /\ (file[q].there /\ file[q].mtime = m) => file[q].content = content

(* The paths that the identities of a key name.                            *)
Named(k) == {id[1] : id \in k[2]}

(* The snapshot of an output is what the command of the key makes of       *)
(* contents that the identities of the key tell.                           *)
Faithful(k, p, content) ==
    /\ content = <<p, k[1], content[3]>>
    /\ content[3] = [q \in Named(k) |-> content[3][q]]
    /\ \A id \in k[2] : id[1] \in Paths /\ Tells(id, id[1], content[3][id[1]])

(* What the entries say is true of the files of then, and still of some now.*)
EntryInv ==
    \A k \in DOMAIN entries :
      \A p \in DOMAIN entries[k] : Faithful(k, p, entries[k][p])

(* What a task of the current run has before it and behind it.             *)
Busy == {"launched", "working", "exited"}

(* A task that is busy has seen its inputs as they are; one that has       *)
(* succeeded has made its outputs of them.                                 *)
TaskInv(t) ==
    /\ at[t] \in Busy \cup Succeeded => \A d \in Deps(t) : at[d] \in Succeeded
    /\ at[t] \in Busy => Exists(Inputs(t))
    /\ at[t] = "working" => took[t] = Contents(t)
    /\ at[t] = "exited" => \A p \in Outputs(t) :
         file[p].there => file[p].content = Product(t, p, Contents(t))
    /\ at[t] \in Succeeded => UpToDate(t)

(* As long as the run is not over: afterwards the user edits.              *)
RunInv == ~RunOver => \A t \in Tasks : TaskInv(t)


-----------------------------------------------------------------------------
(* Files and keys *)

LEMMA PathFacts ==
  ASSUME TypeInv, NEW t \in Tasks
  PROVE  Inputs(t) \subseteq Paths /\ Outputs(t) \subseteq Paths /\ Made(t) \subseteq Paths
<1>1. def[t] \in AllDefinitions
  BY DEF TypeInv, AllDefinitions
<1> QED BY <1>1 DEF Paths, Inputs, Outputs, Made, Command

(* Dependencies are tasks.                                                 *)
LEMMA DepsAreTasks == ASSUME TypeInv, NEW t \in Tasks PROVE Deps(t) \subseteq Tasks
BY CacheAssumption DEF TypeInv, Deps

(* What the definitions of a careful user say of the tasks.                *)
LEMMA CarefulFacts ==
  ASSUME Careful(pipeline), TypeInv, NEW t \in Tasks
  PROVE  /\ Outputs(t) \subseteq Made(t) /\ Outputs(t) \subseteq HashOut
         /\ Made(t) \cap Inputs(t) = {}
         /\ \A d \in DefinitionsIn(pipeline) :
              d.command = Command(t) => d.outputs = Outputs(t)
         /\ \A u \in Tasks \ {t} : Made(u) \cap Made(t) = {}
         /\ \A u \in Tasks : u \notin Deps(t) => Made(u) \cap Inputs(t) = {}
<1>1. def[t] \in DefinitionsIn(pipeline) /\ def[t] \in pipeline.definitions[t]
      /\ \A u \in Tasks : def[u] \in pipeline.definitions[u]
  BY DEF TypeInv
<1>2. Outputs(t) \subseteq Made(t) /\ Outputs(t) \subseteq HashOut
  BY <1>1 DEF Careful, Outputs, Made, Command
<1>3. \A d \in DefinitionsIn(pipeline) :
        d.command = Command(t) => d.outputs = Outputs(t)
  BY <1>1 DEF Careful, Outputs, Command
<1>4. \A u \in Tasks \ {t} : Made(u) \cap Made(t) = {}
  BY <1>1 DEF Careful, Made, Command
<1>5. \A u \in Tasks : Made(u) \cap Inputs(t) # {} => u # t /\ u \in Deps(t)
  BY <1>1 DEF Careful, Made, Command, Inputs, Deps
<1> QED BY <1>2, <1>3, <1>4, <1>5

(* What Changed leaves of a file.                                          *)
LEMMA ChangedFiles ==
  ASSUME NEW S, NEW new, Changed(S, new)
  PROVE  /\ \A p \in Paths : p \in S => file'[p] = new[p]
         /\ \A p \in Paths : p \notin S => file'[p] = file[p]
         /\ \A t \in untouched' :
              /\ t \in untouched
              /\ \A p \in Inputs(t) \cup Outputs(t) : p \notin S
BY DEF Changed

(* The parts of a key.                                                     *)
LEMMA KeyParts ==
  ASSUME NEW t
  PROVE  Key(t)[1] = Command(t) /\ Key(t)[2] = {Identity(p) : p \in Inputs(t)}
BY DEF Key

(* An identity names its path.                                             *)
LEMMA IdentityPath == ASSUME NEW p PROVE Identity(p)[1] = p
BY DEF Identity

(* A key names the inputs.                                                 *)
LEMMA KeyNames == ASSUME NEW t PROVE Named(Key(t)) = Inputs(t)
<1>1. ASSUME NEW q \in Inputs(t) PROVE q \in Named(Key(t))
  <2>1. Identity(q) \in Key(t)[2] /\ Identity(q)[1] = q
    BY KeyParts, IdentityPath
  <2> QED BY <2>1 DEF Named
<1>2. ASSUME NEW q \in Named(Key(t)) PROVE q \in Inputs(t)
  <2>1. PICK id \in Key(t)[2] : q = id[1]
    BY DEF Named
  <2>2. PICK p \in Inputs(t) : id = Identity(p)
    BY KeyParts
  <2> QED BY <2>1, <2>2, IdentityPath
<1> QED BY <1>1, <1>2

(* What a task declares is that of its definition.                         *)
LEMMA SameDefinition ==
  ASSUME NEW t, def'[t] = def[t]
  PROVE  Inputs(t)' = Inputs(t) /\ Outputs(t)' = Outputs(t) /\ Command(t)' = Command(t)
BY DEF Inputs, Outputs, Command

(* A key is that of the definition and of the inputs.                      *)
LEMMA KeyKept ==
  ASSUME NEW t, def'[t] = def[t], \A p \in Inputs(t) : file'[p] = file[p]
  PROVE  Key(t)' = Key(t)
<1>1. \A p \in Inputs(t) : Identity(p)' = Identity(p)
  BY DEF Identity
<1>2. {Identity(p)' : p \in Inputs(t)} = {Identity(p) : p \in Inputs(t)}
  BY <1>1, Zenon
<1>3. Inputs(t)' = Inputs(t) /\ Command(t)' = Command(t)
  BY SameDefinition
<1> HIDE DEF Inputs
<1>4. {Identity(p) : p \in Inputs(t)}' = {Identity(p)' : p \in Inputs(t)}
  BY <1>3
<1> QED BY <1>2, <1>3, <1>4 DEF Key

(* The validity of an output is that of its file.                          *)
LEMMA ValidKept ==
  ASSUME NEW p, NEW content, file'[p] = file[p]
  PROVE  StillValid(p, content)' = StillValid(p, content)
BY DEF StillValid

-----------------------------------------------------------------------------
(* Types *)

(* A file that was written now has the new time, an absent one has none.   *)
LEMMA FileTypes ==
  ASSUME TypeInv, NEW S, NEW new, Changed(S, new), clock' \in Nat, clock' >= clock,
         \A p \in S : \/ new[p] = Absent
                      \/ \E c : new[p] = Written(c, clock')
  PROVE  /\ \A p \in Paths : file'[p].there \in BOOLEAN
                              /\ (file'[p].there => file'[p].mtime \in 0 .. clock')
         /\ untouched' \subseteq Tasks
<1>1. ASSUME NEW p \in Paths
      PROVE  file'[p].there \in BOOLEAN
               /\ (file'[p].there => file'[p].mtime \in 0 .. clock')
  <2>1. CASE p \notin S
    <3>1. file'[p] = file[p]
      BY <2>1, ChangedFiles
    <3> QED BY <3>1 DEF TypeInv
  <2>2. CASE p \in S /\ new[p] = Absent
    <3>1. file'[p].there = FALSE
      BY <2>2, ChangedFiles DEF Absent
    <3> QED BY <3>1
  <2>3. CASE p \in S /\ \E c : new[p] = Written(c, clock')
    <3>1. PICK c : file'[p] = Written(c, clock')
      BY <2>3, ChangedFiles
    <3> QED BY <3>1 DEF Written
  <2> QED BY <2>1, <2>2, <2>3
<1>2. untouched' \subseteq Tasks
  BY ChangedFiles DEF TypeInv
<1> QED BY <1>1, <1>2

(* The first state.                                                        *)
LEMMA TypeInit == Init => TypeInv
<1> SUFFICES ASSUME Init PROVE TypeInv
  OBVIOUS
<1>1. \A p \in Paths : file[p].there \in BOOLEAN
                        /\ (file[p].there => file[p].mtime \in 0 .. clock)
  <2>1. PICK v \in Versions :
          file = [p \in Paths |-> IF \E d \in AllDefinitions : p \in Makes[d.command]
                                  THEN Absent ELSE Written(v, 0)]
    BY DEF Init
  <2>2. \A p \in Paths : file[p] = Absent \/ file[p] = Written(v, 0)
    BY <2>1
  <2>3. clock = 0 /\ Absent.there = FALSE /\ Written(v, 0).there = TRUE
        /\ Written(v, 0).mtime = 0 /\ 0 \in 0 .. clock
    BY DEF Init, Absent, Written
  <2> QED BY <2>2, <2>3, Zenon
<1> QED BY <1>1 DEF Init, TypeInv, Points

(* The types, action by action.                                            *)
LEMMA TypeNext == TypeInv /\ [Next]_vars => TypeInv'
<1> SUFFICES ASSUME TypeInv, [Next]_vars PROVE TypeInv'
  OBVIOUS
<1> USE DEF TypeInv
<1>0. pipeline' = pipeline /\ DefinitionsIn(pipeline)' = DefinitionsIn(pipeline)
  BY DEF Next, vars, DefinitionsIn
<1>1. CASE StartRun
  BY <1>0, <1>1 DEF StartRun, Points
<1>2. ASSUME NEW t \in Tasks, MissingInput(t) \/ Hit(t) \/ Miss(t) \/ Skip(t)
      PROVE  TypeInv'
  BY <1>0, <1>2 DEF MissingInput, Hit, Miss, Skip, Moved, Points
<1>3. ASSUME NEW t \in Tasks, ChildReads(t) PROVE TypeInv'
  BY <1>0, <1>3 DEF ChildReads, Moved, Points
<1>4. ASSUME NEW t \in Tasks, ChildWrites(t) PROVE TypeInv'
  <2> DEFINE new == [p \in Made(t) |-> Written(Product(t, p, took[t]), clock + 1)]
  <2>1. Changed(Made(t), new) /\ clock' = clock + 1
    BY <1>4 DEF ChildWrites
  <2>2. \A p \in Made(t) : \E c : new[p] = Written(c, clock')
    BY <2>1
  <2> HIDE DEF new
  <2>3. clock' \in Nat /\ clock' >= clock
    BY <2>1
  <2>4. /\ \A p \in Paths : file'[p].there \in BOOLEAN
                             /\ (file'[p].there => file'[p].mtime \in 0 .. clock')
        /\ untouched' \subseteq Tasks
    BY <2>1, <2>2, <2>3, FileTypes
  <2> QED BY <1>0, <1>4, <2>3, <2>4 DEF ChildWrites, Moved, Points
<1>5. ASSUME NEW t \in Tasks, ChildMakesNothing(t) PROVE TypeInv'
  <2> DEFINE new == [p \in Made(t) |-> Absent]
  <2>1. Changed(Made(t), new) /\ clock' = clock /\ clock' \in Nat /\ clock' >= clock
    BY <1>5 DEF ChildMakesNothing
  <2>2. \A p \in Made(t) : new[p] = Absent
    OBVIOUS
  <2> HIDE DEF new
  <2>4. /\ \A p \in Paths : file'[p].there \in BOOLEAN
                             /\ (file'[p].there => file'[p].mtime \in 0 .. clock')
        /\ untouched' \subseteq Tasks
    BY <2>1, <2>2, FileTypes
  <2> QED BY <1>0, <1>5, <2>1, <2>4 DEF ChildMakesNothing, Moved, Points
<1>6. ASSUME NEW t \in Tasks, ChildFails(t) PROVE TypeInv'
  <2> DEFINE new == [p \in Made(t) |-> Written(Partial(t, p), clock + 1)]
  <2>1. \/ UNCHANGED <<file, clock, untouched>>
        \/ clock' = clock + 1 /\ Changed(Made(t), new)
    BY <1>6 DEF ChildFails
  <2>2. \A p \in Made(t) : clock' = clock + 1 => \E c : new[p] = Written(c, clock')
    OBVIOUS
  <2> HIDE DEF new
  <2>3. clock' \in Nat /\ clock' >= clock
    BY <2>1
  <2>4. /\ \A p \in Paths : file'[p].there \in BOOLEAN
                             /\ (file'[p].there => file'[p].mtime \in 0 .. clock')
        /\ untouched' \subseteq Tasks
    <3>1. CASE UNCHANGED <<file, clock, untouched>>
      BY <3>1
    <3>2. CASE clock' = clock + 1 /\ Changed(Made(t), new)
      BY <3>2, <2>2, <2>3, FileTypes
    <3> QED BY <2>1, <3>1, <3>2
  <2> QED BY <1>0, <1>6, <2>3, <2>4 DEF ChildFails, Moved, Points
<1>7. ASSUME NEW t \in Tasks, Finish(t) \/ MissingOutput(t) PROVE TypeInv'
  BY <1>0, <1>7 DEF Finish, MissingOutput, Moved, Points
<1>8. ASSUME NEW q \in Paths, Edit(q) PROVE TypeInv'
  <2>1. PICK v \in Versions : Changed({q}, [p \in {q} |-> Written(v, clock + 1)])
    BY <1>0, <1>8 DEF Edit
  <2> DEFINE new == [p \in {q} |-> Written(v, clock + 1)]
  <2>2. clock' = clock + 1 /\ clock' \in Nat /\ clock' >= clock
    BY <1>0, <1>8 DEF Edit
  <2>3. \A p \in {q} : \E c : new[p] = Written(c, clock')
    BY <2>2
  <2>4. Changed({q}, new)
    BY <2>1
  <2> HIDE DEF new
  <2>5. /\ \A p \in Paths : file'[p].there \in BOOLEAN
                             /\ (file'[p].there => file'[p].mtime \in 0 .. clock')
        /\ untouched' \subseteq Tasks
    BY <2>2, <2>3, <2>4, FileTypes
  <2> QED BY <1>0, <1>8, <2>2, <2>5 DEF Edit
<1>9. ASSUME NEW q \in Paths, Delete(q) PROVE TypeInv'
  <2> DEFINE new == [p \in {q} |-> Absent]
  <2>1. Changed({q}, new) /\ clock' = clock /\ clock' \in Nat /\ clock' >= clock
    BY <1>0, <1>9 DEF Delete
  <2>2. \A p \in {q} : new[p] = Absent
    OBVIOUS
  <2> HIDE DEF new
  <2>4. /\ \A p \in Paths : file'[p].there \in BOOLEAN
                             /\ (file'[p].there => file'[p].mtime \in 0 .. clock')
        /\ untouched' \subseteq Tasks
    BY <2>1, <2>2, FileTypes
  <2> QED BY <1>0, <1>9, <2>1, <2>4 DEF Delete
<1>10. ASSUME NEW t \in Tasks, Revise(t) PROVE TypeInv'
  <2>1. PICK d \in pipeline.definitions[t] : def' = [def EXCEPT ![t] = d]
    BY <1>0, <1>10 DEF Revise
  <2>2. d \in DefinitionsIn(pipeline)
    BY DEF DefinitionsIn
  <2>3. /\ def' \in [Tasks -> DefinitionsIn(pipeline)]
        /\ \A u \in Tasks : def'[u] \in pipeline.definitions[u]
    BY <2>1, <2>2
  <2> QED BY <1>0, <1>10, <2>3 DEF Revise
<1>11. CASE CleanCache
  BY <1>0, <1>11 DEF CleanCache
<1>12. CASE UNCHANGED vars
  BY <1>0, <1>12 DEF vars
<1> QED BY <1>1, <1>2, <1>3, <1>4, <1>5, <1>6, <1>7, <1>8, <1>9, <1>10, <1>11, <1>12
        DEF Next


-----------------------------------------------------------------------------
(* What a step does to the entries and to the files *)

LEMMA RemovedEntries ==
  ASSUME NEW t
  PROVE  /\ DOMAIN Removed(t) = DOMAIN entries \ {Key(t)}
         /\ \A k \in DOMAIN entries \ {Key(t)} : Removed(t)[k] = entries[k]
BY DEF Removed, Restrict

(* What CacheStore::store leaves of the entries.                           *)
LEMMA StoredEntries ==
  ASSUME NEW t
  PROVE  /\ DOMAIN Stored(t) = DOMAIN entries \cup {Key(t)}
         /\ Stored(t)[Key(t)] = Snapshot(t)
         /\ \A k \in DOMAIN entries \ {Key(t)} : Stored(t)[k] = entries[k]
BY DEF Stored

(* No entry is made or changed but by Finish.                              *)
LEMMA EntriesChange ==
  ASSUME [Next]_vars
  PROVE  \/ \A k \in DOMAIN entries' : k \in DOMAIN entries /\ entries'[k] = entries[k]
         \/ \E t \in Tasks : Finish(t) /\ entries' = Stored(t)
<1>1. CASE entries' = entries
  BY <1>1
<1>2. ASSUME NEW t \in Tasks, Miss(t)
      PROVE  \A k \in DOMAIN entries' : k \in DOMAIN entries /\ entries'[k] = entries[k]
  <2>1. entries' = Removed(t) \/ entries' = entries
    BY <1>2 DEF Miss
  <2> QED BY <2>1, RemovedEntries
<1>3. ASSUME NEW t \in Tasks, Finish(t)
      PROVE  entries' = Stored(t) \/ entries' = entries
  BY <1>3 DEF Finish
<1>4. CASE CleanCache
  <2>1. PICK S \in SUBSET DOMAIN entries : entries' = Restrict(entries, S)
    BY <1>4 DEF CleanCache
  <2> QED BY <2>1 DEF Restrict
<1> QED
  BY <1>1, <1>2, <1>3, <1>4
     DEF Next, vars, StartRun, MissingInput, Hit, Skip, ChildReads, ChildWrites,
         ChildMakesNothing, ChildFails, MissingOutput, Edit, Delete, Revise

(* A file is as it was, or gone, or newer than everything before.          *)
LEMMA FilesChange ==
  ASSUME TypeInv, [Next]_vars
  PROVE  /\ clock' \in Nat /\ clock' >= clock
         /\ \A p \in Paths : \/ file'[p] = file[p]
                             \/ ~file'[p].there
                             \/ file'[p].mtime = clock' /\ clock' = clock + 1
<1>1. clock \in Nat
  BY DEF TypeInv
<1>2. CASE UNCHANGED <<file, clock>>
  BY <1>1, <1>2
<1>3. ASSUME NEW S, NEW new, Changed(S, new), clock' = clock + 1,
             \A p \in S : \E c : new[p] = Written(c, clock + 1)
      PROVE  \A p \in Paths : file'[p] = file[p] \/ file'[p].mtime = clock'
  <2> SUFFICES ASSUME NEW p \in Paths, p \in S PROVE file'[p].mtime = clock'
    BY <1>3, ChangedFiles
  <2>1. file'[p] = new[p]
    BY <1>3, ChangedFiles
  <2>2. PICK c : new[p] = Written(c, clock + 1)
    BY <1>3
  <2> QED BY <1>3, <2>1, <2>2 DEF Written
<1>4. ASSUME NEW S, NEW new, Changed(S, new), \A p \in S : new[p] = Absent
      PROVE  \A p \in Paths : file'[p] = file[p] \/ ~file'[p].there
  <2> SUFFICES ASSUME NEW p \in Paths, p \in S PROVE ~file'[p].there
    BY <1>4, ChangedFiles
  <2>1. file'[p] = Absent
    BY <1>4, ChangedFiles
  <2> QED BY <2>1 DEF Absent
<1>5. ASSUME NEW t \in Tasks, ChildWrites(t)
      PROVE  /\ clock' = clock + 1
             /\ \A p \in Paths : file'[p] = file[p] \/ file'[p].mtime = clock'
  <2> DEFINE new == [p \in Made(t) |-> Written(Product(t, p, took[t]), clock + 1)]
  <2>1. Changed(Made(t), new) /\ clock' = clock + 1
    BY <1>5 DEF ChildWrites
  <2>2. \A p \in Made(t) : \E c : new[p] = Written(c, clock + 1)
    OBVIOUS
  <2> HIDE DEF new
  <2> QED BY <1>3, <2>1, <2>2
<1>6. ASSUME NEW t \in Tasks, ChildMakesNothing(t)
      PROVE  /\ clock' = clock
             /\ \A p \in Paths : file'[p] = file[p] \/ ~file'[p].there
  <2> DEFINE new == [p \in Made(t) |-> Absent]
  <2>1. Changed(Made(t), new) /\ clock' = clock
    BY <1>6 DEF ChildMakesNothing
  <2>2. \A p \in Made(t) : new[p] = Absent
    OBVIOUS
  <2> HIDE DEF new
  <2> QED BY <1>4, <2>1, <2>2
<1>7. ASSUME NEW t \in Tasks, ChildFails(t)
      PROVE  \/ UNCHANGED <<file, clock>>
             \/ /\ clock' = clock + 1
                /\ \A p \in Paths : file'[p] = file[p] \/ file'[p].mtime = clock'
  <2> DEFINE new == [p \in Made(t) |-> Written(Partial(t, p), clock + 1)]
  <2>1. \/ UNCHANGED <<file, clock, untouched>>
        \/ clock' = clock + 1 /\ Changed(Made(t), new)
    BY <1>7 DEF ChildFails
  <2>2. \A p \in Made(t) : \E c : new[p] = Written(c, clock + 1)
    OBVIOUS
  <2> HIDE DEF new
  <2> QED BY <1>3, <2>1, <2>2
<1>8. ASSUME NEW q \in Paths, Edit(q)
      PROVE  /\ clock' = clock + 1
             /\ \A p \in Paths : file'[p] = file[p] \/ file'[p].mtime = clock'
  <2>1. PICK v \in Versions : Changed({q}, [p \in {q} |-> Written(v, clock + 1)])
    BY <1>8 DEF Edit
  <2> DEFINE new == [p \in {q} |-> Written(v, clock + 1)]
  <2>2. clock' = clock + 1 /\ Changed({q}, new)
    BY <1>8, <2>1 DEF Edit
  <2>3. \A p \in {q} : \E c : new[p] = Written(c, clock + 1)
    OBVIOUS
  <2> HIDE DEF new
  <2> QED BY <1>3, <2>2, <2>3
<1>9. ASSUME NEW q \in Paths, Delete(q)
      PROVE  /\ clock' = clock
             /\ \A p \in Paths : file'[p] = file[p] \/ ~file'[p].there
  <2> DEFINE new == [p \in {q} |-> Absent]
  <2>1. Changed({q}, new) /\ clock' = clock
    BY <1>9 DEF Delete
  <2>2. \A p \in {q} : new[p] = Absent
    OBVIOUS
  <2> HIDE DEF new
  <2> QED BY <1>4, <2>1, <2>2
<1>10. \/ UNCHANGED <<file, clock>>
       \/ \E t \in Tasks : ChildWrites(t) \/ ChildMakesNothing(t) \/ ChildFails(t)
       \/ \E q \in Paths : Edit(q) \/ Delete(q)
  BY DEF Next, vars, StartRun, MissingInput, Hit, Miss, Skip, ChildReads, Finish,
         MissingOutput, Revise, CleanCache
<1> QED
  <2>1. \/ UNCHANGED <<file, clock>>
        \/ /\ clock' = clock + 1
           /\ \A p \in Paths : file'[p] = file[p] \/ file'[p].mtime = clock'
        \/ /\ clock' = clock
           /\ \A p \in Paths : file'[p] = file[p] \/ ~file'[p].there
    BY <1>5, <1>6, <1>7, <1>8, <1>9, <1>10, Zenon
  <2> QED BY <1>1, <2>1

-----------------------------------------------------------------------------
(* An untouched task is not executed again *)

LEMMA ReuseKept ==
  ASSUME NEW t, Reusable(t), def'[t] = def[t],
         \A p \in Inputs(t) \cup Outputs(t) : file'[p] = file[p],
         Key(t) \in DOMAIN entries', entries'[Key(t)] = entries[Key(t)]
  PROVE  Reusable(t)'
<1>1. Key(t)' = Key(t)
  BY KeyKept
<1>2. Outputs(t)' = Outputs(t)
  BY SameDefinition
<1>3. (entries[Key(t)])' = entries[Key(t)]
  BY <1>1
<1>4. ASSUME NEW p \in Outputs(t) PROVE StillValid(p, entries[Key(t)][p])'
  <2>1. file'[p] = file[p] /\ StillValid(p, entries[Key(t)][p])
    BY DEF Reusable
  <2> QED BY <1>3, <2>1 DEF StillValid
<1> QED BY <1>1, <1>2, <1>3, <1>4 DEF Reusable

(* No step makes the entry of an untouched task invalid, or removes it: a  *)
(* task with the same key finds it valid too, or replaces it.              *)
LEMMA ReuseNext == TypeInv /\ ReuseInv /\ [Next]_vars => ReuseInv'
<1> SUFFICES ASSUME TypeInv, ReuseInv, [Next]_vars, NEW t \in untouched'
             PROVE  Reusable(t)'
  BY DEF ReuseInv
<1>1. \A u \in untouched : Reusable(u) /\ Key(u) \in DOMAIN entries
  BY DEF ReuseInv, Reusable
<1>2. CASE UNCHANGED <<file, def, entries, untouched>>
  BY <1>1, <1>2, ReuseKept
<1>3. ASSUME NEW u \in Tasks, Miss(u) PROVE Reusable(t)'
  <2>1. t \in untouched /\ UNCHANGED <<file, def>>
    BY <1>3 DEF Miss
  <2>2. Reusable(t) /\ Key(t) \in DOMAIN entries
    BY <1>1, <2>1
  <2>3. CASE Key(t) # Key(u)
    <3>1. entries' = Removed(u) \/ entries' = entries
      BY <1>3 DEF Miss
    <3>2. Key(t) \in DOMAIN entries' /\ entries'[Key(t)] = entries[Key(t)]
      BY <2>2, <2>3, <3>1, RemovedEntries
    <3> QED BY <2>1, <2>2, <3>2, ReuseKept
  <2>4. CASE Key(t) = Key(u)
    <3>1. \A p \in DOMAIN entries[Key(u)] : StillValid(p, entries[Key(u)][p])
      BY <2>2, <2>4 DEF Reusable
    <3>2. AllValid(u)
      BY <3>1 DEF AllValid
    <3>3. entries' = entries
      BY <1>3, <3>2 DEF Miss
    <3> QED BY <2>1, <2>2, <3>3, ReuseKept
  <2> QED BY <2>3, <2>4
<1>4. ASSUME NEW u \in Tasks, Finish(u), enabled PROVE Reusable(t)'
  <2>1. /\ UNCHANGED <<file, def>> /\ entries' = Stored(u) /\ Exists(Outputs(u))
        /\ t = u \/ (t \in untouched /\ Key(t) # Key(u))
    BY <1>4 DEF Finish
  <2>2. CASE t # u
    <3>1. t \in untouched /\ Key(t) # Key(u) /\ Reusable(t) /\ Key(t) \in DOMAIN entries
      BY <1>1, <2>1, <2>2
    <3>2. Key(t) \in DOMAIN entries' /\ entries'[Key(t)] = entries[Key(t)]
      BY <2>1, <3>1, StoredEntries
    <3> QED BY <2>1, <3>1, <3>2, ReuseKept
  <2>3. CASE t = u
    <3>1. Key(t)' = Key(t) /\ Outputs(t)' = Outputs(t)
      BY <2>1, KeyKept, SameDefinition
    <3>2. Key(t) \in DOMAIN entries' /\ entries'[Key(t)] = Snapshot(t)
      BY <2>1, <2>3, StoredEntries
    <3>3. (entries[Key(t)])' = Snapshot(t) /\ DOMAIN Snapshot(t) = Outputs(t)
      BY <3>1, <3>2 DEF Snapshot
    <3>4. ASSUME NEW p \in Outputs(t) PROVE StillValid(p, entries[Key(t)][p])'
      <4>1. (entries[Key(t)][p])' = file[p].content /\ file'[p] = file[p]
            /\ file[p].there
        BY <2>1, <2>3, <3>1, <3>2 DEF Snapshot, Exists
      <4> QED BY <4>1 DEF StillValid
    <3> QED BY <3>1, <3>2, <3>3, <3>4 DEF Reusable
  <2> QED BY <2>2, <2>3
<1>5. ASSUME NEW u \in Tasks, Finish(u), ~enabled
      PROVE  UNCHANGED <<file, def, entries, untouched>>
  BY <1>5 DEF Finish
<1>6. ASSUME NEW S, NEW new, Changed(S, new), UNCHANGED <<def, entries>>
      PROVE  Reusable(t)'
  <2>1. t \in untouched /\ \A p \in Inputs(t) \cup Outputs(t) : p \notin S
    BY <1>6, ChangedFiles
  <2>2. Inputs(t) \subseteq Paths /\ Outputs(t) \subseteq Paths
    <3>1. t \in Tasks
      BY <2>1 DEF TypeInv
    <3> QED BY <3>1, PathFacts
  <2>3. \A p \in Inputs(t) \cup Outputs(t) : file'[p] = file[p]
    BY <1>6, <2>1, <2>2, ChangedFiles
  <2>4. Reusable(t) /\ Key(t) \in DOMAIN entries
    BY <1>1, <2>1
  <2> QED BY <1>6, <2>3, <2>4, ReuseKept
<1>7. ASSUME NEW u \in Tasks, ChildWrites(u) \/ ChildMakesNothing(u) \/ ChildFails(u)
      PROVE  Reusable(t)'
  <2>1. UNCHANGED <<def, entries>>
    BY <1>7 DEF ChildWrites, ChildMakesNothing, ChildFails
  <2>2. \/ UNCHANGED <<file, untouched>>
        \/ \E S, new : Changed(S, new)
    BY <1>7 DEF ChildWrites, ChildMakesNothing, ChildFails
  <2>3. CASE UNCHANGED <<file, untouched>>
    BY <1>2, <2>1, <2>3
  <2>4. CASE \E S, new : Changed(S, new)
    <3>1. PICK S, new : Changed(S, new)
      BY <2>4
    <3> QED BY <1>6, <2>1, <3>1
  <2> QED BY <2>2, <2>3, <2>4
<1>8. ASSUME NEW q \in Paths, Edit(q) \/ Delete(q) PROVE Reusable(t)'
  <2>1. UNCHANGED <<def, entries>> /\ \E S, new : Changed(S, new)
    BY <1>8 DEF Edit, Delete
  <2>2. PICK S, new : Changed(S, new)
    BY <2>1
  <2> QED BY <1>6, <2>1, <2>2
<1>9. ASSUME NEW u \in Tasks, Revise(u) PROVE Reusable(t)'
  <2>1. t \in untouched /\ t # u /\ UNCHANGED <<file, entries>>
    BY <1>9 DEF Revise
  <2>2. PICK d : def' = [def EXCEPT ![u] = d]
    BY <1>9 DEF Revise
  <2>3. t \in Tasks /\ DOMAIN def = Tasks
    BY <2>1 DEF TypeInv
  <2>4. def'[t] = def[t]
    BY <2>1, <2>2, <2>3
  <2>5. Reusable(t) /\ Key(t) \in DOMAIN entries
    BY <1>1, <2>1
  <2> QED BY <2>1, <2>4, <2>5, ReuseKept
<1>10. CASE CleanCache
  BY <1>10 DEF CleanCache
<1> QED
  <2>1. \/ UNCHANGED <<file, def, entries, untouched>>
        \/ \E u \in Tasks : Miss(u) \/ Finish(u) \/ Revise(u)
        \/ \E u \in Tasks : ChildWrites(u) \/ ChildMakesNothing(u) \/ ChildFails(u)
        \/ \E q \in Paths : Edit(q) \/ Delete(q)
        \/ CleanCache
    BY DEF Next, vars, StartRun, MissingInput, Hit, Skip, ChildReads, MissingOutput
  <2> QED BY <1>2, <1>3, <1>4, <1>5, <1>7, <1>8, <1>9, <1>10, <2>1, Zenon

(* Init has no entry.                                                      *)
LEMMA NoEntries == Init => KeyInv /\ ReuseInv /\ EntryInv
BY DEF Init, KeyInv, ReuseInv, EntryInv

(* The entries and files of the cache, whatever the users do and define:   *)
(* types, and that the entry which CacheStore::lookup finds for a task     *)
(* that nothing has touched since is its own and valid, even though keys   *)
(* say nothing of the task.                                                *)
THEOREM CacheInvariant == Spec => [](TypeInv /\ ReuseInv)
<1>1. Init => TypeInv /\ ReuseInv
  BY TypeInit, NoEntries
<1>2. (TypeInv /\ ReuseInv) /\ [Next]_vars => (TypeInv /\ ReuseInv)'
  BY TypeNext, ReuseNext
<1> QED BY <1>1, <1>2, PTL DEF Spec

(* UnchangedIsReused: try_start does not execute a task whose files,       *)
(* definition and entry are as they were when its result was stored, for   *)
(* any tasks, also such as share files or commands, and even if files are  *)
(* edited while a run is under way.                                        *)
THEOREM UnchangedAlwaysReused == Spec => UnchangedIsReused
<1> DEFINE NotAgain == \A t \in Tasks :
             at[t] = "waiting" /\ at'[t] = "launched" /\ enabled => t \notin untouched
<1>1. TypeInv /\ ReuseInv /\ [Next]_vars => [NotAgain]_vars
  <2> SUFFICES ASSUME TypeInv, ReuseInv, Next, NEW t \in Tasks,
                      at[t] = "waiting", at'[t] = "launched", enabled, t \in untouched
               PROVE  FALSE
    BY DEF NotAgain
  <2>1. Miss(t)
    <3>1. at \in [Tasks -> Points]
      BY DEF TypeInv
    <3>2. \A u \in Tasks : u # t => \A point : Moved(u, point) => at'[t] = at[t]
      BY <3>1 DEF Moved
    <3>3. \A point : Moved(t, point) => point = "launched"
      BY <3>1 DEF Moved
    <3>4. \E u \in Tasks : u = t /\ Miss(u)
      BY <3>2, <3>3
         DEF Next, StartRun, MissingInput, Hit, Miss, Skip, ChildReads, ChildWrites,
             ChildMakesNothing, ChildFails, Finish, MissingOutput, Edit, Delete,
             Revise, CleanCache
    <3> QED BY <3>4
  <2>2. Reusable(t)
    BY DEF ReuseInv
  <2>3. Found(t) /\ AllValid(t)
    BY <2>2 DEF Found, AllValid, Reusable
  <2> QED BY <2>1, <2>3 DEF Miss
<1> QED BY <1>1, CacheInvariant, PTL DEF Spec, UnchangedIsReused


-----------------------------------------------------------------------------
(* The outputs of an entry *)

LEMMA KeyNext ==
  ASSUME Careful(pipeline), TypeInv, KeyInv, [Next]_vars
  PROVE  KeyInv'
<1>0. DefinitionsIn(pipeline)' = DefinitionsIn(pipeline)
  BY DEF Next, vars, DefinitionsIn
<1>1. ASSUME NEW t \in Tasks, entries' = Stored(t) PROVE KeyInv'
  <2> SUFFICES ASSUME NEW k \in DOMAIN entries', NEW d \in DefinitionsIn(pipeline),
                      d.command = k[1]
               PROVE  DOMAIN entries'[k] = d.outputs
    BY <1>0 DEF KeyInv
  <2>1. CASE k = Key(t)
    <3>1. d.outputs = Outputs(t)
      BY <2>1, KeyParts, CarefulFacts
    <3>2. entries'[k] = Snapshot(t)
      BY <1>1, <2>1, StoredEntries
    <3> QED BY <3>1, <3>2 DEF Snapshot
  <2>2. CASE k # Key(t)
    <3>1. k \in DOMAIN entries /\ entries'[k] = entries[k]
      BY <1>1, <2>2, StoredEntries
    <3> QED BY <3>1 DEF KeyInv
  <2> QED BY <2>1, <2>2
<1> QED BY <1>0, <1>1, EntriesChange DEF KeyInv


-----------------------------------------------------------------------------
(* What a key still tells of the files *)

LEMMA TellsKept ==
  ASSUME TypeInv, [Next]_vars, NEW id, NEW q \in Paths, NEW content,
         Tells(id, q, content)
  PROVE  Tells(id, q, content)'
<1>1. CASE q \in HashIn
  BY <1>1 DEF Tells
<1>2. CASE q \notin HashIn
  <2>1. PICK m \in 0 .. clock :
          /\ id = <<q, "size_mtime", Size(content), m>>
          /\ (file[q].there /\ file[q].mtime = m) => file[q].content = content
    BY <1>2 DEF Tells
  <2>2. clock \in Nat /\ clock' \in Nat /\ clock' >= clock
    BY FilesChange DEF TypeInv
  <2>3. m \in 0 .. clock' /\ m # clock + 1
    BY <2>2
  <2>4. \/ file'[q] = file[q] \/ ~file'[q].there \/ file'[q].mtime = clock + 1
    BY FilesChange
  <2>5. (file'[q].there /\ file'[q].mtime = m) => file'[q].content = content
    BY <2>1, <2>3, <2>4
  <2> QED BY <1>2, <2>1, <2>3, <2>5 DEF Tells
<1> QED BY <1>1, <1>2

(* Entries stay faithful, because modification times are never used again. *)
LEMMA FaithfulKept ==
  ASSUME TypeInv, [Next]_vars, NEW k, NEW p, NEW content, Faithful(k, p, content)
  PROVE  Faithful(k, p, content)'
<1>1. ASSUME NEW id \in k[2]
      PROVE  id[1] \in Paths /\ Tells(id, id[1], content[3][id[1]])'
  <2>1. id[1] \in Paths /\ Tells(id, id[1], content[3][id[1]])
    BY DEF Faithful
  <2> QED BY <2>1, TellsKept
<1> QED BY <1>1 DEF Faithful, Named

(* The identity of a file that is there tells its content.                 *)
LEMMA IdentityTells ==
  ASSUME TypeInv, NEW q \in Paths, file[q].there
  PROVE  Tells(Identity(q), q, file[q].content)
<1>1. CASE q \in HashIn
  BY <1>1 DEF Identity, Tells
<1>2. CASE q \notin HashIn
  <2>1. file[q].mtime \in 0 .. clock
    BY DEF TypeInv
  <2>2. Identity(q) = <<q, "size_mtime", Size(file[q].content), file[q].mtime>>
    BY <1>2 DEF Identity
  <2> QED BY <1>2, <2>1, <2>2 DEF Tells
<1> QED BY <1>1, <1>2

(* And no other content is told by it.                                     *)
LEMMA TellsOne ==
  ASSUME NEW q, NEW content, file[q].there, Tells(Identity(q), q, content)
  PROVE  file[q].content = content
<1>1. CASE q \in HashIn
  <2>1. Identity(q) = <<q, "sha256", file[q].content>>
    BY <1>1 DEF Identity
  <2>2. Identity(q) = <<q, "sha256", content>>
    BY <1>1 DEF Tells
  <2> QED BY <2>1, <2>2
<1>2. CASE q \notin HashIn
  <2>1. Identity(q) = <<q, "size_mtime", Size(file[q].content), file[q].mtime>>
    BY <1>2 DEF Identity
  <2>2. PICK m \in 0 .. clock :
          /\ Identity(q) = <<q, "size_mtime", Size(content), m>>
          /\ (file[q].there /\ file[q].mtime = m) => file[q].content = content
    BY <1>2 DEF Tells
  <2>3. file[q].mtime = m
    BY <2>1, <2>2
  <2> QED BY <2>2, <2>3
<1> QED BY <1>1, <1>2

(* A task that has not ended keeps the run going.                          *)
LEMMA Unfinished ==
  ASSUME NEW t \in Tasks, at[t] \notin Ended
  PROVE  ~RunOver
BY DEF RunOver

(* What Finish records is what the command makes of the inputs of the key. *)
LEMMA StoreFaithful ==
  ASSUME Careful(pipeline), TypeInv, RunInv, NEW t \in Tasks, Finish(t), NEW p \in Outputs(t)
  PROVE  Faithful(Key(t), p, Snapshot(t)[p])
<1> DEFINE g == Contents(t)
<1>1. at[t] = "exited" /\ Exists(Outputs(t))
  BY DEF Finish
<1>2. TaskInv(t)
  BY <1>1, Unfinished DEF RunInv, Ended
<1>3. Exists(Inputs(t)) /\ file[p].content = Product(t, p, g) /\ file[p].there
  BY <1>1, <1>2 DEF TaskInv, Busy, Exists
<1>4. Snapshot(t)[p] = <<p, Command(t), g>>
  BY <1>3 DEF Snapshot, Product
<1>5. g = [q \in Inputs(t) |-> file[q].content]
  BY DEF Contents
<1> HIDE DEF g
<1>6. ASSUME NEW id \in Key(t)[2]
      PROVE  id[1] \in Paths /\ Tells(id, id[1], g[id[1]])
  <2>1. PICK q \in Inputs(t) : id = Identity(q)
    BY KeyParts
  <2>2. id[1] = q
    BY <2>1, IdentityPath
  <2>3. q \in Paths /\ file[q].there /\ g[q] = file[q].content
    BY <1>3, <1>5, PathFacts DEF Exists
  <2>4. Tells(Identity(q), q, file[q].content)
    BY <2>3, IdentityTells
  <2> QED BY <2>1, <2>2, <2>3, <2>4
<1>7. g = [q \in Named(Key(t)) |-> g[q]]
  BY <1>5, KeyNames
<1>8. /\ Snapshot(t)[p][3] = g
      /\ Snapshot(t)[p] = <<p, Key(t)[1], g>>
  BY <1>4, KeyParts
<1> QED BY <1>6, <1>7, <1>8 DEF Faithful

(* Every entry is faithful.                                                *)
LEMMA EntryNext ==
  ASSUME Careful(pipeline), TypeInv, EntryInv, RunInv, [Next]_vars
  PROVE  EntryInv'
<1> SUFFICES ASSUME NEW k \in DOMAIN entries', NEW p \in DOMAIN entries'[k]
             PROVE  Faithful(k, p, entries[k][p])'
  BY DEF EntryInv
<1>1. CASE k \in DOMAIN entries /\ entries'[k] = entries[k]
  <2>1. Faithful(k, p, entries[k][p])
    BY <1>1 DEF EntryInv
  <2>2. \A content : Faithful(k, p, content) => Faithful(k, p, content)'
    BY FaithfulKept
  <2>3. \A content : content = entries'[k][p] =>
            (Faithful(k, p, content)' <=> Faithful(k, p, entries[k][p])')
    BY DEF Faithful, Tells
  <2> QED BY <1>1, <2>1, <2>2, <2>3
<1>2. ASSUME NEW t \in Tasks, Finish(t), entries' = Stored(t), k = Key(t)
      PROVE  Faithful(k, p, entries[k][p])'
  <2>1. entries'[k] = Snapshot(t) /\ DOMAIN Snapshot(t) = Outputs(t)
    BY <1>2, StoredEntries DEF Snapshot
  <2>2. Faithful(k, p, Snapshot(t)[p])
    BY <1>2, <2>1, StoreFaithful
  <2>3. \A content : Faithful(k, p, content) => Faithful(k, p, content)'
    BY FaithfulKept
  <2>4. \A content : content = entries'[k][p] =>
            (Faithful(k, p, content)' <=> Faithful(k, p, entries[k][p])')
    BY DEF Faithful, Tells
  <2> QED BY <2>1, <2>2, <2>3, <2>4
<1>3. \/ k \in DOMAIN entries /\ entries'[k] = entries[k]
      \/ \E t \in Tasks : Finish(t) /\ entries' = Stored(t) /\ k = Key(t)
  BY EntriesChange, StoredEntries
<1> QED BY <1>1, <1>2, <1>3


-----------------------------------------------------------------------------
(* The run *)

(* A valid entry under the key of now is what executing the task would     *)
(* make now.                                                               *)
LEMMA HitRight ==
  ASSUME Careful(pipeline), TypeInv, KeyInv, EntryInv, NEW t \in Tasks, Hit(t)
  PROVE  UpToDate(t)
<1> DEFINE k == Key(t)
<1>1. Exists(Inputs(t)) /\ k \in DOMAIN entries /\ AllValid(t)
  BY DEF Hit, Found
<1>2. k[1] = Command(t) /\ k[2] = {Identity(q) : q \in Inputs(t)} /\ Named(k) = Inputs(t)
  BY KeyParts, KeyNames
<1>3. DOMAIN entries[k] = Outputs(t)
  <2>1. def[t] \in DefinitionsIn(pipeline)
    BY DEF TypeInv
  <2> QED BY <1>1, <1>2, <2>1 DEF KeyInv, Command, Outputs
<1>4. ASSUME NEW p \in Outputs(t)
      PROVE  file[p].there /\ file[p].content = Product(t, p, Contents(t))
  <2> DEFINE content == entries[k][p]
  <2>1. file[p].there /\ file[p].content = content
    <3>1. p \in DOMAIN entries[k] /\ p \in HashOut
      BY <1>3, CarefulFacts
    <3> QED BY <1>1, <3>1 DEF AllValid, StillValid
  <2>2. Faithful(k, p, content)
    BY <1>1, <1>3 DEF EntryInv
  <2> HIDE DEF content, k
  <2>3. ASSUME NEW q \in Inputs(t) PROVE file[q].content = content[3][q]
    <3>1. Identity(q) \in k[2] /\ Identity(q)[1] = q
      BY <1>2, IdentityPath
    <3>2. Tells(Identity(q), Identity(q)[1], content[3][Identity(q)[1]])
      BY <2>2, <3>1 DEF Faithful
    <3>3. Tells(Identity(q), q, content[3][q])
      BY <3>1, <3>2
    <3>4. file[q].there
      BY <1>1 DEF Exists
    <3> QED BY <3>3, <3>4, TellsOne
  <2>4. content[3] = [q \in Inputs(t) |-> content[3][q]]
    BY <1>2, <2>2 DEF Faithful
  <2>5. Contents(t) = [q \in Inputs(t) |-> content[3][q]]
    BY <2>3 DEF Contents
  <2>6. content = <<p, Command(t), content[3]>>
    BY <1>2, <2>2 DEF Faithful
  <2> QED BY <2>1, <2>4, <2>5, <2>6 DEF Product
<1> QED BY <1>1, <1>4 DEF UpToDate

(* A task does not see the steps of others that leave its files alone.     *)
LEMMA TaskKept ==
  ASSUME NEW t \in Tasks, TaskInv(t), pipeline' = pipeline, at'[t] = at[t],
         def'[t] = def[t],
         took'[t] = took[t],
         \A p \in Inputs(t) \cup Outputs(t) : file'[p] = file[p],
         \A d \in Deps(t) : at[d] \in Succeeded => at'[d] \in Succeeded
  PROVE  TaskInv(t)'
<1>0. /\ Inputs(t)' = Inputs(t) /\ Outputs(t)' = Outputs(t) /\ Command(t)' = Command(t)
      /\ Deps(t)' = Deps(t)
  BY SameDefinition DEF Deps
<1>1. Contents(t)' = Contents(t)
  BY <1>0 DEF Contents
<1>2. Exists(Inputs(t))' = Exists(Inputs(t))
  BY <1>0 DEF Exists
<1>3. \A p \in Outputs(t) : Product(t, p, Contents(t))' = Product(t, p, Contents(t))
  BY <1>0, <1>1 DEF Product
<1>4. UpToDate(t)' <=> UpToDate(t)
  BY <1>0, <1>2, <1>3 DEF UpToDate
<1>5. at[t] \in Busy \cup Succeeded => \A d \in Deps(t) : at'[d] \in Succeeded
  BY DEF TaskInv
<1>6. at[t] = "exited" => \A p \in Outputs(t) :
        file'[p].there => file'[p].content = Product(t, p, Contents(t))'
  BY <1>3 DEF TaskInv
<1> QED BY <1>0, <1>1, <1>2, <1>4, <1>5, <1>6 DEF TaskInv

(* A task that neither works nor has succeeded promises nothing.           *)
LEMMA TaskIdle ==
  ASSUME NEW t \in Tasks, at'[t] \notin Busy \cup Succeeded
  PROVE  TaskInv(t)'
BY DEF TaskInv, Busy

(* A step of u, which writes at most the files that its program makes.     *)
LEMMA OthersKept ==
  ASSUME Careful(pipeline), TypeInv, NEW u \in Tasks, at[u] \notin Succeeded,
         \A t \in Tasks : TaskInv(t), UNCHANGED <<pipeline, def>>,
         NEW point, Moved(u, point),
         took' = took \/ \E g : took' = [took EXCEPT ![u] = g],
         file' = file \/ \E new : Changed(Made(u), new)
  PROVE  \A t \in Tasks \ {u} : TaskInv(t)'
<1> SUFFICES ASSUME NEW t \in Tasks, t # u PROVE TaskInv(t)'
  OBVIOUS
<1>1. at'[t] = at[t] /\ took'[t] = took[t]
  BY DEF Moved, TypeInv
<1>2. ASSUME NEW d \in Deps(t), at[d] \in Succeeded PROVE at'[d] \in Succeeded
  <2>1. d \in Tasks /\ d # u
    BY <1>2, DepsAreTasks
  <2> QED BY <1>2, <2>1 DEF Moved, TypeInv
<1>3. CASE at[t] \in Busy \cup Succeeded
  <2>1. \A d \in Deps(t) : at[d] \in Succeeded
    BY <1>3 DEF TaskInv
  <2>2. Made(u) \cap Inputs(t) = {} /\ Made(u) \cap Outputs(t) = {}
    <3>1. u \notin Deps(t)
      BY <2>1
    <3>2. Outputs(t) \subseteq Made(t) /\ Made(u) \cap Made(t) = {}
          /\ Made(u) \cap Inputs(t) = {}
      BY <3>1, CarefulFacts
    <3> QED BY <3>2
  <2>3. Inputs(t) \subseteq Paths /\ Outputs(t) \subseteq Paths
    BY PathFacts
  <2>4. \A p \in Inputs(t) \cup Outputs(t) : file'[p] = file[p]
    <3>1. CASE file' = file
      BY <3>1
    <3>2. ASSUME NEW new, Changed(Made(u), new)
          PROVE  \A p \in Inputs(t) \cup Outputs(t) : file'[p] = file[p]
      BY <2>2, <2>3, <3>2, ChangedFiles
    <3> QED BY <3>1, <3>2
  <2> QED BY <1>1, <1>2, <2>4, TaskKept
<1>4. CASE at[t] \notin Busy \cup Succeeded
  BY <1>1, <1>4, TaskIdle
<1> QED BY <1>3, <1>4


(* The dependencies of u are not disturbed by a step of u.                 *)
LEMMA DepsKept ==
  ASSUME TypeInv, pipeline' = pipeline, NEW u \in Tasks, at[u] \notin Succeeded,
         NEW point, Moved(u, point), \A d \in Deps(u) : at[d] \in Succeeded
  PROVE  /\ \A d \in Deps(u)' : at'[d] \in Succeeded
         /\ at'[u] = point
<1>1. \A d \in Deps(u) : d \in Tasks /\ d # u
  BY DepsAreTasks
<1>2. Deps(u)' = Deps(u)
  BY DEF Deps
<1> QED BY <1>1, <1>2 DEF Moved, TypeInv

(* The steps of a task.                                                   *)
TaskStep(u) ==
    \/ MissingInput(u) \/ Hit(u) \/ Miss(u) \/ Skip(u) \/ ChildReads(u)
    \/ ChildWrites(u) \/ ChildMakesNothing(u) \/ ChildFails(u)
    \/ Finish(u) \/ MissingOutput(u)

(* One step of a task, for that task.                                      *)
LEMMA OwnStep ==
  ASSUME Careful(pipeline), TypeInv, KeyInv, EntryInv, NEW u \in Tasks, TaskInv(u),
         TaskStep(u), pipeline' = pipeline
  PROVE  TaskInv(u)'
<1>1. at \in [Tasks -> Points] /\ DOMAIN took = Tasks
  BY DEF TypeInv
<1>2. Inputs(u) \subseteq Paths /\ Made(u) \subseteq Paths
      /\ Made(u) \cap Inputs(u) = {} /\ Outputs(u) \subseteq Made(u)
  BY PathFacts, CarefulFacts
<1>3. CASE MissingInput(u) \/ Skip(u) \/ ChildFails(u) \/ MissingOutput(u)
  <2>1. Moved(u, "failed") \/ Moved(u, "waiting")
    BY <1>3 DEF MissingInput, Skip, ChildFails, MissingOutput
  <2>2. at'[u] \notin Busy \cup Succeeded
    BY <1>1, <2>1 DEF Moved, Busy, Succeeded
  <2> QED BY <2>2, TaskIdle
<1>4. CASE Hit(u)
  <2>1. Ready(u) /\ Moved(u, "cached") /\ UNCHANGED <<file, def>>
    BY <1>4 DEF Hit
  <2>2. at'[u] = "cached" /\ \A d \in Deps(u)' : at'[d] \in Succeeded
    BY <2>1, DepsKept DEF Ready, Succeeded
  <2>3. UpToDate(u)
    BY <1>4, HitRight
  <2>4. UpToDate(u)'
    BY <2>1, <2>3 DEF UpToDate, Exists, Contents, Product, Inputs, Outputs, Command
  <2> QED BY <2>2, <2>4 DEF TaskInv, Busy
<1>5. CASE Miss(u)
  <2>1. Ready(u) /\ Moved(u, "launched") /\ UNCHANGED <<file, def>> /\ Exists(Inputs(u))
    BY <1>5 DEF Miss
  <2>2. at'[u] = "launched" /\ \A d \in Deps(u)' : at'[d] \in Succeeded
    BY <2>1, DepsKept DEF Ready, Succeeded
  <2>3. Exists(Inputs(u))'
    BY <2>1 DEF Exists, Inputs
  <2> QED BY <2>2, <2>3 DEF TaskInv, Succeeded
<1>6. CASE ChildReads(u)
  <2>1. at[u] = "launched" /\ Moved(u, "working") /\ UNCHANGED <<file, def>>
        /\ took' = [took EXCEPT ![u] = Contents(u)]
    BY <1>6 DEF ChildReads
  <2>2. Exists(Inputs(u)) /\ \A d \in Deps(u) : at[d] \in Succeeded
    BY <2>1 DEF TaskInv, Busy
  <2>3. at'[u] = "working" /\ \A d \in Deps(u)' : at'[d] \in Succeeded
    BY <2>1, <2>2, DepsKept DEF Succeeded
  <2>4. Exists(Inputs(u))' /\ took'[u] = Contents(u)'
    BY <1>1, <2>1, <2>2 DEF Exists, Contents, Inputs
  <2> QED BY <2>3, <2>4 DEF TaskInv, Succeeded
<1>7. CASE ChildWrites(u) \/ ChildMakesNothing(u)
  <2>1. at[u] = "working" /\ Moved(u, "exited") /\ def' = def
    BY <1>7 DEF ChildWrites, ChildMakesNothing
  <2>2. /\ Exists(Inputs(u)) /\ \A d \in Deps(u) : at[d] \in Succeeded
        /\ took[u] = Contents(u)
    BY <2>1 DEF TaskInv, Busy
  <2>3. at'[u] = "exited" /\ \A d \in Deps(u)' : at'[d] \in Succeeded
    BY <2>1, <2>2, DepsKept DEF Succeeded
  <2>4. PICK new : /\ Changed(Made(u), new)
                   /\ \A p \in Made(u) : \/ ~new[p].there
                                         \/ new[p].content = Product(u, p, took[u])
    <3>1. CASE ChildWrites(u)
      <4> DEFINE n == [p \in Made(u) |-> Written(Product(u, p, took[u]), clock + 1)]
      <4>1. Changed(Made(u), n)
        BY <3>1 DEF ChildWrites
      <4>2. \A p \in Made(u) : n[p].content = Product(u, p, took[u])
        BY DEF Written
      <4> HIDE DEF n
      <4> QED BY <4>1, <4>2
    <3>2. CASE ChildMakesNothing(u)
      <4> DEFINE n == [p \in Made(u) |-> Absent]
      <4>1. Changed(Made(u), n)
        BY <3>2 DEF ChildMakesNothing
      <4>2. \A p \in Made(u) : ~n[p].there
        BY DEF Absent
      <4> HIDE DEF n
      <4> QED BY <4>1, <4>2
    <3> QED BY <1>7, <3>1, <3>2
  <2>5. \A p \in Inputs(u) : file'[p] = file[p]
    BY <1>2, <2>4, ChangedFiles
  <2>6. Exists(Inputs(u))' /\ Contents(u)' = Contents(u)
    BY <2>1, <2>2, <2>5 DEF Exists, Contents, Inputs
  <2>7. \A p \in Outputs(u) : file'[p] = new[p]
    BY <1>2, <2>4, ChangedFiles
  <2>8. \A p \in Outputs(u) : Product(u, p, Contents(u))' = Product(u, p, took[u])
    BY <2>1, <2>2, <2>6 DEF Product, Command
  <2>9. Outputs(u)' = Outputs(u) /\ \A p \in Outputs(u) :
          file'[p].there => file'[p].content = Product(u, p, Contents(u))'
    BY <1>2, <2>1, <2>4, <2>7, <2>8 DEF Outputs
  <2> QED BY <2>3, <2>6, <2>9 DEF TaskInv, Succeeded
<1>8. CASE Finish(u)
  <2>1. at[u] = "exited" /\ Exists(Outputs(u)) /\ Moved(u, "succeeded")
        /\ UNCHANGED <<file, def>>
    BY <1>8 DEF Finish
  <2>2. /\ Exists(Inputs(u)) /\ \A d \in Deps(u) : at[d] \in Succeeded
        /\ \A p \in Outputs(u) :
             file[p].there => file[p].content = Product(u, p, Contents(u))
    BY <2>1 DEF TaskInv, Busy
  <2>3. at'[u] = "succeeded" /\ \A d \in Deps(u)' : at'[d] \in Succeeded
    BY <2>1, <2>2, DepsKept DEF Succeeded
  <2>4. UpToDate(u)
    BY <2>1, <2>2 DEF UpToDate, Exists
  <2>5. UpToDate(u)'
    BY <2>1, <2>4 DEF UpToDate, Exists, Contents, Product, Inputs, Outputs, Command
  <2> QED BY <2>3, <2>5 DEF TaskInv, Busy
<1> QED BY <1>3, <1>4, <1>5, <1>6, <1>7, <1>8 DEF TaskStep

(* A step of a task leaves every task as it should be.                     *)
LEMMA TaskSteps ==
  ASSUME Careful(pipeline), TypeInv, KeyInv, EntryInv, RunInv, NEW u \in Tasks, TaskStep(u),
         pipeline' = pipeline
  PROVE  ~RunOver /\ \A t \in Tasks : TaskInv(t)'
<1>1. at[u] \notin Ended
  BY DEF TaskStep, MissingInput, Hit, Miss, Skip, ChildReads, ChildWrites,
         ChildMakesNothing, ChildFails, Finish, MissingOutput, Ready, Ended
<1>2. ~RunOver /\ \A t \in Tasks : TaskInv(t)
  BY <1>1, Unfinished DEF RunInv
<1>3. at[u] \notin Succeeded /\ def' = def
  BY <1>1 DEF Ended, Succeeded, TaskStep, MissingInput, Hit, Miss, Skip, ChildReads,
         ChildWrites, ChildMakesNothing, ChildFails, Finish, MissingOutput
<1>4. \E point : Moved(u, point)
  BY DEF TaskStep, MissingInput, Hit, Miss, Skip, ChildReads, ChildWrites,
         ChildMakesNothing, ChildFails, Finish, MissingOutput
<1>5. took' = took \/ \E g : took' = [took EXCEPT ![u] = g]
  BY DEF TaskStep, MissingInput, Hit, Miss, Skip, ChildReads, ChildWrites,
         ChildMakesNothing, ChildFails, Finish, MissingOutput
<1>6. file' = file \/ \E new : Changed(Made(u), new)
  BY DEF TaskStep, MissingInput, Hit, Miss, Skip, ChildReads, ChildWrites,
         ChildMakesNothing, ChildFails, Finish, MissingOutput
<1>7. \A t \in Tasks \ {u} : TaskInv(t)'
  BY <1>2, <1>3, <1>4, <1>5, <1>6, OthersKept
<1>8. TaskInv(u)'
  BY <1>2, OwnStep
<1> QED BY <1>2, <1>7, <1>8

(* The steps of the run, and those of the user between runs.               *)
LEMMA RunNext ==
  ASSUME Careful(pipeline), TypeInv, KeyInv, EntryInv, RunInv, [Next]_vars
  PROVE  RunInv'
<1>0. pipeline' = pipeline
  BY DEF Next, vars
<1>1. CASE StartRun
  <2>1. \A t \in Tasks : at'[t] \notin Busy \cup Succeeded
    BY <1>1 DEF StartRun, Busy, Succeeded
  <2> QED BY <2>1, TaskIdle DEF RunInv
<1>2. ASSUME NEW u \in Tasks, TaskStep(u) PROVE RunInv'
  BY <1>0, <1>2, TaskSteps DEF RunInv
<1>3. CASE \/ \E p \in Paths : Edit(p) \/ Delete(p)
           \/ \E t \in Tasks : Revise(t)
  <2>1. RunOver /\ at' = at
    BY <1>3 DEF Edit, Delete, Revise, MayEdit, Careful
  <2> QED BY <2>1 DEF RunInv, RunOver
<1>4. CASE UNCHANGED <<file, def, at, took>>
  <2>1. RunOver' = RunOver
    BY <1>4 DEF RunOver
  <2>2. ASSUME NEW t \in Tasks, TaskInv(t) PROVE TaskInv(t)'
    BY <1>0, <1>4, <2>2, TaskKept
  <2> QED BY <2>1, <2>2 DEF RunInv
<1> QED BY <1>1, <1>2, <1>3, <1>4 DEF Next, TaskStep, CleanCache, vars

(* Before the first run nothing is promised.                               *)
LEMMA RunInit == Init => RunInv
BY DEF Init, RunInv, RunOver, Ended

(* The invariant: in a careful pipeline, which outputs an entry has, what  *)
(* keys tell, and what the tasks of the current run have seen.             *)
CarefulInv == TypeInv /\ (Careful(pipeline) => KeyInv /\ EntryInv /\ RunInv)

(* It holds of every pipeline: where the user is careful, entries have the *)
(* outputs of their command and tell what they were made from, in spite of *)
(* all that was edited, revised and executed since (try_start,             *)
(* on_task_succeeded, CacheStore).                                         *)
THEOREM CarefulInvariant == Spec => []CarefulInv
<1>1. Init => CarefulInv
  BY TypeInit, NoEntries, RunInit DEF CarefulInv
<1>2. CarefulInv /\ [Next]_vars => CarefulInv'
  <2> SUFFICES ASSUME CarefulInv, [Next]_vars PROVE CarefulInv'
    OBVIOUS
  <2>1. TypeInv'
    BY TypeNext DEF CarefulInv
  <2>2. Careful(pipeline)' <=> Careful(pipeline)
    <3>1. pipeline' = pipeline
      BY DEF Next, vars
    <3> QED BY <3>1 DEF Careful, DefinitionsIn
  <2>3. ASSUME Careful(pipeline) PROVE KeyInv' /\ EntryInv' /\ RunInv'
    <3>1. TypeInv /\ KeyInv /\ EntryInv /\ RunInv
      BY <2>3 DEF CarefulInv
    <3> QED BY <2>3, <3>1, KeyNext, EntryNext, RunNext
  <2> QED BY <2>1, <2>2, <2>3 DEF CarefulInv
<1> QED BY <1>1, <1>2, PTL DEF Spec

(* HitIsRight: CacheStore::lookup finds only entries whose outputs are     *)
(* what executing the task would make of the inputs as they are now, in    *)
(* every careful pipeline.                                                 *)
THEOREM HitsAreRight == Spec => HitIsRight
<1> DEFINE Right == \A t \in Tasks :
             at[t] # "cached" /\ at'[t] = "cached" => (Careful(pipeline) => UpToDate(t))
<1>1. CarefulInv /\ [Next]_vars => [Right]_vars
  <2> SUFFICES ASSUME CarefulInv, Next, NEW t \in Tasks, Careful(pipeline),
                      at[t] # "cached", at'[t] = "cached"
               PROVE  UpToDate(t)
    BY DEF Right
  <2>1. at \in [Tasks -> Points]
    BY DEF CarefulInv, TypeInv
  <2>2. \A u \in Tasks : u # t => \A point : Moved(u, point) => at'[t] = at[t]
    BY <2>1 DEF Moved
  <2>3. \A point : Moved(t, point) => point = "cached"
    BY <2>1 DEF Moved
  <2>4. \E u \in Tasks : u = t /\ Hit(u)
    BY <2>2, <2>3
       DEF Next, StartRun, MissingInput, Hit, Miss, Skip, ChildReads, ChildWrites,
           ChildMakesNothing, ChildFails, Finish, MissingOutput, Edit, Delete,
           Revise, CleanCache
  <2> QED BY <2>4, HitRight DEF CarefulInv
<1> QED BY <1>1, CarefulInvariant, PTL DEF Spec, HitIsRight

(* RunMakesEverything: when the last task of a run has succeeded or was    *)
(* found in the cache, every output of a careful pipeline is what its task *)
(* makes of the inputs as they are now.                                    *)
THEOREM RunsMakeEverything == Spec => RunMakesEverything
<1> DEFINE Complete == ~RunOver /\ (\A t \in Tasks : at'[t] \in Succeeded) =>
             (Careful(pipeline) => \A t \in Tasks : UpToDate(t)')
<1>1. CarefulInv /\ [Next]_vars => [Complete]_vars
  <2> SUFFICES ASSUME CarefulInv, Next, Careful(pipeline), ~RunOver,
                      \A t \in Tasks : at'[t] \in Succeeded, NEW t \in Tasks
               PROVE  UpToDate(t)'
    BY DEF Complete
  <2>1. PICK s \in Tasks : at[s] \notin Ended
    BY DEF RunOver
  <2>2. at'[s] # at[s]
    BY <2>1 DEF Ended, Succeeded
  <2>3. \E u \in Tasks : TaskStep(u)
    BY <2>2 DEF Next, TaskStep, StartRun, Edit, Delete, Revise, CleanCache
  <2>4. TaskInv(t)'
    BY <2>3, TaskSteps DEF CarefulInv, Next
  <2> QED BY <2>4 DEF TaskInv
<1> QED BY <1>1, CarefulInvariant, PTL DEF Spec, RunMakesEverything

=============================================================================

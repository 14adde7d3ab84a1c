------------------------------ MODULE MCCache -------------------------------
(* Two small pipelines for TLC.                                            *)
EXTENDS Cache, TLC

CONSTANTS a, b, v1, v2, c1, c2, c3, c4   \* tasks, versions and commands

Define(command, inputs, outputs) ==
    [command |-> command, inputs |-> inputs, outputs |-> outputs]

(* A chain: a makes "mid" of "src" by one of two commands, b makes "out"   *)
(* of it.                                                                  *)
Chain ==
    [deps        |-> (a :> {}) @@ (b :> {a}),
     definitions |-> (a :> {Define(c1, {"src"}, {"mid"}), Define(c2, {"src"}, {"mid"})})
                       @@ (b :> {Define(c3, {"mid"}, {"out"})})]

(* Twins: a and b have the same command and input, and share a key.  Its   *)
(* program makes "mid" and "out".  Each of the tasks declares one of the   *)
(* files, and a may come to declare the other too.                         *)
Twins ==
    [deps        |-> (a :> {}) @@ (b :> {}),
     definitions |-> (a :> {Define(c4, {"src"}, {"mid"}),
                            Define(c4, {"src"}, {"mid", "out"})})
                       @@ (b :> {Define(c4, {"src"}, {"out"})})]

MCPipelines == {Chain, Twins}

MCMakes ==
    (c1 :> {"mid"}) @@ (c2 :> {"mid"}) @@ (c3 :> {"out"}) @@ (c4 :> {"mid", "out"})

(* The chain is careful, if the user is; the twins are not.                *)
ASSUME OneIsCareful ==
    ~EditWhile /\ HashOut # {} => Careful(Chain) /\ ~Careful(Twins)

(* Nothing tells the versions apart but that they differ.                  *)
VersionSymmetry == Permutations(Versions)

(* Sizes do not tell contents apart.                                       *)
SameSize(content) == 1
=============================================================================

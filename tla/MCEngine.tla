------------------------------ MODULE MCEngine ------------------------------
(* A pipeline of two tasks for TLC.                                        *)
EXTENDS Engine, TLC

CONSTANTS a, b   \* tasks

PairDeps == (a :> {}) @@ (b :> {a})

NoDeps == [t \in Tasks |-> {}]
=============================================================================

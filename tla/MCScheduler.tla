---------------------------- MODULE MCScheduler -----------------------------
(* Small pipelines for TLC.                                                *)
EXTENDS Scheduler, TLC

CONSTANTS a, b, c, d, e   \* tasks

(* The diamond of the scheduler's tests: a; b and c after a; d last.       *)
DiamondDeps == (a :> {}) @@ (b :> {a}) @@ (c :> {a}) @@ (d :> {b, c})

(* d comes after a; the others stand alone.                                *)
LastDeps == [t \in Tasks |-> IF t = d THEN {a} ELSE {}]

PairDeps == (a :> {}) @@ (b :> {a})

CHighPriority == [t \in Tasks |-> IF t = c THEN 1 ELSE 0]
Flat == [t \in Tasks |-> 0]

CpuMem == {"cpu", "mem"}
CpuMemCapacity == ("cpu" :> 2) @@ ("mem" :> 2)
EachHalf == [t \in Tasks |-> ("cpu" :> 1) @@ ("mem" :> 1)]

Gpu == {"gpu"}
TwoGpu == [x \in Gpu |-> 2]
(* a and c compete for the two GPUs, d asks for more than there are (its   *)
(* validation was skipped); b and e need none, so that three tasks that    *)
(* fit together can compete for two slots.                                 *)
GpuReq == [t \in Tasks |-> [x \in Gpu |-> CASE t = a -> 1 [] t = c -> 2
                                            [] t = d -> 3 [] OTHER -> 0]]

Twice == [t \in Tasks |-> 2]
ATwice == [t \in Tasks |-> IF t = a THEN 2 ELSE 1]
=============================================================================

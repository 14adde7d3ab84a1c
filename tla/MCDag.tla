------------------------------- MODULE MCDag --------------------------------
(* Small pipelines for TLC.                                                *)
EXTENDS Dag, SequencesExt

Lists(S, n) == UNION {[1 .. k -> S] : k \in 0 .. n}

SmallIds == {"a", "b", "c", "d", "x"}

(* Three tasks, or an id that is used twice; up to four edges, of which    *)
(* some may be stated twice, lead to the task itself or to no task.        *)
ThreeNodes == {<<"a", "b", "c">>, <<"a", "b", "a">>}
SomeEdges == Lists({"a", "b", "c"} \X {"a", "b", "c"}, 4)
               \cup Lists({"a", "b", "x"} \X {"a", "c", "x"}, 2)

(* Four tasks and any list of up to four different edges between them.     *)
FourNodes == {<<"a", "b", "c", "d">>}
FourEdges == {l \in Lists({e \in {"a", "b", "c", "d"} \X {"a", "b", "c", "d"} : e[1] # e[2]}, 4) :
                IsInjective(l)}

SmallCalls == (ThreeNodes \X SomeEdges) \cup (FourNodes \X FourEdges)
=============================================================================

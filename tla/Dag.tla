-------------------------------- MODULE Dag ---------------------------------
(***************************************************************************)
(* dag::Dag (src/core/dag/dag.cpp): Dag::build checks ids and edges, looks *)
(* for a cycle with an iterative depth-first search and orders the tasks   *)
(* with Kahn's algorithm; transitive_dependents is a breadth-first search. *)
(* One step is one turn of a loop, so that the loops' invariants and their *)
(* termination can be stated.  Nodes are the indices of the node list.     *)
(***************************************************************************)
EXTENDS Integers, Sequences, FiniteSets

CONSTANTS
    Ids,    \* the ids of tasks, and what is written in place of one
    Calls   \* the arguments of build(): <<list of ids, list of <<from, to>>>>

(* The signature of build().                                               *)
ASSUME CallsAssumption == Calls \subseteq Seq(Ids) \X Seq(Ids \X Ids)

VARIABLES
    nodes, edges,       \* the arguments
    phase,              \* the loop build() is in
    at,                 \* how many edges have been read
    errors,             \* result.errors: the codes
    succ, pred,         \* succ_, pred_
    colour, parent,     \* of the depth-first search
    stack,              \* its stack of [node, cursor]
    from, cycle,        \* the walk back along parent[], and the cycle found
    remaining, ready,   \* Kahn's counters and heap
    topo,               \* topo_order_, as indices
    root, seen, frontier, hits, \* of transitive_dependents
    node, cursor        \* its inner loop: the task taken, the next dependent

args == <<nodes, edges>>
adjacency == <<succ, pred>>
dfs == <<colour, parent, stack, from, cycle>>
kahn == <<remaining, ready, topo>>
bfs == <<root, seen, frontier, hits, node, cursor>>
vars == <<args, phase, at, errors, adjacency, dfs, kahn, bfs>>

N == DOMAIN nodes

(* The elements of a sequence.                                             *)
Elements(s) == {s[i] : i \in DOMAIN s}

(* index.find(id), where it succeeds.                                      *)
Index(id) == CHOOSE i \in N : nodes[i] = id

Least(S) == CHOOSE i \in S : \A j \in S : i <= j

Phases == {"nodes", "edges", "cycle", "trace", "kahn", "built", "search",
           "answer", "rejected"}

(* Every loop variable stays within the bounds of the vectors it indexes.  *)
TypeOK ==
    /\ phase \in Phases
    /\ at \in 0 .. Len(edges)
    /\ succ \in [N -> Seq(N)] /\ pred \in [N -> Seq(N)]
    /\ colour \in [N -> {"white", "grey", "black"}]
    /\ parent \in [N -> N \cup {0}]
    /\ \A i \in DOMAIN stack : stack[i].node \in N
         /\ stack[i].cursor \in 1 .. Len(succ[stack[i].node]) + 1
    /\ from \in N \cup {0}
    /\ Elements(cycle) \subseteq N
    /\ remaining \in [N -> Nat]
    /\ ready \subseteq N /\ Elements(topo) \subseteq N
    /\ root \in N \cup {0} /\ seen \subseteq N /\ hits \subseteq N /\ Elements(frontier) \subseteq N
    /\ node \in N \cup {0}
    /\ node # 0 => cursor \in 1 .. Len(succ[node]) + 1

Init ==
    /\ \E call \in Calls : nodes = call[1] /\ edges = call[2]
    /\ phase = "nodes" /\ at = 0 /\ errors = <<>>
    /\ succ = [i \in N |-> <<>>] /\ pred = [i \in N |-> <<>>]
    /\ colour = [i \in N |-> "white"] /\ parent = [i \in N |-> 0]
    /\ stack = <<>> /\ from = 0 /\ cycle = <<>>
    /\ remaining = [i \in N |-> 0] /\ ready = {} /\ topo = <<>>
    /\ root = 0 /\ seen = {} /\ frontier = <<>> /\ hits = {}
    /\ node = 0 /\ cursor = 1

-----------------------------------------------------------------------------
(* Dag::build: ids and edges *)

(* One error for each id that is there already; with any, build() stops.   *)
CheckNodes ==
    /\ phase = "nodes"
    /\ LET again == {i \in N : \E j \in 1 .. i - 1 : nodes[j] = nodes[i]} IN
         /\ errors' = [k \in 1 .. Cardinality(again) |-> "duplicate_node"]
         /\ phase' = IF again = {} THEN "edges" ELSE "rejected"
    /\ UNCHANGED <<args, at, adjacency, dfs, kahn, bfs>>

Known(id) == \E i \in N : nodes[i] = id

EdgeError(e) ==
    IF ~Known(e[1]) \/ ~Known(e[2]) THEN <<"unknown_edge_endpoint">>
    ELSE IF Index(e[1]) = Index(e[2]) THEN <<"self_dependency">> ELSE <<>>

(* Every edge counts, also when it is there already.                       *)
BugSeen(e) == FALSE

(* seen_edges: a duplicate edge is ignored.                                *)
Seen(e) == Index(e[2]) \in Elements(succ[Index(e[1])])

ReadEdge ==
    /\ phase = "edges" /\ at < Len(edges)
    /\ at' = at + 1
    /\ LET e == edges[at + 1] IN
         /\ errors' = errors \o EdgeError(e)
         /\ IF EdgeError(e) = <<>> /\ ~Seen(e)
            THEN /\ succ' = [succ EXCEPT ![Index(e[1])] = Append(@, Index(e[2]))]
                 /\ pred' = [pred EXCEPT ![Index(e[2])] = Append(@, Index(e[1]))]
            ELSE UNCHANGED adjacency
    /\ UNCHANGED <<args, phase, dfs, kahn, bfs>>

EndEdges ==
    /\ phase = "edges" /\ at = Len(edges)
    /\ phase' = IF errors = <<>> THEN "cycle" ELSE "rejected"
    /\ UNCHANGED <<args, at, errors, adjacency, dfs, kahn, bfs>>

-----------------------------------------------------------------------------
(* find_cycle *)

Top == stack[Len(stack)]
Pop == SubSeq(stack, 1, Len(stack) - 1)

Advance == [stack EXCEPT ![Len(stack)] =
               [node |-> Top.node, cursor |-> Top.cursor + 1]]
TopNext == succ[Top.node][Top.cursor]
HasNext == stack # <<>> /\ Top.cursor <= Len(succ[Top.node])

NextStart ==
    /\ phase = "cycle" /\ stack = <<>>
    /\ \E i \in N : colour[i] = "white"
    /\ LET start == Least({i \in N : colour[i] = "white"}) IN
         /\ stack' = <<[node |-> start, cursor |-> 1]>>
         /\ colour' = [colour EXCEPT ![start] = "grey"]
    /\ UNCHANGED <<args, phase, at, errors, adjacency, parent, from, cycle, kahn, bfs>>

(* Where the search came from is not recorded.                             *)
BugDescend ==
    /\ phase = "cycle" /\ HasNext /\ colour[TopNext] = "white"
    /\ colour' = [colour EXCEPT ![TopNext] = "grey"]
    /\ stack' = Append(Advance, [node |-> TopNext, cursor |-> 1])
    /\ UNCHANGED <<args, phase, at, errors, adjacency, parent, from, cycle, kahn, bfs>>

Descend ==
    /\ phase = "cycle" /\ HasNext /\ colour[TopNext] = "white"
    /\ colour' = [colour EXCEPT ![TopNext] = "grey"]
    /\ parent' = [parent EXCEPT ![TopNext] = Top.node]
    /\ stack' = Append(Advance, [node |-> TopNext, cursor |-> 1])
    /\ UNCHANGED <<args, phase, at, errors, adjacency, from, cycle, kahn, bfs>>

(* The cursor is advanced only on the way down.                            *)
BugPassBlack ==
    /\ phase = "cycle" /\ HasNext /\ colour[TopNext] = "black"
    /\ UNCHANGED vars

PassBlack ==
    /\ phase = "cycle" /\ HasNext /\ colour[TopNext] = "black"
    /\ stack' = Advance
    /\ UNCHANGED <<args, phase, at, errors, adjacency, colour, parent, from, cycle,
                   kahn, bfs>>

(* Only white successors are told from the others.                         *)
BugBackEdge ==
    /\ phase = "cycle" /\ HasNext /\ colour[TopNext] = "grey"
    /\ stack' = Advance
    /\ UNCHANGED <<args, phase, at, errors, adjacency, colour, parent, from, cycle,
                   kahn, bfs>>

(* A back edge: the walk from node to next along parent[] begins.          *)
BackEdge ==
    /\ phase = "cycle" /\ HasNext /\ colour[TopNext] = "grey"
    /\ phase' = "trace"
    /\ from' = Top.node
    /\ UNCHANGED <<args, at, errors, adjacency, colour, parent, stack, cycle, kahn, bfs>>

TraceBack ==
    /\ phase = "trace" /\ from # TopNext
    /\ cycle' = <<from>> \o cycle
    /\ from' = parent[from]
    /\ UNCHANGED <<args, phase, at, errors, adjacency, colour, parent, stack, kahn, bfs>>

CycleFound ==
    /\ phase = "trace" /\ from = TopNext
    /\ cycle' = <<TopNext>> \o cycle \o <<TopNext>>
    /\ errors' = <<"cycle">>
    /\ phase' = "rejected"
    /\ UNCHANGED <<args, at, adjacency, colour, parent, stack, from, kahn, bfs>>

Leave ==
    /\ phase = "cycle" /\ stack # <<>> /\ ~HasNext
    /\ colour' = [colour EXCEPT ![Top.node] = "black"]
    /\ stack' = Pop
    /\ UNCHANGED <<args, phase, at, errors, adjacency, parent, from, cycle, kahn, bfs>>

-----------------------------------------------------------------------------
(* Kahn's algorithm; initial_dependency_counts() is Len(pred[i]) *)

Acyclic ==
    /\ phase = "cycle" /\ stack = <<>>
    /\ \A i \in N : colour[i] # "white"
    /\ remaining' = [i \in N |-> Len(pred[i])]
    /\ ready' = {i \in N : pred[i] = <<>>}
    /\ phase' = "kahn"
    /\ UNCHANGED <<args, at, errors, adjacency, dfs, topo, bfs>>

(* The heap gives the node that comes first in the list; its dependents    *)
(* whose counter reaches zero are pushed.                                  *)
TakeReady ==
    /\ phase = "kahn" /\ ready # {}
    /\ LET first == Least(ready)
           next == Elements(succ[first])
       IN  /\ topo' = Append(topo, first)
           /\ remaining' = [i \in N |-> IF i \in next THEN remaining[i] - 1
                                        ELSE remaining[i]]
           /\ ready' = (ready \ {first}) \cup {i \in next : remaining[i] = 1}
    /\ UNCHANGED <<args, phase, at, errors, adjacency, dfs, bfs>>

Built ==
    /\ phase = "kahn" /\ ready = {}
    /\ phase' = "built"
    /\ UNCHANGED <<args, at, errors, adjacency, dfs, kahn, bfs>>

-----------------------------------------------------------------------------
(* transitive_dependents(id) *)

Query(i) ==
    /\ phase = "built"
    /\ phase' = "search"
    /\ root' = i /\ frontier' = <<i>> /\ seen' = {i} /\ hits' = {}
    /\ node' = 0 /\ cursor' = 1
    /\ UNCHANGED <<args, at, errors, adjacency, dfs, kahn>>

(* The dependents of the task that was taken have all been looked at.      *)
Expanded == node # 0 => cursor > Len(succ[node])

Dequeue ==
    /\ phase = "search" /\ Expanded /\ frontier # <<>>
    /\ node' = Head(frontier) /\ cursor' = 1
    /\ frontier' = Tail(frontier)
    /\ UNCHANGED <<args, phase, at, errors, adjacency, dfs, kahn, root, seen, hits>>

Visit ==
    /\ phase = "search" /\ ~Expanded
    /\ cursor' = cursor + 1
    /\ LET next == succ[node][cursor] IN
         IF next \in seen
         THEN UNCHANGED <<seen, hits, frontier>>
         ELSE /\ seen' = seen \cup {next}
              /\ hits' = hits \cup {next}
              /\ frontier' = Append(frontier, next)
    /\ UNCHANGED <<args, phase, at, errors, adjacency, dfs, kahn, root, node>>

Answer ==
    /\ phase = "search" /\ Expanded /\ frontier = <<>>
    /\ phase' = "answer"
    /\ UNCHANGED <<args, at, errors, adjacency, dfs, kahn, bfs>>

Over == phase \in {"answer", "rejected"} /\ UNCHANGED vars

Step ==
    \/ CheckNodes \/ ReadEdge \/ EndEdges
    \/ NextStart \/ Descend \/ PassBlack \/ BackEdge \/ TraceBack \/ CycleFound
    \/ Leave \/ Acyclic \/ TakeReady \/ Built
    \/ \E i \in N : Query(i)
    \/ Dequeue \/ Visit \/ Answer

Next == Step \/ Over

Spec == Init /\ [][Next]_vars

(* It is a sequential program.                                             *)
FairSpec == Spec /\ WF_vars(Step)

-----------------------------------------------------------------------------
(* Reference definitions *)

(* The dependencies the arguments state, as a relation on indices.         *)
Edge == {e \in N \X N : <<nodes[e[1]], nodes[e[2]]>> \in Elements(edges)}

Distinct == \A i, j \in N : nodes[i] = nodes[j] => i = j

AllKnown == \A e \in Elements(edges) : Known(e[1]) /\ Known(e[2])

(* Every non-empty set of tasks has one that depends on none of the        *)
(* others: what Scheduler assumes of Deps.                                 *)
WellFounded ==
    \A S \in SUBSET N : S # {} => \E j \in S : \A i \in S : <<i, j>> \notin Edge

(* Everything downstream of i.                                             *)
Downstream(i) ==
    {j \in N : \A S \in SUBSET N :
        (\A k \in N : (\E l \in S \cup {i} : <<l, k>> \in Edge) => k \in S) => j \in S}

-----------------------------------------------------------------------------
(* Properties *)

(* The cycle in the error message is one: it goes along stated edges back  *)
(* to where it began and visits nothing twice on the way.                  *)
CycleIsReal ==
    /\ Len(cycle) >= 3 /\ cycle[1] = cycle[Len(cycle)]
    /\ \A k \in 1 .. Len(cycle) - 1 : <<cycle[k], cycle[k + 1]>> \in Edge
    /\ \A k, l \in 1 .. Len(cycle) - 1 : cycle[k] = cycle[l] => k = l

(* build() accepts exactly the pipelines that can be executed: distinct    *)
(* ids, edges between known tasks, and no cycle of any length, whatever    *)
(* the order in which edges and duplicates of edges are listed; and if it  *)
(* reports a cycle, the path it names is one.                              *)
AcceptsExactly ==
    /\ phase \in {"built", "search", "answer"} => Distinct /\ AllKnown /\ WellFounded
    /\ phase = "rejected" => ~(Distinct /\ AllKnown /\ WellFounded)
    /\ errors = <<"cycle">> => CycleIsReal

(* The counters the scheduler starts from are the numbers of distinct      *)
(* dependencies, even if an edge is stated twice; and Kahn's counters stay *)
(* the numbers of dependencies that are not in the order yet.              *)
CountersExact ==
    /\ phase = "kahn" =>
         \A j \in N : remaining[j] = Cardinality(
             {i \in N : <<i, j>> \in Edge /\ i \notin Elements(topo)})
    /\ phase = "built" =>
         \A j \in N : Len(pred[j]) = Cardinality({i \in N : <<i, j>> \in Edge})

(* The order has every task once, and each is the first of the list among  *)
(* the tasks whose dependencies are all in front of it: the order depends  *)
(* on the tasks and on the set of edges, not on the order of the edges.    *)
OrderDetermined ==
    phase = "built" =>
        /\ Len(topo) = Len(nodes)
        /\ \A k \in DOMAIN topo :
             LET placed == {topo[l] : l \in 1 .. k - 1}
                 able == {j \in N \ placed :
                             \A i \in N : <<i, j>> \in Edge => i \in placed}
             IN  able # {} /\ topo[k] = Least(able)

(* The depth-first search at any moment: the grey nodes are those of the   *)
(* stack, each was reached from the one below it, and everything a black   *)
(* node leads to is black.  This is why a grey successor closes a cycle    *)
(* along parent[], and why none is missed.  No loop leaves the vectors it   *)
(* indexes.                                                                *)
SearchInvariant ==
    /\ TypeOK
    /\ phase \in {"cycle", "trace"} =>
           /\ {i \in N : colour[i] = "grey"} = {stack[k].node : k \in DOMAIN stack}
           /\ \A k, l \in DOMAIN stack : stack[k].node = stack[l].node => k = l
           /\ \A k \in 2 .. Len(stack) :
                /\ parent[stack[k].node] = stack[k - 1].node
                /\ succ[stack[k - 1].node][stack[k - 1].cursor - 1] = stack[k].node
           /\ \A i \in N : colour[i] = "black" =>
                \A j \in Elements(succ[i]) : colour[j] = "black"

(* transitive_dependents answers everything downstream and nothing else.   *)
AnswerExact ==
    phase = "answer" => hits = Downstream(root)

(* What the scheduler reads of the graph that build() returns is exact:    *)
(* the counters, the order, and what is downstream of a task.              *)
ResultExact == CountersExact /\ OrderDetermined /\ AnswerExact

(* Every call returns.                                                     *)
Terminates == <>(phase \in {"answer", "rejected"})
=============================================================================

------------------------------ MODULE DagProofs ------------------------------
(***************************************************************************)
(* Proofs about dag::Dag, for every list of ids and every list of edges:   *)
(* what build() accepts, the counters and the order it returns, and what   *)
(* transitive_dependents answers.                                          *)
(***************************************************************************)
EXTENDS Dag, FiniteSetTheorems, SequenceTheorems, WellFoundedInduction, TLAPS

-----------------------------------------------------------------------------
(* Sequences and least elements *)

(* A pushed element joins the elements.                                    *)
LEMMA ElementsAppend ==
    ASSUME NEW S, NEW s \in Seq(S), NEW x \in S
    PROVE  Elements(Append(s, x)) = Elements(s) \cup {x}
  <1>1. DOMAIN s = 1..Len(s) /\ DOMAIN Append(s, x) = 1..(Len(s) + 1)
    OBVIOUS
  <1>2. /\ \A i \in 1..Len(s) : Append(s, x)[i] = s[i]
        /\ Append(s, x)[Len(s) + 1] = x /\ Len(s) \in Nat
    OBVIOUS
  <1> QED BY <1>1, <1>2 DEF Elements

(* The head and the elements of the tail are the elements.                 *)
LEMMA ElementsTail ==
    ASSUME NEW S, NEW s \in Seq(S), s # <<>>
    PROVE  /\ Elements(s) = {Head(s)} \cup Elements(Tail(s))
           /\ Tail(s) \in Seq(S) /\ Head(s) \in S
  <1>1. /\ Len(s) \in Nat /\ Len(s) >= 1 /\ DOMAIN s = 1..Len(s)
        /\ DOMAIN Tail(s) = 1..(Len(s) - 1) /\ Head(s) = s[1]
        /\ \A i \in 1..(Len(s) - 1) : Tail(s)[i] = s[i + 1]
    OBVIOUS
  <1>2. \A i \in 2..Len(s) : i - 1 \in 1..(Len(s) - 1) /\ s[i] = Tail(s)[i - 1]
    BY <1>1
  <1>3. \A i \in 1..Len(s) : i = 1 \/ i \in 2..Len(s)
    BY <1>1
  <1>4. 1 \in 1..Len(s) /\ \A i \in 1..(Len(s) - 1) : i + 1 \in 1..Len(s)
    BY <1>1
  <1>5. ASSUME NEW x \in Elements(s) PROVE x \in {Head(s)} \cup Elements(Tail(s))
    <2>1. PICK i \in 1..Len(s) : x = s[i]
      BY <1>1 DEF Elements
    <2>2. CASE i = 1
      BY <1>1, <2>1, <2>2
    <2>3. CASE i \in 2..Len(s)
      BY <1>1, <1>2, <2>1, <2>3 DEF Elements
    <2> QED BY <1>3, <2>2, <2>3
  <1>6. {Head(s)} \cup Elements(Tail(s)) \subseteq Elements(s)
    BY <1>1, <1>4 DEF Elements
  <1> QED BY <1>5, <1>6

(* The elements of a sequence are those of its set.                        *)
LEMMA ElementsIn ==
    ASSUME NEW S, NEW s \in Seq(S)
    PROVE  Elements(s) \subseteq S /\ (s = <<>> <=> Elements(s) = {})
  <1>1. DOMAIN s = 1..Len(s) /\ Len(s) \in Nat /\ \A i \in DOMAIN s : s[i] \in S
    OBVIOUS
  <1>2. s # <<>> => 1 \in DOMAIN s
    OBVIOUS
  <1>3. s = <<>> => DOMAIN s = {}
    OBVIOUS
  <1> QED BY <1>1, <1>2, <1>3 DEF Elements

(* Of a collection of subsets of a finite set one contains no other.       *)
LEMMA SmallestSet ==
    ASSUME NEW S, IsFiniteSet(S), NEW T, T \subseteq SUBSET S, T # {}
    PROVE  \E X \in T : \A Y \in T : ~(Y \subseteq X /\ Y # X)
  <1>1. IsWellFoundedOn(StrictSubsetOrdering(S), FiniteSubsetsOf(S))
    BY FS_StrictSubsetOrderingWellFounded
  <1>2. T \subseteq FiniteSubsetsOf(S)
    BY FS_FiniteSubsetsOfFinite
  <1>3. PICK X \in T : \A Y \in T : ~(<<Y, X>> \in StrictSubsetOrdering(S))
    BY <1>1, <1>2, WFMin, Zenon
  <1> QED BY <1>3 DEF StrictSubsetOrdering

(* A set of indices has a least element, and Least is it.                  *)
LEMMA LeastIs ==
    ASSUME NEW n \in Nat, NEW S \in SUBSET (1..n), S # {}
    PROVE  Least(S) \in S /\ \A j \in S : Least(S) <= j
  <1> DEFINE T == {1..i : i \in S}
  <1>1. T \subseteq SUBSET (1..n) /\ T # {}
    <2>1. ASSUME NEW i \in S PROVE 1..i \subseteq 1..n
      OBVIOUS
    <2>2. PICK i \in S : TRUE
      OBVIOUS
    <2>3. 1..i \in T
      OBVIOUS
    <2> QED BY <2>1, <2>3
  <1>2. PICK X \in T : \A Y \in T : ~(Y \subseteq X /\ Y # X)
    <2> DEFINE I == 1..n
    <2>1. IsFiniteSet(I) /\ T \subseteq SUBSET I /\ T # {}
      BY <1>1, FS_Interval
    <2> HIDE DEF T, I
    <2> QED BY <2>1, SmallestSet
  <1>3. PICK i \in S : X = 1..i
    OBVIOUS
  <1>4. ASSUME NEW j \in S, j < i PROVE FALSE
    <2>1. 1..j \in T
      OBVIOUS
    <2>2. i \in 1..i /\ i \notin 1..j /\ 1..j \subseteq 1..i
      BY <1>4
    <2> QED BY <1>2, <1>3, <2>1, <2>2
  <1>5. \A j \in S : i <= j
    BY <1>4
  <1> QED BY <1>5 DEF Least

(* So the least of two different indices is the least of a set only once.  *)
LEMMA LeastUnique ==
    ASSUME NEW n \in Nat, NEW S \in SUBSET (1..n), NEW i \in S,
           \A j \in S : i <= j
    PROVE  Least(S) = i
  <1>1. Least(S) \in S /\ Least(S) <= i
    BY LeastIs
  <1>2. PICK m \in S : m = Least(S)
    BY <1>1
  <1>3. m \in Nat /\ i \in Nat /\ m <= i /\ i <= m
    BY <1>1, <1>2
  <1>4. m = i
    BY <1>3
  <1> QED BY <1>2, <1>4


-----------------------------------------------------------------------------
(* The inductive invariant *)

(* The codes of build().                                                   *)
Codes == {"duplicate_node", "unknown_edge_endpoint", "self_dependency", "cycle"}

(* The values of the variables; a counter of Kahn's loop may be any number *)
(* for now.  from and cycle are in TraceInv.                               *)
Shape ==
    /\ nodes \in Seq(Ids) /\ edges \in Seq(Ids \X Ids)
    /\ phase \in Phases /\ at \in 0 .. Len(edges)
    /\ errors \in Seq(Codes)
    /\ succ \in [N -> Seq(N)] /\ pred \in [N -> Seq(N)]
    /\ colour \in [N -> {"white", "grey", "black"}]
    /\ parent \in [N -> N \cup {0}]
    /\ stack \in Seq([node : N, cursor : Nat \ {0}])
    /\ remaining \in [N -> Int] /\ ready \subseteq N /\ topo \in Seq(N)
    /\ root \in N \cup {0} /\ seen \subseteq N /\ hits \subseteq N
    /\ frontier \in Seq(N)
    /\ node \in N \cup {0} /\ cursor \in Nat \ {0}

(* The searches are not under way while edges are read, and their cursors  *)
(* are at most one past the end of a list.                                 *)
BoundsInv ==
    /\ phase \in {"nodes", "edges"} =>
         /\ stack = <<>> /\ node = 0
         /\ \A i \in N : colour[i] = "white"
    /\ \A k \in DOMAIN stack : stack[k].cursor <= Len(succ[stack[k].node]) + 1
    /\ node # 0 => cursor <= Len(succ[node]) + 1

(* An edge that build() has nothing to say against.                        *)
Good(e) == Known(e[1]) /\ Known(e[2]) /\ e[1] # e[2]

(* The edges read so far, and nothing else, are in succ_, and pred_ is its *)
(* converse without repetition; there is an error if one of them is bad.   *)
EdgesInv ==
    /\ phase = "nodes" =>
         /\ at = 0 /\ errors = <<>>
         /\ \A i \in N : succ[i] = <<>> /\ pred[i] = <<>>
    /\ phase \notin {"nodes", "rejected"} =>
         /\ Distinct
         /\ errors = <<>> <=> \A k \in 1..at : Good(edges[k])
         /\ \A i, j \in N : j \in Elements(succ[i]) <=>
              i # j /\ \E k \in 1..at : edges[k] = <<nodes[i], nodes[j]>>
         /\ \A i, j \in N : i \in Elements(pred[j]) <=> j \in Elements(succ[i])
         /\ \A j \in N : Len(pred[j]) = Cardinality(Elements(pred[j]))
         /\ "cycle" \notin Elements(errors)
    /\ phase \notin {"nodes", "edges", "rejected"} => at = Len(edges) /\ errors = <<>>

(* The nodes that are finished.                                            *)
Black == {i \in N : colour[i] = "black"}

(* Every non-empty subset of S has a task that depends on no other of it.  *)
OrderedSet(S) ==
    \A T \in SUBSET S : T # {} => \E j \in T : \A i \in T : <<i, j>> \notin Edge

(* The grey nodes are those of the stack, each reached from the one below. *)
GreyInv ==
    /\ {i \in N : colour[i] = "grey"} = {stack[k].node : k \in DOMAIN stack}
    /\ \A k, l \in DOMAIN stack : stack[k].node = stack[l].node => k = l
    /\ \A k \in 2 .. Len(stack) :
         /\ parent[stack[k].node] = stack[k - 1].node
         /\ stack[k - 1].cursor > 1
         /\ succ[stack[k - 1].node][stack[k - 1].cursor - 1] = stack[k].node

(* Everything in front of a cursor is finished, or next on the stack; what *)
(* a finished node leads to is finished, and there is no cycle among the   *)
(* finished.                                                               *)
BlackInv ==
    /\ \A k \in DOMAIN stack : \A c \in 1 .. stack[k].cursor - 1 :
         \/ succ[stack[k].node][c] \in Black
         \/ k < Len(stack) /\ succ[stack[k].node][c] = stack[k + 1].node
    /\ \A i \in Black : Elements(succ[i]) \subseteq Black
    /\ OrderedSet(Black)

(* The depth-first search.                                                 *)
SearchInv == phase \in {"cycle", "trace"} => GreyInv /\ BlackInv

(* The walk back stands on the stack, between the node that closes the     *)
(* cycle and the top, and has collected what is above it.                  *)
Walk(b, m) ==
    /\ stack[b].node = TopNext /\ stack[m].node = from
    /\ Len(cycle) = Len(stack) - m
    /\ \A k \in 1 .. Len(cycle) : cycle[k] = stack[m + k].node

(* The walk as long as it lasts; nothing is collected before it.           *)
TraceInv ==
    /\ from \in N \cup {0} /\ cycle \in Seq(N)
    /\ phase \notin {"trace", "rejected"} => cycle = <<>>
    /\ phase = "trace" =>
         /\ HasNext
         /\ \E m \in DOMAIN stack : \E b \in 1 .. m : Walk(b, m)

(* What the verdict says.                                                  *)
VerdictInv ==
    /\ phase \in {"kahn", "built", "search", "answer"} => WellFounded
    /\ phase = "rejected" => ~(Distinct /\ AllKnown /\ WellFounded)
    /\ errors = <<"cycle">> => CycleIsReal

(* The dependencies of j that are not in the order yet.                    *)
Missing(j) == {i \in N : <<i, j>> \in Edge /\ i \notin Elements(topo)}

(* The task at place k is the first of those that could be there.          *)
PlacedRight(k) ==
    LET placed == {topo[l] : l \in 1 .. k - 1}
        able == {j \in N \ placed : \A i \in N : <<i, j>> \in Edge => i \in placed}
    IN  able # {} /\ topo[k] = Least(able)

(* Kahn's loop.                                                            *)
KahnInv ==
    /\ phase \notin {"kahn", "built", "search", "answer"} =>
         topo = <<>> /\ \A j \in N : remaining[j] = 0
    /\ phase \in {"kahn", "built", "search", "answer"} =>
         /\ Len(topo) = Cardinality(Elements(topo))
         /\ \A j \in N : remaining[j] = Cardinality(Missing(j))
         /\ ready = {j \in N \ Elements(topo) : remaining[j] = 0}
         /\ \A k \in DOMAIN topo : PlacedRight(k)
    /\ phase \in {"built", "search", "answer"} => ready = {}

(* The breadth-first search: what was seen is downstream of the root, was  *)
(* reached from something seen, and leads to what was seen unless it still *)
(* waits or is being looked at.                                            *)
ReachInv ==
    phase \in {"search", "answer"} =>
        /\ root \in N /\ seen = hits \cup {root} /\ root \notin hits
        /\ hits \subseteq Downstream(root)
        /\ \A j \in hits : \E i \in seen : <<i, j>> \in Edge
        /\ Elements(frontier) \subseteq seen /\ node \in seen \cup {0}
        /\ \A i \in seen \ (Elements(frontier) \cup {node}) :
             Elements(succ[i]) \subseteq seen
        /\ node # 0 => \A c \in 1 .. cursor - 1 : succ[node][c] \in seen
        /\ phase = "answer" => Expanded /\ frontier = <<>>


-----------------------------------------------------------------------------
(* Types *)

(* The top of the stack.                                                   *)
LEMMA TopIn ==
    ASSUME Shape, stack # <<>>
    PROVE  /\ Len(stack) \in DOMAIN stack /\ DOMAIN stack = 1..Len(stack)
           /\ Len(stack) \in Nat \ {0}
           /\ Top \in [node : N, cursor : Nat \ {0}]
           /\ Top.node \in N /\ Top.cursor \in Nat \ {0}
           /\ succ[Top.node] \in Seq(N)
           /\ HasNext => TopNext \in N /\ Top.cursor \in DOMAIN succ[Top.node]
  <1>1. /\ stack \in Seq([node : N, cursor : Nat \ {0}])
        /\ succ \in [N -> Seq(N)]
    BY DEF Shape
  <1>2. /\ Len(stack) \in DOMAIN stack /\ DOMAIN stack = 1..Len(stack)
        /\ Len(stack) \in Nat \ {0} /\ Top \in [node : N, cursor : Nat \ {0}]
    <2> DEFINE R == [node : N, cursor : Nat \ {0}]
    <2>1. stack \in Seq(R)
      BY <1>1
    <2> HIDE DEF R
    <2>2. /\ Len(stack) \in DOMAIN stack /\ DOMAIN stack = 1..Len(stack)
          /\ Len(stack) \in Nat \ {0} /\ stack[Len(stack)] \in R
      BY <2>1
    <2> QED BY <2>2 DEF R, Top
  <1>3. Top.node \in N /\ Top.cursor \in Nat \ {0}
    BY <1>2
  <1>4. succ[Top.node] \in Seq(N)
    BY <1>1, <1>3
  <1>5. HasNext => Top.cursor \in DOMAIN succ[Top.node]
    BY <1>3, <1>4 DEF HasNext
  <1> QED BY <1>2, <1>3, <1>4, <1>5 DEF TopNext

(* The three things the search does to its stack.                          *)
LEMMA AdvanceIs ==
    ASSUME Shape, stack # <<>>
    PROVE  /\ Advance \in Seq([node : N, cursor : Nat \ {0}])
           /\ Len(Advance) = Len(stack) /\ DOMAIN Advance = DOMAIN stack
           /\ \A k \in DOMAIN stack : Advance[k].node = stack[k].node
           /\ \A k \in DOMAIN stack : k # Len(stack) => Advance[k] = stack[k]
           /\ Advance[Len(stack)] = [node |-> Top.node, cursor |-> Top.cursor + 1]
  <1> DEFINE R == [node : N, cursor : Nat \ {0}]
             r == [node |-> Top.node, cursor |-> Top.cursor + 1]
  <1>1. /\ stack \in Seq(R) /\ Len(stack) \in DOMAIN stack /\ Top \in R
        /\ Top.node \in N /\ Top.cursor \in Nat \ {0}
    BY TopIn DEF Shape
  <1>2. r \in R /\ r.node = Top.node
    BY <1>1
  <1>3. Advance = [stack EXCEPT ![Len(stack)] = r]
    BY DEF Advance
  <1> HIDE DEF r, R
  <1>4. /\ Advance \in Seq(R)
        /\ Len(Advance) = Len(stack) /\ DOMAIN Advance = DOMAIN stack
        /\ \A k \in DOMAIN stack : k # Len(stack) => Advance[k] = stack[k]
        /\ Advance[Len(stack)] = r
    BY <1>1, <1>2, <1>3
  <1>5. \A k \in DOMAIN stack : Advance[k].node = stack[k].node
    BY <1>2, <1>4 DEF Top
  <1> QED BY <1>4, <1>5 DEF r, R

(* An entry on top of a stack.                                             *)
LEMMA PushIs ==
    ASSUME NEW S, NEW s \in Seq(S), NEW r \in S
    PROVE  /\ Append(s, r) \in Seq(S) /\ Len(Append(s, r)) = Len(s) + 1
           /\ DOMAIN Append(s, r) = DOMAIN s \cup {Len(s) + 1}
           /\ \A k \in DOMAIN s : Append(s, r)[k] = s[k]
           /\ Append(s, r)[Len(s) + 1] = r
  OBVIOUS

(* The stack without its top.                                              *)
LEMMA PopIs ==
    ASSUME Shape, stack # <<>>
    PROVE  /\ Pop \in Seq([node : N, cursor : Nat \ {0}])
           /\ Len(Pop) = Len(stack) - 1
           /\ DOMAIN Pop = 1..(Len(stack) - 1)
           /\ \A k \in DOMAIN Pop : Pop[k] = stack[k] /\ k \in DOMAIN stack
  <1> DEFINE R == [node : N, cursor : Nat \ {0}]
  <1>1. stack \in Seq(R) /\ Len(stack) \in Nat \ {0}
    BY TopIn DEF Shape
  <1> HIDE DEF R
  <1>2. PICK n \in Int : n = Len(stack) - 1
    BY <1>1
  <1>3. /\ Pop \in Seq(R) /\ Len(Pop) = (IF 1 <= n THEN n - 1 + 1 ELSE 0)
        /\ \A k \in 1..(n - 1 + 1) : Pop[k] = stack[1 + k - 1]
    <2>1. \A i \in 1..n : stack[i] \in R
      BY <1>1, <1>2
    <2>2. /\ SubSeq(stack, 1, n) \in Seq(R)
          /\ Len(SubSeq(stack, 1, n)) = IF 1 <= n THEN n - 1 + 1 ELSE 0
          /\ \A k \in 1..(n - 1 + 1) : SubSeq(stack, 1, n)[k] = stack[1 + k - 1]
      BY <2>1, SubSeqProperties
    <2> QED BY <1>2, <2>2 DEF Pop
  <1>4. /\ Len(Pop) = Len(stack) - 1 /\ DOMAIN Pop = 1..(Len(stack) - 1)
        /\ DOMAIN stack = 1..Len(stack)
    BY <1>1, <1>2, <1>3
  <1>5. \A k \in DOMAIN Pop : Pop[k] = stack[k] /\ k \in DOMAIN stack
    BY <1>1, <1>2, <1>3, <1>4
  <1> QED BY <1>3, <1>4, <1>5 DEF R

(* The first white node.                                                   *)
LEMMA StartIs ==
    ASSUME Shape, \E i \in N : colour[i] = "white"
    PROVE  /\ Least({i \in N : colour[i] = "white"}) \in N
           /\ colour[Least({i \in N : colour[i] = "white"})] = "white"
  <1> DEFINE W == {i \in N : colour[i] = "white"}
  <1>1. Len(nodes) \in Nat /\ N = 1..Len(nodes)
    BY DEF Shape, N
  <1>2. W \subseteq 1..Len(nodes) /\ W # {}
    BY <1>1
  <1> HIDE DEF W
  <1>3. Least(W) \in W
    BY <1>1, <1>2, LeastIs
  <1> QED BY <1>3 DEF W

(* Where an id is known it has an index.                                   *)
LEMMA IndexIs ==
    ASSUME NEW id, Known(id)
    PROVE  Index(id) \in N /\ nodes[Index(id)] = id
  BY DEF Known, Index

(* Init gives every variable a value of its kind.                          *)
LEMMA ShapeInit == Init => Shape
  <1> SUFFICES ASSUME Init PROVE Shape
    OBVIOUS
  <1>1. nodes \in Seq(Ids) /\ edges \in Seq(Ids \X Ids)
    BY CallsAssumption DEF Init
  <1>2. /\ phase \in Phases /\ at \in 0..Len(edges)
    BY <1>1 DEF Init, Phases
  <1>3. succ \in [N -> Seq(N)] /\ pred \in [N -> Seq(N)]
    BY DEF Init
  <1>4. colour \in [N -> {"white", "grey", "black"}] /\ parent \in [N -> N \cup {0}]
    BY DEF Init
  <1>5. remaining \in [N -> Int] /\ ready \subseteq N /\ topo \in Seq(N)
    BY DEF Init
  <1>6. /\ stack \in Seq([node : N, cursor : Nat \ {0}]) /\ errors \in Seq(Codes)
        /\ root \in N \cup {0} /\ seen \subseteq N /\ hits \subseteq N
        /\ frontier \in Seq(N) /\ node \in N \cup {0} /\ cursor \in Nat \ {0}
    BY DEF Init
  <1> QED BY <1>1, <1>2, <1>3, <1>4, <1>5, <1>6 DEF Shape

(* The errors that the check of the ids gives.                             *)
LEMMA NodeErrors ==
    ASSUME Shape, CheckNodes
    PROVE  /\ errors' \in Seq(Codes) /\ "cycle" \notin Elements(errors')
           /\ phase' = "edges" => Distinct /\ errors' = <<>>
           /\ phase' = "rejected" => ~Distinct
           /\ phase' \in {"edges", "rejected"}
  <1> DEFINE again == {i \in N : \E j \in 1 .. i - 1 : nodes[j] = nodes[i]}
             n == Cardinality(again)
             q == [k \in 1..n |-> "duplicate_node"]
  <1>1. Len(nodes) \in Nat /\ N = 1..Len(nodes)
    BY DEF Shape, N
  <1>2. again \subseteq N /\ IsFiniteSet(N)
    BY <1>1, FS_Interval
  <1>3. IsFiniteSet(again) /\ n \in Nat
    <2> HIDE DEF again
    <2>1. IsFiniteSet(again)
      BY <1>2, FS_Subset
    <2> QED BY <2>1, FS_CardinalityType
  <1>4. errors' = q /\ phase' = IF again = {} THEN "edges" ELSE "rejected"
    BY Zenon DEF CheckNodes
  <1>5. again = {} => n = 0
    BY FS_EmptySet
  <1>6. again = {} <=> Distinct
    <2>1. ASSUME again = {}, NEW i \in N, NEW j \in N, nodes[i] = nodes[j] PROVE i = j
      <3>1. i < j => i \in 1 .. j - 1
        BY <1>1
      <3>2. j < i => j \in 1 .. i - 1
        BY <1>1
      <3>3. ~(i < j) /\ ~(j < i)
        BY <2>1, <3>1, <3>2
      <3> QED BY <1>1, <3>3
    <2>2. ASSUME NEW i \in again, Distinct PROVE FALSE
      <3>1. PICK j \in 1 .. i - 1 : nodes[j] = nodes[i]
        OBVIOUS
      <3>2. j \in N /\ i \in N /\ j # i
        BY <1>1, <3>1
      <3> QED BY <2>2, <3>1, <3>2 DEF Distinct
    <2> QED BY <2>1, <2>2 DEF Distinct
  <1> HIDE DEF again, n
  <1>7. q \in Seq(Codes) /\ (n = 0 => q = <<>>) /\ DOMAIN q = 1..n
    <2>1. "duplicate_node" \in Codes
      BY DEF Codes
    <2>2. DOMAIN q = 1..n /\ \A k \in 1..n : q[k] \in Codes
      BY <2>1
    <2> QED BY <1>3, <2>2
  <1>8. "cycle" \notin Elements(q)
    BY <1>7 DEF Elements
  <1> HIDE DEF q
  <1> QED BY <1>4, <1>5, <1>6, <1>7, <1>8

(* The error an edge gives, if any.                                        *)
LEMMA EdgeErrorIs ==
    ASSUME NEW e
    PROVE  /\ EdgeError(e) \in Seq(Codes) /\ "cycle" \notin Elements(EdgeError(e))
           /\ EdgeError(e) = <<>> <=> Good(e)
  <1>1. "unknown_edge_endpoint" \in Codes /\ "self_dependency" \in Codes
    BY DEF Codes
  <1>2. ASSUME NEW c \in Codes, c # "cycle"
        PROVE  <<c>> \in Seq(Codes) /\ "cycle" \notin Elements(<<c>>) /\ <<c>> # <<>>
    BY <1>2 DEF Elements
  <1>3. <<>> \in Seq(Codes) /\ "cycle" \notin Elements(<<>>)
    BY DEF Elements
  <1>4. CASE ~Known(e[1]) \/ ~Known(e[2])
    <2>1. EdgeError(e) = <<"unknown_edge_endpoint">>
      BY <1>4 DEF EdgeError
    <2> QED BY <1>1, <1>2, <1>4, <2>1 DEF Good
  <1>5. CASE Known(e[1]) /\ Known(e[2])
    <2>1. Index(e[1]) = Index(e[2]) <=> e[1] = e[2]
      BY <1>5, IndexIs
    <2>2. EdgeError(e) = IF Index(e[1]) = Index(e[2]) THEN <<"self_dependency">> ELSE <<>>
      BY <1>5 DEF EdgeError
    <2>3. CASE e[1] = e[2]
      BY <1>1, <1>2, <2>1, <2>2, <2>3 DEF Good
    <2>4. CASE e[1] # e[2]
      BY <1>3, <1>5, <2>1, <2>2, <2>4 DEF Good
    <2> QED BY <2>3, <2>4
  <1> QED BY <1>4, <1>5

(* Every step keeps the values within their kinds.                         *)
LEMMA ShapeStep == ASSUME Shape, [Next]_vars PROVE Shape'
  <1> USE DEF args, adjacency, dfs, kahn, bfs, N
  <1>0. "edges" \in Phases /\ "rejected" \in Phases /\ "cycle" \in Phases
        /\ "trace" \in Phases /\ "kahn" \in Phases /\ "built" \in Phases
        /\ "search" \in Phases /\ "answer" \in Phases
    BY DEF Phases
  <1>1. CASE CheckNodes
    <2>1. errors' \in Seq(Codes) /\ phase' \in {"edges", "rejected"}
      BY <1>1, NodeErrors
    <2> QED BY <1>0, <1>1, <2>1 DEF CheckNodes, Shape
  <1>2. CASE ReadEdge
    <2> DEFINE e == edges[at + 1]
    <2>1. UNCHANGED <<nodes, edges, phase, colour, parent, stack, remaining, ready,
                      topo, root, seen, hits, frontier, node, cursor>>
      BY <1>2 DEF ReadEdge
    <2>2. at' \in 0 .. Len(edges)
      BY <1>2 DEF ReadEdge, Shape
    <2>3. EdgeError(e) \in Seq(Codes)
      BY EdgeErrorIs
    <2>4. errors' \in Seq(Codes)
      <3>1. errors' = errors \o EdgeError(e)
        BY <1>2, Zenon DEF ReadEdge
      <3>2. errors \in Seq(Codes)
        BY DEF Shape
      <3> HIDE DEF e
      <3> QED BY <2>3, <3>1, <3>2
    <2>5. succ' \in [N -> Seq(N)] /\ pred' \in [N -> Seq(N)]
      <3>1. CASE EdgeError(e) = <<>>
        <4>1. Known(e[1]) /\ Known(e[2])
          BY <3>1 DEF EdgeError
        <4>2. Index(e[1]) \in DOMAIN nodes /\ Index(e[2]) \in DOMAIN nodes
          BY <4>1, IndexIs
        <4>3. \/ UNCHANGED <<succ, pred>>
              \/ /\ succ' = [succ EXCEPT ![Index(e[1])] = Append(succ[Index(e[1])], Index(e[2]))]
                 /\ pred' = [pred EXCEPT ![Index(e[2])] = Append(pred[Index(e[2])], Index(e[1]))]
          BY <1>2, Zenon DEF ReadEdge
        <4>4. PICK x \in N, y \in N : x = Index(e[1]) /\ y = Index(e[2])
          BY <4>2
        <4>5. succ \in [N -> Seq(N)] /\ pred \in [N -> Seq(N)]
          BY DEF Shape
        <4>6. succ[x] \in Seq(N) /\ pred[y] \in Seq(N)
          BY <4>5
        <4> HIDE DEF e, N
        <4>7. Append(succ[x], y) \in Seq(N) /\ Append(pred[y], x) \in Seq(N)
          BY <4>4, <4>6
        <4> QED BY <4>3, <4>4, <4>5, <4>7
      <3>2. CASE EdgeError(e) # <<>>
        <4>1. UNCHANGED <<succ, pred>>
          BY <1>2, <3>2 DEF ReadEdge
        <4> QED BY <4>1 DEF Shape
      <3> QED BY <3>1, <3>2
    <2> QED BY <2>1, <2>2, <2>4, <2>5 DEF Shape
  <1>3. CASE EndEdges
    BY <1>0, <1>3 DEF EndEdges, Shape
  <1>4. CASE NextStart
    <2> DEFINE start == Least({i \in DOMAIN nodes : colour[i] = "white"})
    <2>1. start \in DOMAIN nodes
      BY <1>4, StartIs DEF NextStart
    <2>2. /\ stack' = <<[node |-> start, cursor |-> 1]>>
          /\ colour' = [colour EXCEPT ![start] = "grey"]
          /\ UNCHANGED <<nodes, edges, phase, at, errors, succ, pred, parent, remaining,
                         ready, topo, root, seen, hits, frontier, node, cursor>>
      BY <1>4, Zenon DEF NextStart
    <2> HIDE DEF start
    <2>3. stack' \in Seq([node : N, cursor : Nat \ {0}])
      BY <2>1, <2>2
    <2> QED BY <2>1, <2>2, <2>3 DEF Shape
  <1>5. CASE Descend
    <2> DEFINE r == [node |-> TopNext, cursor |-> 1]
               R == [node : N, cursor : Nat \ {0}]
    <2>1. TopNext \in N /\ Top.node \in N /\ stack # <<>>
      BY <1>5, TopIn DEF Descend, HasNext
    <2>2. Advance \in Seq(R)
      BY <2>1, AdvanceIs
    <2>3. r \in R /\ stack' = Append(Advance, r)
      BY <1>5, <2>1 DEF Descend
    <2>4. stack' \in Seq(R)
      <3> HIDE DEF r, R
      <3> QED BY <2>2, <2>3
    <2> HIDE DEF r, R
    <2>5. colour' \in [N -> {"white", "grey", "black"}] /\ parent' \in [N -> N \cup {0}]
      BY <1>5, <2>1 DEF Descend, Shape
    <2> QED BY <1>5, <2>4, <2>5 DEF Descend, Shape, R
  <1>6. CASE PassBlack
    <2>1. stack # <<>>
      BY <1>6 DEF PassBlack, HasNext
    <2>2. stack' \in Seq([node : N, cursor : Nat \ {0}])
      BY <1>6, <2>1, AdvanceIs DEF PassBlack
    <2> QED BY <1>6, <2>2 DEF PassBlack, Shape
  <1>7. CASE BackEdge \/ TraceBack
    BY <1>0, <1>7 DEF BackEdge, TraceBack, Shape
  <1>8. CASE CycleFound
    <2>1. errors' \in Seq(Codes)
      BY <1>8 DEF CycleFound, Codes
    <2> QED BY <1>0, <1>8, <2>1 DEF CycleFound, Shape
  <1>9. CASE Leave
    <2>1. Top.node \in N /\ Pop \in Seq([node : N, cursor : Nat \ {0}])
      BY <1>9, TopIn, PopIs DEF Leave
    <2> QED BY <1>9, <2>1 DEF Leave, Shape
  <1>10. CASE Acyclic
    <2>1. remaining' \in [N -> Int]
      BY <1>10 DEF Acyclic, Shape
    <2> QED BY <1>0, <1>10, <2>1 DEF Acyclic, Shape
  <1>11. CASE TakeReady
    <2> DEFINE first == Least(ready)
    <2>1. first \in N
      <3>1. ready \in SUBSET (1..Len(nodes)) /\ Len(nodes) \in Nat /\ ready # {}
        BY <1>11 DEF TakeReady, Shape
      <3>2. first \in ready
        BY <3>1, LeastIs
      <3> QED BY <3>1, <3>2 DEF Shape
    <2>2. Elements(succ[first]) \subseteq N
      BY <2>1, ElementsIn DEF Shape
    <2>3. /\ topo' = Append(topo, first)
          /\ remaining' = [i \in N |-> IF i \in Elements(succ[first])
                                       THEN remaining[i] - 1 ELSE remaining[i]]
          /\ ready' = (ready \ {first}) \cup {i \in Elements(succ[first]) : remaining[i] = 1}
          /\ UNCHANGED <<nodes, edges, phase, at, errors, succ, pred, colour, parent, stack,
                         root, seen, hits, frontier, node, cursor>>
      BY <1>11, Zenon DEF TakeReady
    <2> HIDE DEF first
    <2>4. remaining \in [N -> Int] /\ topo \in Seq(N) /\ ready \subseteq N
      BY DEF Shape
    <2>5. remaining' \in [N -> Int]
      <3> HIDE DEF N
      <3> QED BY <2>3, <2>4
    <2>6. topo' \in Seq(N)
      <3> HIDE DEF N
      <3> QED BY <2>1, <2>3, <2>4
    <2>7. ready' \subseteq N
      <3> HIDE DEF N
      <3> QED BY <2>2, <2>3, <2>4
    <2> QED BY <2>3, <2>5, <2>6, <2>7 DEF Shape
  <1>12. CASE Built \/ Answer \/ Over
    BY <1>0, <1>12 DEF Built, Answer, Over, vars, Shape
  <1>13. CASE \E i \in N : Query(i)
    BY <1>0, <1>13 DEF Query, Shape
  <1>14. CASE Dequeue
    <2>1. frontier \in Seq(N) /\ frontier # <<>>
      BY <1>14 DEF Dequeue, Shape
    <2>2. Head(frontier) \in N /\ Tail(frontier) \in Seq(N)
      <3> HIDE DEF N
      <3> QED BY <2>1, ElementsTail
    <2>3. /\ node' = Head(frontier) /\ cursor' = 1 /\ frontier' = Tail(frontier)
          /\ UNCHANGED <<nodes, edges, phase, at, errors, succ, pred, colour, parent, stack,
                         remaining, ready, topo, root, seen, hits>>
      BY <1>14 DEF Dequeue
    <2>4. node' \in N /\ cursor' \in Nat \ {0} /\ frontier' \in Seq(N)
      BY <2>2, <2>3
    <2> QED BY <2>3, <2>4 DEF Shape
  <1>15. CASE Visit
    <2>1. node \in N /\ succ[node] \in Seq(N)
      BY <1>15 DEF Visit, Expanded, Shape
    <2>2. cursor \in DOMAIN succ[node]
      BY <1>15, <2>1 DEF Visit, Expanded, Shape
    <2>3. succ[node][cursor] \in N
      BY <2>1, <2>2
    <2>4. PICK next \in N : next = succ[node][cursor]
      BY <2>3
    <2>5. /\ cursor' = cursor + 1
          /\ \/ UNCHANGED <<seen, hits, frontier>>
             \/ /\ seen' = seen \cup {next} /\ hits' = hits \cup {next}
                /\ frontier' = Append(frontier, next)
          /\ UNCHANGED <<nodes, edges, phase, at, errors, succ, pred, colour, parent, stack,
                         remaining, ready, topo, root, node>>
      BY <1>15, <2>4, Zenon DEF Visit
    <2>6. seen \subseteq N /\ hits \subseteq N /\ frontier \in Seq(N)
      BY DEF Shape
    <2>7. seen' \subseteq N /\ hits' \subseteq N /\ frontier' \in Seq(N)
      <3> HIDE DEF N
      <3> QED BY <2>4, <2>5, <2>6
    <2> QED BY <2>5, <2>7 DEF Shape
  <1>16. CASE UNCHANGED vars
    BY <1>16 DEF vars, Shape
  <1> QED BY <1>1, <1>2, <1>3, <1>4, <1>5, <1>6, <1>7, <1>8, <1>9, <1>10, <1>11, <1>12,
             <1>13, <1>14, <1>15, <1>16 DEF Next, Step

-----------------------------------------------------------------------------
(* Bounds *)

(* Steps that leave the searches and the lists alone.                      *)
LEMMA BoundsQuiet ==
    ASSUME BoundsInv, UNCHANGED <<nodes, stack, node, cursor, succ, colour>>,
           phase' \in {"nodes", "edges"} => phase \in {"nodes", "edges"}
    PROVE  BoundsInv'
  BY DEF BoundsInv, N

(* Init starts no search.                                                  *)
LEMMA BoundsInit == Init => BoundsInv
  BY DEF Init, BoundsInv

(* No step moves a cursor further than one past the end of its list.       *)
LEMMA BoundsStep == ASSUME Shape, BoundsInv, [Next]_vars PROVE BoundsInv'
  <1> USE DEF args, adjacency, dfs, kahn, bfs
  <1>1. CASE CheckNodes \/ EndEdges
    BY <1>1, BoundsQuiet DEF CheckNodes, EndEdges
  <1>2. CASE ReadEdge
    <2>1. UNCHANGED <<nodes, stack, node, colour, phase>> /\ phase = "edges"
      BY <1>2 DEF ReadEdge
    <2> QED BY <2>1 DEF BoundsInv, N
  <1>3. CASE NextStart
    <2> DEFINE start == Least({i \in N : colour[i] = "white"})
    <2>1. start \in N
      BY <1>3, StartIs DEF NextStart
    <2>2. /\ stack' = <<[node |-> start, cursor |-> 1]>>
          /\ UNCHANGED <<nodes, phase, succ, node, cursor>> /\ phase = "cycle"
      BY <1>3 DEF NextStart
    <2>3. Len(succ[start]) \in Nat
      BY <2>1 DEF Shape
    <2> HIDE DEF start
    <2>4. \A k \in DOMAIN stack' : stack'[k] = [node |-> start, cursor |-> 1]
      BY <2>2
    <2>5. \A k \in DOMAIN stack' : stack'[k].cursor <= Len(succ[stack'[k].node]) + 1
      BY <2>3, <2>4
    <2> QED BY <2>2, <2>5 DEF BoundsInv
  <1>4. ASSUME stack # <<>>, HasNext, stack' = Advance, phase = "cycle",
               UNCHANGED <<nodes, phase, succ, node, cursor>>
        PROVE  BoundsInv'
    <2>1. /\ DOMAIN Advance = DOMAIN stack
          /\ \A k \in DOMAIN stack : k # Len(stack) => Advance[k] = stack[k]
          /\ Advance[Len(stack)] = [node |-> Top.node, cursor |-> Top.cursor + 1]
      BY <1>4, AdvanceIs
    <2>2. Top.cursor + 1 <= Len(succ[Top.node]) + 1
      BY <1>4, TopIn DEF HasNext
    <2>3. \A k \in DOMAIN Advance : Advance[k].cursor <= Len(succ[Advance[k].node]) + 1
      BY <2>1, <2>2 DEF BoundsInv
    <2> QED BY <1>4, <2>3 DEF BoundsInv
  <1>5. CASE PassBlack
    BY <1>4, <1>5 DEF PassBlack, HasNext
  <1>6. CASE Descend
    <2> DEFINE r == [node |-> TopNext, cursor |-> 1]
    <2>1. /\ TopNext \in N /\ stack # <<>> /\ HasNext
          /\ Top.cursor \in Nat /\ Len(succ[Top.node]) \in Nat
      BY <1>6, TopIn DEF Descend, HasNext
    <2>2. /\ DOMAIN Advance = DOMAIN stack /\ Len(Advance) = Len(stack)
          /\ \A k \in DOMAIN stack : k # Len(stack) => Advance[k] = stack[k]
          /\ Advance[Len(stack)] = [node |-> Top.node, cursor |-> Top.cursor + 1]
      BY <2>1, AdvanceIs
    <2>0. Advance \in Seq([node : N, cursor : Nat \ {0}])
      BY <2>1, AdvanceIs
    <2>3. Top.cursor + 1 <= Len(succ[Top.node]) + 1
      BY <2>1 DEF HasNext
    <2>4. \A k \in DOMAIN Advance : Advance[k].cursor <= Len(succ[Advance[k].node]) + 1
      BY <2>2, <2>3 DEF BoundsInv
    <2>5. /\ stack' = Append(Advance, r) /\ phase = "cycle"
          /\ UNCHANGED <<nodes, phase, succ, node, cursor>>
      BY <1>6 DEF Descend
    <2>6. r.cursor <= Len(succ[r.node]) + 1 /\ r \in [node : N, cursor : Nat \ {0}]
      BY <2>1 DEF Shape
    <2> HIDE DEF r
    <2>7. /\ DOMAIN stack' = DOMAIN Advance \cup {Len(Advance) + 1}
          /\ \A k \in DOMAIN Advance : stack'[k] = Advance[k]
          /\ stack'[Len(Advance) + 1] = r
      <3> DEFINE R == [node : N, cursor : Nat \ {0}]
      <3>1. Advance \in Seq(R) /\ r \in R
        BY <2>0, <2>6
      <3> HIDE DEF R
      <3> QED BY <2>5, <3>1, PushIs
    <2>8. \A k \in DOMAIN stack' : stack'[k].cursor <= Len(succ[stack'[k].node]) + 1
      BY <2>4, <2>6, <2>7
    <2> QED BY <2>5, <2>8 DEF BoundsInv
  <1>7. CASE Leave
    <2>1. /\ stack' = Pop /\ phase = "cycle"
          /\ UNCHANGED <<nodes, phase, succ, node, cursor>>
      BY <1>7 DEF Leave
    <2>2. \A k \in DOMAIN Pop : Pop[k] = stack[k] /\ k \in DOMAIN stack
      BY <1>7, PopIs DEF Leave
    <2> QED BY <2>1, <2>2 DEF BoundsInv
  <1>8. CASE BackEdge \/ TraceBack \/ CycleFound \/ Acyclic \/ TakeReady \/ Built
    <2>1. UNCHANGED <<nodes, stack, node, cursor, succ, colour>>
      BY <1>8 DEF BackEdge, TraceBack, CycleFound, Acyclic, TakeReady, Built
    <2>2. phase' \notin {"nodes", "edges"}
      BY <1>8 DEF BackEdge, TraceBack, CycleFound, Acyclic, TakeReady, Built
    <2> QED BY <2>1, <2>2, BoundsQuiet
  <1>9. CASE Answer \/ Over \/ UNCHANGED vars
    BY <1>9, BoundsQuiet DEF Answer, Over, vars
  <1>10. CASE \E i \in N : Query(i)
    BY <1>10 DEF Query, BoundsInv
  <1>11. CASE Dequeue
    <2>0. frontier \in Seq(N) /\ frontier # <<>>
      BY <1>11 DEF Dequeue, Shape
    <2>1. /\ node' \in N /\ cursor' = 1
          /\ UNCHANGED <<nodes, phase, succ, stack>> /\ phase = "search"
      BY <1>11, <2>0, ElementsTail DEF Dequeue
    <2>2. Len(succ[node']) \in Nat
      BY <2>1 DEF Shape
    <2> QED BY <2>1, <2>2 DEF BoundsInv
  <1>12. CASE Visit
    <2>1. /\ node # 0 /\ cursor' = cursor + 1 /\ ~(cursor > Len(succ[node]))
          /\ UNCHANGED <<nodes, phase, succ, stack, node>> /\ phase = "search"
      BY <1>12 DEF Visit, Expanded
    <2>2. Len(succ[node]) \in Nat /\ cursor \in Nat
      BY <2>1 DEF Shape
    <2> QED BY <2>1, <2>2 DEF BoundsInv
  <1> QED BY <1>1, <1>2, <1>3, <1>5, <1>6, <1>7, <1>8, <1>9, <1>10, <1>11, <1>12
          DEF Next, Step

-----------------------------------------------------------------------------
(* The edges *)

(* An edge from i to j is among the first n.                               *)
Read(n, i, j) == i # j /\ \E k \in 1..n : edges[k] = <<nodes[i], nodes[j]>>

(* The adjacency that the first n edges give.                              *)
Adjacent(n) ==
    /\ \A i, j \in N : j \in Elements(succ[i]) <=> Read(n, i, j)
    /\ \A i, j \in N : i \in Elements(pred[j]) <=> j \in Elements(succ[i])
    /\ \A j \in N : Len(pred[j]) = Cardinality(Elements(pred[j]))

(* EdgesInv in these words.                                                *)
LEMMA EdgesInvIs ==
    EdgesInv <=>
      /\ phase = "nodes" =>
           /\ at = 0 /\ errors = <<>>
           /\ \A i \in N : succ[i] = <<>> /\ pred[i] = <<>>
      /\ phase \notin {"nodes", "rejected"} =>
           /\ Distinct /\ Adjacent(at)
           /\ errors = <<>> <=> \A k \in 1..at : Good(edges[k])
           /\ "cycle" \notin Elements(errors)
      /\ phase \notin {"nodes", "edges", "rejected"} => at = Len(edges) /\ errors = <<>>
  BY DEF EdgesInv, Adjacent, Read

(* Each further edge is one of the next number of edges.                   *)
LEMMA ReadNext ==
    ASSUME Shape, NEW i \in N, NEW j \in N, at < Len(edges)
    PROVE  Read(at + 1, i, j) <=>
             Read(at, i, j) \/ (i # j /\ edges[at + 1] = <<nodes[i], nodes[j]>>)
  <1>1. at \in Nat /\ \A k \in 1..(at + 1) : k \in 1..at \/ k = at + 1
    BY DEF Shape
  <1>2. at + 1 \in 1..(at + 1) /\ \A k \in 1..at : k \in 1..(at + 1)
    BY <1>1
  <1> QED BY <1>1, <1>2 DEF Read

(* Reading an edge keeps the adjacency that of the edges read.             *)
LEMMA ReadAdjacent ==
    ASSUME Shape, ReadEdge, Distinct, Adjacent(at)
    PROVE  Adjacent(at)'
  <1> DEFINE e == edges[at + 1]
  <1>1. /\ at < Len(edges) /\ at' = at + 1 /\ UNCHANGED <<nodes, edges>>
        /\ at \in Nat /\ Len(edges) \in Nat
    BY DEF ReadEdge, args, Shape
  <1>2. e \in Ids \X Ids
    BY <1>1 DEF Shape
  <1>3. e = <<e[1], e[2]>>
    BY <1>2
  <1>4. IF Good(e) /\ ~Seen(e)
        THEN /\ succ' = [succ EXCEPT ![Index(e[1])] = Append(succ[Index(e[1])], Index(e[2]))]
             /\ pred' = [pred EXCEPT ![Index(e[2])] = Append(pred[Index(e[2])], Index(e[1]))]
        ELSE UNCHANGED <<succ, pred>>
    <2>1. EdgeError(e) = <<>> <=> Good(e)
      BY EdgeErrorIs
    <2> QED BY <2>1, Zenon DEF ReadEdge, adjacency
  <1>5. /\ succ \in [N -> Seq(N)] /\ pred \in [N -> Seq(N)] /\ N' = N
    BY <1>1 DEF Shape, N
  <1>6. ASSUME NEW i \in N, NEW j \in N
        PROVE  Read(at, i, j)' <=>
                 Read(at, i, j) \/ (i # j /\ e = <<nodes[i], nodes[j]>>)
    BY <1>1, ReadNext DEF Read
  <1> HIDE DEF e
  <1>7. CASE ~Good(e)
    <2>1. UNCHANGED <<succ, pred>>
      BY <1>4, <1>7
    <2>2. ASSUME NEW i \in N, NEW j \in N, i # j, e = <<nodes[i], nodes[j]>> PROVE FALSE
      <3>1. e[1] = nodes[i] /\ e[2] = nodes[j]
        BY <2>2
      <3>2. e[1] # e[2]
        BY <2>2, <3>1 DEF Distinct
      <3> QED BY <1>7, <3>1, <3>2 DEF Good, Known
    <2>3. \A i, j \in N : Read(at, i, j)' <=> Read(at, i, j)
      BY <1>6, <2>2
    <2> QED BY <1>5, <2>1, <2>3 DEF Adjacent
  <1>8. CASE Good(e)
    <2> DEFINE x == Index(e[1])
               y == Index(e[2])
    <2>1. x \in N /\ y \in N /\ nodes[x] = e[1] /\ nodes[y] = e[2] /\ x # y
      BY <1>8, IndexIs DEF Good
    <2> HIDE DEF x, y
    <2>2. ASSUME NEW i \in N, NEW j \in N
          PROVE  Read(at, i, j)' <=> Read(at, i, j) \/ (i = x /\ j = y)
      <3>1. (i # j /\ e = <<nodes[i], nodes[j]>>) <=> (i = x /\ j = y)
        BY <1>3, <2>1 DEF Distinct
      <3> QED BY <1>6, <3>1
    <2>3. CASE Seen(e)
      <3>1. Read(at, x, y) /\ UNCHANGED <<succ, pred>>
        BY <1>4, <2>1, <2>3 DEF Seen, Adjacent, x, y
      <3>2. \A i, j \in N : Read(at, i, j)' <=> Read(at, i, j)
        BY <2>2, <3>1
      <3> QED BY <1>5, <3>1, <3>2 DEF Adjacent
    <2>4. CASE ~Seen(e)
      <3>1. /\ succ' = [succ EXCEPT ![x] = Append(succ[x], y)]
            /\ pred' = [pred EXCEPT ![y] = Append(pred[y], x)]
        BY <1>4, <1>8, <2>4 DEF x, y
      <3>2. y \notin Elements(succ[x])
        BY <2>4 DEF Seen, x, y
      <3>3. succ[x] \in Seq(N) /\ pred[y] \in Seq(N)
        BY <1>5, <2>1
      <3>4. /\ \A i \in N : Elements(succ'[i]) =
                 IF i = x THEN Elements(succ[x]) \cup {y} ELSE Elements(succ[i])
            /\ \A j \in N : Elements(pred'[j]) =
                 IF j = y THEN Elements(pred[y]) \cup {x} ELSE Elements(pred[j])
        <4>1. /\ Elements(Append(succ[x], y)) = Elements(succ[x]) \cup {y}
              /\ Elements(Append(pred[y], x)) = Elements(pred[y]) \cup {x}
          BY <2>1, <3>3, ElementsAppend
        <4>2. /\ \A i \in N : succ'[i] = IF i = x THEN Append(succ[x], y) ELSE succ[i]
              /\ \A j \in N : pred'[j] = IF j = y THEN Append(pred[y], x) ELSE pred[j]
          BY <1>5, <2>1, <3>1
        <4> QED BY <4>1, <4>2
      <3>5. \A i, j \in N : j \in Elements(succ'[i]) <=> j \in Elements(succ[i]) \/ (i = x /\ j = y)
        BY <2>1, <3>4
      <3>6. \A i, j \in N : i \in Elements(pred'[j]) <=> i \in Elements(pred[j]) \/ (i = x /\ j = y)
        BY <2>1, <3>4
      <3>7. ASSUME NEW j \in N PROVE Len(pred'[j]) = Cardinality(Elements(pred'[j]))
        <4>1. CASE j # y
          <5>1. pred'[j] = pred[j]
            BY <1>5, <3>1, <4>1
          <5> QED BY <5>1 DEF Adjacent
        <4>2. CASE j = y
          <5>1. IsFiniteSet(Elements(pred[y]))
            <6>1. Elements(pred[y]) \subseteq N
              BY <3>3, ElementsIn
            <6>2. IsFiniteSet(N)
              <7>1. N = 1..Len(nodes) /\ Len(nodes) \in Nat
                BY DEF N, Shape
              <7> QED BY <7>1, FS_Interval
            <6> QED BY <6>1, <6>2, FS_Subset
          <5>2. x \notin Elements(pred[y])
            BY <2>1, <3>2 DEF Adjacent
          <5>3. Len(pred'[y]) = Len(pred[y]) + 1
            BY <1>5, <2>1, <3>1, <3>3
          <5>4. Cardinality(Elements(pred[y]) \cup {x}) = Cardinality(Elements(pred[y])) + 1
            BY <5>1, <5>2, FS_AddElement
          <5> QED BY <2>1, <3>4, <4>2, <5>3, <5>4 DEF Adjacent
        <4> QED BY <4>1, <4>2
      <3> QED BY <1>5, <2>2, <3>5, <3>6, <3>7 DEF Adjacent
    <2> QED BY <2>3, <2>4
  <1> QED BY <1>7, <1>8

(* Steps that have nothing to do with the edges.                           *)
LEMMA EdgesQuiet ==
    ASSUME EdgesInv, UNCHANGED <<nodes, edges, at, errors, succ, pred>>,
           \/ phase' = phase
           \/ /\ phase \notin {"nodes", "edges", "rejected"}
              /\ phase' \notin {"nodes", "edges"}
    PROVE  EdgesInv'
  <1>1. /\ N' = N /\ Distinct' = Distinct
        /\ \A e : Good(e)' <=> Good(e)
        /\ \A n, i, j : Read(n, i, j)' <=> Read(n, i, j)
    BY DEF N, Distinct, Good, Known, Read
  <1>2. Adjacent(at)' <=> Adjacent(at)
    BY <1>1 DEF Adjacent
  <1> QED BY <1>1, <1>2 DEF EdgesInv, Adjacent, Read

(* Before any edge is read there is none.                                  *)
LEMMA EdgesInit == Init => EdgesInv
  BY DEF Init, EdgesInv, N

(* What build() knows of the edges at each of its steps.                   *)
LEMMA EdgesStep == ASSUME Shape, EdgesInv, [Next]_vars PROVE EdgesInv'
  <1> USE DEF args, adjacency, dfs, kahn, bfs
  <1>1. CASE CheckNodes
    <2>1. /\ "cycle" \notin Elements(errors')
          /\ phase' = "edges" => Distinct /\ errors' = <<>>
          /\ phase' \in {"edges", "rejected"}
      BY <1>1, NodeErrors
    <2>2. /\ UNCHANGED <<nodes, edges, at, succ, pred>> /\ at = 0
          /\ \A i \in N : succ[i] = <<>> /\ pred[i] = <<>>
      BY <1>1 DEF CheckNodes, EdgesInv
    <2>3. N' = N /\ Distinct' = Distinct
      BY <2>2 DEF N, Distinct
    <2>4. Elements(<<>>) = {} /\ Len(<<>>) = 0 /\ Cardinality({}) = 0 /\ 1..0 = {}
      BY FS_EmptySet DEF Elements
    <2>5. Adjacent(at)'
      <3>1. \A i, j \in N : ~Read(at, i, j)'
        BY <2>2, <2>4 DEF Read
      <3>2. \A i \in N : Elements(succ'[i]) = {} /\ Elements(pred'[i]) = {} /\ Len(pred'[i]) = 0
        BY <2>2, <2>4
      <3> QED BY <2>3, <2>4, <3>1, <3>2 DEF Adjacent
    <2>6. \A k \in 1..at' : Good(edges[k])'
      BY <2>2, <2>4
    <2> QED BY <2>1, <2>3, <2>5, <2>6 DEF EdgesInv, Adjacent, Read
  <1>2. CASE ReadEdge
    <2> DEFINE e == edges[at + 1]
    <2>1. /\ phase = "edges" /\ phase' = "edges" /\ at < Len(edges) /\ at' = at + 1
          /\ errors' = errors \o EdgeError(e) /\ UNCHANGED <<nodes, edges>>
      BY <1>2 DEF ReadEdge
    <2>2. /\ Distinct /\ Adjacent(at) /\ "cycle" \notin Elements(errors)
          /\ errors = <<>> <=> \A k \in 1..at : Good(edges[k])
      BY <2>1, EdgesInvIs
    <2>3. Adjacent(at)'
      BY <1>2, <2>2, ReadAdjacent
    <2>4. Distinct' /\ \A k : Good(edges[k])' <=> Good(edges[k])
      BY <2>1, <2>2 DEF Distinct, N, Good, Known
    <2>5. /\ EdgeError(e) \in Seq(Codes) /\ "cycle" \notin Elements(EdgeError(e))
          /\ EdgeError(e) = <<>> <=> Good(e)
      BY EdgeErrorIs
    <2>6. errors \in Seq(Codes) /\ at \in Nat
      BY DEF Shape
    <2>7. errors' = <<>> <=> errors = <<>> /\ EdgeError(e) = <<>>
      <3> HIDE DEF e
      <3> QED BY <2>1, <2>5, <2>6
    <2>8. "cycle" \notin Elements(errors')
      <3> DEFINE q == EdgeError(e)
      <3>1. q \in Seq(Codes)
        BY <2>5
      <3> HIDE DEF q
      <3>2. ASSUME NEW k \in DOMAIN (errors \o q)
            PROVE  \/ k \in DOMAIN errors /\ (errors \o q)[k] = errors[k]
                   \/ k - Len(errors) \in DOMAIN q /\ (errors \o q)[k] = q[k - Len(errors)]
        BY <2>6, <3>1
      <3>3. \A k \in DOMAIN (errors \o q) : (errors \o q)[k] # "cycle"
        BY <2>2, <2>5, <3>2 DEF Elements, q
      <3>4. errors' = errors \o q
        BY <2>1 DEF q
      <3> QED BY <3>3, <3>4 DEF Elements
    <2>9. errors' = <<>> <=> \A k \in 1..at' : Good(edges[k])'
      <3>1. \A k \in 1..(at + 1) : k \in 1..at \/ k = at + 1
        BY <2>6
      <3>2. at + 1 \in 1..(at + 1) /\ \A k \in 1..at : k \in 1..(at + 1)
        BY <2>6
      <3>3. (\A k \in 1..(at + 1) : Good(edges[k])) <=> (\A k \in 1..at : Good(edges[k])) /\ Good(e)
        BY <3>1, <3>2
      <3> QED BY <2>1, <2>2, <2>4, <2>5, <2>7, <3>3
    <2> HIDE DEF e
    <2> QED BY <2>1, <2>3, <2>4, <2>8, <2>9 DEF EdgesInv, Adjacent, Read
  <1>3. CASE EndEdges
    <2>1. /\ UNCHANGED <<nodes, edges, at, errors, succ, pred>>
          /\ phase = "edges" /\ at = Len(edges)
          /\ phase' = IF errors = <<>> THEN "cycle" ELSE "rejected"
      BY <1>3 DEF EndEdges
    <2>2. /\ N' = N /\ Distinct' = Distinct
          /\ \A e : Good(e)' <=> Good(e)
          /\ \A n, i, j : Read(n, i, j)' <=> Read(n, i, j)
      BY <2>1 DEF N, Distinct, Good, Known, Read
    <2>3. Adjacent(at)' <=> Adjacent(at)
      BY <2>1, <2>2 DEF Adjacent
    <2>4. errors' = <<>> \/ phase' = "rejected"
      BY <2>1
    <2> QED BY <2>1, <2>2, <2>3, <2>4 DEF EdgesInv, Adjacent, Read
  <1>4. CASE NextStart \/ Descend \/ PassBlack \/ BackEdge \/ TraceBack \/ Leave
    <2>1. UNCHANGED <<nodes, edges, at, errors, succ, pred>>
      BY <1>4 DEF NextStart, Descend, PassBlack, BackEdge, TraceBack, Leave
    <2>2. phase \in {"cycle", "trace"} /\ phase' \in {"cycle", "trace"}
      BY <1>4 DEF NextStart, Descend, PassBlack, BackEdge, TraceBack, Leave
    <2> QED BY <2>1, <2>2, EdgesQuiet
  <1>5. CASE CycleFound
    BY <1>5 DEF CycleFound, EdgesInv
  <1>6. CASE Acyclic \/ TakeReady \/ Built
    <2>1. UNCHANGED <<nodes, edges, at, errors, succ, pred>>
      BY <1>6 DEF Acyclic, TakeReady, Built
    <2>2. phase \in {"cycle", "kahn"} /\ phase' \in {"kahn", "built"}
      BY <1>6 DEF Acyclic, TakeReady, Built
    <2> QED BY <2>1, <2>2, EdgesQuiet
  <1>7. CASE Dequeue \/ Visit \/ Answer \/ \E i \in N : Query(i)
    <2>1. UNCHANGED <<nodes, edges, at, errors, succ, pred>>
      BY <1>7 DEF Dequeue, Visit, Answer, Query
    <2>2. phase \in {"built", "search"} /\ phase' \in {"search", "answer"}
      BY <1>7 DEF Dequeue, Visit, Answer, Query
    <2> QED BY <2>1, <2>2, EdgesQuiet
  <1>8. CASE Over \/ UNCHANGED vars
    BY <1>8, EdgesQuiet DEF Over, vars
  <1> QED BY <1>1, <1>2, <1>3, <1>4, <1>5, <1>6, <1>7, <1>8 DEF Next, Step

(* Once the edges are read, the adjacency is the relation that was stated. *)
LEMMA AllRead ==
    ASSUME Shape, EdgesInv, phase \notin {"nodes", "edges", "rejected"}
    PROVE  /\ Distinct /\ AllKnown
           /\ \A i, j \in N : j \in Elements(succ[i]) <=> <<i, j>> \in Edge
           /\ \A i, j \in N : i \in Elements(pred[j]) <=> <<i, j>> \in Edge
           /\ \A i \in N : <<i, i>> \notin Edge
           /\ \A j \in N : Len(pred[j]) = Cardinality(Elements(pred[j]))
  <1>1. /\ Distinct /\ Adjacent(at) /\ \A k \in 1..at : Good(edges[k])
        /\ at = Len(edges)
    BY EdgesInvIs
  <1>2. DOMAIN edges = 1..at
    BY <1>1 DEF Shape
  <1>3. AllKnown
    BY <1>1, <1>2 DEF AllKnown, Elements, Good
  <1>4. ASSUME NEW i \in N, NEW j \in N PROVE Read(at, i, j) <=> <<i, j>> \in Edge
    <2>1. <<i, j>> \in Edge <=> \E k \in 1..at : edges[k] = <<nodes[i], nodes[j]>>
      BY <1>2 DEF Edge, Elements
    <2>2. ASSUME NEW k \in 1..at, edges[k] = <<nodes[i], nodes[j]>> PROVE i # j
      <3>1. edges[k][1] = nodes[i] /\ edges[k][2] = nodes[j]
        BY <2>2
      <3> QED BY <1>1, <3>1 DEF Good
    <2> QED BY <2>1, <2>2 DEF Read
  <1>5. \A i \in N : ~Read(at, i, i)
    BY DEF Read
  <1> QED BY <1>1, <1>3, <1>4, <1>5 DEF Adjacent

-----------------------------------------------------------------------------
(* The search for a cycle *)

(* Steps that leave the search alone.                                      *)
LEMMA SearchQuiet ==
    ASSUME GreyInv, BlackInv,
           UNCHANGED <<nodes, edges, succ, colour, parent, stack>>
    PROVE  GreyInv' /\ BlackInv'
  <1>1. N' = N /\ Edge' = Edge /\ Black' = Black
    BY DEF N, Edge, Black
  <1>2. GreyInv'
    BY <1>1 DEF GreyInv
  <1>3. OrderedSet(Black)'
    BY <1>1 DEF BlackInv, OrderedSet
  <1> QED BY <1>1, <1>2, <1>3 DEF BlackInv

(* Reading the stack with its cursor advanced and, perhaps, a new top.     *)
LEMMA DescendStack ==
    ASSUME Shape, Descend
    PROVE  /\ Len(stack) \in Nat \ {0} /\ DOMAIN stack = 1..Len(stack)
           /\ DOMAIN stack' = 1..(Len(stack) + 1) /\ Len(stack') = Len(stack) + 1
           /\ \A k \in DOMAIN stack : stack'[k].node = stack[k].node
           /\ \A k \in DOMAIN stack : k # Len(stack) => stack'[k] = stack[k]
           /\ stack'[Len(stack)] = [node |-> Top.node, cursor |-> Top.cursor + 1]
           /\ stack'[Len(stack) + 1] = [node |-> TopNext, cursor |-> 1]
           /\ TopNext \in N /\ Top.node \in N /\ Top.cursor \in Nat \ {0}
           /\ Top = stack[Len(stack)]
  <1> DEFINE R == [node : N, cursor : Nat \ {0}]
             r == [node |-> TopNext, cursor |-> 1]
  <1>1. stack # <<>> /\ HasNext /\ stack' = Append(Advance, r)
    BY DEF Descend, HasNext
  <1>2. /\ Len(stack) \in Nat \ {0} /\ DOMAIN stack = 1..Len(stack) /\ TopNext \in N
        /\ Top.node \in N /\ Top.cursor \in Nat \ {0}
    BY <1>1, TopIn
  <1>3. /\ Len(Advance) = Len(stack) /\ DOMAIN Advance = DOMAIN stack
        /\ \A k \in DOMAIN stack : Advance[k].node = stack[k].node
        /\ \A k \in DOMAIN stack : k # Len(stack) => Advance[k] = stack[k]
        /\ Advance[Len(stack)] = [node |-> Top.node, cursor |-> Top.cursor + 1]
    BY <1>1, AdvanceIs
  <1>4. Advance \in Seq(R) /\ r \in R
    BY <1>1, <1>2, AdvanceIs
  <1>5. /\ Len(stack') = Len(Advance) + 1
        /\ DOMAIN stack' = DOMAIN Advance \cup {Len(Advance) + 1}
        /\ \A k \in DOMAIN Advance : stack'[k] = Advance[k]
        /\ stack'[Len(Advance) + 1] = r
    <2> HIDE DEF r, R
    <2> QED BY <1>1, <1>4, PushIs
  <1>6. DOMAIN stack' = 1..(Len(stack) + 1)
    BY <1>2, <1>3, <1>5
  <1>7. Len(stack) \in DOMAIN stack
    BY <1>2
  <1> HIDE DEF r
  <1> QED BY <1>2, <1>3, <1>5, <1>6, <1>7 DEF r, Top

(* A white successor goes on top of the stack.                             *)
LEMMA DescendKeeps ==
    ASSUME Shape, GreyInv, BlackInv, Descend
    PROVE  GreyInv' /\ BlackInv'
  <1> DEFINE t == Len(stack)
             x == TopNext
  <1>1. /\ t \in Nat \ {0} /\ DOMAIN stack = 1..t
        /\ DOMAIN stack' = 1..(t + 1) /\ Len(stack') = t + 1
        /\ \A k \in DOMAIN stack : stack'[k].node = stack[k].node
        /\ \A k \in DOMAIN stack : k # t => stack'[k] = stack[k]
        /\ stack'[t] = [node |-> Top.node, cursor |-> Top.cursor + 1]
        /\ stack'[t + 1] = [node |-> x, cursor |-> 1]
        /\ x \in N /\ Top.node \in N /\ Top.cursor \in Nat \ {0}
        /\ Top = stack[t]
    BY DescendStack
  <1>2. /\ UNCHANGED <<nodes, edges, succ>> /\ colour[x] = "white"
        /\ colour' = [colour EXCEPT ![x] = "grey"]
        /\ parent' = [parent EXCEPT ![x] = Top.node]
        /\ x = succ[Top.node][Top.cursor]
    BY DEF Descend, args, adjacency, TopNext
  <1>3. /\ colour \in [N -> {"white", "grey", "black"}]
        /\ parent \in [N -> N \cup {0}]
    BY DEF Shape
  <1> HIDE DEF t, x
  <1>4. N' = N /\ Edge' = Edge
    BY <1>2 DEF N, Edge
  <1>5. Black' = Black
    BY <1>1, <1>2, <1>3, <1>4 DEF Black
  <1>6. \A i \in N : colour'[i] = "grey" <=> colour[i] = "grey" \/ i = x
    BY <1>1, <1>2, <1>3
  <1>7. {stack'[k].node : k \in DOMAIN stack'} = {stack[k].node : k \in DOMAIN stack} \cup {x}
    <2>1. \A k \in 1..(t + 1) : k \in 1..t \/ k = t + 1
      BY <1>1
    <2>2. t + 1 \in 1..(t + 1) /\ \A k \in 1..t : k \in 1..(t + 1)
      BY <1>1
    <2>3. stack'[t + 1].node = x
      BY <1>1
    <2>4. ASSUME NEW k \in DOMAIN stack'
          PROVE  stack'[k].node \in {stack[j].node : j \in DOMAIN stack} \cup {x}
      BY <1>1, <2>1, <2>3
    <2>5. ASSUME NEW k \in DOMAIN stack
          PROVE  stack[k].node \in {stack'[j].node : j \in DOMAIN stack'}
      BY <1>1, <2>2
    <2>6. x \in {stack'[j].node : j \in DOMAIN stack'}
      BY <1>1, <2>2, <2>3
    <2> QED BY <2>4, <2>5, <2>6
  <1>8. \A k \in DOMAIN stack : stack[k].node \in N /\ colour[stack[k].node] = "grey"
    BY DEF GreyInv
  <1>9. \A k \in DOMAIN stack : stack[k].node # x
    BY <1>2, <1>8
  <1>10. {i \in N : colour[i] = "grey"}' = {stack[k].node : k \in DOMAIN stack}'
    <2>1. {i \in N : colour[i] = "grey"} = {stack[k].node : k \in DOMAIN stack}
      BY DEF GreyInv
    <2>2. {i \in N : colour'[i] = "grey"} = {i \in N : colour[i] = "grey"} \cup {x}
      BY <1>1, <1>6
    <2>3. {i \in N : colour'[i] = "grey"} = {stack'[k].node : k \in DOMAIN stack'}
      BY <1>7, <2>1, <2>2, Zenon
    <2> QED BY <1>4, <2>3, Zenon
  <1>11. ASSUME NEW k \in DOMAIN stack', NEW l \in DOMAIN stack',
                stack'[k].node = stack'[l].node
         PROVE  k = l
    <2>1. stack'[t + 1].node = x
      BY <1>1
    <2>2. (k \in DOMAIN stack \/ k = t + 1) /\ (l \in DOMAIN stack \/ l = t + 1)
      BY <1>1
    <2>3. k \in DOMAIN stack => stack'[k].node = stack[k].node
      BY <1>1
    <2>4. l \in DOMAIN stack => stack'[l].node = stack[l].node
      BY <1>1
    <2> QED BY <1>9, <1>11, <2>1, <2>2, <2>3, <2>4 DEF GreyInv
  <1>12. ASSUME NEW k \in 2 .. Len(stack')
         PROVE  /\ parent'[stack'[k].node] = stack'[k - 1].node
                /\ stack'[k - 1].cursor > 1
                /\ succ'[stack'[k - 1].node][stack'[k - 1].cursor - 1] = stack'[k].node
    <2>1. CASE k = t + 1
      <3>1. k - 1 = t
        BY <1>1, <2>1
      <3>2. stack'[k].node = x /\ stack'[k - 1].node = Top.node
            /\ stack'[k - 1].cursor = Top.cursor + 1
        BY <1>1, <2>1, <3>1
      <3>3. parent'[x] = Top.node
        BY <1>1, <1>2, <1>3
      <3>4. Top.cursor + 1 > 1 /\ (Top.cursor + 1) - 1 = Top.cursor
        BY <1>1
      <3> QED BY <1>2, <3>2, <3>3, <3>4
    <2>2. CASE k # t + 1
      <3>1. k \in 2..t /\ k \in DOMAIN stack /\ k - 1 \in DOMAIN stack /\ k - 1 # t
        BY <1>1, <1>12, <2>2
      <3>2. stack'[k].node = stack[k].node /\ stack'[k - 1] = stack[k - 1]
        BY <1>1, <3>1
      <3>3. parent'[stack[k].node] = parent[stack[k].node]
        BY <1>2, <1>3, <1>8, <1>9, <3>1
      <3>4. k \in 2..Len(stack)
        BY <3>1 DEF t
      <3>5. /\ parent[stack[k].node] = stack[k - 1].node
            /\ stack[k - 1].cursor > 1
            /\ succ[stack[k - 1].node][stack[k - 1].cursor - 1] = stack[k].node
        BY <3>4 DEF GreyInv
      <3> QED BY <1>2, <3>2, <3>3, <3>5
    <2> QED BY <2>1, <2>2
  <1>13. GreyInv'
    BY <1>10, <1>11, <1>12 DEF GreyInv
  <1>14. ASSUME NEW k \in DOMAIN stack', NEW c \in 1 .. stack'[k].cursor - 1
         PROVE  \/ succ'[stack'[k].node][c] \in Black'
                \/ k < Len(stack') /\ succ'[stack'[k].node][c] = stack'[k + 1].node
    <2>1. CASE k = t + 1
      <3>1. stack'[k].cursor = 1
        BY <1>1, <2>1
      <3> QED BY <1>14, <3>1
    <2>2. CASE k = t
      <3>1. /\ stack'[k].node = Top.node /\ stack'[k].cursor = Top.cursor + 1
            /\ stack'[k + 1].node = x /\ k < Len(stack') /\ k \in DOMAIN stack
        BY <1>1, <2>2
      <3>2. c \in 1..(Top.cursor - 1) \/ c = Top.cursor
        BY <1>1, <1>14, <3>1
      <3>3. CASE c = Top.cursor
        BY <1>2, <3>1, <3>3
      <3>4. CASE c \in 1..(Top.cursor - 1)
        <4>1. ~(k < Len(stack)) /\ stack[k] = Top
          BY <1>1, <2>2 DEF t
        <4>2. succ[Top.node][c] \in Black
          BY <3>1, <3>4, <4>1 DEF BlackInv
        <4> QED BY <1>2, <1>5, <3>1, <4>2
      <3> QED BY <3>2, <3>3, <3>4
    <2>3. CASE k # t + 1 /\ k # t
      <3>1. k \in DOMAIN stack /\ k + 1 \in DOMAIN stack /\ k < Len(stack')
        BY <1>1, <1>14, <2>3
      <3>2. stack'[k] = stack[k] /\ stack'[k + 1].node = stack[k + 1].node
        BY <1>1, <2>3, <3>1
      <3>3. \/ succ[stack[k].node][c] \in Black
            \/ succ[stack[k].node][c] = stack[k + 1].node
        BY <1>14, <3>1, <3>2 DEF BlackInv
      <3> QED BY <1>2, <1>5, <3>1, <3>2, <3>3
    <2> QED BY <2>1, <2>2, <2>3
  <1>15. \A i \in Black' : Elements(succ'[i]) \subseteq Black'
    BY <1>2, <1>5 DEF BlackInv
  <1>16. OrderedSet(Black)'
    BY <1>4, <1>5 DEF BlackInv, OrderedSet
  <1>17. BlackInv'
    BY <1>14, <1>15, <1>16 DEF BlackInv
  <1> QED BY <1>13, <1>17

(* A finished successor is passed over.                                    *)
LEMMA PassKeeps ==
    ASSUME Shape, GreyInv, BlackInv, PassBlack
    PROVE  GreyInv' /\ BlackInv'
  <1> DEFINE t == Len(stack)
  <1>1. /\ stack # <<>> /\ HasNext /\ stack' = Advance /\ colour[TopNext] = "black"
        /\ UNCHANGED <<nodes, edges, succ, colour, parent>>
    BY DEF PassBlack, HasNext, args, adjacency
  <1>2. /\ t \in Nat \ {0} /\ DOMAIN stack = 1..t /\ t \in DOMAIN stack
        /\ TopNext \in N /\ Top.cursor \in Nat \ {0}
    BY <1>1, TopIn
  <1>3. /\ Len(stack') = t /\ DOMAIN stack' = DOMAIN stack
        /\ \A k \in DOMAIN stack : stack'[k].node = stack[k].node
        /\ \A k \in DOMAIN stack : k # t => stack'[k] = stack[k]
        /\ stack'[t] = [node |-> Top.node, cursor |-> Top.cursor + 1]
    BY <1>1, AdvanceIs
  <1>4. /\ Top = stack[t] /\ TopNext = succ[Top.node][Top.cursor]
    BY DEF Top, TopNext
  <1>5. N' = N /\ Edge' = Edge /\ Black' = Black /\ TopNext \in Black
    BY <1>1, <1>2 DEF N, Edge, Black
  <1> HIDE DEF t
  <1>6. {stack'[k].node : k \in DOMAIN stack'} = {stack[k].node : k \in DOMAIN stack}
    BY <1>3
  <1>7. \A k, l \in DOMAIN stack' : stack'[k].node = stack'[l].node => k = l
    BY <1>3 DEF GreyInv
  <1>8. ASSUME NEW k \in 2 .. Len(stack')
        PROVE  /\ parent'[stack'[k].node] = stack'[k - 1].node
               /\ stack'[k - 1].cursor > 1
               /\ succ'[stack'[k - 1].node][stack'[k - 1].cursor - 1] = stack'[k].node
    <2>1. k \in DOMAIN stack /\ k - 1 \in DOMAIN stack /\ k - 1 # t
      BY <1>2, <1>3, <1>8
    <2>2. k \in 2 .. Len(stack)
      BY <1>3, <1>8 DEF t
    <2>3. stack'[k].node = stack[k].node /\ stack'[k - 1] = stack[k - 1]
      BY <1>3, <2>1
    <2> QED BY <1>1, <2>2, <2>3 DEF GreyInv
  <1>9. GreyInv'
    BY <1>1, <1>5, <1>6, <1>7, <1>8 DEF GreyInv
  <1>10. ASSUME NEW k \in DOMAIN stack', NEW c \in 1 .. stack'[k].cursor - 1
         PROVE  \/ succ'[stack'[k].node][c] \in Black'
                \/ k < Len(stack') /\ succ'[stack'[k].node][c] = stack'[k + 1].node
    <2>1. CASE k = t
      <3>1. stack'[k].node = Top.node /\ stack'[k].cursor = Top.cursor + 1
        BY <1>3, <2>1
      <3>2. c \in 1..(Top.cursor - 1) \/ c = Top.cursor
        BY <1>2, <1>10, <3>1
      <3>3. CASE c = Top.cursor
        BY <1>1, <1>4, <1>5, <3>1, <3>3
      <3>4. CASE c \in 1..(Top.cursor - 1)
        <4>1. ~(k < Len(stack)) /\ stack[k] = Top /\ k \in DOMAIN stack
          BY <1>2, <1>4, <2>1 DEF t
        <4>2. succ[Top.node][c] \in Black
          BY <3>4, <4>1 DEF BlackInv
        <4> QED BY <1>1, <1>5, <3>1, <4>2
      <3> QED BY <3>2, <3>3, <3>4
    <2>2. CASE k # t
      <3>1. k \in DOMAIN stack /\ k + 1 \in DOMAIN stack /\ k < Len(stack')
        BY <1>2, <1>3, <1>10, <2>2
      <3>2. stack'[k] = stack[k] /\ stack'[k + 1].node = stack[k + 1].node
        BY <1>3, <2>2, <3>1
      <3>3. \/ succ[stack[k].node][c] \in Black
            \/ succ[stack[k].node][c] = stack[k + 1].node
        BY <1>10, <3>1, <3>2 DEF BlackInv
      <3> QED BY <1>1, <1>5, <3>1, <3>2, <3>3
    <2> QED BY <2>1, <2>2
  <1>11. (\A i \in Black : Elements(succ[i]) \subseteq Black)' /\ OrderedSet(Black)'
    BY <1>1, <1>5 DEF BlackInv, OrderedSet
  <1>12. BlackInv'
    BY <1>10, <1>11 DEF BlackInv
  <1> QED BY <1>9, <1>12

(* A node that leads to finished nodes only can be added to them: no       *)
(* finished node leads to it.                                              *)
LEMMA OrderedAdd ==
    ASSUME NEW n \in N, n \notin Black, OrderedSet(Black),
           \A i \in Black : <<i, n>> \notin Edge, <<n, n>> \notin Edge
    PROVE  OrderedSet(Black \cup {n})
  <1> SUFFICES ASSUME NEW T \in SUBSET (Black \cup {n}), T # {}
               PROVE  \E j \in T : \A i \in T : <<i, j>> \notin Edge
    BY DEF OrderedSet
  <1>1. CASE n \in T
    BY <1>1
  <1>2. CASE n \notin T
    <2>1. T \in SUBSET Black
      BY <1>2
    <2> QED BY <2>1 DEF OrderedSet
  <1> QED BY <1>1, <1>2

(* A node whose list is exhausted is finished.                             *)
LEMMA LeaveKeeps ==
    ASSUME Shape, EdgesInv, GreyInv, BlackInv, Leave
    PROVE  GreyInv' /\ BlackInv'
  <1> DEFINE t == Len(stack)
             n == Top.node
  <1>1. /\ stack # <<>> /\ ~HasNext /\ stack' = Pop /\ phase = "cycle"
        /\ colour' = [colour EXCEPT ![n] = "black"]
        /\ UNCHANGED <<nodes, edges, succ, parent>>
    BY DEF Leave, args, adjacency
  <1>2. /\ t \in Nat \ {0} /\ DOMAIN stack = 1..t /\ t \in DOMAIN stack
        /\ n \in N /\ Top.cursor \in Nat \ {0} /\ succ[n] \in Seq(N)
    BY <1>1, TopIn
  <1>3. /\ Len(stack') = t - 1 /\ DOMAIN stack' = 1..(t - 1)
        /\ \A k \in DOMAIN stack' : stack'[k] = stack[k] /\ k \in DOMAIN stack
    BY <1>1, PopIs
  <1>4. stack[t] = Top /\ stack[t].node = n /\ Top.cursor > Len(succ[n])
    BY <1>1, <1>2 DEF Top, HasNext
  <1>5. N' = N /\ Edge' = Edge
    BY <1>1 DEF N, Edge
  <1>6. colour \in [N -> {"white", "grey", "black"}]
    BY DEF Shape
  <1>7. Black' = Black \cup {n} /\ \A i \in N : colour'[i] = "grey" <=> colour[i] = "grey" /\ i # n
    <2>1. \A i \in N : colour'[i] = IF i = n THEN "black" ELSE colour[i]
      BY <1>1, <1>6
    <2> HIDE DEF n
    <2> QED BY <1>2, <1>5, <2>1 DEF Black
  <1>8. colour[n] = "grey"
    BY <1>2, <1>4 DEF GreyInv
  <1>9. n \notin Black
    BY <1>8 DEF Black
  <1> HIDE DEF t, n
  <1>10. \A k \in DOMAIN stack : k # t => k \in DOMAIN stack' /\ stack[k].node # n
    <2>1. \A k \in DOMAIN stack : k # t => k \in DOMAIN stack'
      BY <1>2, <1>3
    <2>2. \A k \in DOMAIN stack : stack[k].node = n => k = t
      BY <1>2, <1>4 DEF GreyInv
    <2> QED BY <2>1, <2>2
  <1>11. t \notin DOMAIN stack'
    BY <1>2, <1>3
  <1>12. {stack'[k].node : k \in DOMAIN stack'} = {stack[k].node : k \in DOMAIN stack} \ {n}
    <2>1. \A k \in DOMAIN stack' : stack'[k].node \in {stack[j].node : j \in DOMAIN stack} \ {n}
      BY <1>3, <1>10, <1>11
    <2>2. ASSUME NEW k \in DOMAIN stack, stack[k].node # n
          PROVE  stack[k].node \in {stack'[j].node : j \in DOMAIN stack'}
      BY <1>3, <1>4, <1>10, <2>2
    <2> QED BY <2>1, <2>2
  <1>13. GreyInv'
    <2>1. {i \in N : colour[i] = "grey"}' = {stack[k].node : k \in DOMAIN stack}'
      BY <1>5, <1>7, <1>12 DEF GreyInv
    <2>2. \A k, l \in DOMAIN stack' : stack'[k].node = stack'[l].node => k = l
      BY <1>3 DEF GreyInv
    <2>3. ASSUME NEW k \in 2 .. Len(stack')
          PROVE  /\ parent'[stack'[k].node] = stack'[k - 1].node
                 /\ stack'[k - 1].cursor > 1
                 /\ succ'[stack'[k - 1].node][stack'[k - 1].cursor - 1] = stack'[k].node
      <3>1. k \in DOMAIN stack' /\ k - 1 \in DOMAIN stack' /\ k \in 2 .. Len(stack)
        BY <1>2, <1>3, <2>3 DEF t
      <3> QED BY <1>1, <1>3, <3>1 DEF GreyInv
    <2> QED BY <2>1, <2>2, <2>3 DEF GreyInv
  <1>14. ASSUME NEW k \in DOMAIN stack', NEW c \in 1 .. stack'[k].cursor - 1
         PROVE  \/ succ'[stack'[k].node][c] \in Black'
                \/ k < Len(stack') /\ succ'[stack'[k].node][c] = stack'[k + 1].node
    <2>1. stack'[k] = stack[k] /\ k \in DOMAIN stack
      BY <1>3
    <2>2. \/ succ[stack[k].node][c] \in Black
          \/ k < Len(stack) /\ succ[stack[k].node][c] = stack[k + 1].node
      BY <1>14, <2>1 DEF BlackInv
    <2>3. CASE k + 1 = t
      BY <1>1, <1>4, <1>7, <2>1, <2>2, <2>3
    <2>4. CASE k + 1 # t
      <3>1. k + 1 \in DOMAIN stack' /\ k < Len(stack')
        BY <1>2, <1>3, <2>4
      <3> QED BY <1>1, <1>3, <1>7, <2>1, <2>2, <3>1
    <2> QED BY <2>3, <2>4
  <1>15. Elements(succ[n]) \subseteq Black
    <2>1. ASSUME NEW c \in 1 .. Len(succ[n]) PROVE succ[n][c] \in Black
      <3>1. c \in 1 .. stack[t].cursor - 1 /\ ~(t < Len(stack))
        BY <1>2, <1>4 DEF t
      <3> QED BY <1>2, <1>4, <3>1 DEF BlackInv
    <2>2. DOMAIN succ[n] = 1 .. Len(succ[n])
      BY <1>2
    <2> QED BY <2>1, <2>2 DEF Elements
  <1>16. \A i \in Black' : Elements(succ'[i]) \subseteq Black'
    BY <1>1, <1>7, <1>15 DEF BlackInv
  <1>17. OrderedSet(Black)'
    <2>1. /\ \A i, j \in N : j \in Elements(succ[i]) <=> <<i, j>> \in Edge
          /\ <<n, n>> \notin Edge
      BY <1>1, <1>2, AllRead
    <2>2. \A i \in Black : i \in N /\ n \notin Elements(succ[i])
      BY <1>9 DEF BlackInv, Black
    <2>3. OrderedSet(Black \cup {n})
      BY <1>2, <1>9, <2>1, <2>2, OrderedAdd DEF BlackInv
    <2> QED BY <1>5, <1>7, <2>3 DEF OrderedSet
  <1>18. BlackInv'
    BY <1>14, <1>16, <1>17 DEF BlackInv
  <1> QED BY <1>13, <1>18

(* A new root of the search.                                               *)
LEMMA StartKeeps ==
    ASSUME Shape, GreyInv, BlackInv, NextStart
    PROVE  GreyInv' /\ BlackInv'
  <1> DEFINE start == Least({i \in N : colour[i] = "white"})
  <1>1. start \in N /\ colour[start] = "white"
    BY StartIs DEF NextStart
  <1>2. /\ stack = <<>> /\ stack' = <<[node |-> start, cursor |-> 1]>>
        /\ colour' = [colour EXCEPT ![start] = "grey"]
        /\ UNCHANGED <<nodes, edges, succ, parent>>
    BY Zenon DEF NextStart, args, adjacency
  <1> HIDE DEF start
  <1>3. /\ DOMAIN stack' = {1} /\ Len(stack') = 1
        /\ stack'[1].node = start /\ stack'[1].cursor = 1
    BY <1>2
  <1>4. N' = N /\ Edge' = Edge
    BY <1>2 DEF N, Edge
  <1>5. \A i \in N : colour'[i] = IF i = start THEN "grey" ELSE colour[i]
    BY <1>2 DEF Shape
  <1>6. \A i \in N : colour[i] # "grey"
    BY <1>2 DEF GreyInv
  <1>7. Black' = Black
    BY <1>1, <1>4, <1>5 DEF Black
  <1>8. {i \in N : colour[i] = "grey"}' = {start}
    BY <1>1, <1>4, <1>5, <1>6
  <1>9. {stack[k].node : k \in DOMAIN stack}' = {start}
    BY <1>3
  <1>10. GreyInv'
    BY <1>3, <1>8, <1>9 DEF GreyInv
  <1>11. (\A i \in Black : Elements(succ[i]) \subseteq Black)' /\ OrderedSet(Black)'
    BY <1>2, <1>4, <1>7 DEF BlackInv, OrderedSet
  <1>12. BlackInv'
    BY <1>3, <1>11 DEF BlackInv
  <1> QED BY <1>10, <1>12

(* The search is not under way at first.                                   *)
LEMMA SearchInit == Init => SearchInv
  BY DEF Init, SearchInv

(* The depth-first search keeps its shape.                                 *)
LEMMA SearchStep ==
    ASSUME Shape, BoundsInv, EdgesInv, SearchInv, [Next]_vars
    PROVE  SearchInv'
  <1> USE DEF args, adjacency, dfs, kahn, bfs
  <1>1. CASE CheckNodes \/ ReadEdge \/ CycleFound \/ Acyclic \/ TakeReady \/ Built
    <2>1. phase' \notin {"cycle", "trace"}
      BY <1>1, NodeErrors DEF ReadEdge, CycleFound, Acyclic, TakeReady, Built
    <2> QED BY <2>1 DEF SearchInv
  <1>2. CASE Dequeue \/ Visit \/ Answer \/ \E i \in N : Query(i)
    <2>1. phase' \notin {"cycle", "trace"}
      BY <1>2 DEF Dequeue, Visit, Answer, Query
    <2> QED BY <2>1 DEF SearchInv
  <1>3. CASE EndEdges
    <2>1. /\ stack = <<>> /\ \A i \in N : colour[i] = "white"
          /\ UNCHANGED <<nodes, stack, colour>>
      BY <1>3 DEF EndEdges, BoundsInv
    <2>2. N' = N /\ Black' = {} /\ DOMAIN stack' = {} /\ Len(stack') = 0
      BY <2>1 DEF N, Black
    <2>3. GreyInv'
      BY <2>1, <2>2 DEF GreyInv
    <2>4. BlackInv'
      BY <2>2 DEF BlackInv, OrderedSet
    <2> QED BY <2>3, <2>4 DEF SearchInv
  <1>4. CASE NextStart
    BY <1>4, StartKeeps DEF SearchInv, NextStart
  <1>5. CASE Descend
    BY <1>5, DescendKeeps DEF SearchInv, Descend
  <1>6. CASE PassBlack
    BY <1>6, PassKeeps DEF SearchInv, PassBlack
  <1>7. CASE Leave
    BY <1>7, LeaveKeeps DEF SearchInv, Leave
  <1>8. CASE BackEdge \/ TraceBack
    <2>1. /\ phase \in {"cycle", "trace"}
          /\ UNCHANGED <<nodes, edges, succ, colour, parent, stack>>
      BY <1>8 DEF BackEdge, TraceBack
    <2> QED BY <2>1, SearchQuiet DEF SearchInv
  <1>9. CASE Over \/ UNCHANGED vars
    <2>1. UNCHANGED <<nodes, edges, succ, colour, parent, stack, phase>>
      BY <1>9 DEF Over, vars
    <2> QED BY <2>1, SearchQuiet DEF SearchInv
  <1> QED BY <1>1, <1>2, <1>3, <1>4, <1>5, <1>6, <1>7, <1>8, <1>9 DEF Next, Step

-----------------------------------------------------------------------------
(* The cycle that is reported *)

(* Something that is put in front of a sequence.                           *)
LEMMA InFront ==
    ASSUME NEW S, NEW s \in Seq(S), NEW x \in S
    PROVE  /\ <<x>> \o s \in Seq(S) /\ Len(<<x>> \o s) = Len(s) + 1
           /\ (<<x>> \o s)[1] = x
           /\ \A k \in 2 .. Len(s) + 1 : (<<x>> \o s)[k] = s[k - 1]
  OBVIOUS

(* Something that is put behind it.                                        *)
LEMMA Behind ==
    ASSUME NEW S, NEW s \in Seq(S), NEW x \in S
    PROVE  /\ s \o <<x>> \in Seq(S) /\ Len(s \o <<x>>) = Len(s) + 1
           /\ (s \o <<x>>)[Len(s) + 1] = x
           /\ \A k \in 1 .. Len(s) : (s \o <<x>>)[k] = s[k]
  OBVIOUS

(* A walk that begins has its place on the stack.                          *)
LEMMA WalkBegins ==
    ASSUME Shape, GreyInv, TraceInv, BackEdge
    PROVE  TraceInv'
  <1>1. /\ phase = "cycle" /\ phase' = "trace" /\ HasNext /\ colour[TopNext] = "grey"
        /\ from' = Top.node /\ stack # <<>>
        /\ UNCHANGED <<nodes, succ, stack, cycle>>
    BY DEF BackEdge, HasNext, args, adjacency
  <1>2. /\ Len(stack) \in DOMAIN stack /\ DOMAIN stack = 1..Len(stack)
        /\ Len(stack) \in Nat \ {0} /\ Top.node \in N /\ TopNext \in N
    BY <1>1, TopIn
  <1>3. /\ N' = N /\ HasNext' /\ TopNext' = TopNext
    BY <1>1 DEF N, HasNext, TopNext, Top
  <1>4. PICK b \in DOMAIN stack : stack[b].node = TopNext
    BY <1>1, <1>2 DEF GreyInv
  <1>5. cycle = <<>>
    BY <1>1 DEF TraceInv
  <1>6. b \in 1 .. Len(stack)
    BY <1>2
  <1>7. Walk(b, Len(stack))'
    <2>1. stack'[b].node = TopNext' /\ stack'[Len(stack')].node = from'
      BY <1>1, <1>3, <1>4 DEF Top
    <2>2. Len(cycle') = 0 /\ Len(stack') - Len(stack') = 0
      BY <1>1, <1>2, <1>5
    <2> QED BY <1>1, <2>1, <2>2 DEF Walk
  <1>8. \E m \in DOMAIN stack' : \E d \in 1 .. m : Walk(d, m)'
    BY <1>1, <1>2, <1>6, <1>7
  <1>9. from' \in N' \cup {0} /\ cycle' \in Seq(N')
    BY <1>1, <1>2, <1>3, <1>5
  <1> QED BY <1>1, <1>3, <1>8, <1>9 DEF TraceInv

(* parent[] leads to the entry below.                                      *)
LEMMA WalkGoesDown ==
    ASSUME Shape, GreyInv, TraceInv, TraceBack
    PROVE  TraceInv'
  <1>1. /\ phase = "trace" /\ phase' = "trace" /\ from # TopNext
        /\ cycle' = <<from>> \o cycle /\ from' = parent[from]
        /\ UNCHANGED <<nodes, succ, stack>>
    BY DEF TraceBack, args, adjacency
  <1>2. HasNext /\ stack # <<>>
    BY <1>1 DEF TraceInv, HasNext
  <1>3. PICK m \in DOMAIN stack : \E b \in 1 .. m : Walk(b, m)
    BY <1>1 DEF TraceInv
  <1>4. PICK b \in 1 .. m : Walk(b, m)
    BY <1>3
  <1>5. DOMAIN stack = 1..Len(stack) /\ Len(stack) \in Nat \ {0}
    BY <1>2, TopIn
  <1>6. b # m
    BY <1>1, <1>4 DEF Walk
  <1>7. m \in 2 .. Len(stack) /\ m - 1 \in DOMAIN stack /\ b \in 1 .. m - 1
    BY <1>4, <1>5, <1>6
  <1>8. from' = stack[m - 1].node /\ from = stack[m].node
    BY <1>1, <1>4, <1>7 DEF GreyInv, Walk
  <1>9. from \in N /\ from' \in N
    <2>1. \A k \in DOMAIN stack : stack[k].node \in N
      BY DEF GreyInv
    <2> QED BY <1>7, <1>8, <2>1
  <1>10. cycle \in Seq(N) /\ Len(cycle) \in Nat /\ Len(cycle) = Len(stack) - m
    BY <1>4 DEF TraceInv, Walk
  <1>11. /\ cycle' \in Seq(N) /\ Len(cycle') = Len(cycle) + 1 /\ cycle'[1] = from
         /\ \A k \in 2 .. Len(cycle) + 1 : cycle'[k] = cycle[k - 1]
    BY <1>1, <1>9, <1>10, InFront
  <1>12. /\ N' = N /\ HasNext' /\ TopNext' = TopNext
    BY <1>1, <1>2 DEF N, HasNext, TopNext, Top
  <1>13. \A k \in 1 .. Len(cycle') : cycle'[k] = stack[(m - 1) + k].node
    <2> SUFFICES ASSUME NEW k \in 1 .. Len(cycle') PROVE cycle'[k] = stack[(m - 1) + k].node
      OBVIOUS
    <2>1. CASE k = 1
      <3>1. (m - 1) + k = m
        BY <1>5, <2>1
      <3> QED BY <1>8, <1>11, <2>1, <3>1
    <2>2. CASE k # 1
      <3>1. k \in 2 .. Len(cycle) + 1 /\ k - 1 \in 1 .. Len(cycle)
        BY <1>10, <1>11, <2>2
      <3>2. (m - 1) + k = m + (k - 1)
        BY <1>5, <3>1
      <3> QED BY <1>4, <1>11, <3>1, <3>2 DEF Walk
    <2> QED BY <2>1, <2>2
  <1>14. Len(cycle') = Len(stack) - (m - 1)
    BY <1>5, <1>10, <1>11
  <1>15. PICK l \in DOMAIN stack : l = m - 1
    BY <1>7
  <1>16. Walk(b, l)'
    BY <1>1, <1>4, <1>8, <1>12, <1>13, <1>14, <1>15 DEF Walk
  <1>17. b \in 1 .. l
    BY <1>7, <1>15
  <1>18. \E h \in DOMAIN stack' : \E d \in 1 .. h : Walk(d, h)'
    BY <1>1, <1>16, <1>17
  <1> QED BY <1>1, <1>9, <1>11, <1>12, <1>18 DEF TraceInv

(* A successor on the stack below the top, and what lies between them, is  *)
(* a cycle of the graph.                                                   *)
LEMMA FoundIsReal ==
    ASSUME Shape, BoundsInv, EdgesInv, SearchInv, TraceInv, CycleFound
    PROVE  CycleIsReal' /\ cycle' \in Seq(N)
  <1>1. /\ phase = "trace" /\ from = TopNext
        /\ cycle' = <<TopNext>> \o cycle \o <<TopNext>>
        /\ UNCHANGED <<nodes, edges>>
    BY DEF CycleFound, args
  <1>2. HasNext /\ stack # <<>> /\ GreyInv
    BY <1>1 DEF TraceInv, HasNext, SearchInv
  <1>3. PICK m \in DOMAIN stack : \E b \in 1 .. m : Walk(b, m)
    BY <1>1 DEF TraceInv
  <1>4. PICK b \in 1 .. m : Walk(b, m)
    BY <1>3
  <1>5. /\ DOMAIN stack = 1..Len(stack) /\ Len(stack) \in Nat \ {0}
        /\ Top.node \in N /\ TopNext \in N /\ Top.cursor \in DOMAIN succ[Top.node]
        /\ Len(stack) \in DOMAIN stack
    BY <1>2, TopIn
  <1>6. /\ \A i, j \in N : j \in Elements(succ[i]) <=> <<i, j>> \in Edge
        /\ \A i \in N : <<i, i>> \notin Edge
    BY <1>1, AllRead
  <1>7. <<Top.node, TopNext>> \in Edge
    <2>1. TopNext \in Elements(succ[Top.node])
      BY <1>5 DEF Elements, TopNext
    <2> QED BY <1>5, <1>6, <2>1
  <1>8. stack[m].node = TopNext /\ m # Len(stack)
    <2>1. stack[m].node = TopNext
      BY <1>1, <1>4 DEF Walk
    <2>2. Top.node # TopNext
      BY <1>5, <1>6, <1>7
    <2> QED BY <2>1, <2>2 DEF Top
  <1> DEFINE L == Len(cycle)
             p == <<TopNext>> \o cycle
  <1>9. /\ cycle \in Seq(N) /\ L = Len(stack) - m /\ L \in Nat /\ L >= 1
        /\ \A k \in 1 .. L : cycle[k] = stack[m + k].node
    BY <1>4, <1>5, <1>8 DEF TraceInv, Walk
  <1>10. /\ p \in Seq(N) /\ Len(p) = L + 1 /\ p[1] = TopNext
         /\ \A k \in 2 .. L + 1 : p[k] = cycle[k - 1]
    BY <1>5, <1>9, InFront
  <1>11. cycle' = p \o <<TopNext>>
    BY <1>1
  <1> HIDE DEF L, p
  <1>12. /\ cycle' \in Seq(N) /\ Len(cycle') = L + 2 /\ cycle'[L + 2] = TopNext
         /\ \A k \in 1 .. L + 1 : cycle'[k] = p[k]
    <2>1. /\ cycle' \in Seq(N) /\ Len(cycle') = Len(p) + 1 /\ cycle'[Len(p) + 1] = TopNext
          /\ \A k \in 1 .. Len(p) : cycle'[k] = p[k]
      BY <1>5, <1>10, <1>11, Behind
    <2>2. (L + 1) + 1 = L + 2
      BY <1>9
    <2> QED BY <1>10, <2>1, <2>2
  <1>13. ASSUME NEW k \in 1 .. L + 1
         PROVE  cycle'[k] = stack[(m - 1) + k].node /\ (m - 1) + k \in DOMAIN stack
    <2>1. (m - 1) + k \in DOMAIN stack
      BY <1>5, <1>9
    <2>2. CASE k = 1
      <3>1. (m - 1) + k = m
        BY <1>5, <2>2
      <3> QED BY <1>8, <1>10, <1>12, <2>1, <2>2, <3>1
    <2>3. CASE k # 1
      <3>1. k \in 2 .. L + 1 /\ k - 1 \in 1 .. L /\ (m - 1) + k = m + (k - 1)
        BY <1>5, <1>9, <2>3
      <3> QED BY <1>9, <1>10, <1>12, <2>1, <3>1
    <2> QED BY <2>2, <2>3
  <1>14. ASSUME NEW h \in 2 .. Len(stack)
         PROVE  <<stack[h - 1].node, stack[h].node>> \in Edge
    <2>1. h \in DOMAIN stack /\ h - 1 \in DOMAIN stack
      BY <1>5
    <2>2. /\ stack[h - 1].cursor > 1
          /\ succ[stack[h - 1].node][stack[h - 1].cursor - 1] = stack[h].node
      BY <1>2 DEF GreyInv
    <2>3. stack[h - 1].node \in N /\ stack[h].node \in N
      BY <1>2, <2>1 DEF GreyInv
    <2>4. stack[h - 1].cursor <= Len(succ[stack[h - 1].node]) + 1
      BY <2>1 DEF BoundsInv
    <2>5. succ[stack[h - 1].node] \in Seq(N)
      BY <2>3 DEF Shape
    <2>6. stack[h - 1].cursor \in Nat
      <3> DEFINE R == [node : N, cursor : Nat \ {0}]
      <3>1. stack \in Seq(R)
        BY DEF Shape
      <3> HIDE DEF R
      <3>2. stack[h - 1] \in R
        BY <2>1, <3>1
      <3> QED BY <3>2 DEF R
    <2>7. stack[h - 1].cursor - 1 \in DOMAIN succ[stack[h - 1].node]
      BY <2>2, <2>4, <2>5, <2>6
    <2>8. stack[h].node \in Elements(succ[stack[h - 1].node])
      BY <2>2, <2>7 DEF Elements
    <2> QED BY <1>6, <2>3, <2>8
  <1>15. ASSUME NEW k \in 1 .. L + 1 PROVE <<cycle'[k], cycle'[k + 1]>> \in Edge
    <2>1. CASE k = L + 1
      <3>1. (m - 1) + k = Len(stack) /\ k + 1 = L + 2
        BY <1>5, <1>9, <2>1
      <3>2. cycle'[k] = Top.node
        BY <1>13, <3>1 DEF Top
      <3> QED BY <1>7, <1>12, <3>1, <3>2
    <2>2. CASE k # L + 1
      <3>1. k + 1 \in 1 .. L + 1 /\ (m - 1) + (k + 1) \in 2 .. Len(stack)
            /\ ((m - 1) + (k + 1)) - 1 = (m - 1) + k
        BY <1>5, <1>9, <2>2
      <3> QED BY <1>13, <1>14, <3>1
    <2> QED BY <2>1, <2>2
  <1>16. ASSUME NEW k \in 1 .. L + 1, NEW l \in 1 .. L + 1, cycle'[k] = cycle'[l]
         PROVE  k = l
    <2>1. (m - 1) + k = (m - 1) + l
      BY <1>2, <1>13, <1>16 DEF GreyInv
    <2> QED BY <1>5, <1>9, <2>1
  <1>17. /\ Edge' = Edge /\ Len(cycle') - 1 = L + 1 /\ Len(cycle') >= 3
         /\ cycle'[1] = cycle'[Len(cycle')]
    <2>1. Edge' = Edge
      BY <1>1 DEF Edge, N
    <2>2. Len(cycle') - 1 = L + 1 /\ Len(cycle') >= 3 /\ 1 \in 1 .. L + 1
      BY <1>9, <1>12
    <2> QED BY <1>10, <1>12, <2>1, <2>2
  <1> QED BY <1>12, <1>15, <1>16, <1>17 DEF CycleIsReal

(* A graph with a cycle is not well-founded.                               *)
LEMMA CycleIsCycle ==
    ASSUME cycle \in Seq(N), CycleIsReal
    PROVE  ~WellFounded
  <1> DEFINE S == Elements(cycle)
  <1>1. /\ Len(cycle) \in Nat /\ Len(cycle) >= 3 /\ DOMAIN cycle = 1 .. Len(cycle)
        /\ cycle[1] = cycle[Len(cycle)]
        /\ \A k \in 1 .. Len(cycle) - 1 : <<cycle[k], cycle[k + 1]>> \in Edge
    BY DEF CycleIsReal
  <1>2. ASSUME NEW j \in S PROVE \E i \in S : <<i, j>> \in Edge
    <2>1. PICK k \in 2 .. Len(cycle) : j = cycle[k]
      <3>1. PICK h \in 1 .. Len(cycle) : j = cycle[h]
        BY <1>1 DEF Elements
      <3>2. h = 1 \/ h \in 2 .. Len(cycle)
        BY <1>1
      <3>3. Len(cycle) \in 2 .. Len(cycle)
        BY <1>1
      <3> QED BY <1>1, <3>1, <3>2, <3>3
    <2>2. k - 1 \in 1 .. Len(cycle) - 1 /\ k - 1 \in DOMAIN cycle /\ (k - 1) + 1 = k
      BY <1>1
    <2>3. <<cycle[k - 1], cycle[k]>> \in Edge
      BY <1>1, <2>2
    <2> QED BY <2>1, <2>2, <2>3 DEF Elements
  <1>3. S \in SUBSET N /\ S # {}
    <2>1. cycle # <<>>
      BY <1>1
    <2> QED BY <2>1, ElementsIn
  <1> HIDE DEF S
  <1> QED BY <1>2, <1>3 DEF WellFounded

(* The walk has not begun at first.                                        *)
LEMMA TraceInit == Init => TraceInv
  BY DEF Init, TraceInv

(* The walk back stays on the stack.                                       *)
LEMMA TraceStep ==
    ASSUME Shape, BoundsInv, EdgesInv, SearchInv, TraceInv, [Next]_vars
    PROVE  TraceInv'
  <1> USE DEF args, adjacency, dfs, kahn, bfs
  <1>1. ASSUME UNCHANGED <<nodes, from, cycle>>, phase' # "trace",
               phase' \in {"rejected"} \/ phase \notin {"trace", "rejected"}
        PROVE  TraceInv'
    BY <1>1 DEF TraceInv, N
  <1>2. CASE CheckNodes
    <2>1. phase' # "trace" /\ phase \notin {"trace", "rejected"}
      BY <1>2, NodeErrors DEF CheckNodes
    <2> QED BY <1>1, <1>2, <2>1 DEF CheckNodes
  <1>3. CASE ReadEdge \/ EndEdges
    <2>1. UNCHANGED <<nodes, from, cycle>>
      BY <1>3 DEF ReadEdge, EndEdges
    <2>2. phase = "edges" /\ phase' # "trace"
      BY <1>3 DEF ReadEdge, EndEdges
    <2> QED BY <1>1, <2>1, <2>2
  <1>4. CASE NextStart \/ Descend \/ PassBlack \/ Leave \/ Acyclic
    <2>1. UNCHANGED <<nodes, from, cycle>>
      BY <1>4 DEF NextStart, Descend, PassBlack, Leave, Acyclic
    <2>2. phase = "cycle" /\ phase' # "trace"
      BY <1>4 DEF NextStart, Descend, PassBlack, Leave, Acyclic
    <2> QED BY <1>1, <2>1, <2>2
  <1>5. CASE BackEdge
    BY <1>5, WalkBegins DEF BackEdge, SearchInv
  <1>6. CASE TraceBack
    BY <1>6, WalkGoesDown DEF TraceBack, SearchInv
  <1>7. CASE CycleFound
    <2>1. /\ phase' = "rejected" /\ UNCHANGED <<nodes, from>> /\ cycle' \in Seq(N)
      BY <1>7, FoundIsReal DEF CycleFound
    <2> QED BY <2>1 DEF TraceInv, N
  <1>8. CASE TakeReady \/ Built \/ \E i \in N : Query(i)
    <2>1. UNCHANGED <<nodes, from, cycle>>
      BY <1>8 DEF TakeReady, Built, Query
    <2>2. phase \in {"kahn", "built"} /\ phase' # "trace"
      BY <1>8 DEF TakeReady, Built, Query
    <2> QED BY <1>1, <2>1, <2>2
  <1>9. CASE Dequeue \/ Visit \/ Answer
    <2>1. UNCHANGED <<nodes, from, cycle>>
      BY <1>9 DEF Dequeue, Visit, Answer
    <2>2. phase = "search" /\ phase' # "trace"
      BY <1>9 DEF Dequeue, Visit, Answer
    <2> QED BY <1>1, <2>1, <2>2
  <1>10. CASE Over \/ UNCHANGED vars
    <2>1. UNCHANGED <<nodes, from, cycle, phase, stack, succ>>
      BY <1>10 DEF Over, vars
    <2>2. \A b, m : Walk(b, m)' <=> Walk(b, m)
      BY <2>1 DEF Walk, TopNext, Top
    <2>3. N' = N /\ (HasNext' <=> HasNext)
      BY <2>1 DEF N, HasNext, Top
    <2> QED BY <2>1, <2>2, <2>3 DEF TraceInv
  <1> QED BY <1>2, <1>3, <1>4, <1>5, <1>6, <1>7, <1>8, <1>9, <1>10 DEF Next, Step

(* Nothing is decided at first.                                            *)
LEMMA VerdictInit == Init => VerdictInv
  BY DEF Init, VerdictInv

(* An edge that is in the way makes the call one to be rejected.           *)
LEMMA BadEdge ==
    ASSUME Shape, EdgesInv, phase = "edges", at = Len(edges), errors # <<>>
    PROVE  ~(Distinct /\ AllKnown /\ WellFounded)
  <1>1. PICK k \in 1..at : ~Good(edges[k])
    BY EdgesInvIs
  <1>2. k \in DOMAIN edges /\ edges[k] \in Elements(edges)
    <2>1. DOMAIN edges = 1..at
      BY DEF Shape
    <2> QED BY <2>1 DEF Elements
  <1>3. edges[k] = <<edges[k][1], edges[k][2]>>
    <2>1. edges[k] \in Ids \X Ids
      BY <1>2 DEF Shape
    <2> QED BY <2>1
  <1> SUFFICES ASSUME AllKnown, WellFounded PROVE FALSE
    OBVIOUS
  <1>4. Known(edges[k][1]) /\ edges[k][1] = edges[k][2]
    BY <1>1, <1>2 DEF AllKnown, Good
  <1>5. PICK i \in N : nodes[i] = edges[k][1]
    BY <1>4 DEF Known
  <1>6. <<i, i>> \in Edge
    <2>1. <<nodes[i], nodes[i]>> \in Elements(edges)
      BY <1>2, <1>3, <1>4, <1>5
    <2> QED BY <2>1 DEF Edge
  <1>7. {i} \in SUBSET N /\ {i} # {}
    OBVIOUS
  <1>8. PICK j \in {i} : \A h \in {i} : <<h, j>> \notin Edge
    BY <1>7, Zenon DEF WellFounded
  <1> QED BY <1>6, <1>8

(* The verdict is right when it is given, and stays.                       *)
LEMMA VerdictStep ==
    ASSUME Shape, BoundsInv, EdgesInv, SearchInv, TraceInv, VerdictInv, [Next]_vars
    PROVE  VerdictInv'
  <1> USE DEF args, adjacency, dfs, kahn, bfs
  <1> DEFINE Accepted == {"kahn", "built", "search", "answer"}
  <1>0. UNCHANGED <<nodes, edges>>
    <2>1. CASE CheckNodes \/ ReadEdge \/ EndEdges \/ NextStart \/ Descend \/ PassBlack
      BY <2>1 DEF CheckNodes, ReadEdge, EndEdges, NextStart, Descend, PassBlack
    <2>2. CASE BackEdge \/ TraceBack \/ CycleFound \/ Leave \/ Acyclic \/ TakeReady \/ Built
      BY <2>2 DEF BackEdge, TraceBack, CycleFound, Leave, Acyclic, TakeReady, Built
    <2>3. CASE Dequeue \/ Visit \/ Answer \/ Over \/ \E i \in N : Query(i)
      BY <2>3 DEF Dequeue, Visit, Answer, Over, Query, vars
    <2> QED BY <2>1, <2>2, <2>3 DEF Next, Step, vars
  <1>1. N' = N /\ Edge' = Edge
    BY <1>0 DEF N, Edge
  <1>2. /\ WellFounded' <=> WellFounded
        /\ Distinct' <=> Distinct
        /\ AllKnown' <=> AllKnown
    BY <1>0, <1>1 DEF WellFounded, Distinct, AllKnown, Known
  <1>3. ASSUME "cycle" \notin Elements(errors') PROVE errors' # <<"cycle">>
    BY <1>3 DEF Elements
  <1>4. CASE CheckNodes
    <2>1. /\ "cycle" \notin Elements(errors')
          /\ phase' = "rejected" => ~Distinct
          /\ phase' \in {"edges", "rejected"}
      BY <1>4, NodeErrors
    <2> QED BY <1>2, <1>3, <2>1 DEF VerdictInv
  <1>5. CASE ReadEdge
    <2>1. phase' = "edges" /\ EdgesInv'
      BY <1>5, EdgesStep DEF ReadEdge
    <2>2. "cycle" \notin Elements(errors')
      BY <2>1 DEF EdgesInv
    <2> QED BY <1>3, <2>1, <2>2 DEF VerdictInv
  <1>6. CASE EndEdges
    <2>1. /\ phase = "edges" /\ at = Len(edges) /\ UNCHANGED errors
          /\ phase' = IF errors = <<>> THEN "cycle" ELSE "rejected"
      BY <1>6 DEF EndEdges
    <2>2. "cycle" \notin Elements(errors')
      BY <2>1 DEF EdgesInv
    <2>3. phase' = "rejected" => ~(Distinct /\ AllKnown /\ WellFounded)
      BY <2>1, BadEdge
    <2> QED BY <1>2, <1>3, <2>1, <2>2, <2>3 DEF VerdictInv
  <1>7. CASE CycleFound
    <2>1. CycleIsReal' /\ cycle' \in Seq(N') /\ phase' = "rejected"
      BY <1>1, <1>7, FoundIsReal DEF CycleFound
    <2>2. ~WellFounded'
      <3>1. (cycle \in Seq(N) /\ CycleIsReal => ~WellFounded)'
        BY CycleIsCycle, PTL
      <3> QED BY <2>1, <3>1
    <2> QED BY <2>1, <2>2 DEF VerdictInv
  <1>8. CASE Acyclic
    <2>1. /\ phase = "cycle" /\ phase' = "kahn" /\ stack = <<>> /\ UNCHANGED errors
          /\ \A i \in N : colour[i] # "white"
      BY <1>8 DEF Acyclic
    <2>2. GreyInv /\ BlackInv /\ errors = <<>>
      BY <2>1 DEF SearchInv, EdgesInv
    <2>3. \A i \in N : colour[i] # "grey"
      BY <2>1, <2>2 DEF GreyInv
    <2>4. Black = N
      BY <2>1, <2>3 DEF Black, Shape
    <2>5. WellFounded
      BY <2>2, <2>4 DEF BlackInv, OrderedSet, WellFounded
    <2> QED BY <1>2, <2>1, <2>2, <2>5 DEF VerdictInv
  <1>9. CASE NextStart \/ Descend \/ PassBlack \/ BackEdge \/ TraceBack \/ Leave
    <2>1. UNCHANGED errors
      BY <1>9 DEF NextStart, Descend, PassBlack, BackEdge, TraceBack, Leave
    <2>2. phase \in {"cycle", "trace"} /\ phase' \in {"cycle", "trace"}
      BY <1>9 DEF NextStart, Descend, PassBlack, BackEdge, TraceBack, Leave
    <2>3. errors' = <<>>
      BY <2>1, <2>2 DEF EdgesInv
    <2> QED BY <2>2, <2>3 DEF VerdictInv
  <1>10. CASE TakeReady \/ Built \/ Dequeue \/ Visit \/ Answer \/ \E i \in N : Query(i)
    <2>1. UNCHANGED errors
      BY <1>10 DEF TakeReady, Built, Dequeue, Visit, Answer, Query
    <2>2. phase \in Accepted /\ phase' \in Accepted
      BY <1>10 DEF TakeReady, Built, Dequeue, Visit, Answer, Query
    <2>3. errors' = <<>> /\ WellFounded
      BY <2>1, <2>2 DEF EdgesInv, VerdictInv
    <2> QED BY <1>2, <2>2, <2>3 DEF VerdictInv
  <1>11. CASE Over \/ UNCHANGED vars
    <2>1. UNCHANGED <<phase, errors, cycle>>
      BY <1>11 DEF Over, vars
    <2>2. CycleIsReal' <=> CycleIsReal
      BY <1>1, <2>1 DEF CycleIsReal
    <2> QED BY <1>2, <2>1, <2>2 DEF VerdictInv
  <1> QED BY <1>4, <1>5, <1>6, <1>7, <1>8, <1>9, <1>10, <1>11 DEF Next, Step

-----------------------------------------------------------------------------
(* Kahn's loop *)

(* Steps that leave the loop alone.                                        *)
LEMMA KahnQuiet ==
    ASSUME KahnInv, UNCHANGED <<nodes, edges, remaining, ready, topo>>,
           \/ phase' = phase
           \/ /\ phase \notin {"kahn", "built", "search", "answer"}
              /\ phase' \notin {"kahn", "built", "search", "answer"}
           \/ phase \in {"built", "search", "answer"} /\ phase' \in {"search", "answer"}
    PROVE  KahnInv'
  <1>1. N' = N /\ Edge' = Edge
    BY DEF N, Edge
  <1>2. /\ \A j : Missing(j)' = Missing(j)
        /\ \A k : PlacedRight(k)' <=> PlacedRight(k)
    BY <1>1 DEF Missing, PlacedRight
  <1> QED BY <1>1, <1>2 DEF KahnInv

(* Sets of tasks are finite.                                               *)
LEMMA TasksFinite ==
    ASSUME Shape
    PROVE  /\ N = 1..Len(nodes) /\ Len(nodes) \in Nat /\ IsFiniteSet(N)
           /\ Cardinality(N) = Len(nodes)
           /\ \A S \in SUBSET N : IsFiniteSet(S) /\ Cardinality(S) \in Nat
  <1>1. N = 1..Len(nodes) /\ Len(nodes) \in Nat
    BY DEF Shape, N
  <1>2. IsFiniteSet(N) /\ Cardinality(N) = Len(nodes)
    BY <1>1, FS_Interval
  <1>3. ASSUME NEW S \in SUBSET N PROVE IsFiniteSet(S) /\ Cardinality(S) \in Nat
    <2>1. IsFiniteSet(S)
      BY <1>2, FS_Subset
    <2> QED BY <2>1, FS_CardinalityType
  <1> QED BY <1>1, <1>2, <1>3

(* The loop starts with everything missing and what depends on nothing     *)
(* ready.                                                                  *)
LEMMA KahnStarts ==
    ASSUME Shape, EdgesInv, KahnInv, Acyclic
    PROVE  KahnInv'
  <1>1. /\ phase = "cycle" /\ phase' = "kahn" /\ UNCHANGED <<nodes, edges, topo>>
        /\ remaining' = [i \in N |-> Len(pred[i])]
        /\ ready' = {i \in N : pred[i] = <<>>}
    BY DEF Acyclic, args
  <1>2. topo = <<>>
    BY <1>1 DEF KahnInv
  <1>3. N' = N /\ Edge' = Edge
    BY <1>1 DEF N, Edge
  <1>4. Elements(topo') = {} /\ Len(topo') = 0 /\ DOMAIN topo' = {} /\ Cardinality({}) = 0
    BY <1>1, <1>2, FS_EmptySet DEF Elements
  <1>5. ASSUME NEW j \in N
        PROVE  /\ Missing(j)' = Elements(pred[j])
               /\ Len(pred[j]) = Cardinality(Elements(pred[j]))
               /\ pred[j] \in Seq(N)
    <2>1. /\ \A i \in N : i \in Elements(pred[j]) <=> <<i, j>> \in Edge
          /\ Len(pred[j]) = Cardinality(Elements(pred[j]))
      BY <1>1, AllRead
    <2>2. pred[j] \in Seq(N)
      BY DEF Shape
    <2>3. Elements(pred[j]) \subseteq N
      BY <2>2, ElementsIn
    <2> QED BY <1>3, <1>4, <2>1, <2>2, <2>3 DEF Missing
  <1>6. \A j \in N : remaining'[j] = Cardinality(Missing(j)')
    BY <1>1, <1>5
  <1>7. \A j \in N : pred[j] = <<>> <=> remaining'[j] = 0
    <2> SUFFICES ASSUME NEW j \in N PROVE pred[j] = <<>> <=> Len(pred[j]) = 0
      BY <1>1
    <2> QED BY <1>5
  <1>8. ready' = {j \in N' \ Elements(topo') : remaining'[j] = 0}
    BY <1>1, <1>3, <1>4, <1>7
  <1> QED BY <1>1, <1>3, <1>4, <1>6, <1>8 DEF KahnInv

(* The next task of the order leaves the counters those of the missing     *)
(* dependencies and the heap that of the tasks that miss none.             *)
LEMMA KahnTakes ==
    ASSUME Shape, EdgesInv, KahnInv, TakeReady
    PROVE  KahnInv'
  <1> DEFINE f == Least(ready)
             placed == Elements(topo)
             next == Elements(succ[f])
  <1>1. /\ phase = "kahn" /\ phase' = "kahn" /\ ready # {}
        /\ topo' = Append(topo, f)
        /\ remaining' = [i \in N |-> IF i \in next THEN remaining[i] - 1 ELSE remaining[i]]
        /\ ready' = (ready \ {f}) \cup {i \in next : remaining[i] = 1}
        /\ UNCHANGED <<nodes, edges>>
    BY Zenon DEF TakeReady, args
  <1>2. /\ Len(topo) = Cardinality(placed)
        /\ \A j \in N : remaining[j] = Cardinality(Missing(j))
        /\ ready = {j \in N \ placed : remaining[j] = 0}
        /\ \A k \in DOMAIN topo : PlacedRight(k)
    BY <1>1 DEF KahnInv
  <1>3. f \in ready /\ f \in N /\ f \notin placed /\ \A j \in ready : f <= j
    <2>1. ready \in SUBSET (1..Len(nodes)) /\ Len(nodes) \in Nat
      BY TasksFinite DEF Shape
    <2>2. f \in ready /\ \A j \in ready : f <= j
      BY <1>1, <2>1, LeastIs
    <2> QED BY <1>2, <2>2
  <1>4. /\ \A i, j \in N : j \in Elements(succ[i]) <=> <<i, j>> \in Edge
        /\ \A i \in N : <<i, i>> \notin Edge
    BY <1>1, AllRead
  <1>5. topo \in Seq(N) /\ succ[f] \in Seq(N) /\ remaining \in [N -> Int]
    BY <1>3 DEF Shape
  <1>6. next \subseteq N /\ placed \subseteq N
    BY <1>5, ElementsIn
  <1>7. \A j \in N : j \in next <=> <<f, j>> \in Edge
    BY <1>3, <1>4
  <1>8. Elements(topo') = placed \cup {f}
    BY <1>1, <1>3, <1>5, ElementsAppend
  <1>9. N' = N /\ Edge' = Edge
    BY <1>1 DEF N, Edge
  <1>10. Len(topo') = Cardinality(Elements(topo'))
    <2>1. IsFiniteSet(placed)
      BY <1>6, TasksFinite
    <2>2. Cardinality(placed \cup {f}) = Cardinality(placed) + 1
      BY <1>3, <2>1, FS_AddElement
    <2>3. Len(topo') = Len(topo) + 1
      BY <1>1, <1>3, <1>5
    <2> QED BY <1>2, <1>8, <2>2, <2>3
  <1> HIDE DEF f, placed, next
  <1>11. \A j \in N : Missing(j) = {i \in N : <<i, j>> \in Edge /\ i \notin placed}
    BY DEF Missing, placed
  <1>12. \A j \in N : Missing(j)' = {i \in N : <<i, j>> \in Edge /\ i \notin placed /\ i # f}
    BY <1>8, <1>9 DEF Missing
  <1>13. ASSUME NEW j \in N
         PROVE  /\ j \in next => /\ Cardinality(Missing(j)') = remaining[j] - 1
                                 /\ remaining[j] >= 1
                /\ j \notin next => Cardinality(Missing(j)') = remaining[j]
                /\ remaining'[j] = Cardinality(Missing(j)')
    <2>1. IsFiniteSet(Missing(j)) /\ Cardinality(Missing(j)) \in Nat
      BY TasksFinite DEF Missing
    <2>2. Missing(j)' = Missing(j) \ {f}
      BY <1>11, <1>12
    <2>3. CASE j \in next
      <3>1. f \in Missing(j)
        BY <1>3, <1>7, <1>11, <2>3
      <3>2. Cardinality(Missing(j)') = Cardinality(Missing(j)) - 1
        BY <2>1, <2>2, <3>1, FS_RemoveElement
      <3>3. Cardinality(Missing(j)) # 0
        BY <2>1, <3>1, FS_EmptySet
      <3> QED BY <1>1, <1>2, <2>1, <2>3, <3>2, <3>3
    <2>4. CASE j \notin next
      <3>1. Missing(j)' = Missing(j)
        BY <1>7, <1>11, <2>2, <2>4
      <3> QED BY <1>1, <1>2, <2>4, <3>1
    <2> QED BY <2>3, <2>4
  <1>14. ready' = {j \in N' \ Elements(topo') : remaining'[j] = 0}
    <2>1. f \notin next
      BY <1>3, <1>4, <1>7
    <2>2. ASSUME NEW j \in N
          PROVE  j \in ready' <=> j \notin placed /\ j # f /\ remaining'[j] = 0
      <3>1. CASE j \in next
        <4>1. remaining'[j] = remaining[j] - 1 /\ remaining[j] >= 1 /\ remaining[j] \in Int
          BY <1>5, <1>13, <3>1
        <4>2. j \notin ready
          BY <1>2, <4>1
        <4>3. j \notin placed
          <5>1. ASSUME j \in placed PROVE FALSE
            <6>1. PICK k \in DOMAIN topo : topo[k] = j
              BY <5>1 DEF placed, Elements
            <6>2. PlacedRight(k) /\ k \in 1..Len(topo) /\ Len(topo) \in Nat
              BY <1>2, <1>5, <6>1
            <6> DEFINE before == {topo[l] : l \in 1 .. k - 1}
                       able == {h \in N \ before : \A i \in N : <<i, h>> \in Edge => i \in before}
            <6>3. able # {} /\ topo[k] = Least(able)
              BY <6>2 DEF PlacedRight
            <6>4. Least(able) \in able
              <7>1. able \in SUBSET (1..Len(nodes)) /\ Len(nodes) \in Nat
                BY TasksFinite
              <7> HIDE DEF able
              <7> QED BY <6>3, <7>1, LeastIs
            <6>5. f \in before
              BY <1>3, <1>7, <3>1, <6>1, <6>3, <6>4
            <6>6. before \subseteq placed
              <7>1. \A l \in 1 .. k - 1 : l \in DOMAIN topo
                BY <1>5, <6>2
              <7> QED BY <7>1 DEF placed, Elements
            <6> QED BY <1>3, <6>5, <6>6
          <5> QED BY <5>1
        <4>4. j # f
          BY <2>1, <3>1
        <4>5. j \in ready' <=> remaining[j] = 1
          BY <1>1, <3>1, <4>2
        <4> QED BY <4>1, <4>3, <4>4, <4>5
      <3>2. CASE j \notin next
        <4>1. remaining'[j] = remaining[j]
          BY <1>13, <3>2
        <4> QED BY <1>1, <1>2, <3>2, <4>1
      <3> QED BY <3>1, <3>2
    <2>3. ready' \subseteq N
      BY <1>1, <1>2, <1>6
    <2> QED BY <1>8, <1>9, <2>2, <2>3
  <1>15. ASSUME NEW k \in DOMAIN topo' PROVE PlacedRight(k)'
    <2>1. /\ Len(topo) \in Nat /\ DOMAIN topo = 1..Len(topo)
          /\ DOMAIN topo' = 1..(Len(topo) + 1)
          /\ \A l \in 1..Len(topo) : topo'[l] = topo[l]
          /\ topo'[Len(topo) + 1] = f
      BY <1>1, <1>3, <1>5
    <2>2. CASE k \in 1..Len(topo)
      <3>1. \A l \in 1 .. k - 1 : topo'[l] = topo[l]
        BY <2>1, <2>2
      <3>2. {topo'[l] : l \in 1 .. k - 1} = {topo[l] : l \in 1 .. k - 1}
        BY <3>1
      <3>3. PlacedRight(k) /\ topo'[k] = topo[k]
        BY <1>2, <2>1, <2>2
      <3> QED BY <1>9, <3>2, <3>3 DEF PlacedRight
    <2>3. CASE k = Len(topo) + 1
      <3>1. k - 1 = Len(topo)
        BY <2>1, <2>3
      <3>2. {topo'[l] : l \in 1 .. k - 1} = placed
        BY <2>1, <3>1 DEF placed, Elements
      <3>3. {j \in N \ placed : \A i \in N : <<i, j>> \in Edge => i \in placed} = ready
        <4>1. ASSUME NEW j \in N
              PROVE  (\A i \in N : <<i, j>> \in Edge => i \in placed) <=> remaining[j] = 0
          <5>1. IsFiniteSet(Missing(j))
            BY TasksFinite DEF Missing
          <5>2. remaining[j] = 0 <=> Missing(j) = {}
            BY <1>2, <5>1, FS_EmptySet
          <5> QED BY <1>11, <5>2
        <4> QED BY <1>2, <4>1
      <3>4. topo'[k] = Least(ready) /\ ready # {}
        BY <1>1, <2>1, <2>3 DEF f
      <3> QED BY <1>9, <3>2, <3>3, <3>4 DEF PlacedRight
    <2> QED BY <2>1, <2>2, <2>3
  <1> QED BY <1>1, <1>9, <1>10, <1>13, <1>14, <1>15 DEF KahnInv

(* The order is empty at first.                                            *)
LEMMA KahnInit == Init => KahnInv
  BY DEF Init, KahnInv

(* Kahn's loop at each step.                                               *)
LEMMA KahnStep ==
    ASSUME Shape, EdgesInv, KahnInv, [Next]_vars
    PROVE  KahnInv'
  <1> USE DEF args, adjacency, dfs, kahn, bfs
  <1>1. CASE CheckNodes
    <2>1. phase = "nodes" /\ phase' \in {"edges", "rejected"}
      BY <1>1, NodeErrors DEF CheckNodes
    <2> QED BY <1>1, <2>1, KahnQuiet DEF CheckNodes
  <1>2. CASE ReadEdge \/ EndEdges
    <2>1. UNCHANGED <<nodes, edges, remaining, ready, topo>>
      BY <1>2 DEF ReadEdge, EndEdges
    <2>2. phase = "edges" /\ phase' \in {"edges", "cycle", "rejected"}
      BY <1>2 DEF ReadEdge, EndEdges
    <2> QED BY <2>1, <2>2, KahnQuiet
  <1>3. CASE NextStart \/ Descend \/ PassBlack \/ BackEdge \/ TraceBack \/ CycleFound \/ Leave
    <2>1. UNCHANGED <<nodes, edges, remaining, ready, topo>>
      BY <1>3 DEF NextStart, Descend, PassBlack, BackEdge, TraceBack, CycleFound, Leave
    <2>2. phase \in {"cycle", "trace"} /\ phase' \in {"cycle", "trace", "rejected"}
      BY <1>3 DEF NextStart, Descend, PassBlack, BackEdge, TraceBack, CycleFound, Leave
    <2> QED BY <2>1, <2>2, KahnQuiet
  <1>4. CASE Acyclic
    BY <1>4, KahnStarts
  <1>5. CASE TakeReady
    BY <1>5, KahnTakes
  <1>6. CASE Built
    <2>1. /\ phase = "kahn" /\ phase' = "built" /\ ready = {}
          /\ UNCHANGED <<nodes, edges, remaining, ready, topo>>
      BY <1>6 DEF Built
    <2>2. N' = N /\ Edge' = Edge
      BY <2>1 DEF N, Edge
    <2>3. /\ \A j : Missing(j)' = Missing(j)
          /\ \A k : PlacedRight(k)' <=> PlacedRight(k)
      BY <2>1, <2>2 DEF Missing, PlacedRight
    <2> QED BY <2>1, <2>2, <2>3 DEF KahnInv
  <1>7. CASE Dequeue \/ Visit \/ Answer \/ \E i \in N : Query(i)
    <2>1. UNCHANGED <<nodes, edges, remaining, ready, topo>>
      BY <1>7 DEF Dequeue, Visit, Answer, Query
    <2>2. phase \in {"built", "search"} /\ phase' \in {"search", "answer"}
      BY <1>7 DEF Dequeue, Visit, Answer, Query
    <2> QED BY <2>1, <2>2, KahnQuiet
  <1>8. CASE Over \/ UNCHANGED vars
    BY <1>8, KahnQuiet DEF Over, vars
  <1> QED BY <1>1, <1>2, <1>3, <1>4, <1>5, <1>6, <1>7, <1>8 DEF Next, Step

-----------------------------------------------------------------------------
(* transitive_dependents *)

(* Steps that leave the search alone.                                      *)
LEMMA ReachQuiet ==
    ASSUME ReachInv, phase' = phase,
           UNCHANGED <<nodes, edges, succ, root, seen, frontier, hits, node, cursor>>
    PROVE  ReachInv'
  <1>1. N' = N /\ Edge' = Edge /\ (Expanded' <=> Expanded)
    BY DEF N, Edge, Expanded
  <1>2. Downstream(root)' = Downstream(root)
    BY <1>1 DEF Downstream
  <1> QED BY <1>1, <1>2 DEF ReachInv

(* A task whose dependents have all been looked at leads to what was seen. *)
LEMMA ExpandedSeen ==
    ASSUME Shape, ReachInv, phase \in {"search", "answer"}, Expanded, node # 0
    PROVE  Elements(succ[node]) \subseteq seen
  <1>1. node \in N /\ succ[node] \in Seq(N) /\ cursor \in Nat
    BY DEF Shape
  <1>2. \A c \in DOMAIN succ[node] : c \in 1 .. cursor - 1
    BY <1>1 DEF Expanded
  <1>3. \A c \in DOMAIN succ[node] : succ[node][c] \in seen
    BY <1>2 DEF ReachInv
  <1> QED BY <1>3 DEF Elements

(* A dependent of something seen is downstream of the root.                *)
LEMMA SeenDownstream ==
    ASSUME NEW r \in N, NEW H \in SUBSET Downstream(r), NEW i \in H \cup {r},
           NEW j \in N, <<i, j>> \in Edge
    PROVE  j \in Downstream(r)
  <1> SUFFICES ASSUME NEW S \in SUBSET N,
                      \A k \in N : (\E l \in S \cup {r} : <<l, k>> \in Edge) => k \in S
               PROVE  j \in S
    BY DEF Downstream
  <1>1. i \in S \cup {r}
    BY DEF Downstream
  <1> QED BY <1>1

(* The search goes on with the task at the head of the queue.              *)
LEMMA DequeueKeeps ==
    ASSUME Shape, ReachInv, Dequeue
    PROVE  ReachInv'
  <1>1. /\ phase = "search" /\ Expanded /\ frontier # <<>> /\ phase' = "search"
        /\ node' = Head(frontier) /\ cursor' = 1 /\ frontier' = Tail(frontier)
        /\ UNCHANGED <<nodes, edges, succ, root, seen, hits>>
    BY DEF Dequeue, args, adjacency
  <1>2. /\ Elements(frontier) = {node'} \cup Elements(frontier')
        /\ node' \in N
    BY <1>1, ElementsTail DEF Shape
  <1>3. /\ root \in N /\ seen = hits \cup {root} /\ root \notin hits
        /\ hits \subseteq Downstream(root)
        /\ \A j \in hits : \E i \in seen : <<i, j>> \in Edge
        /\ Elements(frontier) \subseteq seen
        /\ \A i \in seen \ (Elements(frontier) \cup {node}) :
             Elements(succ[i]) \subseteq seen
    BY <1>1 DEF ReachInv
  <1>4. N' = N /\ Edge' = Edge
    BY <1>1 DEF N, Edge
  <1>5. Downstream(root)' = Downstream(root)
    BY <1>1, <1>4 DEF Downstream
  <1>6. ASSUME NEW i \in seen \ (Elements(frontier') \cup {node'})
        PROVE  Elements(succ[i]) \subseteq seen
    <2>1. CASE i = node
      <3>1. node # 0
        BY <2>1 DEF Shape, N
      <3> QED BY <1>1, <2>1, <3>1, ExpandedSeen
    <2>2. CASE i # node
      BY <1>2, <1>3, <2>2
    <2> QED BY <2>1, <2>2
  <1>7. 1 .. cursor' - 1 = {}
    BY <1>1
  <1> QED BY <1>1, <1>2, <1>3, <1>4, <1>5, <1>6, <1>7 DEF ReachInv

(* The next dependent of the task that was taken.                          *)
LEMMA VisitKeeps ==
    ASSUME Shape, EdgesInv, ReachInv, Visit
    PROVE  ReachInv'
  <1> DEFINE next == succ[node][cursor]
  <1>1. /\ phase = "search" /\ phase' = "search" /\ node # 0
        /\ ~(cursor > Len(succ[node])) /\ cursor' = cursor + 1
        /\ UNCHANGED <<nodes, edges, succ, root, node>>
        /\ IF next \in seen THEN UNCHANGED <<seen, hits, frontier>>
           ELSE /\ seen' = seen \cup {next} /\ hits' = hits \cup {next}
                /\ frontier' = Append(frontier, next)
    BY Zenon DEF Visit, Expanded, args, adjacency
  <1>2. /\ node \in N /\ succ[node] \in Seq(N) /\ cursor \in Nat \ {0}
        /\ frontier \in Seq(N)
    BY <1>1 DEF Shape
  <1>3. cursor \in DOMAIN succ[node]
    BY <1>1, <1>2
  <1>4. next \in N /\ next \in Elements(succ[node])
    BY <1>2, <1>3 DEF Elements
  <1>5. <<node, next>> \in Edge
    BY <1>1, <1>2, <1>4, AllRead
  <1>6. /\ root \in N /\ seen = hits \cup {root} /\ root \notin hits
        /\ hits \subseteq Downstream(root)
        /\ \A j \in hits : \E i \in seen : <<i, j>> \in Edge
        /\ Elements(frontier) \subseteq seen /\ node \in seen
        /\ \A i \in seen \ (Elements(frontier) \cup {node}) :
             Elements(succ[i]) \subseteq seen
        /\ \A c \in 1 .. cursor - 1 : succ[node][c] \in seen
    BY <1>1 DEF ReachInv
  <1>7. N' = N /\ Edge' = Edge
    BY <1>1 DEF N, Edge
  <1>8. Downstream(root)' = Downstream(root)
    BY <1>1, <1>7 DEF Downstream
  <1>9. \A c \in 1 .. cursor' - 1 : c \in 1 .. cursor - 1 \/ c = cursor
    BY <1>1, <1>2
  <1>10. next \in seen' /\ seen \subseteq seen'
    BY <1>1
  <1>11. \A c \in 1 .. cursor' - 1 : succ'[node'][c] \in seen'
    BY <1>1, <1>6, <1>9, <1>10
  <1> HIDE DEF next
  <1>12. CASE next \in seen
    <2>1. UNCHANGED <<seen, hits, frontier>>
      BY <1>1, <1>12
    <2> QED BY <1>1, <1>6, <1>7, <1>8, <1>11, <2>1 DEF ReachInv
  <1>13. CASE next \notin seen
    <2>1. /\ seen' = seen \cup {next} /\ hits' = hits \cup {next}
          /\ frontier' = Append(frontier, next)
      BY <1>1, <1>13
    <2>2. Elements(frontier') = Elements(frontier) \cup {next}
      BY <1>2, <1>4, <2>1, ElementsAppend
    <2>3. next \in Downstream(root)
      BY <1>4, <1>5, <1>6, SeenDownstream
    <2>4. \A i \in seen' \ (Elements(frontier') \cup {node'}) :
             Elements(succ'[i]) \subseteq seen'
      BY <1>1, <1>6, <2>1, <2>2
    <2>5. \A j \in hits' : \E i \in seen' : <<i, j>> \in Edge
      BY <1>5, <1>6, <2>1
    <2>6. root \notin hits' /\ seen' = hits' \cup {root}
      BY <1>6, <1>13, <2>1
    <2>7. Elements(frontier') \subseteq seen' /\ node' \in seen' /\ hits' \subseteq Downstream(root)
      BY <1>1, <1>6, <2>1, <2>2, <2>3
    <2> QED BY <1>1, <1>6, <1>7, <1>8, <1>11, <2>4, <2>5, <2>6, <2>7 DEF ReachInv
  <1> QED BY <1>12, <1>13

(* Nobody has asked at first.                                              *)
LEMMA ReachInit == Init => ReachInv
  BY DEF Init, ReachInv

(* The breadth-first search at each step.                                  *)
LEMMA ReachStep ==
    ASSUME Shape, EdgesInv, ReachInv, [Next]_vars
    PROVE  ReachInv'
  <1> USE DEF args, adjacency, dfs, kahn, bfs
  <1>1. ASSUME phase' \notin {"search", "answer"} PROVE ReachInv'
    BY <1>1 DEF ReachInv
  <1>2. CASE CheckNodes
    BY <1>1, <1>2, NodeErrors
  <1>3. CASE ReadEdge \/ EndEdges \/ NextStart \/ Descend \/ PassBlack \/ BackEdge
    <2>1. phase' \notin {"search", "answer"}
      BY <1>3 DEF ReadEdge, EndEdges, NextStart, Descend, PassBlack, BackEdge
    <2> QED BY <1>1, <2>1
  <1>4. CASE TraceBack \/ CycleFound \/ Leave \/ Acyclic \/ TakeReady \/ Built
    <2>1. phase' \notin {"search", "answer"}
      BY <1>4 DEF TraceBack, CycleFound, Leave, Acyclic, TakeReady, Built
    <2> QED BY <1>1, <2>1
  <1>5. CASE \E i \in N : Query(i)
    <2>1. PICK i \in N : Query(i)
      BY <1>5
    <2>2. /\ phase' = "search" /\ root' = i /\ frontier' = <<i>> /\ seen' = {i}
          /\ hits' = {} /\ node' = 0 /\ UNCHANGED nodes
      BY <2>1 DEF Query
    <2>3. Elements(frontier') = {i} /\ N' = N
      BY <2>2 DEF Elements, N
    <2> QED BY <2>2, <2>3 DEF ReachInv
  <1>6. CASE Dequeue
    BY <1>6, DequeueKeeps
  <1>7. CASE Visit
    BY <1>7, VisitKeeps
  <1>8. CASE Answer
    <2>1. /\ phase = "search" /\ phase' = "answer" /\ Expanded /\ frontier = <<>>
          /\ UNCHANGED <<nodes, edges, succ, root, seen, frontier, hits, node, cursor>>
      BY <1>8 DEF Answer
    <2>2. N' = N /\ Edge' = Edge /\ (Expanded' <=> Expanded)
      BY <2>1 DEF N, Edge, Expanded
    <2>3. Downstream(root)' = Downstream(root)
      BY <2>1, <2>2 DEF Downstream
    <2> QED BY <2>1, <2>2, <2>3 DEF ReachInv
  <1>9. CASE Over \/ UNCHANGED vars
    BY <1>9, ReachQuiet DEF Over, vars
  <1> QED BY <1>2, <1>3, <1>4, <1>5, <1>6, <1>7, <1>8, <1>9 DEF Next, Step

-----------------------------------------------------------------------------
(* Theorems *)

(* The whole invariant.                                                    *)
IInv == /\ Shape /\ BoundsInv /\ EdgesInv /\ SearchInv
        /\ TraceInv /\ VerdictInv /\ KahnInv /\ ReachInv

(* Everything that is known of build() and of transitive_dependents, at    *)
(* every turn of their loops, for every list of ids and of edges.          *)
THEOREM BuildInvariant == Spec => []IInv
  <1>1. Init => IInv
    BY ShapeInit, BoundsInit, EdgesInit, SearchInit, TraceInit, VerdictInit,
       KahnInit, ReachInit DEF IInv
  <1>2. ASSUME IInv, [Next]_vars PROVE IInv'
    <2>1. /\ Shape /\ BoundsInv /\ EdgesInv /\ SearchInv
          /\ TraceInv /\ VerdictInv /\ KahnInv /\ ReachInv
      BY <1>2 DEF IInv
    <2>2. Shape' /\ BoundsInv' /\ EdgesInv' /\ SearchInv'
      BY <1>2, <2>1, ShapeStep, BoundsStep, EdgesStep, SearchStep
    <2>3. TraceInv' /\ VerdictInv' /\ KahnInv' /\ ReachInv'
      BY <1>2, <2>1, TraceStep, VerdictStep, KahnStep, ReachStep
    <2> QED BY <2>2, <2>3 DEF IInv
  <1> QED BY <1>1, <1>2, PTL DEF Spec

(* No loop of build() leaves the vectors it indexes, and find_cycle's      *)
(* colours, stack and parents have the shape on which its verdict rests.   *)
THEOREM SearchAlwaysSound == Spec => []SearchInvariant
  <1>1. IInv => SearchInvariant
    <2> SUFFICES ASSUME IInv PROVE SearchInvariant
      OBVIOUS
    <2>1. Shape /\ BoundsInv /\ SearchInv /\ TraceInv /\ KahnInv
      BY DEF IInv
    <2>2. \A i \in DOMAIN stack : /\ stack[i].node \in N
                                  /\ stack[i].cursor \in 1 .. Len(succ[stack[i].node]) + 1
      <3> SUFFICES ASSUME NEW i \in DOMAIN stack
                   PROVE  /\ stack[i].node \in N
                          /\ stack[i].cursor \in 1 .. Len(succ[stack[i].node]) + 1
        OBVIOUS
      <3>1. stack[i].node \in N /\ stack[i].cursor \in Nat \ {0}
        <4> DEFINE R == [node : N, cursor : Nat \ {0}]
        <4>1. stack \in Seq(R)
          BY <2>1 DEF Shape
        <4> HIDE DEF R
        <4>2. stack[i] \in R
          BY <4>1
        <4> QED BY <4>2 DEF R
      <3>2. Len(succ[stack[i].node]) \in Nat
        <4>1. succ \in [N -> Seq(N)]
          BY <2>1 DEF Shape
        <4>2. succ[stack[i].node] \in Seq(N)
          BY <3>1, <4>1
        <4> QED BY <4>2
      <3>3. stack[i].cursor <= Len(succ[stack[i].node]) + 1
        BY <2>1 DEF BoundsInv
      <3> QED BY <3>1, <3>2, <3>3
    <2>3. remaining \in [N -> Nat]
      <3>1. \A j \in N : remaining[j] \in Nat
        <4> SUFFICES ASSUME NEW j \in N PROVE remaining[j] \in Nat
          OBVIOUS
        <4>1. remaining[j] = 0 \/ remaining[j] = Cardinality(Missing(j))
          BY <2>1 DEF KahnInv
        <4>2. Cardinality(Missing(j)) \in Nat
          BY <2>1, TasksFinite DEF Missing
        <4> QED BY <4>1, <4>2
      <3>2. remaining \in [N -> Int]
        BY <2>1 DEF Shape
      <3> QED BY <3>1, <3>2
    <2>4. Elements(cycle) \subseteq N /\ Elements(topo) \subseteq N /\ Elements(frontier) \subseteq N
      BY <2>1, ElementsIn DEF Shape, TraceInv
    <2>5. node # 0 => cursor \in 1 .. Len(succ[node]) + 1
      <3> SUFFICES ASSUME node # 0 PROVE cursor \in 1 .. Len(succ[node]) + 1
        OBVIOUS
      <3>1. Len(succ[node]) \in Nat /\ cursor \in Nat \ {0}
        BY <2>1 DEF Shape
      <3> QED BY <2>1, <3>1 DEF BoundsInv
    <2>6. TypeOK
      BY <2>1, <2>2, <2>3, <2>4, <2>5 DEF Shape, TraceInv, TypeOK
    <2>7. phase \in {"cycle", "trace"} =>
             \A i \in N : colour[i] = "black" => \A j \in Elements(succ[i]) : colour[j] = "black"
      BY <2>1 DEF SearchInv, BlackInv, Black
    <2>8. phase \in {"cycle", "trace"} => GreyInv
      BY <2>1 DEF SearchInv
    <2> QED BY <2>6, <2>7, <2>8 DEF SearchInvariant, GreyInv
  <1> QED BY <1>1, BuildInvariant, PTL

(* build() accepts exactly the pipelines that can be executed, and the     *)
(* cycle it names in an error is one: for any number of tasks and edges.   *)
THEOREM AcceptsTheExecutable == Spec => []AcceptsExactly
  <1>1. IInv => AcceptsExactly
    <2> SUFFICES ASSUME IInv PROVE AcceptsExactly
      OBVIOUS
    <2>1. Shape /\ EdgesInv /\ VerdictInv
      BY DEF IInv
    <2>2. phase \in {"built", "search", "answer"} => Distinct /\ AllKnown
      BY <2>1, AllRead
    <2> QED BY <2>1, <2>2 DEF VerdictInv, AcceptsExactly
  <1> QED BY <1>1, BuildInvariant, PTL

(* When the heap is empty every task is in the order.                      *)
LEMMA OrderComplete ==
    ASSUME IInv, phase \in {"built", "search", "answer"}
    PROVE  Elements(topo) = N /\ Len(topo) = Len(nodes)
  <1>1. Shape /\ VerdictInv /\ KahnInv
    BY DEF IInv
  <1>2. /\ ready = {} /\ Len(topo) = Cardinality(Elements(topo))
        /\ \A j \in N : remaining[j] = Cardinality(Missing(j))
        /\ ready = {j \in N \ Elements(topo) : remaining[j] = 0}
        /\ WellFounded
    BY <1>1 DEF KahnInv, VerdictInv
  <1> DEFINE U == N \ Elements(topo)
  <1>3. ASSUME U # {} PROVE FALSE
    <2>1. PICK j \in U : \A i \in U : <<i, j>> \notin Edge
      BY <1>2, <1>3 DEF WellFounded
    <2>2. Missing(j) = {}
      BY <2>1 DEF Missing
    <2>3. remaining[j] = 0
      BY <1>2, <2>1, <2>2, FS_EmptySet
    <2> QED BY <1>2, <2>1, <2>3
  <1>4. Elements(topo) = N
    BY <1>1, <1>3, ElementsIn DEF Shape
  <1> QED BY <1>1, <1>2, <1>4, TasksFinite

(* The search ends when nothing it has seen leads to anything else.        *)
LEMMA AnswerIsDownstream ==
    ASSUME IInv, phase = "answer"
    PROVE  hits = Downstream(root)
  <1>1. Shape /\ EdgesInv /\ VerdictInv /\ ReachInv
    BY DEF IInv
  <1>2. /\ root \in N /\ seen = hits \cup {root} /\ root \notin hits
        /\ hits \subseteq Downstream(root)
        /\ \A j \in hits : \E i \in seen : <<i, j>> \in Edge
        /\ \A i \in seen \ (Elements(frontier) \cup {node}) :
             Elements(succ[i]) \subseteq seen
        /\ Expanded /\ frontier = <<>>
    BY <1>1 DEF ReachInv
  <1>3. WellFounded /\ \A i, j \in N : j \in Elements(succ[i]) <=> <<i, j>> \in Edge
    BY <1>1, AllRead DEF VerdictInv
  <1>4. seen \in SUBSET N /\ hits \in SUBSET N /\ seen # {}
    BY <1>1, <1>2 DEF Shape
  <1>5. \A i \in seen : <<i, root>> \notin Edge
    <2>1. PICK j \in seen : \A i \in seen : <<i, j>> \notin Edge
      BY <1>3, <1>4 DEF WellFounded
    <2> QED BY <1>2, <2>1
  <1>6. ASSUME NEW i \in seen PROVE Elements(succ[i]) \subseteq seen
    <2>1. Elements(frontier) = {}
      BY <1>2 DEF Elements
    <2>2. CASE i = node
      <3>1. node # 0
        BY <1>1, <1>4, <2>2 DEF Shape, N
      <3> QED BY <1>1, <1>2, <2>2, <3>1, ExpandedSeen
    <2>3. CASE i # node
      BY <1>2, <2>1, <2>3
    <2> QED BY <2>2, <2>3
  <1>7. \A k \in N : (\E l \in hits \cup {root} : <<l, k>> \in Edge) => k \in hits
    <2> SUFFICES ASSUME NEW k \in N, NEW l \in seen, <<l, k>> \in Edge PROVE k \in hits
      BY <1>2
    <2>1. k \in seen
      BY <1>3, <1>4, <1>6
    <2> QED BY <1>2, <1>5, <2>1
  <1>8. Downstream(root) \subseteq hits
    BY <1>4, <1>7 DEF Downstream
  <1> QED BY <1>2, <1>8

(* What the scheduler reads of a graph that build() accepts is exact: the  *)
(* counters are the numbers of distinct dependencies, the order has every  *)
(* task after its dependencies and is determined by the graph, and         *)
(* transitive_dependents answers what is downstream and nothing else.      *)
THEOREM ResultAlwaysExact == Spec => []ResultExact
  <1>1. IInv => CountersExact
    <2> SUFFICES ASSUME IInv PROVE CountersExact
      OBVIOUS
    <2>1. Shape /\ EdgesInv /\ KahnInv
      BY DEF IInv
    <2>2. ASSUME phase = "kahn", NEW j \in N
          PROVE  remaining[j] = Cardinality({i \in N : <<i, j>> \in Edge /\ i \notin Elements(topo)})
      BY <2>1, <2>2 DEF KahnInv, Missing
    <2>3. ASSUME phase = "built", NEW j \in N
          PROVE  Len(pred[j]) = Cardinality({i \in N : <<i, j>> \in Edge})
      <3>1. /\ \A i \in N : i \in Elements(pred[j]) <=> <<i, j>> \in Edge
            /\ Len(pred[j]) = Cardinality(Elements(pred[j]))
        BY <2>1, <2>3, AllRead
      <3>2. Elements(pred[j]) \subseteq N
        <4>1. pred[j] \in Seq(N)
          BY <2>1 DEF Shape
        <4> QED BY <4>1, ElementsIn
      <3>3. Elements(pred[j]) = {i \in N : <<i, j>> \in Edge}
        BY <3>1, <3>2
      <3> QED BY <3>1, <3>3
    <2> QED BY <2>2, <2>3 DEF CountersExact
  <1>2. IInv => OrderDetermined
    <2> SUFFICES ASSUME IInv, phase = "built" PROVE OrderDetermined
      BY DEF OrderDetermined
    <2>1. \A k \in DOMAIN topo : PlacedRight(k)
      BY DEF IInv, KahnInv
    <2>2. Len(topo) = Len(nodes)
      BY OrderComplete
    <2> QED BY <2>1, <2>2 DEF OrderDetermined, PlacedRight
  <1>3. IInv => AnswerExact
    BY AnswerIsDownstream DEF AnswerExact
  <1>4. IInv => ResultExact
    BY <1>1, <1>2, <1>3 DEF ResultExact
  <1> QED BY <1>4, BuildInvariant, PTL

=============================================================================

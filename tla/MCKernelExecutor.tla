-------------------------- MODULE MCKernelExecutor --------------------------
(***************************************************************************)
(* Instances of KernelExecutor for TLC: queries of three and four vertices *)
(* over data graphs of three or four vertices in two ranges.               *)
(***************************************************************************)
EXTENDS KernelExecutor

Low == {1, 2, 3}
High == {4}
Vertices == Low \cup High

(* All ways to give n query vertices a range, in the scheduler's order. *)
Three == <<<<Low, Low, Low>>, <<Low, Low, High>>, <<Low, High, Low>>, <<Low, High, High>>,
           <<High, Low, Low>>, <<High, Low, High>>, <<High, High, Low>>, <<High, High, High>>>>
Four == [i \in 1 .. 16 |-> Three[(i + 1) \div 2] \o <<IF i % 2 = 1 THEN Low ELSE High>>]

Pairs == {p \in Vertices \X Vertices : p[1] # p[2]}

(* Nearly complete graphs of all four vertices, and those of three. *)
Dense == {Pairs \ g : g \in {h \in SUBSET Pairs : Cardinality(h) <= 1}}
Small == {g \in SUBSET {p \in Pairs : 3 \notin {p[1], p[2]}} : Cardinality(g) >= 3}
Graphs == Dense \cup Small

E(lo, hi) == [lo |-> lo, hi |-> hi, kind |-> "regular"]
NotE(lo, hi) == [lo |-> lo, hi |-> hi, kind |-> "negative"]
OptE(lo, hi) == [lo |-> lo, hi |-> hi, kind |-> "optional"]

(* The shards a subtask needs exist. *)
Exists(s, edges, g) ==
  \A e \in DOMAIN edges :
    \E p \in g : p[1] \in s[edges[e].lo] /\ p[2] \in s[edges[e].hi]

Query(n, edges, apart) == [n |-> n, edges |-> edges, apart |-> apart]

Triangle == Query(3, <<E(1, 2), E(1, 3), E(2, 3)>>, <<{}, {}, {}>>)
Wedge == Query(3, <<E(1, 2), E(2, 3)>>, <<{}, {}, {1}>>)
OpenWedge == Query(3, <<E(1, 2), NotE(1, 3), E(2, 3)>>, <<{}, {}, {1}>>)
Square == Query(4, <<E(1, 2), E(1, 3), E(2, 4), E(3, 4)>>, <<{}, {}, {2}, {}>>)
Kite == Query(4, <<E(1, 2), NotE(1, 3), E(2, 3), E(3, 4)>>, <<{}, {}, {}, {1, 2}>>)

(* An edge to the optional vertex, two such edges, one constrained, two    *)
(* optional vertices, and one after a vertex with two lists.               *)
OptionalEdge == Query(3, <<E(1, 2), OptE(2, 3)>>, <<{}, {}, {}>>)
OptionalPair == Query(3, <<E(1, 2), OptE(1, 3), OptE(2, 3)>>, <<{}, {}, {}>>)
OptionalApart == Query(3, <<E(1, 2), OptE(2, 3)>>, <<{}, {}, {1}>>)
OptionalStar == Query(4, <<E(1, 2), OptE(1, 3), OptE(2, 4)>>, <<{}, {}, {}, {}>>)
OptionalTwice == Query(4, <<E(1, 2), E(1, 2), OptE(1, 3), OptE(2, 3), OptE(1, 4)>>, <<{}, {}, {}, {}>>)
OptionalTail == Query(4, <<E(1, 2), E(1, 3), E(2, 3), OptE(2, 4)>>, <<{}, {}, {}, {}>>)

JoinOf(join, q, g, subtasks, threshold) ==
  [join |-> join, n |-> q.n, apart |-> q.apart, subtasks |-> subtasks,
   edges |-> [e \in DOMAIN q.edges |->
                [lo |-> q.edges[e].lo, hi |-> q.edges[e].hi, kind |-> q.edges[e].kind, data |-> g]],
   threshold |-> threshold, maxBlocks |-> 2, blocks |-> 3]

TaskOf(q, g, subtasks, threshold) == JoinOf("LFTJ", q, g, subtasks, threshold)

SubtasksOf(q, g) ==
  SelectSeq(IF q.n = 3 THEN Three ELSE Four, LAMBDA s : Exists(s, q.edges, g))

Regulars == {Triangle, Wedge, OpenWedge, Square, Kite}
Optionals == {OptionalEdge, OptionalPair, OptionalApart, OptionalStar, OptionalTail}

(* Edge orders of table joins: a path, cycles, and orders in which an edge *)
(* does not touch the earlier ones.                                        *)
Path == Query(3, <<E(1, 2), E(2, 3)>>, <<{}, {}, {}>>)
Cycle == Query(4, <<E(1, 2), E(2, 3), E(3, 4), E(1, 4)>>, <<{}, {}, {}, {}>>)
Apart == Query(4, <<E(1, 2), E(3, 4)>>, <<{}, {}, {}, {}>>)
ApartFirst == Query(4, <<E(1, 2), E(3, 4), E(2, 3)>>, <<{}, {}, {}, {}>>)

(* Subtasks whose first vertex is in the first range, which has more than  *)
(* one vertex; a graph of two sources of each shard of the first edge.     *)
TableTasks ==
  {t \in {JoinOf("TABLE", q, g, SelectSeq(SubtasksOf(q, g), LAMBDA s : s[1] = Low), k) :
            q \in {Path, Triangle, Cycle, Apart, ApartFirst}, g \in Graphs, k \in {1, 2}} :
     /\ t.subtasks # <<>>
     /\ \A i \in DOMAIN t.subtasks :
          Cardinality({p[1] : p \in {q \in t.edges[1].data :
            q[1] \in t.subtasks[i][1] /\ q[2] \in t.subtasks[i][2]}}) > 1}

AllTasks ==
  TableTasks \cup
  {t \in {TaskOf(q, g, SubtasksOf(q, g), k) :
            q \in Regulars \cup Optionals, g \in Graphs, k \in {1, 2}}
         \cup {TaskOf(OptionalTwice, g, <<[v \in 1 .. 4 |-> Vertices]>>, 1) : g \in Dense} :
     t.subtasks # <<>> /\ FlagsFit(t)}

(* A negative edge and a constraint join at a vertex that is not the last, *)
(* and vertex 1 has no neighbour in the range of that vertex.              *)
NegativeTask ==
  {TaskOf(Query(4, <<E(1, 2), NotE(1, 3), E(2, 3), E(3, 4)>>, <<{}, {}, {1}, {}>>),
          {<<1, 3>>, <<2, 4>>, <<2, 5>>, <<3, 4>>, <<3, 5>>, <<4, 6>>, <<5, 6>>},
          <<<<{1, 2, 3}, {1, 2, 3}, {4, 5, 6}, {4, 5, 6}>>>>,
          1)}

(* An optional edge from an optional vertex, to the second of two ranges   *)
(* in the second subtask; vertex 3 has a neighbour only in the first.      *)
ChainTask ==
  {TaskOf(Query(4, <<E(1, 2), OptE(2, 3), OptE(3, 4)>>, <<{}, {}, {}, {}>>),
          {<<1, 2>>, <<2, 3>>, <<3, 5>>, <<4, 6>>},
          <<<<{1}, {2}, {3, 4}, {5}>>, <<{1}, {2}, {3, 4}, {6}>>>>,
          1)}
=============================================================================

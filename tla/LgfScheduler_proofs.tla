------------------------- MODULE LgfScheduler_proofs -------------------------
(***************************************************************************)
(* The planner, for every query and data graph.  What it depends on of the *)
(* parser comes first, then what the orders are, what the candidates of an *)
(* edge are, and the parts of the invariant of the search: where it is,    *)
(* the subtasks, the tree, the ranges, and that no match is lost.          *)
(***************************************************************************)
EXTENDS LgfScheduler, SequenceLemmas, SetLemmas, FiniteSetTheorems, TLAPS

(* Only the text of an undirected edge without a prefix is written as it   *)
(* was read: _parse_query_edges_data writes none for an undirected edge,   *)
(* whatever prefix it took off.                                            *)
LEMMA UndirectedReadings ==
  ASSUME NEW text, Accepted(text), Reading(text).dir = "undirected"
  PROVE  Reading(text).kind = "regular"
<1> DEFINE all == Tokens(text)
           prefix == IF Len(all) = 5 /\ all[1] \in {"OPTIONAL", "NOT"} THEN all[1] ELSE ""
           t == IF Len(all) = 5 THEN Tail(all) ELSE all
<1>1. Reading(text) =
        CASE Len(t) = 4 /\ t[3] = "" ->
               Edge(KindOf(prefix), t[1], t[2], t[4], "directed", Text(prefix, t[1], "->", t[2], t[4]))
          [] Len(t) = 4 /\ t[3] # "" /\ t[2] = "" ->
               Edge(KindOf(prefix), t[4], t[3], t[1], "directed", Text(prefix, t[1], "<-", t[3], t[4]))
          [] Len(t) = 3 ->
               Edge(KindOf(prefix), t[1], t[2], t[3], "undirected", Text("", t[1], "-", t[2], t[3]))
          [] OTHER -> NoEdge
  BY DEF Reading
<1> DEFINE r == Reading(text)
           right == Edge(KindOf(prefix), t[1], t[2], t[4], "directed", Text(prefix, t[1], "->", t[2], t[4]))
           left == Edge(KindOf(prefix), t[4], t[3], t[1], "directed", Text(prefix, t[1], "<-", t[3], t[4]))
           plain == Edge(KindOf(prefix), t[1], t[2], t[3], "undirected", Text("", t[1], "-", t[2], t[3]))
           isRight == Len(t) = 4 /\ t[3] = ""
           isLeft == Len(t) = 4 /\ t[3] # "" /\ t[2] = ""
           isPlain == Len(t) = 3
<1> HIDE DEF t, prefix
<1>2. r = plain
  <2>1. r = CASE isRight -> right [] isLeft -> left [] isPlain -> plain [] OTHER -> NoEdge
    BY <1>1
  <2>2. right.dir = "directed" /\ left.dir = "directed" /\ NoEdge.dir = "" /\ r.dir = "undirected"
    BY DEF Edge, NoEdge
  <2>3. ~(isRight /\ isLeft) /\ ~(isRight /\ isPlain) /\ ~(isLeft /\ isPlain)
    <3>1. Len(t) = 4 => Len(t) # 3
      OBVIOUS
    <3> QED
      BY <3>1
  <2> HIDE DEF r, right, left, plain, isRight, isLeft, isPlain
  <2>4. isRight => r = right
    BY <2>1, <2>3
  <2>5. isLeft => r = left
    BY <2>1, <2>3
  <2>6. isPlain => r = plain
    BY <2>1, <2>3
  <2>7. ~isRight /\ ~isLeft /\ ~isPlain => r = NoEdge
    BY <2>1
  <2> QED
    BY <2>2, <2>4, <2>5, <2>6, <2>7
<1>3. text = Text("", t[1], "-", t[2], t[3])
  <2>1. plain.target = Text("", t[1], "-", t[2], t[3])
    BY DEF Edge
  <2> QED
    BY <1>2, <2>1 DEF Accepted
<1>4. all = <<text.left, text.label, text.right>>
  <2>1. text.prefix = "" /\ text.arrow = "-"
    BY <1>3 DEF Text
  <2>2. all = <<>> \o <<text.left, text.label, text.right>>
    BY <2>1 DEF Tokens
  <2> QED
    BY <2>2
<1>5. prefix = ""
  BY <1>4 DEF prefix
<1>6. KindOf(prefix) = "regular"
  BY <1>5 DEF KindOf
<1>7. plain.kind = KindOf(prefix)
  BY DEF Edge
<1> QED
  BY <1>2, <1>6, <1>7

(* The edges are those of a query that the parser let pass. *)
EdgesParsed ==
  /\ phase \in {"parse", "graph"} => edges = <<>>
  /\ phase = "graph" => Parses(Query)
  /\ edges = <<>> \/ (edges = EdgesInfo(Query) /\ Parses(Query))

(* No step takes edges from anywhere else. *)
LEMMA NextEdgesParsed == EdgesParsed /\ [Next]_vars => EdgesParsed'
<1> SUFFICES ASSUME EdgesParsed, [Next]_vars PROVE EdgesParsed'
  OBVIOUS
<1>1. CASE ParseQuery
  BY <1>1 DEF ParseQuery, EdgesParsed, queryVars, Query
<1>2. CASE MakeQueryGraph
  <2>1. CASE WellFormed(Query)
    BY <1>2, <2>1 DEF MakeQueryGraph, EdgesParsed, queryVars, Query
  <2>2. CASE ~WellFormed(Query)
    BY <1>2, <2>2 DEF MakeQueryGraph, EdgesParsed, queryVars, Query
  <2> QED
    BY <2>1, <2>2
<1>3. CASE InitDevices
  BY <1>3 DEF InitDevices, EdgesParsed, queryVars, Query
<1>4. CASE MakeOrder
  BY <1>4 DEF MakeOrder, EdgesParsed, queryVars, Query
<1>5. CASE OrderFails
  BY <1>5 DEF OrderFails, EdgesParsed, queryVars, Query
<1>6. CASE Skip \/ Enter
  BY <1>6 DEF Skip, Enter, EdgesParsed, queryVars, Query
<1>7. CASE Found \/ Return
  BY <1>7 DEF Found, Return, Back, EdgesParsed, queryVars, Query
<1>8. CASE Finish
  BY <1>8 DEF Finish, EdgesParsed, queryVars, Query
<1>9. CASE UNCHANGED vars
  BY <1>9 DEF vars, EdgesParsed, queryVars, Query
<1> QED
  BY <1>1, <1>2, <1>3, <1>4, <1>5, <1>6, <1>7, <1>8, <1>9 DEF Next

(* simple_parser lets no undirected edge pass that is negative or          *)
(* optional, whatever the texts of the query are.                          *)
THEOREM UndirectedStayRegular == Spec => []UndirectedAreRegular
<1>1. Init => EdgesParsed
  BY DEF Init, EdgesParsed
<1>2. EdgesParsed => UndirectedAreRegular
  <2> SUFFICES ASSUME EdgesParsed, NEW i \in DOMAIN edges, edges[i].dir = "undirected"
               PROVE  edges[i].kind = "regular"
    BY DEF UndirectedAreRegular
  <2>1. edges # <<>>
    OBVIOUS
  <2>2. edges = EdgesInfo(Query) /\ Parses(Query)
    BY <2>1 DEF EdgesParsed
  <2>3. i \in DOMAIN Query.edges /\ edges[i].dir = Reading(Query.edges[i]).dir
        /\ edges[i].kind = Reading(Query.edges[i]).kind
    BY <2>2 DEF EdgesInfo
  <2>4. Accepted(Query.edges[i])
    BY <2>2, <2>3 DEF Parses
  <2> QED
    BY <2>3, <2>4, UndirectedReadings
<1> QED
  BY <1>1, <1>2, NextEdgesParsed, PTL DEF Spec

-----------------------------------------------------------------------------
(* Sets in order.                                                          *)

(* Sorted has every element of the set once, in the order of the pairs. *)
LEMMA SortedInOrder ==
  ASSUME NEW S, IsFiniteSet(S), NEW R, StrictOrder(R, S)
  PROVE  /\ Sorted(S, R) \in Seq(S) /\ Len(Sorted(S, R)) = Cardinality(S)
         /\ \A i, j \in 1 .. Len(Sorted(S, R)) : i < j => <<Sorted(S, R)[i], Sorted(S, R)[j]>> \in R
         /\ \A x \in S : \E i \in 1 .. Len(Sorted(S, R)) : Sorted(S, R)[i] = x
<1> DEFINE n == Cardinality(S)
           Rank(x) == Cardinality(Lower(R, S, x))
           s == Sorted(S, R)
<1>1. n \in Nat
  BY FS_CardinalityType
<1>2. s = [i \in 1 .. n |-> CHOOSE x \in S : Rank(x) = i - 1]
  BY DEF Sorted, Lower
<1>3. \A x \in S : Rank(x) \in 0 .. n - 1
  BY RankIsSmall
<1>4. \A i \in 0 .. n - 1 : \E x \in S : Rank(x) = i
  BY RankedBy
<1>5. \A x, y \in S : Rank(x) = Rank(y) => x = y
  BY RankedBy
<1>6. \A x, y \in S : <<x, y>> \in R => Rank(x) < Rank(y)
  BY RankGrows
<1> HIDE DEF Rank, s, n
<1>7. ASSUME NEW i \in 1 .. n PROVE s[i] \in S /\ Rank(s[i]) = i - 1
  <2>1. i - 1 \in 0 .. n - 1
    BY <1>1
  <2>2. \E x \in S : Rank(x) = i - 1
    BY <1>4, <2>1
  <2>3. s[i] = CHOOSE x \in S : Rank(x) = i - 1
    BY <1>2
  <2> QED
    BY <2>2, <2>3
<1>8. s \in [1 .. n -> S]
  <2>1. s = [i \in 1 .. n |-> s[i]]
    BY <1>2
  <2> QED
    BY <1>7, <2>1
<1>9. s \in Seq(S) /\ Len(s) = n
  BY <1>1, <1>8, Numbered
<1>10. ASSUME NEW i \in 1 .. n, NEW j \in 1 .. n, i < j PROVE <<s[i], s[j]>> \in R
  <2>1. Rank(s[i]) < Rank(s[j])
    BY <1>1, <1>7, <1>10
  <2>2. s[i] = s[j] \/ <<s[i], s[j]>> \in R \/ <<s[j], s[i]>> \in R
    BY <1>7 DEF StrictOrder
  <2>3. Rank(s[i]) \in Nat /\ Rank(s[j]) \in Nat
    BY <1>1, <1>7
  <2>4. s[i] # s[j]
    BY <2>1, <2>3
  <2>5. <<s[j], s[i]>> \notin R
    <3>1. <<s[j], s[i]>> \in R => Rank(s[j]) < Rank(s[i])
      BY <1>6, <1>7
    <3> QED
      BY <2>1, <2>3, <3>1
  <2> QED
    BY <2>2, <2>4, <2>5
<1>11. ASSUME NEW x \in S PROVE \E i \in 1 .. n : s[i] = x
  <2> DEFINE i == Rank(x) + 1
  <2>1. i \in 1 .. n /\ i - 1 = Rank(x)
    BY <1>1, <1>3
  <2>2. s[i] \in S /\ Rank(s[i]) = Rank(x)
    BY <1>7, <2>1
  <2> QED
    BY <1>5, <2>1, <2>2
<1> QED
  BY <1>9, <1>10, <1>11 DEF s, n

(* Numbers that stand in the order of their size. *)
LEMMA NumbersInOrder ==
  ASSUME NEW S \in SUBSET Nat
  PROVE  StrictOrder({p \in S \X S : p[1] < p[2]}, S)
BY DEF StrictOrder

-----------------------------------------------------------------------------
(* The query graph.                                                        *)

(* A text that is read as something is read as one kind of edge in one     *)
(* direction.                                                              *)
LEMMA KindsOfReadings ==
  ASSUME NEW text
  PROVE  \/ Reading(text) = NoEdge
         \/ /\ Reading(text).kind \in {"regular", "negative", "optional"}
            /\ Reading(text).dir \in {"directed", "undirected"}
<1> DEFINE all == Tokens(text)
           prefix == IF Len(all) = 5 /\ all[1] \in {"OPTIONAL", "NOT"} THEN all[1] ELSE ""
           t == IF Len(all) = 5 THEN Tail(all) ELSE all
           r == Reading(text)
           right == Edge(KindOf(prefix), t[1], t[2], t[4], "directed", Text(prefix, t[1], "->", t[2], t[4]))
           left == Edge(KindOf(prefix), t[4], t[3], t[1], "directed", Text(prefix, t[1], "<-", t[3], t[4]))
           plain == Edge(KindOf(prefix), t[1], t[2], t[3], "undirected", Text("", t[1], "-", t[2], t[3]))
           isRight == Len(t) = 4 /\ t[3] = ""
           isLeft == Len(t) = 4 /\ t[3] # "" /\ t[2] = ""
           isPlain == Len(t) = 3
<1>1. r = CASE isRight -> right [] isLeft -> left [] isPlain -> plain [] OTHER -> NoEdge
  BY DEF Reading
<1> HIDE DEF t, prefix
<1>2. KindOf(prefix) \in {"regular", "negative", "optional"}
  BY DEF KindOf
<1>3. /\ right.kind = KindOf(prefix) /\ left.kind = KindOf(prefix) /\ plain.kind = KindOf(prefix)
      /\ right.dir = "directed" /\ left.dir = "directed" /\ plain.dir = "undirected"
  BY DEF Edge
<1>4. ~(isRight /\ isLeft) /\ ~(isRight /\ isPlain) /\ ~(isLeft /\ isPlain)
  <2>1. Len(t) = 4 => Len(t) # 3
    OBVIOUS
  <2> QED
    BY <2>1
<1> HIDE DEF r, right, left, plain, isRight, isLeft, isPlain
<1>5. r \in {right, left, plain} \/ r = NoEdge
  <2>1. isRight => r = right
    BY <1>1, <1>4
  <2>2. isLeft => r = left
    BY <1>1, <1>4
  <2>3. isPlain => r = plain
    BY <1>1, <1>4
  <2>4. ~isRight /\ ~isLeft /\ ~isPlain => r = NoEdge
    BY <1>1
  <2> QED
    BY <2>1, <2>2, <2>3, <2>4
<1> QED
  BY <1>2, <1>3, <1>5 DEF r

(* A query as it is given to the planner. *)
GoodQuery(q) == Parses(q) /\ WellFormed(q) /\ q.vertices \in Seq(ToSet(q.vertices)) /\ q.edges \in Seq(ToSet(q.edges))

(* The edges of a query graph join two vertices each. *)
LEMMA EdgesJoinVertices ==
  ASSUME NEW q, GoodQuery(q)
  PROVE  /\ Len(EdgesInfo(q)) \in Nat \ {0} /\ DOMAIN EdgesInfo(q) = 1 .. Len(EdgesInfo(q))
         /\ \A i \in DOMAIN EdgesInfo(q) : \E e \in {EdgesInfo(q)[i]} :
              /\ e.v1 \in DOMAIN q.vertices /\ e.v2 \in DOMAIN q.vertices /\ e.v1 # e.v2
              /\ e.kind \in {"regular", "negative", "optional"} /\ e.dir \in {"directed", "undirected"}
              /\ e.dir = "undirected" => e.kind = "regular"
<1> DEFINE es == EdgesInfo(q)
           n == Len(q.edges)
<1>1. n \in Nat \ {0} /\ DOMAIN q.edges = 1 .. n
  BY DEF GoodQuery, WellFormed
<1>2. Len(es) = n /\ DOMAIN es = 1 .. n
  BY <1>1 DEF EdgesInfo
<1>3. ASSUME NEW i \in 1 .. n
      PROVE  /\ es[i].v1 \in DOMAIN q.vertices /\ es[i].v2 \in DOMAIN q.vertices /\ es[i].v1 # es[i].v2
             /\ es[i].kind \in {"regular", "negative", "optional"} /\ es[i].dir \in {"directed", "undirected"}
             /\ es[i].dir = "undirected" => es[i].kind = "regular"
  <2> DEFINE r == Reading(q.edges[i])
  <2>1. Named(q, r.from) /\ Named(q, r.to) /\ r.from # r.to
    BY <1>1 DEF GoodQuery, WellFormed
  <2>2. /\ es[i].v1 = IdOf(q, r.from) /\ es[i].v2 = IdOf(q, r.to)
        /\ es[i].kind = r.kind /\ es[i].dir = r.dir
    BY <1>1 DEF EdgesInfo
  <2>3. Accepted(q.edges[i])
    BY <1>1 DEF GoodQuery, Parses
  <2>4. r # NoEdge
    <3>1. NoEdge.from = NoEdge.to
      BY DEF NoEdge, Edge
    <3> QED
      BY <2>1, <3>1
  <2>5. r.kind \in {"regular", "negative", "optional"} /\ r.dir \in {"directed", "undirected"}
    BY <2>4, KindsOfReadings
  <2>6. r.dir = "undirected" => r.kind = "regular"
    BY <2>3, UndirectedReadings
  <2> HIDE DEF r
  <2>7. ASSUME NEW name, Named(q, name)
        PROVE  IdOf(q, name) \in DOMAIN q.vertices /\ q.vertices[IdOf(q, name)].name = name
    BY <2>7 DEF Named, IdOf
  <2> QED
    BY <2>1, <2>2, <2>5, <2>6, <2>7
<1> QED
  BY <1>1, <1>2, <1>3

(* No edge that is not optional comes after an optional one. *)
LEMMA OptionalComeLast ==
  ASSUME NEW q, GoodQuery(q), NEW j \in DOMAIN EdgesInfo(q), NEW i \in DOMAIN EdgesInfo(q), j <= i,
         EdgesInfo(q)[j].kind = "optional"
  PROVE  EdgesInfo(q)[i].kind = "optional"
<1> DEFINE es == EdgesInfo(q)
           n == Len(es)
           T == {k \in 0 .. n : k >= j => es[k].kind = "optional"}
<1>1. n \in Nat /\ DOMAIN es = 1 .. n
  BY EdgesJoinVertices
<1>2. \A k \in 2 .. n : ~(es[k].kind # "optional" /\ es[k - 1].kind = "optional")
  BY DEF GoodQuery, WellFormed
<1> HIDE DEF n
<1>3. j \in 1 .. n /\ i \in 1 .. n
  BY <1>1 DEF n
<1>4. 0 \in T
  BY <1>1, <1>3
<1>5. ASSUME NEW k \in 1 .. n, k - 1 \in T PROVE k \in T
  <2>1. CASE k = j
    BY <1>1, <1>3, <2>1
  <2>2. CASE k < j
    BY <1>1, <1>3, <2>2
  <2>3. CASE k > j
    <3>1. k - 1 >= j /\ k \in 2 .. n
      BY <1>1, <1>3, <2>3
    <3>2. es[k - 1].kind = "optional"
      BY <1>5, <3>1
    <3>3. es[k].kind = "optional"
      BY <1>2, <3>1, <3>2
    <3> QED
      BY <1>1, <3>3
  <2> QED
    BY <1>1, <1>3, <2>1, <2>2, <2>3
<1> HIDE DEF T
<1>6. i \in T
  <2>1. \A k \in 0 .. n : k \in T
    BY <1>1, <1>4, <1>5, CountingUp
  <2> QED
    BY <1>1, <1>3, <2>1
<1> QED
  BY <1>3, <1>6 DEF T

(* An end of an edge that is not optional is not an optional vertex. *)
LEMMA OptionalVertices ==
  ASSUME NEW q, GoodQuery(q), NEW i \in DOMAIN EdgesInfo(q), EdgesInfo(q)[i].kind # "optional",
         NEW v \in Ends(EdgesInfo(q)[i])
  PROVE  ~IsOptionalVertex(EdgesInfo(q), v)
<1> DEFINE es == EdgesInfo(q)
<1> SUFFICES ASSUME NEW j \in DOMAIN es, es[j].kind = "optional", ~IsRegularBefore(es, j, v) PROVE FALSE
  BY DEF IsOptionalVertex
<1>1. Len(es) \in Nat /\ DOMAIN es = 1 .. Len(es)
  BY EdgesJoinVertices
<1>2. ~(j <= i)
  BY OptionalComeLast
<1>3. i \in 1 .. j - 1
  BY <1>1, <1>2
<1> QED
  BY <1>3 DEF IsRegularBefore

(* What the query graph is made of, once it is made. *)
Graph ==
  /\ input \in Inputs
  /\ edges = EdgesInfo(Query) /\ Parses(Query) /\ WellFormed(Query)
  /\ optional = [v \in Vertices |-> IsOptionalVertex(edges, v)]

(* What the planner depends on of it. *)
GraphFacts ==
  /\ Len(Query.vertices) \in Nat /\ Vertices = 1 .. Len(Query.vertices)
  /\ Len(edges) \in Nat \ {0} /\ DOMAIN edges = 1 .. Len(edges)
  /\ optional \in [Vertices -> BOOLEAN]
  /\ \A i \in DOMAIN edges :
       /\ edges[i].v1 \in Vertices /\ edges[i].v2 \in Vertices /\ edges[i].v1 # edges[i].v2
       /\ edges[i].kind \in {"regular", "negative", "optional"}
       /\ edges[i].dir \in {"directed", "undirected"}
       /\ edges[i].dir = "undirected" => edges[i].kind = "regular"
       /\ WithRegular(edges, i) <=> (optional[edges[i].v1] # optional[edges[i].v2])
       /\ WithRegular(edges, i) => edges[i].kind = "optional"
  /\ \A v \in Vertices : \E i \in DOMAIN edges : v \in Ends(edges[i])

LEMMA GraphIsSound == Graph => GraphFacts
<1> SUFFICES ASSUME Graph PROVE GraphFacts
  OBVIOUS
<1> DEFINE m == Len(Query.vertices)
           n == Len(edges)
<1>1. Query.vertices \in Seq(ToSet(Query.vertices)) /\ Query.edges \in Seq(ToSet(Query.edges))
  BY InputsAssumption DEF InputsAssumption, Graph, Query
<1>2. GoodQuery(Query) /\ edges = EdgesInfo(Query)
  BY <1>1 DEF Graph, GoodQuery
<1>3. m \in Nat /\ Vertices = 1 .. m
  BY <1>1 DEF Vertices
<1>4. n \in Nat \ {0} /\ DOMAIN edges = 1 .. n
  BY <1>2, EdgesJoinVertices
<1>5. optional = [v \in Vertices |-> IsOptionalVertex(edges, v)]
  BY DEF Graph
<1>6. \A v \in Vertices : IsOptionalVertex(edges, v) \in BOOLEAN
  BY DEF IsOptionalVertex
<1>7. optional \in [Vertices -> BOOLEAN]
  BY <1>5, <1>6
<1>8. ASSUME NEW i \in DOMAIN edges
      PROVE  /\ edges[i].v1 \in Vertices /\ edges[i].v2 \in Vertices /\ edges[i].v1 # edges[i].v2
             /\ edges[i].kind \in {"regular", "negative", "optional"}
             /\ edges[i].dir \in {"directed", "undirected"}
             /\ edges[i].dir = "undirected" => edges[i].kind = "regular"
             /\ WithRegular(edges, i) <=> (optional[edges[i].v1] # optional[edges[i].v2])
             /\ WithRegular(edges, i) => edges[i].kind = "optional"
  <2>1. /\ edges[i].v1 \in Vertices /\ edges[i].v2 \in Vertices /\ edges[i].v1 # edges[i].v2
        /\ edges[i].kind \in {"regular", "negative", "optional"} /\ edges[i].dir \in {"directed", "undirected"}
        /\ edges[i].dir = "undirected" => edges[i].kind = "regular"
    BY <1>2, EdgesJoinVertices DEF Vertices
  <2>2. /\ optional[edges[i].v1] = IsOptionalVertex(edges, edges[i].v1)
        /\ optional[edges[i].v2] = IsOptionalVertex(edges, edges[i].v2)
    BY <1>5, <2>1
  <2>3. edges[i].kind # "optional" => ~optional[edges[i].v1] /\ ~optional[edges[i].v2]
    BY <1>2, <2>2, OptionalVertices DEF Ends
  <2>4. WithRegular(edges, i) <=>
          edges[i].kind = "optional" /\ (optional[edges[i].v1] # optional[edges[i].v2])
    BY <2>2 DEF WithRegular
  <2>5. optional[edges[i].v1] \in BOOLEAN /\ optional[edges[i].v2] \in BOOLEAN
    BY <1>7, <2>1
  <2> QED
    BY <2>1, <2>3, <2>4, <2>5
<1>9. ASSUME NEW v \in Vertices PROVE \E i \in DOMAIN edges : v \in Ends(edges[i])
  <2>1. Degree(edges, v) # 0
    BY <1>2 DEF Graph, WellFormed, Vertices
  <2>2. {i \in DOMAIN edges : v \in Ends(edges[i])} # {}
    BY <2>1, FS_EmptySet DEF Degree
  <2> QED
    BY <2>2
<1> QED
  BY <1>3, <1>4, <1>7, <1>8, <1>9 DEF GraphFacts

-----------------------------------------------------------------------------
(* The matching order.                                                     *)

(* The vertex an edge is chosen at is one of its ends: the optional one if *)
(* the other is not, and otherwise the one with the smaller number.        *)
LEMMA OwnersAreEnds ==
  ASSUME GraphFacts, NEW i \in DOMAIN edges
  PROVE  /\ Owner(i) \in Vertices /\ Opposite(i) \in Vertices /\ Owner(i) # Opposite(i)
         /\ \/ Owner(i) = edges[i].v1 /\ Opposite(i) = edges[i].v2
            \/ Owner(i) = edges[i].v2 /\ Opposite(i) = edges[i].v1
         /\ WithRegular(edges, i) => optional[Owner(i)] /\ ~optional[Opposite(i)]
         /\ ~WithRegular(edges, i) => Owner(i) < Opposite(i) /\ optional[Owner(i)] = optional[Opposite(i)]
<1> DEFINE u == edges[i].v1
           w == edges[i].v2
<1>1. /\ u \in Vertices /\ w \in Vertices /\ u # w /\ u \in Nat /\ w \in Nat
      /\ WithRegular(edges, i) <=> (optional[u] # optional[w])
      /\ optional[u] \in BOOLEAN /\ optional[w] \in BOOLEAN
  BY DEF GraphFacts
<1>2. CASE WithRegular(edges, i)
  <2>1. Owner(i) = IF ~optional[u] THEN w ELSE u
    BY <1>2 DEF Owner
  <2> HIDE DEF u, w
  <2>2. Opposite(i) = IF u = Owner(i) THEN w ELSE u
    BY DEF Opposite, u, w
  <2>3. CASE optional[u]
    <3>1. Owner(i) = u /\ Opposite(i) = w /\ ~optional[w]
      BY <1>1, <1>2, <2>1, <2>2, <2>3
    <3> QED
      BY <1>1, <1>2, <2>3, <3>1 DEF u, w
  <2>4. CASE ~optional[u]
    <3>1. Owner(i) = w /\ Opposite(i) = u /\ optional[w]
      BY <1>1, <1>2, <2>1, <2>2, <2>4
    <3> QED
      BY <1>1, <1>2, <2>4, <3>1 DEF u, w
  <2> QED
    BY <2>3, <2>4
<1>3. CASE ~WithRegular(edges, i)
  <2>1. Owner(i) = Min({u, w})
    BY <1>3 DEF Owner, Ends
  <2>2. optional[u] = optional[w]
    BY <1>1, <1>3
  <2> HIDE DEF u, w
  <2>3. Opposite(i) = IF u = Owner(i) THEN w ELSE u
    BY DEF Opposite, u, w
  <2>4. Owner(i) \in {u, w} /\ Owner(i) <= u /\ Owner(i) <= w
    <3>1. {u, w} \in SUBSET Nat /\ {u, w} # {} /\ u \in {u, w} /\ w \in {u, w}
      BY <1>1
    <3> QED
      BY <2>1, <3>1, LeastIsMin
  <2>5. (Owner(i) = u /\ Opposite(i) = w) \/ (Owner(i) = w /\ Opposite(i) = u)
    BY <2>3, <2>4
  <2>6. Owner(i) < Opposite(i)
    BY <1>1, <2>4, <2>5
  <2> QED
    BY <1>1, <1>3, <2>2, <2>5, <2>6 DEF u, w
<1> QED
  BY <1>2, <1>3

(* The adjacency list of a vertex has the edges chosen at it, each once. *)
LEMMA ListsOfOwnEdges ==
  ASSUME GraphFacts, NEW v
  PROVE  /\ AdjList(v) \in Seq(DOMAIN edges)
         /\ \A j, k \in DOMAIN AdjList(v) : j < k => AdjList(v)[j] # AdjList(v)[k]
         /\ \A k \in DOMAIN AdjList(v) : Owner(AdjList(v)[k]) = v
         /\ \A i \in DOMAIN edges : Owner(i) = v => \E k \in DOMAIN AdjList(v) : AdjList(v)[k] = i
<1> DEFINE own == {i \in DOMAIN edges : Owner(i) = v}
           Before(i, j) == Opposite(i) < Opposite(j) \/ (Opposite(i) = Opposite(j) /\ i < j)
           R == {p \in own \X own : Before(p[1], p[2])}
           s == Sorted(own, R)
<1>1. AdjList(v) = s
  BY DEF AdjList
<1>2. \A i \in own : i \in Nat /\ Opposite(i) \in Nat
  <2>1. ASSUME NEW i \in DOMAIN edges PROVE i \in Nat /\ Opposite(i) \in Nat
    <3>1. Opposite(i) \in Vertices
      BY OwnersAreEnds
    <3> QED
      BY <3>1 DEF GraphFacts
  <2> QED
    BY <2>1
<1>3. IsFiniteSet(own)
  <2>1. IsFiniteSet(DOMAIN edges) /\ own \in SUBSET DOMAIN edges
    BY FS_Interval DEF GraphFacts
  <2> QED
    BY <2>1, FS_Subset
<1>4. \A i, j \in own : <<i, j>> \in R <=> Before(i, j)
  OBVIOUS
<1>5. StrictOrder(R, own)
  <2> HIDE DEF own, R
  <2>1. \A i \in own : ~Before(i, i)
    BY <1>2
  <2>2. \A i, j, k \in own : Before(i, j) /\ Before(j, k) => Before(i, k)
    BY <1>2
  <2>3. \A i, j \in own : i = j \/ Before(i, j) \/ Before(j, i)
    BY <1>2
  <2> HIDE DEF Before
  <2> QED
    BY <1>4, <2>1, <2>2, <2>3 DEF StrictOrder
<1> HIDE DEF R
<1>6. /\ s \in Seq(own) /\ \A i, j \in 1 .. Len(s) : i < j => <<s[i], s[j]>> \in R
      /\ \A x \in own : \E i \in 1 .. Len(s) : s[i] = x
  BY <1>3, <1>5, SortedInOrder
<1> HIDE DEF s
<1>7. DOMAIN s = 1 .. Len(s) /\ \A k \in DOMAIN s : s[k] \in own
  BY <1>6
<1>8. \A j, k \in DOMAIN s : j < k => s[j] # s[k]
  BY <1>5, <1>6, <1>7 DEF StrictOrder
<1>9. s \in Seq(DOMAIN edges)
  BY <1>6
<1> QED
  BY <1>1, <1>6, <1>7, <1>8, <1>9

(* Some vertices in their own order. *)
LEMMA SomeVertices ==
  ASSUME GraphFacts, NEW vs \in SUBSET Vertices
  PROVE  /\ Ordered(vs) \in Seq(vs)
         /\ \A i, j \in DOMAIN Ordered(vs) : i < j => Ordered(vs)[i] < Ordered(vs)[j]
         /\ \A x : (\E i \in DOMAIN Ordered(vs) : Ordered(vs)[i] = x) <=> x \in vs
<1> DEFINE R == {p \in vs \X vs : p[1] < p[2]}
           s == Sorted(vs, R)
<1>1. Ordered(vs) = s
  BY DEF Ordered
<1>2. vs \in SUBSET Nat /\ IsFiniteSet(vs)
  <2>1. IsFiniteSet(Vertices) /\ Vertices \in SUBSET Nat
    BY FS_Interval, SMTT(20) DEF GraphFacts
  <2> QED
    BY <2>1, FS_Subset
<1>3. StrictOrder(R, vs)
  BY <1>2, NumbersInOrder
<1>4. \A p \in R : p[1] < p[2]
  OBVIOUS
<1> HIDE DEF R
<1>5. /\ s \in Seq(vs) /\ \A i, j \in 1 .. Len(s) : i < j => <<s[i], s[j]>> \in R
      /\ \A x \in vs : \E i \in 1 .. Len(s) : s[i] = x
  BY <1>2, <1>3, SortedInOrder
<1> HIDE DEF s
<1>6. DOMAIN s = 1 .. Len(s) /\ \A i \in DOMAIN s : s[i] \in vs
  BY <1>5
<1>7. \A i, j \in DOMAIN s : i < j => s[i] < s[j]
  <2>1. ASSUME NEW i \in DOMAIN s, NEW j \in DOMAIN s, i < j PROVE s[i] < s[j]
    <3>1. <<s[i], s[j]>> \in R
      BY <1>5, <1>6, <2>1
    <3>2. <<s[i], s[j]>>[1] < <<s[i], s[j]>>[2]
      BY <1>4, <3>1
    <3> QED
      BY <3>2
  <2> QED
    BY <2>1
<1>8. \A x : (\E i \in DOMAIN s : s[i] = x) <=> x \in vs
  BY <1>5, <1>6
<1> QED
  BY <1>1, <1>5, <1>7, <1>8

(* The part of the order a vertex belongs to: vertices that are not        *)
(* optional before optional ones, and in each half those with edges of     *)
(* their own before the others.                                            *)
PartOf(v) == (IF optional[v] THEN 2 ELSE 0) + (IF AdjList(v) = <<>> THEN 1 ELSE 0)

OrderPairs ==
  {p \in Vertices \X Vertices :
     PartOf(p[1]) < PartOf(p[2]) \/ (PartOf(p[1]) = PartOf(p[2]) /\ p[1] < p[2])}

(* _make_LFTJ_schedule has every vertex, part after part. *)
LEMMA VertexOrderByParts ==
  ASSUME GraphFacts
  PROVE  /\ VertexOrder \in Seq(Vertices)
         /\ \A p, q \in DOMAIN VertexOrder : p < q => <<VertexOrder[p], VertexOrder[q]>> \in OrderPairs
         /\ \A v \in Vertices : \E p \in DOMAIN VertexOrder : VertexOrder[p] = v
<1> DEFINE Part(c) == {v \in Vertices : PartOf(v) = c}
           Parts(S) == {v \in Vertices : PartOf(v) \in S}
           Good(s, S) == /\ s \in Seq(Vertices)
                         /\ \A i, j \in 1 .. Len(s) : i < j => <<s[i], s[j]>> \in OrderPairs
                         /\ \A x : (\E i \in 1 .. Len(s) : s[i] = x) <=> x \in Parts(S)
<1>1. \A v \in Vertices : PartOf(v) \in 0 .. 3 /\ v \in Nat /\ optional[v] \in BOOLEAN
  BY DEF PartOf, GraphFacts
<1>2. ASSUME NEW c \in 0 .. 3 PROVE Good(Ordered(Part(c)), {c})
  <2> DEFINE s == Ordered(Part(c))
  <2>1. Part(c) \in SUBSET Vertices
    OBVIOUS
  <2>2. /\ s \in Seq(Part(c)) /\ \A i, j \in DOMAIN s : i < j => s[i] < s[j]
        /\ \A x : (\E i \in DOMAIN s : s[i] = x) <=> x \in Part(c)
    <3> HIDE DEF Part
    <3> QED
      BY <2>1, SomeVertices
  <2> HIDE DEF s
  <2>3. DOMAIN s = 1 .. Len(s) /\ \A i \in 1 .. Len(s) : s[i] \in Vertices /\ PartOf(s[i]) = c
    BY <2>2
  <2>4. \A i, j \in 1 .. Len(s) : i < j => <<s[i], s[j]>> \in OrderPairs
    BY <2>2, <2>3 DEF OrderPairs
  <2>5. s \in Seq(Vertices)
    BY <2>2
  <2>6. Part(c) = Parts({c})
    OBVIOUS
  <2> QED
    BY <2>2, <2>3, <2>4, <2>5, <2>6 DEF s
<1>3. ASSUME NEW a, NEW b, NEW S \in SUBSET Nat, NEW T \in SUBSET Nat, Good(a, S), Good(b, T),
             \A c \in S, d \in T : c < d
      PROVE  Good(a \o b, S \cup T)
  <2>1. ASSUME NEW i \in 1 .. Len(a), NEW j \in 1 .. Len(b) PROVE <<a[i], b[j]>> \in OrderPairs
    <3>1. a[i] \in Parts(S) /\ b[j] \in Parts(T)
      BY <1>3
    <3> QED
      BY <1>3, <3>1 DEF OrderPairs
  <2>2. /\ a \in Seq(Vertices) /\ b \in Seq(Vertices)
        /\ \A i, j \in 1 .. Len(a) : i < j => <<a[i], a[j]>> \in OrderPairs
        /\ \A i, j \in 1 .. Len(b) : i < j => <<b[i], b[j]>> \in OrderPairs
    BY <1>3
  <2>3. /\ a \o b \in Seq(Vertices)
        /\ \A i, j \in 1 .. Len(a \o b) : i < j => <<(a \o b)[i], (a \o b)[j]>> \in OrderPairs
    <3> HIDE DEF Good, Parts
    <3>1. \A i \in 1 .. Len(a), j \in 1 .. Len(b) : <<a[i], b[j]>> \in OrderPairs
      BY <2>1
    <3>2. \A i, j \in 1 .. Len(a) : i < j => <<a[i], a[j]>> \in OrderPairs
      BY <2>2
    <3>3. \A i, j \in 1 .. Len(b) : i < j => <<b[i], b[j]>> \in OrderPairs
      BY <2>2
    <3>4. a \in Seq(Vertices) /\ b \in Seq(Vertices)
      BY <2>2
    <3>5. a \o b \in Seq(Vertices)
      BY <3>1, <3>2, <3>3, <3>4, BothOrdered
    <3>6. \A i, j \in 1 .. Len(a \o b) : i < j => <<(a \o b)[i], (a \o b)[j]>> \in OrderPairs
      BY <3>1, <3>2, <3>3, <3>4, BothOrdered
    <3> QED
      BY <3>5, <3>6
  <2>4. Parts(S) \cup Parts(T) = Parts(S \cup T)
    OBVIOUS
  <2> QED
    <3>1. \A x : (\E i \in 1 .. Len(a) : a[i] = x) <=> x \in Parts(S)
      BY <1>3
    <3>2. \A x : (\E i \in 1 .. Len(b) : b[i] = x) <=> x \in Parts(T)
      BY <1>3
    <3> DEFINE c == a \o b
    <3> HIDE DEF Parts, c
    <3>3. /\ \A i \in 1 .. Len(c) : (\E j \in 1 .. Len(a) : c[i] = a[j]) \/ (\E j \in 1 .. Len(b) : c[i] = b[j])
          /\ \A j \in 1 .. Len(a) : \E i \in 1 .. Len(c) : c[i] = a[j]
          /\ \A j \in 1 .. Len(b) : \E i \in 1 .. Len(c) : c[i] = b[j]
      <4>1. /\ Len(c) = Len(a) + Len(b) /\ Len(a) \in Nat /\ Len(b) \in Nat
            /\ \A i \in 1 .. Len(a) : c[i] = a[i]
            /\ \A i \in 1 .. Len(b) : c[Len(a) + i] = b[i]
        BY <2>2, BothParts DEF c
      <4>2. ASSUME NEW i \in 1 .. Len(c)
            PROVE  (\E j \in 1 .. Len(a) : c[i] = a[j]) \/ (\E j \in 1 .. Len(b) : c[i] = b[j])
        <5>1. CASE i \in 1 .. Len(a)
          BY <4>1, <5>1
        <5>2. CASE i \notin 1 .. Len(a)
          <6>1. i - Len(a) \in 1 .. Len(b) /\ i = Len(a) + (i - Len(a))
            BY <4>1, <5>2
          <6> QED
            BY <4>1, <6>1
        <5> QED
          BY <5>1, <5>2
      <4>3. ASSUME NEW i \in 1 .. Len(a) PROVE i \in 1 .. Len(c) /\ c[i] = a[i]
        BY <4>1
      <4>4. ASSUME NEW i \in 1 .. Len(b) PROVE Len(a) + i \in 1 .. Len(c) /\ c[Len(a) + i] = b[i]
        BY <4>1
      <4> QED
        BY <4>2, <4>3, <4>4
    <3>4. ASSUME NEW x PROVE (\E i \in 1 .. Len(c) : c[i] = x) <=> x \in Parts(S \cup T)
      <4>1. (\E i \in 1 .. Len(c) : c[i] = x) <=> (\E j \in 1 .. Len(a) : a[j] = x) \/ (\E j \in 1 .. Len(b) : b[j] = x)
        BY <3>3, SMTT(20)
      <4>2. x \in Parts(S \cup T) <=> x \in Parts(S) \/ x \in Parts(T)
        BY <2>4
      <4> QED
        BY <3>1, <3>2, <4>1, <4>2
    <3>5. /\ c \in Seq(Vertices)
          /\ \A i, j \in 1 .. Len(c) : i < j => <<c[i], c[j]>> \in OrderPairs
      BY <2>3 DEF c
    <3> QED
      BY <3>4, <3>5 DEF c
<1>4. /\ WithEdges(FALSE) = Ordered(Part(0)) /\ Postfix(FALSE) = Ordered(Part(1))
      /\ WithEdges(TRUE) = Ordered(Part(2)) /\ Postfix(TRUE) = Ordered(Part(3))
  <2>1. {v \in Vertices : optional[v] = FALSE /\ AdjList(v) # <<>>} = Part(0)
    BY <1>1 DEF PartOf
  <2>2. {v \in Vertices : optional[v] = FALSE /\ AdjList(v) = <<>>} = Part(1)
    BY <1>1 DEF PartOf
  <2>3. {v \in Vertices : optional[v] = TRUE /\ AdjList(v) # <<>>} = Part(2)
    BY <1>1 DEF PartOf
  <2>4. {v \in Vertices : optional[v] = TRUE /\ AdjList(v) = <<>>} = Part(3)
    BY <1>1 DEF PartOf
  <2> HIDE DEF Part
  <2> QED
    BY <2>1, <2>2, <2>3, <2>4 DEF WithEdges, Postfix
<1>5. Good(VertexOrder, 0 .. 3)
  <2> DEFINE a == Ordered(Part(0))
             b == Ordered(Part(1))
             c == Ordered(Part(2))
             d == Ordered(Part(3))
  <2>1. VertexOrder = ((a \o b) \o c) \o d
    BY <1>4 DEF VertexOrder
  <2> HIDE DEF Good, Part
  <2>2. Good(a, {0}) /\ Good(b, {1}) /\ Good(c, {2}) /\ Good(d, {3})
    BY <1>2
  <2> HIDE DEF a, b, c, d
  <2>3. Good(a \o b, {0} \cup {1})
    BY <1>3, <2>2
  <2>4. Good((a \o b) \o c, ({0} \cup {1}) \cup {2})
    BY <1>3, <2>2, <2>3
  <2>5. Good(((a \o b) \o c) \o d, (({0} \cup {1}) \cup {2}) \cup {3})
    BY <1>3, <2>2, <2>4
  <2>6. (({0} \cup {1}) \cup {2}) \cup {3} = 0 .. 3
    OBVIOUS
  <2> QED
    BY <2>1, <2>5, <2>6
<1>6. Parts(0 .. 3) = Vertices
  BY <1>1
<1> HIDE DEF Parts
<1>7. /\ VertexOrder \in Seq(Vertices)
      /\ \A i, j \in 1 .. Len(VertexOrder) : i < j => <<VertexOrder[i], VertexOrder[j]>> \in OrderPairs
      /\ \A x : (\E i \in 1 .. Len(VertexOrder) : VertexOrder[i] = x) <=> x \in Vertices
  BY <1>5, <1>6
<1>8. DOMAIN VertexOrder = 1 .. Len(VertexOrder)
  BY <1>7
<1> QED
  BY <1>7, <1>8

(* Numbers that have one another as images are as many. *)
Paired(f, m, n) ==
  /\ m \in Nat /\ n \in Nat /\ f \in [1 .. m -> 1 .. n]
  /\ \A i, j \in 1 .. m : f[i] = f[j] => i = j
  /\ \A k \in 1 .. n : \E i \in 1 .. m : f[i] = k

LEMMA AsMany == \A f, m, n : Paired(f, m, n) => m = n
<1> SUFFICES ASSUME NEW f, NEW m, NEW n, Paired(f, m, n) PROVE m = n
  OBVIOUS
<1> m \in Nat /\ n \in Nat
  BY DEF Paired
<1>1. f \in Bijection(1 .. m, 1 .. n)
  BY DEF Bijection, Injection, Surjection, IsInjective, Paired
<1>2. Cardinality(1 .. m) = m /\ Cardinality(1 .. n) = n /\ IsFiniteSet(1 .. m)
  BY FS_Interval
<1>3. Cardinality(1 .. n) = Cardinality(1 .. m)
  BY <1>1, <1>2, FS_Bijection DEF ExistsBijection
<1> QED
  BY <1>2, <1>3

(* Where a vertex is in an order that has it once. *)
LEMMA PlacesInOrder ==
  ASSUME NEW o, \A p, q \in DOMAIN o : o[p] = o[q] => p = q, NEW p \in DOMAIN o
  PROVE  PlaceOf(o[p], o) = p
BY DEF PlaceOf

(* What the search depends on of the orders: every vertex and every edge   *)
(* is in them once, and an edge is read from its earlier end.              *)
OrderFacts ==
  /\ order \in Seq(Vertices)
  /\ \A p, q \in DOMAIN order : order[p] = order[q] => p = q
  /\ \A v \in Vertices : \E p \in DOMAIN order : order[p] = v
  /\ edgeOrder \in Seq([edge : DOMAIN edges, at : DOMAIN order])
  /\ Len(edgeOrder) = Len(edges)
  /\ \A c, d \in DOMAIN edgeOrder : edgeOrder[c].edge = edgeOrder[d].edge => c = d
  /\ \A i \in DOMAIN edges : \E d \in DOMAIN edgeOrder : edgeOrder[d].edge = i
  /\ \A d \in DOMAIN edgeOrder : \E e \in {edges[edgeOrder[d].edge]} :
       ReadForward(d) <=> PlaceOf(e.v1, order) < PlaceOf(e.v2, order)

(* The order of the edges of an attribute join: those of each vertex when  *)
(* its turn comes.                                                         *)
EdgesInTurn ==
  /\ \A c, d \in DOMAIN edgeOrder : c < d => edgeOrder[c].at <= edgeOrder[d].at
  /\ \A d \in DOMAIN edgeOrder : order[edgeOrder[d].at] = Owner(edgeOrder[d].edge)

LEMMA EdgesOfTheOrder ==
  ASSUME GraphFacts, order \in Seq(Vertices), \A p, q \in DOMAIN order : order[p] = order[q] => p = q,
         \A v \in Vertices : \E p \in DOMAIN order : order[p] = v,
         edgeOrder = EdgesAt(order)
  PROVE  /\ edgeOrder \in Seq([edge : DOMAIN edges, at : DOMAIN order])
         /\ Len(edgeOrder) = Len(edges)
         /\ \A c, d \in DOMAIN edgeOrder : edgeOrder[c].edge = edgeOrder[d].edge => c = d
         /\ \A i \in DOMAIN edges : \E d \in DOMAIN edgeOrder : edgeOrder[d].edge = i
         /\ EdgesInTurn
<1> DEFINE E == [edge : DOMAIN edges, at : DOMAIN order]
           Turn(p) == [k \in DOMAIN AdjList(order[p]) |-> [edge |-> AdjList(order[p])[k], at |-> p]]
           ss == [p \in DOMAIN order |-> Turn(p)]
           n == Len(order)
           F == FlattenSeq(ss)
           S == {x \in E : order[x.at] = Owner(x.edge)}
           R == {x \in S \X S : x[1].at <= x[2].at /\ x[1].edge # x[2].edge}
<1>1. n \in Nat /\ DOMAIN order = 1 .. n
  OBVIOUS
<1>2. edgeOrder = F
  BY DEF EdgesAt
<1>3. ASSUME NEW p \in 1 .. n
      PROVE  /\ ss[p] \in Seq(S) /\ DOMAIN ss[p] = DOMAIN AdjList(order[p])
             /\ DOMAIN ss[p] = 1 .. Len(ss[p])
             /\ \A k \in DOMAIN ss[p] : ss[p][k].edge = AdjList(order[p])[k] /\ ss[p][k].at = p /\ ss[p][k] \in S
  <2> DEFINE a == AdjList(order[p])
  <2>1. a \in Seq(DOMAIN edges) /\ \A k \in DOMAIN a : Owner(a[k]) = order[p]
    BY ListsOfOwnEdges
  <2>2. ss[p] = [k \in DOMAIN a |-> [edge |-> a[k], at |-> p]]
    BY <1>1
  <2> HIDE DEF a, ss
  <2>3. DOMAIN a = 1 .. Len(a) /\ Len(a) \in Nat /\ \A k \in DOMAIN a : a[k] \in DOMAIN edges
    BY <2>1
  <2>4. \A k \in DOMAIN a : ss[p][k] = [edge |-> a[k], at |-> p] /\ ss[p][k] \in S
    BY <1>1, <2>1, <2>2, <2>3
  <2>5. ss[p] \in [1 .. Len(a) -> S]
    BY <2>2, <2>3, <2>4
  <2> HIDE DEF S
  <2>6. ss[p] \in Seq(S) /\ Len(ss[p]) = Len(a) /\ DOMAIN ss[p] = DOMAIN a
    BY <2>2, <2>3, <2>5, Numbered
  <2>7. ASSUME NEW k \in DOMAIN a PROVE ss[p][k].edge = a[k] /\ ss[p][k].at = p /\ ss[p][k] \in S
    <3>1. ss[p][k] = [edge |-> a[k], at |-> p] /\ ss[p][k] \in S
      BY <2>4
    <3> HIDE DEF E
    <3> QED
      BY <3>1
  <2> QED
    BY <2>3, <2>6, <2>7 DEF a
<1>4. ss \in Seq(Seq(S)) /\ Len(ss) = n
  <2>1. ss \in [1 .. n -> Seq(S)]
    <3>1. \A p \in 1 .. n : ss[p] \in Seq(S)
      BY <1>3
    <3>2. ss = [p \in 1 .. n |-> ss[p]]
      BY <1>1
    <3> HIDE DEF ss
    <3> QED
      BY <3>1, <3>2
  <2> HIDE DEF ss, S
  <2> QED
    BY <1>1, <2>1, Numbered
<1>5. \A x, y \in S : x.at \in 1 .. n /\ x.edge \in DOMAIN edges
  BY <1>1
<1>6. \A x, y \in S : <<x, y>> \in R <=> x.at <= y.at /\ x.edge # y.edge
  OBVIOUS
<1> HIDE DEF ss, R, S
<1>7. ASSUME NEW p \in 1 .. Len(ss), NEW j \in 1 .. Len(ss[p]), NEW k \in 1 .. Len(ss[p]), j < k
      PROVE  <<ss[p][j], ss[p][k]>> \in R
  <2>1. DOMAIN ss[p] = 1 .. Len(ss[p])
    BY <1>3, <1>4
  <2>2. AdjList(order[p])[j] # AdjList(order[p])[k]
    <3>1. \A l, m \in DOMAIN AdjList(order[p]) : l < m => AdjList(order[p])[l] # AdjList(order[p])[m]
      BY ListsOfOwnEdges
    <3>2. DOMAIN ss[p] = DOMAIN AdjList(order[p])
      BY <1>3, <1>4
    <3> QED
      BY <1>7, <2>1, <3>1, <3>2
  <2>3. /\ ss[p][j].edge = AdjList(order[p])[j] /\ ss[p][j].at = p /\ ss[p][j] \in S
        /\ ss[p][k].edge = AdjList(order[p])[k] /\ ss[p][k].at = p /\ ss[p][k] \in S
    BY <1>3, <1>4, <2>1
  <2> DEFINE x == ss[p][j]
             y == ss[p][k]
  <2>4. x \in S /\ y \in S /\ x.at <= y.at /\ x.edge # y.edge
    BY <1>1, <1>4, <2>2, <2>3
  <2> HIDE DEF x, y
  <2>5. <<x, y>> \in R
    BY <1>6, <2>4
  <2> QED
    BY <2>5 DEF x, y
<1>8. ASSUME NEW p \in 1 .. Len(ss), NEW q \in 1 .. Len(ss), NEW j \in 1 .. Len(ss[p]), NEW k \in 1 .. Len(ss[q]), p < q
      PROVE  <<ss[p][j], ss[q][k]>> \in R
  <2>1. DOMAIN ss[p] = 1 .. Len(ss[p]) /\ DOMAIN ss[q] = 1 .. Len(ss[q])
    BY <1>3, <1>4
  <2>2. ss[p][j].at = p /\ ss[p][j] \in S /\ ss[q][k].at = q /\ ss[q][k] \in S
    BY <1>3, <1>4, <2>1
  <2>3. order[p] # order[q]
    <3>1. p \in DOMAIN order /\ q \in DOMAIN order /\ p # q
      BY <1>1, <1>4, <1>8
    <3> QED
      BY <3>1
  <2>4. Owner(ss[p][j].edge) = order[p] /\ Owner(ss[q][k].edge) = order[q]
    BY <2>2 DEF S
  <2>5. ss[p][j].edge # ss[q][k].edge
    BY <2>3, <2>4
  <2> DEFINE x == ss[p][j]
             y == ss[q][k]
  <2>6. x \in S /\ y \in S /\ x.at <= y.at /\ x.edge # y.edge
    BY <1>1, <1>4, <1>8, <2>2, <2>5
  <2> HIDE DEF x, y
  <2>7. <<x, y>> \in R
    BY <1>6, <2>6
  <2> QED
    BY <2>7 DEF x, y
<1>9. /\ F \in Seq(S)
      /\ \A i, j \in 1 .. Len(F) : i < j => <<F[i], F[j]>> \in R
      /\ \A p \in 1 .. Len(ss) : \A k \in 1 .. Len(ss[p]) : \E d \in 1 .. Len(F) : F[d] = ss[p][k]
  <2>1. \A p \in 1 .. Len(ss) : \A j, k \in 1 .. Len(ss[p]) : j < k => <<ss[p][j], ss[p][k]>> \in R
    BY <1>7
  <2>2. \A p, q \in 1 .. Len(ss) : \A j \in 1 .. Len(ss[p]), k \in 1 .. Len(ss[q]) :
          p < q => <<ss[p][j], ss[q][k]>> \in R
    BY <1>8
  <2>3. F \in Seq(S)
    BY <1>4, FlattenPlaces
  <2>4. \A i, j \in 1 .. Len(F) : i < j => <<F[i], F[j]>> \in R
    BY <1>4, <2>1, <2>2, FlattenOrdered
  <2>5. \A p \in 1 .. Len(ss) : \A k \in 1 .. Len(ss[p]) : \E d \in 1 .. Len(F) : F[d] = ss[p][k]
    BY <1>4, FlattenElements
  <2> QED
    BY <2>3, <2>4, <2>5
<1> HIDE DEF F
<1>10. DOMAIN F = 1 .. Len(F) /\ Len(F) \in Nat /\ \A d \in DOMAIN F : F[d] \in S
  BY <1>9
<1>11. F \in Seq(E)
  <2>1. S \subseteq E
    BY DEF S
  <2> HIDE DEF E
  <2> QED
    BY <1>9, <2>1
<1>12. ASSUME NEW c \in DOMAIN F, NEW d \in DOMAIN F, c < d PROVE F[c].at <= F[d].at /\ F[c].edge # F[d].edge
  BY <1>6, <1>9, <1>10, <1>12
<1>13. ASSUME NEW c \in DOMAIN F, NEW d \in DOMAIN F, F[c].edge = F[d].edge PROVE c = d
  <2>1. c \in Nat /\ d \in Nat /\ ~(c < d) /\ ~(d < c)
    BY <1>10, <1>12, <1>13
  <2> QED
    BY <2>1
<1>14. ASSUME NEW i \in DOMAIN edges PROVE \E d \in DOMAIN F : F[d].edge = i
  <2>1. Owner(i) \in Vertices
    BY OwnersAreEnds
  <2>2. PICK p \in 1 .. n : order[p] = Owner(i)
    BY <1>1, <2>1
  <2>3. PICK k \in DOMAIN AdjList(order[p]) : AdjList(order[p])[k] = i
    BY <2>2, ListsOfOwnEdges
  <2>4. k \in DOMAIN ss[p] /\ ss[p][k].edge = i /\ DOMAIN ss[p] = 1 .. Len(ss[p])
    BY <1>3, <2>3
  <2>5. PICK d \in 1 .. Len(F) : F[d] = ss[p][k]
    BY <1>4, <1>9, <2>4
  <2> QED
    BY <1>10, <2>4, <2>5
<1>15. Len(F) = Len(edges)
  <2> DEFINE l == Len(F)
             f == [d \in 1 .. l |-> F[d].edge]
             m == Len(edges)
  <2>1. m \in Nat /\ DOMAIN edges = 1 .. m
    BY DEF GraphFacts
  <2>2. f \in [1 .. l -> 1 .. m]
    BY <1>5, <1>10, <2>1
  <2>3. \A i, j \in 1 .. l : f[i] = f[j] => i = j
    BY <1>10, <1>13
  <2>4. \A k \in 1 .. m : \E i \in 1 .. l : f[i] = k
    BY <1>10, <1>14, <2>1
  <2>5. l \in Nat /\ m \in Nat
    BY <1>10, <2>1
  <2> HIDE DEF f, m, l
  <2>6. Paired(f, l, m)
    BY <2>2, <2>3, <2>4, <2>5 DEF Paired
  <2>7. l = m
    BY <2>6, AsMany
  <2> QED
    BY <2>7 DEF m, l
<1>16. EdgesInTurn
  <2>1. \A d \in DOMAIN F : order[F[d].at] = Owner(F[d].edge)
    BY <1>10 DEF S
  <2>2. \A c, d \in DOMAIN F : c < d => F[c].at <= F[d].at
    BY <1>12
  <2> QED
    BY <1>2, <2>1, <2>2 DEF EdgesInTurn
<1> QED
  BY <1>2, <1>11, <1>13, <1>14, <1>15, <1>16

(* A vertex has edges of its own if some edge is chosen at it. *)
LEMMA OwnEdges ==
  ASSUME GraphFacts, NEW v
  PROVE  AdjList(v) # <<>> <=> \E i \in DOMAIN edges : Owner(i) = v
<1>1. AdjList(v) \in Seq(DOMAIN edges) /\ \A k \in DOMAIN AdjList(v) : Owner(AdjList(v)[k]) = v
  BY ListsOfOwnEdges
<1>2. \A i \in DOMAIN edges : Owner(i) = v => \E k \in DOMAIN AdjList(v) : AdjList(v)[k] = i
  BY ListsOfOwnEdges
<1>3. ASSUME AdjList(v) # <<>> PROVE \E i \in DOMAIN edges : Owner(i) = v
  <2>1. 1 \in DOMAIN AdjList(v) /\ AdjList(v)[1] \in DOMAIN edges
    BY <1>1, <1>3
  <2> QED
    BY <1>1, <2>1
<1>4. ASSUME NEW i \in DOMAIN edges, Owner(i) = v PROVE AdjList(v) # <<>>
  BY <1>2, <1>4
<1> QED
  BY <1>3, <1>4

(* No vertex is in the order twice. *)
LEMMA VertexOrderOnce ==
  ASSUME GraphFacts, NEW p \in DOMAIN VertexOrder, NEW q \in DOMAIN VertexOrder, VertexOrder[p] = VertexOrder[q]
  PROVE  p = q
<1> DEFINE o == VertexOrder
<1>1. o \in Seq(Vertices) /\ \A x, y \in DOMAIN o : x < y => <<o[x], o[y]>> \in OrderPairs
  BY VertexOrderByParts
<1> HIDE DEF o
<1>2. ASSUME NEW x \in DOMAIN o, NEW y \in DOMAIN o, x < y PROVE o[x] # o[y]
  <2>1. o[x] \in Vertices /\ o[y] \in Vertices
    BY <1>1
  <2>2. o[x] \in Nat
    BY <2>1 DEF GraphFacts
  <2>3. <<o[x], o[y]>> \in OrderPairs
    BY <1>1, <1>2
  <2>4. PartOf(o[x]) \in Nat
    BY DEF PartOf
  <2> QED
    BY <2>2, <2>3, <2>4 DEF OrderPairs
<1>3. p \in DOMAIN o /\ q \in DOMAIN o /\ p \in Nat /\ q \in Nat /\ o[p] = o[q]
  BY <1>1 DEF o
<1> QED
  BY <1>2, <1>3

(* An edge is chosen at its earlier end, but an optional edge with a       *)
(* regular vertex at its later end.                                        *)
LEMMA OwnersInOrder ==
  ASSUME GraphFacts, order = VertexOrder, NEW i \in DOMAIN edges
  PROVE  /\ WithRegular(edges, i) => PlaceOf(Opposite(i), order) < PlaceOf(Owner(i), order)
         /\ ~WithRegular(edges, i) => PlaceOf(Owner(i), order) < PlaceOf(Opposite(i), order)
<1> DEFINE u == Owner(i)
           w == Opposite(i)
<1>1. /\ order \in Seq(Vertices) /\ \A p, q \in DOMAIN order : p < q => <<order[p], order[q]>> \in OrderPairs
      /\ \A v \in Vertices : \E p \in DOMAIN order : order[p] = v
  BY VertexOrderByParts
<1>2. /\ u \in Vertices /\ w \in Vertices /\ u # w
      /\ WithRegular(edges, i) => optional[u] /\ ~optional[w]
      /\ ~WithRegular(edges, i) => u < w /\ optional[u] = optional[w]
  BY OwnersAreEnds
<1>3. u \in Nat /\ w \in Nat
  BY <1>2 DEF GraphFacts
<1>4. AdjList(u) # <<>>
  BY OwnEdges
<1>5. PICK p \in DOMAIN order : order[p] = u
  BY <1>1, <1>2
<1>6. PICK q \in DOMAIN order : order[q] = w
  BY <1>1, <1>2
<1>7. p \in Nat /\ q \in Nat /\ p # q
  BY <1>1, <1>2, <1>5, <1>6
<1>8. \A x, y \in DOMAIN order : order[x] = order[y] => x = y
  BY VertexOrderOnce
<1>9. PlaceOf(u, order) = p /\ PlaceOf(w, order) = q
  BY <1>5, <1>6, <1>8, PlacesInOrder
<1>10. /\ p < q => PartOf(u) < PartOf(w) \/ (PartOf(u) = PartOf(w) /\ u < w)
       /\ q < p => PartOf(w) < PartOf(u) \/ (PartOf(w) = PartOf(u) /\ w < u)
  <2>1. /\ p < q => <<u, w>> \in OrderPairs
        /\ q < p => <<w, u>> \in OrderPairs
    BY <1>1, <1>5, <1>6
  <2> HIDE DEF u, w
  <2> QED
    BY <2>1 DEF OrderPairs
<1> HIDE DEF u, w
<1>11. CASE WithRegular(edges, i)
  <2>1. PartOf(w) < PartOf(u) /\ PartOf(w) \in Nat /\ PartOf(u) \in Nat
    BY <1>2, <1>11 DEF PartOf
  <2>2. q < p
    BY <1>7, <1>10, <2>1
  <2> QED
    BY <1>9, <1>11, <2>2 DEF u, w
<1>12. CASE ~WithRegular(edges, i)
  <2>1. PartOf(u) <= PartOf(w) /\ PartOf(w) \in Nat /\ PartOf(u) \in Nat
    BY <1>2, <1>4, <1>12 DEF PartOf, u
  <2>2. p < q
    BY <1>2, <1>3, <1>7, <1>10, <1>12, <2>1
  <2> QED
    BY <1>9, <1>12, <2>2 DEF u, w
<1> QED
  BY <1>11, <1>12

(* _make_LFTJ_schedule makes such orders. *)
LEMMA LFTJOrderFacts ==
  ASSUME GraphFacts, order = VertexOrder, edgeOrder = EdgesAt(order)
  PROVE  OrderFacts /\ EdgesInTurn
<1>1. /\ order \in Seq(Vertices) /\ \A p, q \in DOMAIN order : p < q => <<order[p], order[q]>> \in OrderPairs
      /\ \A v \in Vertices : \E p \in DOMAIN order : order[p] = v
  BY VertexOrderByParts
<1>2. ASSUME NEW p \in DOMAIN order, NEW q \in DOMAIN order, order[p] = order[q] PROVE p = q
  BY <1>2, VertexOrderOnce
<1>3. /\ edgeOrder \in Seq([edge : DOMAIN edges, at : DOMAIN order])
      /\ Len(edgeOrder) = Len(edges)
      /\ \A c, d \in DOMAIN edgeOrder : edgeOrder[c].edge = edgeOrder[d].edge => c = d
      /\ \A i \in DOMAIN edges : \E d \in DOMAIN edgeOrder : edgeOrder[d].edge = i
      /\ EdgesInTurn
  BY <1>1, <1>2, EdgesOfTheOrder
<1>4. ASSUME NEW d \in DOMAIN edgeOrder
      PROVE  \E e \in {edges[edgeOrder[d].edge]} : ReadForward(d) <=> PlaceOf(e.v1, order) < PlaceOf(e.v2, order)
  <2> DEFINE i == edgeOrder[d].edge
             u == edges[i].v1
             w == edges[i].v2
  <2>1. i \in DOMAIN edges
    <3> DEFINE E == [edge : DOMAIN edges, at : DOMAIN order]
    <3>1. edgeOrder \in Seq(E)
      BY <1>3
    <3>2. edgeOrder[d] \in E
      <4> HIDE DEF E
      <4> QED
        BY <3>1
    <3> QED
      BY <3>2
  <2>2. order[edgeOrder[d].at] = Owner(i)
    BY <1>3 DEF EdgesInTurn
  <2>3. /\ Owner(i) # Opposite(i)
        /\ \/ Owner(i) = u /\ Opposite(i) = w
           \/ Owner(i) = w /\ Opposite(i) = u
    BY <2>1, OwnersAreEnds
  <2>4. /\ WithRegular(edges, i) => PlaceOf(Opposite(i), order) < PlaceOf(Owner(i), order)
        /\ ~WithRegular(edges, i) => PlaceOf(Owner(i), order) < PlaceOf(Opposite(i), order)
    BY <2>1, OwnersInOrder
  <2>5. WithRegular(edges, i) \in BOOLEAN
    BY DEF WithRegular
  <2>6. ReadForward(d) <=> ((Owner(i) = u) # WithRegular(edges, i))
    BY <2>2 DEF ReadForward
  <2>7. PlaceOf(u, order) \in Nat /\ PlaceOf(w, order) \in Nat
    <3>1. ASSUME NEW v \in Vertices PROVE PlaceOf(v, order) \in Nat
      <4>1. PICK p \in DOMAIN order : order[p] = v
        BY <1>1
      <4>2. PlaceOf(v, order) = p
        BY <1>2, <4>1, PlacesInOrder
      <4> QED
        BY <1>1, <4>2
    <3>2. u \in Vertices /\ w \in Vertices
      BY <2>1 DEF GraphFacts
    <3> QED
      BY <3>1, <3>2
  <2> HIDE DEF i, u, w
  <2>8. ReadForward(d) <=> PlaceOf(u, order) < PlaceOf(w, order)
    <3>1. CASE Owner(i) = u /\ Opposite(i) = w
      BY <2>3, <2>4, <2>5, <2>6, <2>7, <3>1
    <3>2. CASE Owner(i) = w /\ Opposite(i) = u
      BY <2>3, <2>4, <2>5, <2>6, <2>7, <3>2
    <3> QED
      BY <2>3, <3>1, <3>2
  <2> QED
    BY <2>8 DEF i, u, w
<1> QED
  BY <1>1, <1>2, <1>3, <1>4 DEF OrderFacts

(* The edge and the end of it by which a vertex is reached. *)
LEMMA ReachedBy ==
  ASSUME GraphFacts, NEW v \in Vertices
  PROVE  \E i \in DOMAIN edges : v \in Ends(edges[i]) /\ Reached(v) = 2 * i + (IF edges[i].v1 = v THEN 0 ELSE 1)
<1> DEFINE at == {j \in DOMAIN edges : v \in Ends(edges[j])}
           Place(i) == 2 * i + (IF edges[i].v1 = v THEN 0 ELSE 1)
           T == {Place(i) : i \in at}
<1>1. Reached(v) = Min(T)
  BY DEF Reached
<1>2. \A i \in at : i \in Nat /\ Place(i) \in Nat
  BY DEF GraphFacts
<1>3. at # {}
  BY DEF GraphFacts
<1>4. T \in SUBSET Nat /\ T # {}
  BY <1>2, <1>3
<1>5. Min(T) \in T
  <2> HIDE DEF T
  <2> QED
    BY <1>4, LeastIsMin
<1> QED
  BY <1>1, <1>5

(* No two vertices are reached by the same end of an edge. *)
LEMMA ReachedOnce ==
  ASSUME GraphFacts, NEW u \in Vertices, NEW v \in Vertices, Reached(u) = Reached(v)
  PROVE  u = v
<1>1. PICK i \in DOMAIN edges : u \in Ends(edges[i]) /\ Reached(u) = 2 * i + (IF edges[i].v1 = u THEN 0 ELSE 1)
  BY ReachedBy
<1>2. PICK j \in DOMAIN edges : v \in Ends(edges[j]) /\ Reached(v) = 2 * j + (IF edges[j].v1 = v THEN 0 ELSE 1)
  BY ReachedBy
<1>3. i \in Nat /\ j \in Nat
  BY DEF GraphFacts
<1>4. CASE edges[i].v1 = u
  <2>1. Reached(u) = 2 * i
    BY <1>1, <1>3, <1>4
  <2>2. edges[j].v1 = v
    BY <1>2, <1>3, <2>1
  <2> QED
    BY <1>2, <1>3, <1>4, <2>1, <2>2
<1>5. CASE edges[i].v1 # u
  <2>1. Reached(u) = 2 * i + 1
    BY <1>1, <1>5
  <2>2. edges[j].v1 # v
    BY <1>2, <1>3, <2>1
  <2>3. Reached(v) = 2 * j + 1
    BY <1>2, <2>2
  <2>4. i = j
    <3>1. 2 * i + 1 = 2 * j + 1
      BY <2>1, <2>3
    <3> QED
      BY <1>3, <3>1
  <2> QED
    BY <1>1, <1>2, <1>5, <2>2, <2>4 DEF Ends
<1> QED
  BY <1>4, <1>5

(* The orders of _make_MJ_schedule. *)
ReachedOrder == Sorted(Vertices, {p \in Vertices \X Vertices : Reached(p[1]) < Reached(p[2])})
EdgesAsGiven(o) ==
  [i \in DOMAIN edges |-> [edge |-> i, at |-> Min({PlaceOf(v, o) : v \in Ends(edges[i])})]]

(* The vertices are in the order in which they are reached, each once. *)
LEMMA ReachedOrderHasAll ==
  ASSUME GraphFacts
  PROVE  /\ ReachedOrder \in Seq(Vertices)
         /\ \A p, q \in DOMAIN ReachedOrder : ReachedOrder[p] = ReachedOrder[q] => p = q
         /\ \A v \in Vertices : \E p \in DOMAIN ReachedOrder : ReachedOrder[p] = v
<1> DEFINE R == {p \in Vertices \X Vertices : Reached(p[1]) < Reached(p[2])}
           o == Sorted(Vertices, R)
<1>1. \A v \in Vertices : Reached(v) \in Nat
  <2>1. ASSUME NEW v \in Vertices PROVE Reached(v) \in Nat
    <3>1. PICK i \in DOMAIN edges : Reached(v) = 2 * i + (IF edges[i].v1 = v THEN 0 ELSE 1)
      BY ReachedBy
    <3>2. i \in Nat
      BY DEF GraphFacts
    <3> QED
      BY <3>1, <3>2
  <2> QED
    BY <2>1
<1>2. \A u, v \in Vertices : <<u, v>> \in R <=> Reached(u) < Reached(v)
  OBVIOUS
<1>3. \A u, v \in Vertices : Reached(u) = Reached(v) => u = v
  BY ReachedOnce
<1> HIDE DEF R
<1>4. StrictOrder(R, Vertices)
  BY <1>1, <1>2, <1>3 DEF StrictOrder
<1>5. IsFiniteSet(Vertices)
  BY FS_Interval DEF GraphFacts
<1>6. /\ o \in Seq(Vertices)
      /\ \A p, q \in 1 .. Len(o) : p < q => <<o[p], o[q]>> \in R
      /\ \A v \in Vertices : \E p \in 1 .. Len(o) : o[p] = v
  BY <1>4, <1>5, SortedInOrder
<1>7. ReachedOrder = o
  BY DEF ReachedOrder, R
<1> HIDE DEF o
<1>8. DOMAIN o = 1 .. Len(o) /\ Len(o) \in Nat /\ \A p \in DOMAIN o : o[p] \in Vertices
  BY <1>6
<1>9. \A p, q \in DOMAIN o : o[p] = o[q] => p = q
  <2>1. ASSUME NEW p \in DOMAIN o, NEW q \in DOMAIN o, p < q PROVE o[p] # o[q]
    <3>1. <<o[p], o[q]>> \in R /\ o[p] \in Vertices
      BY <1>6, <1>8, <2>1
    <3> QED
      BY <1>4, <3>1 DEF StrictOrder
  <2>2. \A p \in DOMAIN o : p \in Nat
    BY <1>8
  <2> QED
    BY <2>1, <2>2
<1> QED
  BY <1>6, <1>7, <1>8, <1>9

(* _make_MJ_schedule makes orders as the search depends on them, of        *)
(* regular edges.                                                          *)
LEMMA MJOrderFacts ==
  ASSUME GraphFacts, \A i \in DOMAIN edges : edges[i].kind = "regular",
         order = ReachedOrder, edgeOrder = EdgesAsGiven(order)
  PROVE  OrderFacts
<1> DEFINE E == [edge : DOMAIN edges, at : DOMAIN order]
<1>6. order \in Seq(Vertices) /\ \A v \in Vertices : \E p \in DOMAIN order : order[p] = v
  BY ReachedOrderHasAll
<1>7. DOMAIN order = 1 .. Len(order) /\ Len(order) \in Nat /\ \A p \in DOMAIN order : p \in Nat
  BY <1>6
<1>8. \A p, q \in DOMAIN order : order[p] = order[q] => p = q
  BY ReachedOrderHasAll
<1>9. ASSUME NEW v \in Vertices
      PROVE  PlaceOf(v, order) \in DOMAIN order /\ order[PlaceOf(v, order)] = v
  BY <1>6, <1>7 DEF PlaceOf
<1>10. ASSUME NEW i \in DOMAIN edges
       PROVE  /\ edgeOrder[i].edge = i /\ edgeOrder[i] \in E
              /\ ReadForward(i) <=> PlaceOf(edges[i].v1, order) < PlaceOf(edges[i].v2, order)
  <2> DEFINE u == edges[i].v1
             w == edges[i].v2
             a == PlaceOf(u, order)
             b == PlaceOf(w, order)
             T == {PlaceOf(v, order) : v \in Ends(edges[i])}
  <2>1. u \in Vertices /\ w \in Vertices /\ u # w /\ ~WithRegular(edges, i)
    BY DEF GraphFacts
  <2>2. a \in DOMAIN order /\ b \in DOMAIN order /\ order[a] = u /\ order[b] = w /\ a \in Nat /\ b \in Nat
    BY <1>7, <1>9, <2>1
  <2>3. T = {a, b}
    BY DEF Ends
  <2>4. edgeOrder[i] = [edge |-> i, at |-> Min(T)]
    BY DEF EdgesAsGiven
  <2> HIDE DEF u, w, a, b, T
  <2>5. Min(T) \in {a, b} /\ Min(T) <= a /\ Min(T) <= b
    <3>1. T \in SUBSET Nat /\ T # {} /\ a \in T /\ b \in T
      BY <2>2, <2>3
    <3> QED
      BY <2>3, <3>1, LeastIsMin
  <2>6. edgeOrder[i].edge = i /\ edgeOrder[i].at = Min(T) /\ edgeOrder[i] \in E
    BY <2>2, <2>4, <2>5
  <2>7. ReadForward(i) <=> order[Min(T)] = u
    <3>1. ReadForward(i) <=> ((order[Min(T)] = u) # WithRegular(edges, i))
      BY <2>6 DEF ReadForward, u
    <3>2. WithRegular(edges, i) = FALSE
      BY <2>1 DEF WithRegular
    <3> QED
      BY <3>1, <3>2
  <2>8. order[Min(T)] = u <=> a < b
    BY <2>1, <2>2, <2>5
  <2> QED
    BY <2>6, <2>7, <2>8 DEF u, w, a, b
<1>11. DOMAIN edgeOrder = DOMAIN edges /\ DOMAIN edges = 1 .. Len(edges) /\ Len(edges) \in Nat
  BY DEF GraphFacts, EdgesAsGiven
<1>12. edgeOrder \in Seq(E) /\ Len(edgeOrder) = Len(edges)
  <2>1. edgeOrder = [i \in 1 .. Len(edges) |-> edgeOrder[i]]
    BY <1>11 DEF EdgesAsGiven
  <2> HIDE DEF E
  <2>2. edgeOrder \in [1 .. Len(edges) -> E]
    BY <1>10, <1>11, <2>1
  <2> QED
    BY <1>11, <2>2, Numbered
<1>13. \A d \in DOMAIN edgeOrder : edgeOrder[d].edge = d /\ d \in DOMAIN edges
  BY <1>10, <1>11
<1>14. \A d \in DOMAIN edgeOrder : \E e \in {edges[edgeOrder[d].edge]} :
         ReadForward(d) <=> PlaceOf(e.v1, order) < PlaceOf(e.v2, order)
  BY <1>10, <1>13
<1>15. /\ \A v \in Vertices : \E p \in DOMAIN order : order[p] = v
       /\ \A c, d \in DOMAIN edgeOrder : edgeOrder[c].edge = edgeOrder[d].edge => c = d
       /\ \A i \in DOMAIN edges : \E d \in DOMAIN edgeOrder : edgeOrder[d].edge = i
  BY <1>6, <1>7, <1>11, <1>13
<1> QED
  BY <1>6, <1>8, <1>12, <1>14, <1>15 DEF OrderFacts

(* The orders and the graph are those of the search. *)
Ordering ==
  /\ Graph
  /\ IF input.table THEN order = ReachedOrder /\ edgeOrder = EdgesAsGiven(order)
                    ELSE order = VertexOrder /\ edgeOrder = EdgesAt(order)

(* A query for a table join has regular edges only. *)
LEMMA TableEdgesAreRegular ==
  ASSUME Graph, input.table, NEW i \in DOMAIN edges
  PROVE  edges[i].kind = "regular"
<1> DEFINE text == Query.edges[i]
<1>1. edges = EdgesInfo(Query) /\ i \in DOMAIN Query.edges
  BY DEF Graph, EdgesInfo
<1>2. Accepted(text)
  BY <1>1 DEF Graph, Parses
<1>3. text \in ToSet(Query.edges)
  BY <1>1 DEF ToSet
<1>4. text.prefix = ""
  BY <1>3, InputsAssumption DEF InputsAssumption, Graph, Query
<1>5. edges[i].kind = Reading(text).kind /\ Reading(text) # NoEdge
  <2>1. edges[i].kind = Reading(text).kind
    BY <1>1 DEF EdgesInfo
  <2>2. Reading(text).from # Reading(text).to
    BY <1>1 DEF Graph, WellFormed
  <2>3. NoEdge.from = NoEdge.to
    BY DEF NoEdge, Edge
  <2> QED
    BY <2>1, <2>2, <2>3
<1> HIDE DEF text
<1> DEFINE all == Tokens(text)
           prefix == IF Len(all) = 5 /\ all[1] \in {"OPTIONAL", "NOT"} THEN all[1] ELSE ""
           t == IF Len(all) = 5 THEN Tail(all) ELSE all
           r == Reading(text)
           right == Edge(KindOf(prefix), t[1], t[2], t[4], "directed", Text(prefix, t[1], "->", t[2], t[4]))
           left == Edge(KindOf(prefix), t[4], t[3], t[1], "directed", Text(prefix, t[1], "<-", t[3], t[4]))
           plain == Edge(KindOf(prefix), t[1], t[2], t[3], "undirected", Text("", t[1], "-", t[2], t[3]))
           isRight == Len(t) = 4 /\ t[3] = ""
           isLeft == Len(t) = 4 /\ t[3] # "" /\ t[2] = ""
           isPlain == Len(t) = 3
<1>6. r = CASE isRight -> right [] isLeft -> left [] isPlain -> plain [] OTHER -> NoEdge
  BY DEF Reading
<1> HIDE DEF t, prefix
<1>7. /\ right.kind = KindOf(prefix) /\ left.kind = KindOf(prefix) /\ plain.dir = "undirected"
      /\ right.target.prefix = prefix /\ left.target.prefix = prefix
  BY DEF Edge, Text
<1>8. ~(isRight /\ isLeft) /\ ~(isRight /\ isPlain) /\ ~(isLeft /\ isPlain)
  <2>1. Len(t) = 4 => Len(t) # 3
    OBVIOUS
  <2> QED
    BY <2>1
<1>9. r.target = text
  BY <1>2 DEF Accepted
<1>10. prefix = "" => KindOf(prefix) = "regular"
  BY DEF KindOf
<1>11. r.dir = "undirected" => r.kind = "regular"
  BY <1>2, UndirectedReadings
<1> HIDE DEF r, right, left, plain, isRight, isLeft, isPlain
<1>12. r = right \/ r = left \/ r = plain
  <2>1. isRight => r = right
    BY <1>6, <1>8
  <2>2. isLeft => r = left
    BY <1>6, <1>8
  <2>3. isPlain => r = plain
    BY <1>6, <1>8
  <2>4. ~isRight /\ ~isLeft /\ ~isPlain => r = NoEdge
    BY <1>6
  <2> QED
    BY <1>5, <2>1, <2>2, <2>3, <2>4 DEF r
<1>13. r.kind = "regular"
  BY <1>4, <1>7, <1>9, <1>10, <1>11, <1>12
<1> QED
  BY <1>5, <1>13 DEF r

LEMMA OrderingIsSound == Ordering => GraphFacts /\ OrderFacts /\ (~input.table => EdgesInTurn)
<1> SUFFICES ASSUME Ordering PROVE GraphFacts /\ OrderFacts /\ (~input.table => EdgesInTurn)
  OBVIOUS
<1>1. GraphFacts
  BY GraphIsSound DEF Ordering
<1>2. CASE input.table
  <2>1. \A i \in DOMAIN edges : edges[i].kind = "regular"
    BY <1>2, TableEdgesAreRegular DEF Ordering
  <2> QED
    BY <1>1, <1>2, <2>1, MJOrderFacts DEF Ordering
<1>3. CASE ~input.table
  BY <1>1, <1>3, LFTJOrderFacts DEF Ordering
<1> QED
  BY <1>1, <1>2, <1>3

(* The orders of the search are in the order the kernels expect. *)
LEMMA LevelsInOrder == Ordering => LevelsFollowOrder
<1> SUFFICES ASSUME Ordering PROVE LevelsFollowOrder
  OBVIOUS
<1>1. GraphFacts /\ OrderFacts /\ (~input.table => EdgesInTurn)
  BY OrderingIsSound
<1>2. ASSUME NEW v \in Vertices PROVE Cardinality({p \in DOMAIN order : order[p] = v}) = 1
  <2>1. PICK p \in DOMAIN order : order[p] = v
    BY <1>1 DEF OrderFacts
  <2>2. {q \in DOMAIN order : order[q] = v} = {p}
    BY <1>1, <2>1 DEF OrderFacts
  <2> QED
    BY <2>2, FS_Singleton
<1>3. ASSUME NEW i \in DOMAIN edges PROVE Cardinality({d \in DOMAIN edgeOrder : edgeOrder[d].edge = i}) = 1
  <2>1. PICK d \in DOMAIN edgeOrder : edgeOrder[d].edge = i
    BY <1>1 DEF OrderFacts
  <2>2. \A c \in DOMAIN edgeOrder : edgeOrder[c].edge = edgeOrder[d].edge => c = d
    BY <1>1 DEF OrderFacts
  <2>3. {c \in DOMAIN edgeOrder : edgeOrder[c].edge = i} = {d}
    BY <2>1, <2>2
  <2> QED
    BY <2>3, FS_Singleton
<1>4. /\ DOMAIN order = 1 .. Len(order) /\ Len(order) \in Nat /\ \A p \in DOMAIN order : order[p] \in Vertices
      /\ DOMAIN edgeOrder = 1 .. Len(edgeOrder) /\ Len(edgeOrder) \in Nat
      /\ \A d \in DOMAIN edgeOrder : edgeOrder[d].edge \in DOMAIN edges /\ edgeOrder[d].at \in DOMAIN order
  <2> DEFINE E == [edge : DOMAIN edges, at : DOMAIN order]
  <2>1. order \in Seq(Vertices) /\ edgeOrder \in Seq(E)
    BY <1>1 DEF OrderFacts
  <2>2. \A e \in E : e.edge \in DOMAIN edges /\ e.at \in DOMAIN order
    OBVIOUS
  <2> HIDE DEF E
  <2>3. DOMAIN edgeOrder = 1 .. Len(edgeOrder) /\ Len(edgeOrder) \in Nat /\ \A d \in DOMAIN edgeOrder : edgeOrder[d] \in E
    BY <2>1
  <2> QED
    BY <2>1, <2>2, <2>3
<1>5. ASSUME ~input.table
      PROVE  /\ \A d \in 2 .. Len(edgeOrder) : edgeOrder[d - 1].at <= edgeOrder[d].at
             /\ \A p \in 2 .. Len(order) :
                  LET Chosen(q) == \E d \in DOMAIN edgeOrder : edgeOrder[d].at = q
                  IN  /\ optional[order[p - 1]] => optional[order[p]]
                      /\ Chosen(p) /\ ~Chosen(p - 1) => optional[order[p]] /\ ~optional[order[p - 1]]
  <2>1. EdgesInTurn /\ order = VertexOrder
    BY <1>1, <1>5 DEF Ordering
  <2>2. ASSUME NEW d \in 2 .. Len(edgeOrder) PROVE edgeOrder[d - 1].at <= edgeOrder[d].at
    <3>1. d - 1 \in DOMAIN edgeOrder /\ d \in DOMAIN edgeOrder /\ d - 1 < d
      BY <1>4
    <3> QED
      BY <2>1, <3>1 DEF EdgesInTurn
  <2> DEFINE Chosen(q) == \E d \in DOMAIN edgeOrder : edgeOrder[d].at = q
  <2>3. ASSUME NEW q \in DOMAIN order PROVE Chosen(q) <=> AdjList(order[q]) # <<>>
    <3>1. ASSUME NEW d \in DOMAIN edgeOrder, edgeOrder[d].at = q PROVE AdjList(order[q]) # <<>>
      <4>1. Owner(edgeOrder[d].edge) = order[q] /\ edgeOrder[d].edge \in DOMAIN edges
        BY <1>4, <2>1, <3>1 DEF EdgesInTurn
      <4> QED
        BY <1>1, <4>1, OwnEdges
    <3>2. ASSUME AdjList(order[q]) # <<>> PROVE Chosen(q)
      <4>1. PICK i \in DOMAIN edges : Owner(i) = order[q]
        BY <1>1, <3>2, OwnEdges
      <4>2. PICK d \in DOMAIN edgeOrder : edgeOrder[d].edge = i
        BY <1>1 DEF OrderFacts
      <4>3. order[edgeOrder[d].at] = order[q] /\ edgeOrder[d].at \in DOMAIN order
        BY <1>4, <2>1, <4>1, <4>2 DEF EdgesInTurn
      <4>4. edgeOrder[d].at = q
        BY <1>1, <4>3 DEF OrderFacts
      <4> QED
        BY <4>4
    <3> QED
      BY <3>1, <3>2
  <2>4. ASSUME NEW p \in 2 .. Len(order)
        PROVE  /\ optional[order[p - 1]] => optional[order[p]]
               /\ Chosen(p) /\ ~Chosen(p - 1) => optional[order[p]] /\ ~optional[order[p - 1]]
    <3> DEFINE u == order[p - 1]
               w == order[p]
    <3>1. p - 1 \in DOMAIN order /\ p \in DOMAIN order /\ p - 1 < p
      BY <1>4
    <3>2. u \in Vertices /\ w \in Vertices
      BY <1>4, <3>1
    <3>3. <<u, w>> \in OrderPairs
      BY <1>1, <2>1, <3>1, VertexOrderByParts
    <3>4. optional[u] \in BOOLEAN /\ optional[w] \in BOOLEAN
      BY <1>1, <3>2 DEF GraphFacts
    <3>5. Chosen(p - 1) <=> AdjList(u) # <<>>
      BY <2>3, <3>1
    <3>6. Chosen(p) <=> AdjList(w) # <<>>
      BY <2>3, <3>1
    <3> HIDE DEF u, w, Chosen
    <3>7. PartOf(u) <= PartOf(w)
      <4>1. PartOf(u) \in Nat /\ PartOf(w) \in Nat
        BY <3>4 DEF PartOf
      <4> HIDE DEF PartOf
      <4>2. PartOf(u) < PartOf(w) \/ (PartOf(u) = PartOf(w) /\ u < w)
        BY <3>3 DEF OrderPairs
      <4> QED
        BY <4>1, <4>2
    <3>8. /\ optional[u] => optional[w]
          /\ AdjList(w) # <<>> /\ AdjList(u) = <<>> => optional[w] /\ ~optional[u]
      BY <3>4, <3>7 DEF PartOf
    <3> QED
      BY <3>5, <3>6, <3>8 DEF u, w
  <2> QED
    BY <2>2, <2>4
<1> QED
  BY <1>2, <1>3, <1>5 DEF LevelsFollowOrder

(* The orders stay what they are while the query graph does. *)
LEMMA GraphKept ==
  ASSUME input' = input, edges' = edges, optional' = optional
  PROVE  /\ Vertices' = Vertices /\ (Graph' <=> Graph)
         /\ VertexOrder' = VertexOrder /\ ReachedOrder' = ReachedOrder
         /\ \A o : EdgesAt(o)' = EdgesAt(o)
         /\ \A o : EdgesAsGiven(o)' = EdgesAsGiven(o)
<1>1. Vertices' = Vertices /\ Query' = Query
  BY DEF Vertices, Query
<1>2. Graph' <=> Graph
  BY <1>1 DEF Graph
<1>3. ASSUME NEW i PROVE Owner(i)' = Owner(i) /\ Opposite(i)' = Opposite(i)
  BY DEF Owner, Opposite
<1>4. ASSUME NEW v PROVE AdjList(v)' = AdjList(v)
  <2> DEFINE own == {i \in DOMAIN edges : Owner(i) = v}
             Before(i, j) == Opposite(i) < Opposite(j) \/ (Opposite(i) = Opposite(j) /\ i < j)
             R == {p \in own \X own : Before(p[1], p[2])}
  <2>1. own' = own
    BY <1>3
  <2>2. R' = R
    BY <1>3, <2>1
  <2> QED
    BY <2>1, <2>2 DEF AdjList
<1>5. ASSUME NEW vs PROVE Ordered(vs)' = Ordered(vs)
  BY DEF Ordered
<1>6. ASSUME NEW b PROVE WithEdges(b)' = WithEdges(b) /\ Postfix(b)' = Postfix(b)
  <2> DEFINE with == {v \in Vertices : optional[v] = b /\ AdjList(v) # <<>>}
             without == {v \in Vertices : optional[v] = b /\ AdjList(v) = <<>>}
  <2>1. with' = with /\ without' = without
    BY <1>1, <1>4
  <2> QED
    BY <2>1 DEF WithEdges, Postfix, Ordered
<1>7. VertexOrder' = VertexOrder
  <2>1. /\ WithEdges(FALSE)' = WithEdges(FALSE) /\ Postfix(FALSE)' = Postfix(FALSE)
        /\ WithEdges(TRUE)' = WithEdges(TRUE) /\ Postfix(TRUE)' = Postfix(TRUE)
    BY <1>6, Zenon
  <2> QED
    BY <2>1 DEF VertexOrder
<1>8. ASSUME NEW v PROVE Reached(v)' = Reached(v)
  BY DEF Reached
<1>9. ReachedOrder' = ReachedOrder
  <2> DEFINE R == {p \in Vertices \X Vertices : Reached(p[1]) < Reached(p[2])}
  <2>1. R' = R
    BY <1>1, <1>8
  <2> QED
    BY <1>1, <2>1 DEF ReachedOrder
<1>10. ASSUME NEW o PROVE EdgesAt(o)' = EdgesAt(o)
  BY <1>4 DEF EdgesAt
<1>11. ASSUME NEW o PROVE EdgesAsGiven(o)' = EdgesAsGiven(o)
  BY DEF EdgesAsGiven
<1> QED
  BY <1>1, <1>2, <1>7, <1>9, <1>10, <1>11

LEMMA OrderingKept ==
  ASSUME input' = input, edges' = edges, optional' = optional, order' = order, edgeOrder' = edgeOrder
  PROVE  Ordering' <=> Ordering
<1>1. /\ (Graph' <=> Graph) /\ VertexOrder' = VertexOrder /\ ReachedOrder' = ReachedOrder
      /\ EdgesAt(order)' = EdgesAt(order) /\ EdgesAsGiven(order)' = EdgesAsGiven(order)
  BY GraphKept
<1> QED
  BY <1>1 DEF Ordering

-----------------------------------------------------------------------------
(* The phases.                                                             *)

(* Nothing was searched, and nothing ordered either. *)
Blank ==
  /\ path = <<>> /\ valid = <<FALSE>> /\ cursor = <<1>>
  /\ grid = [v \in Vertices |-> 0] /\ ranges = [v \in Vertices |-> <<Whole>>]
  /\ tree = {} /\ plan = <<>>

Unsearched == order = <<>> /\ edgeOrder = <<>> /\ Blank

(* What each phase leaves to the next. *)
Prepared ==
  /\ input \in Inputs
  /\ phase \in {"parse", "graph", "init", "order", "search", "planned", "failed"}
  /\ phase = "graph" => Parses(Query)
  /\ phase \in {"init", "order", "search", "planned"} => Graph
  /\ phase \in {"parse", "graph", "init", "order"} => Unsearched
  /\ phase \in {"search", "planned"} => Ordering
  /\ phase = "failed" => Unsearched \/ Ordering

LEMMA InitPrepared == Init => Prepared
BY DEF Init, Prepared, Unsearched, Blank, Vertices, Query

(* The steps before the search change nothing that is searched. *)
LEMMA UnsearchedKept ==
  ASSUME Unsearched, input' = input, UNCHANGED orderVars, UNCHANGED searchVars
  PROVE  Unsearched'
BY DEF Unsearched, Blank, orderVars, searchVars, Vertices, Query, Whole

LEMMA NextPrepared == Prepared /\ [Next]_vars => Prepared'
<1> SUFFICES ASSUME Prepared, [Next]_vars PROVE Prepared'
  OBVIOUS
<1>1. CASE ParseQuery
  <2>1. Unsearched'
    BY <1>1, UnsearchedKept DEF ParseQuery, Prepared
  <2> QED
    BY <1>1, <2>1 DEF ParseQuery, Prepared, Query
<1>2. CASE MakeQueryGraph
  <2>1. Unsearched'
    BY <1>2, UnsearchedKept DEF MakeQueryGraph, Prepared
  <2>2. input' = input /\ phase = "graph" /\ Query' = Query /\ Vertices' = Vertices
    BY <1>2 DEF MakeQueryGraph, Query, Vertices
  <2>3. CASE WellFormed(Query)
    <3>1. /\ edges' = EdgesInfo(Query) /\ optional' = [v \in Vertices |-> IsOptionalVertex(edges', v)]
          /\ phase' = "init"
      BY <1>2, <2>3 DEF MakeQueryGraph
    <3>2. Graph'
      BY <2>2, <2>3, <3>1 DEF Graph, Prepared
    <3> QED
      BY <2>1, <2>2, <3>1, <3>2 DEF Prepared
  <2>4. CASE ~WellFormed(Query)
    BY <1>2, <2>1, <2>2, <2>4 DEF MakeQueryGraph, Prepared
  <2> QED
    BY <2>3, <2>4
<1>3. CASE InitDevices
  <2>1. Unsearched'
    BY <1>3, UnsearchedKept DEF InitDevices, Prepared
  <2>2. Graph'
    BY <1>3, GraphKept DEF InitDevices, Prepared, queryVars
  <2> QED
    BY <1>3, <2>1, <2>2 DEF InitDevices, Prepared
<1>4. CASE MakeOrder
  <2>1. phase = "order" /\ phase' = "search" /\ input' = input /\ edges' = edges /\ optional' = optional
    BY <1>4 DEF MakeOrder, queryVars
  <2>2. /\ (Graph' <=> Graph) /\ VertexOrder' = VertexOrder /\ ReachedOrder' = ReachedOrder
        /\ EdgesAt(order)' = EdgesAt(order') /\ EdgesAsGiven(order)' = EdgesAsGiven(order')
    BY <2>1, GraphKept
  <2>3. IF input.table THEN order' = ReachedOrder /\ edgeOrder' = EdgesAsGiven(order')
                       ELSE order' = VertexOrder /\ edgeOrder' = EdgesAt(order')
    BY <1>4 DEF MakeOrder, MakeMJSchedule, MakeLFTJSchedule, ReachedOrder, EdgesAsGiven
  <2>4. Ordering'
    BY <2>1, <2>2, <2>3 DEF Ordering, Prepared
  <2> QED
    BY <2>1, <2>2, <2>4 DEF Prepared
<1>5. CASE OrderFails
  <2>1. Unsearched'
    BY <1>5, UnsearchedKept DEF OrderFails, Prepared
  <2> QED
    BY <1>5, <2>1 DEF OrderFails, Prepared
<1>6. CASE Skip \/ Enter \/ Found \/ Return \/ Finish
  <2>1. /\ phase = "search" /\ phase' \in {"search", "planned", "failed"}
        /\ input' = input /\ edges' = edges /\ optional' = optional /\ order' = order /\ edgeOrder' = edgeOrder
    BY <1>6 DEF Skip, Enter, Found, Return, Finish, Back, AtCandidate, Exhausted, queryVars, orderVars
  <2>2. Graph' /\ Ordering'
    BY <2>1, GraphKept, OrderingKept DEF Prepared
  <2> QED
    BY <2>1, <2>2 DEF Prepared
<1>7. CASE UNCHANGED vars
  <2>1. /\ input' = input /\ phase' = phase /\ edges' = edges /\ optional' = optional
        /\ order' = order /\ edgeOrder' = edgeOrder /\ UNCHANGED orderVars /\ UNCHANGED searchVars
    BY <1>7 DEF vars, queryVars, orderVars, searchVars
  <2>2. (Graph' <=> Graph) /\ (Ordering' <=> Ordering)
    BY <2>1, GraphKept, OrderingKept
  <2>3. Unsearched => Unsearched'
    BY <2>1, UnsearchedKept
  <2>4. Query' = Query
    BY <2>1 DEF Query
  <2> QED
    BY <2>1, <2>2, <2>3, <2>4 DEF Prepared
<1> QED
  BY <1>1, <1>2, <1>3, <1>4, <1>5, <1>6, <1>7 DEF Next

(* Until the search nothing is searched, and then the orders are those of  *)
(* the query.                                                              *)
THEOREM Preparation == Spec => []Prepared
BY InitPrepared, NextPrepared, PTL DEF Spec

(* Every vertex and every edge is chosen once, and in an attribute join in *)
(* the order the kernels expect, whatever the query is.                    *)
THEOREM LevelsStayInOrder == Spec => []LevelsFollowOrder
<1>1. Prepared => LevelsFollowOrder
  BY LevelsInOrder DEF Prepared, LevelsFollowOrder
<1> QED
  BY <1>1, Preparation, PTL

-----------------------------------------------------------------------------
(* The candidates of an edge.                                              *)

EdgeAt(d) == edges[edgeOrder[d].edge]

(* They stay what they are during the search. *)
LEMMA CandidatesKept ==
  ASSUME input' = input, edges' = edges, order' = order, edgeOrder' = edgeOrder
  PROVE  /\ \A d : Candidates(d)' = Candidates(d)
         /\ \A d : EdgeAt(d)' = EdgeAt(d)
         /\ \A d : TouchedLater(d)' = TouchedLater(d)
<1>1. ASSUME NEW label, NEW row, NEW col PROVE Leaves(label, row, col)' = Leaves(label, row, col)
  BY DEF Leaves
<1>2. ASSUME NEW v PROVE RowsOf(v)' = RowsOf(v)
  BY DEF RowsOf, Query
<1>3. ASSUME NEW e PROVE Blocks(e)' = Blocks(e)
  BY <1>2 DEF Blocks
<1>4. ASSUME NEW d PROVE ReadForward(d)' = ReadForward(d)
  BY DEF ReadForward
<1>5. ASSUME NEW d, NEW e, NEW row, NEW col
      PROVE  Along(d, e, row, col)' = Along(d, e, row, col) /\ Against(d, e, row, col)' = Against(d, e, row, col)
  BY <1>1, <1>4 DEF Along, Against
<1>6. ASSUME NEW d PROVE EdgeAt(d)' = EdgeAt(d) /\ TouchedLater(d)' = TouchedLater(d)
  BY DEF EdgeAt, TouchedLater
<1>7. ASSUME NEW d PROVE Candidates(d)' = Candidates(d)
  <2> DEFINE e == EdgeAt(d)
             Part(b) == Along(d, e, Blocks(e)[b][1], Blocks(e)[b][2]) \o Against(d, e, Blocks(e)[b][1], Blocks(e)[b][2])
             parts == [b \in DOMAIN Blocks(e) |-> Part(b)]
  <2>1. e' = e /\ Blocks(e)' = Blocks(e)
    BY <1>3, <1>6
  <2>2. ASSUME NEW b PROVE Part(b)' = Part(b)
    BY <1>5, <2>1
  <2>3. parts' = parts
    BY <2>1, <2>2
  <2>4. Candidates(d) = FlattenSeq(parts) /\ Candidates(d)' = FlattenSeq(parts')
    BY DEF Candidates, EdgeAt
  <2> QED
    BY <2>3, <2>4
<1> QED
  BY <1>6, <1>7

(* The grid rows of a vertex. *)
LEMMA RowsAreNumbers ==
  ASSUME input \in Inputs, NEW v \in Vertices
  PROVE  RowsOf(v) \in SUBSET Nat /\ RowsOf(v) # {} /\ IsFiniteSet(RowsOf(v))
<1>1. Query.vertices[v] \in ToSet(Query.vertices)
  BY DEF Vertices, ToSet
<1>2. Query.vertices[v].label \in DOMAIN input.rows
  BY <1>1, InputsAssumption DEF InputsAssumption, Query
<1> QED
  BY <1>2, InputsAssumption DEF InputsAssumption, RowsOf

(* A leaf of the data graph has edges, and they lie in its ranges. *)
SoundLeaf(leaf) ==
  /\ leaf.edges # {} /\ leaf.edges \subseteq Interval(leaf.src) \X Interval(leaf.dst)
  /\ {leaf.src, leaf.dst} \subseteq [lo : Addresses, hi : Addresses]

LEMMA LeavesOfBlocks ==
  ASSUME input \in Inputs, NEW label, NEW row, NEW col
  PROVE  /\ Leaves(label, row, col) \in Seq(ToSet(Leaves(label, row, col)))
         /\ \A k \in DOMAIN Leaves(label, row, col) :
              /\ <<label, row, col>> \in DOMAIN input.blocks
              /\ Leaves(label, row, col)[k] = input.blocks[<<label, row, col>>][k]
              /\ SoundLeaf(Leaves(label, row, col)[k])
<1> DEFINE b == <<label, row, col>>
           L == Leaves(label, row, col)
<1>1. L = IF b \in DOMAIN input.blocks THEN input.blocks[b] ELSE <<>>
  BY DEF Leaves
<1>2. \A i \in Inputs : \A a \in DOMAIN i.blocks : \A j \in DOMAIN i.blocks[a] : \E leaf \in {i.blocks[a][j]} :
        /\ leaf.edges # {} /\ leaf.edges \subseteq Interval(leaf.src) \X Interval(leaf.dst)
        /\ {leaf.src, leaf.dst} \subseteq [lo : Addresses, hi : Addresses]
        /\ \A l \in DOMAIN i.blocks[a] \ {j} : leaf.edges \cap i.blocks[a][l].edges = {}
  BY InputsAssumption DEF InputsAssumption
<1>3. \A i \in Inputs : \A a \in DOMAIN i.blocks : i.blocks[a] \in Seq(ToSet(i.blocks[a]))
  BY InputsAssumption DEF InputsAssumption
<1> HIDE DEF b, L
<1>4. CASE b \in DOMAIN input.blocks
  <2>1. L = input.blocks[b]
    BY <1>1, <1>4
  <2>2. L \in Seq(ToSet(L))
    BY <1>3, <1>4, <2>1
  <2>3. ASSUME NEW k \in DOMAIN L PROVE L[k] = input.blocks[b][k] /\ SoundLeaf(L[k])
    <3>1. PICK leaf \in {input.blocks[b][k]} :
            /\ leaf.edges # {} /\ leaf.edges \subseteq Interval(leaf.src) \X Interval(leaf.dst)
            /\ {leaf.src, leaf.dst} \subseteq [lo : Addresses, hi : Addresses]
            /\ \A l \in DOMAIN input.blocks[b] \ {k} : leaf.edges \cap input.blocks[b][l].edges = {}
      BY <1>2, <1>4, <2>1, <2>3, SMTT(30)
    <3>2. SoundLeaf(leaf)
      BY <3>1, Zenon DEF SoundLeaf
    <3> QED
      BY <2>1, <3>1, <3>2
  <2> QED
    BY <1>4, <2>2, <2>3 DEF b, L
<1>5. CASE b \notin DOMAIN input.blocks
  <2>1. L = <<>> /\ L \in Seq(ToSet(L)) /\ DOMAIN L = {}
    BY <1>1, <1>5 DEF ToSet
  <2> QED
    BY <2>1 DEF L
<1> QED
  BY <1>4, <1>5

(* The blocks of an edge are gone through once each. *)
LEMMA BlocksInOrder ==
  ASSUME input \in Inputs, NEW e, e.v1 \in Vertices, e.v2 \in Vertices
  PROVE  /\ Blocks(e) \in Seq(RowsOf(e.v1) \X RowsOf(e.v2))
         /\ \A p, q \in 1 .. Len(Blocks(e)) : p < q => Blocks(e)[p] # Blocks(e)[q]
         /\ \A b \in RowsOf(e.v1) \X RowsOf(e.v2) : \E p \in 1 .. Len(Blocks(e)) : Blocks(e)[p] = b
<1> DEFINE blocks == RowsOf(e.v1) \X RowsOf(e.v2)
           Before(a, b) == a[1] < b[1] \/ (a[1] = b[1] /\ a[2] < b[2])
           R == {p \in blocks \X blocks : Before(p[1], p[2])}
<1>1. /\ RowsOf(e.v1) \in SUBSET Nat /\ RowsOf(e.v2) \in SUBSET Nat
      /\ IsFiniteSet(RowsOf(e.v1)) /\ IsFiniteSet(RowsOf(e.v2))
  BY RowsAreNumbers
<1>2. IsFiniteSet(blocks)
  BY <1>1, FS_Product
<1>3. \A b \in blocks : b[1] \in Nat /\ b[2] \in Nat /\ b = <<b[1], b[2]>>
  BY <1>1
<1>4. \A a, b \in blocks : <<a, b>> \in R <=> Before(a, b)
  OBVIOUS
<1>5. StrictOrder(R, blocks)
  <2> HIDE DEF blocks, R
  <2>1. \A a \in blocks : ~Before(a, a)
    BY <1>3
  <2>2. \A a, b, c \in blocks : Before(a, b) /\ Before(b, c) => Before(a, c)
    BY <1>3
  <2>3. \A a, b \in blocks : a = b \/ Before(a, b) \/ Before(b, a)
    <3>1. ASSUME NEW a \in blocks, NEW b \in blocks, ~Before(a, b), ~Before(b, a) PROVE a = b
      <4>1. a[1] = b[1] /\ a[2] = b[2]
        BY <1>3, <3>1
      <4> QED
        BY <1>3, <4>1
    <3> QED
      BY <3>1
  <2> HIDE DEF Before
  <2> QED
    BY <1>4, <2>1, <2>2, <2>3 DEF StrictOrder
<1> DEFINE s == Blocks(e)
<1>6. s = Sorted(blocks, R)
  BY DEF Blocks
<1> HIDE DEF R, blocks, s
<1>7. /\ s \in Seq(blocks) /\ \A i, j \in 1 .. Len(s) : i < j => <<s[i], s[j]>> \in R
      /\ \A x \in blocks : \E i \in 1 .. Len(s) : s[i] = x
  BY <1>2, <1>5, <1>6, SortedInOrder
<1>8. \A i \in 1 .. Len(s) : s[i] \in blocks
  BY <1>7
<1>9. \A i, j \in 1 .. Len(s) : i < j => s[i] # s[j]
  BY <1>5, <1>7, <1>8 DEF StrictOrder
<1> QED
  BY <1>7, <1>9 DEF s, blocks

(* The candidates of edge d of the order, in no order. *)
Offers(d) ==
  UNION {ToSet(Along(d, EdgeAt(d), b[1], b[2])) \cup ToSet(Against(d, EdgeAt(d), b[1], b[2])) :
           b \in RowsOf(EdgeAt(d).v1) \X RowsOf(EdgeAt(d).v2)}

(* The way the shards along the edge are read, and the other. *)
WayAlong(d) == IF ReadForward(d) THEN "out" ELSE "in"
WayAgainst(d) == IF ReadForward(d) THEN "in" ELSE "out"

(* The candidates of a block have a shard each. *)
LEMMA CandidatesOfBlock ==
  ASSUME input \in Inputs, NEW d, NEW e, NEW row, NEW col
  PROVE  /\ Along(d, e, row, col) \in Seq(ToSet(Along(d, e, row, col)))
         /\ Against(d, e, row, col) \in Seq(ToSet(Against(d, e, row, col)))
         /\ \A k \in DOMAIN Along(d, e, row, col) :
              /\ k \in DOMAIN Leaves(e.label, row, col)
              /\ Along(d, e, row, col)[k].shard = ShardId(e.label, row, col, k, WayAlong(d))
         /\ \A k \in DOMAIN Against(d, e, row, col) :
              /\ k \in DOMAIN Leaves(e.label, col, row) /\ e.dir = "undirected"
              /\ Against(d, e, row, col)[k].shard = ShardId(e.label, col, row, k, WayAgainst(d))
<1> DEFINE a == Along(d, e, row, col)
           b == Against(d, e, row, col)
           L == Leaves(e.label, row, col)
           M == Leaves(e.label, col, row)
<1>1. L \in Seq(ToSet(L)) /\ M \in Seq(ToSet(M))
  BY LeavesOfBlocks
<1>2. Len(L) \in Nat /\ DOMAIN L = 1 .. Len(L) /\ Len(M) \in Nat /\ DOMAIN M = 1 .. Len(M)
  BY <1>1
<1>3. /\ a = [k \in DOMAIN L |-> a[k]] /\ DOMAIN a = DOMAIN L
      /\ \A k \in DOMAIN L : a[k].shard = ShardId(e.label, row, col, k, WayAlong(d))
  BY DEF Along, Candidate, WayAlong
<1>4. CASE e.dir # "undirected"
  <2>1. b = <<>> /\ DOMAIN b = {}
    BY <1>4 DEF Against
  <2>2. a \in [1 .. Len(L) -> ToSet(a)]
    BY <1>2, <1>3 DEF ToSet
  <2> HIDE DEF a, b, L
  <2>3. a \in Seq(ToSet(a))
    BY <1>2, <2>2, Numbered
  <2> QED
    BY <1>3, <2>1, <2>3 DEF a, b, L
<1>5. CASE e.dir = "undirected"
  <2>1. /\ b = [k \in DOMAIN M |-> b[k]] /\ DOMAIN b = DOMAIN M
        /\ \A k \in DOMAIN M : b[k].shard = ShardId(e.label, col, row, k, WayAgainst(d))
    BY <1>5 DEF Against, Candidate, WayAgainst
  <2>2. a \in [1 .. Len(L) -> ToSet(a)] /\ b \in [1 .. Len(M) -> ToSet(b)]
    BY <1>2, <1>3, <2>1 DEF ToSet
  <2> HIDE DEF a, b, L, M
  <2>3. a \in Seq(ToSet(a)) /\ b \in Seq(ToSet(b))
    BY <1>2, <2>2, Numbered
  <2> QED
    BY <1>3, <1>5, <2>1, <2>3 DEF a, b, L, M
<1> QED
  BY <1>4, <1>5

(* The search has every candidate of an edge, each shard once. *)
LEMMA OffersListed ==
  ASSUME input \in Inputs, NEW d, EdgeAt(d).v1 \in Vertices, EdgeAt(d).v2 \in Vertices
  PROVE  /\ Candidates(d) \in Seq(Offers(d))
         /\ \A c \in Offers(d) : \E i \in 1 .. Len(Candidates(d)) : Candidates(d)[i] = c
         /\ \A i, j \in 1 .. Len(Candidates(d)) :
              i # j => Candidates(d)[i].shard # Candidates(d)[j].shard
<1> DEFINE e == EdgeAt(d)
           blocks == RowsOf(e.v1) \X RowsOf(e.v2)
           C == Offers(d)
           A(p) == Along(d, e, Blocks(e)[p][1], Blocks(e)[p][2])
           B(p) == Against(d, e, Blocks(e)[p][1], Blocks(e)[p][2])
           n == Len(Blocks(e))
           ss == [p \in DOMAIN Blocks(e) |-> A(p) \o B(p)]
           R == {x \in C \X C : x[1].shard # x[2].shard}
<1>1. /\ Blocks(e) \in Seq(blocks) /\ \A p, q \in 1 .. n : p < q => Blocks(e)[p] # Blocks(e)[q]
      /\ \A b \in blocks : \E p \in 1 .. n : Blocks(e)[p] = b
  BY BlocksInOrder
<1>2. n \in Nat /\ DOMAIN Blocks(e) = 1 .. n /\ \A p \in 1 .. n : Blocks(e)[p] \in blocks
  <2> HIDE DEF blocks
  <2> QED
    BY <1>1
<1>3. Candidates(d) = FlattenSeq(ss)
  BY DEF Candidates, EdgeAt
<1>4. ASSUME NEW p \in 1 .. n
      PROVE  /\ A(p) \in Seq(C) /\ B(p) \in Seq(C)
             /\ \A k \in 1 .. Len(A(p)) :
                  A(p)[k].shard = ShardId(e.label, Blocks(e)[p][1], Blocks(e)[p][2], k, WayAlong(d))
             /\ \A k \in 1 .. Len(B(p)) :
                  B(p)[k].shard = ShardId(e.label, Blocks(e)[p][2], Blocks(e)[p][1], k, WayAgainst(d))
  <2> DEFINE b == Blocks(e)[p]
  <2>1. b \in blocks
    BY <1>2
  <2>2. ToSet(A(p)) \cup ToSet(B(p)) \in SUBSET C
    BY <2>1 DEF Offers
  <2>3. /\ A(p) \in Seq(ToSet(A(p))) /\ B(p) \in Seq(ToSet(B(p)))
        /\ \A k \in DOMAIN A(p) : A(p)[k].shard = ShardId(e.label, b[1], b[2], k, WayAlong(d))
        /\ \A k \in DOMAIN B(p) : B(p)[k].shard = ShardId(e.label, b[2], b[1], k, WayAgainst(d))
    BY CandidatesOfBlock
  <2> HIDE DEF A, B, C, b
  <2>4. DOMAIN A(p) = 1 .. Len(A(p)) /\ DOMAIN B(p) = 1 .. Len(B(p)) /\ A(p) \in Seq(C) /\ B(p) \in Seq(C)
    BY <2>2, <2>3
  <2> QED
    BY <2>3, <2>4 DEF b
<1>5. WayAlong(d) # WayAgainst(d)
  BY DEF WayAlong, WayAgainst
<1>6. ASSUME NEW l1, NEW r1, NEW c1, NEW k1, NEW w1, NEW l2, NEW r2, NEW c2, NEW k2, NEW w2,
             ShardId(l1, r1, c1, k1, w1) = ShardId(l2, r2, c2, k2, w2)
      PROVE  r1 = r2 /\ c1 = c2 /\ k1 = k2 /\ w1 = w2
  BY <1>6 DEF ShardId
<1>7. ASSUME NEW p \in 1 .. n, NEW q \in 1 .. n, p < q
      PROVE  ~(Blocks(e)[p][1] = Blocks(e)[q][1] /\ Blocks(e)[p][2] = Blocks(e)[q][2])
  <2>1. Blocks(e)[p] # Blocks(e)[q] /\ Blocks(e)[p] \in blocks /\ Blocks(e)[q] \in blocks
    BY <1>1, <1>2, <1>7
  <2> QED
    BY <2>1
<1> HIDE DEF A, B, C, n, e, R
<1>8. \A x, y \in C : <<x, y>> \in R <=> x.shard # y.shard
  BY DEF R
<1>9. ASSUME NEW p \in 1 .. n, NEW q \in 1 .. n, NEW j \in 1 .. Len(A(p)), NEW k \in 1 .. Len(B(q))
      PROVE  A(p)[j] \in C /\ B(q)[k] \in C /\ A(p)[j].shard # B(q)[k].shard
  <2>1. A(p)[j] \in C /\ B(q)[k] \in C
    BY <1>4
  <2> QED
    BY <1>4, <1>5, <1>6, <2>1
<1>10. ASSUME NEW p \in 1 .. n
       PROVE  /\ ss[p] = A(p) \o B(p) /\ ss[p] \in Seq(C)
              /\ \A i, j \in 1 .. Len(ss[p]) : i < j => <<ss[p][i], ss[p][j]>> \in R
              /\ \A i \in 1 .. Len(ss[p]) : \/ \E j \in 1 .. Len(A(p)) : ss[p][i] = A(p)[j]
                                            \/ \E j \in 1 .. Len(B(p)) : ss[p][i] = B(p)[j]
              /\ \A j \in 1 .. Len(A(p)) : \E i \in 1 .. Len(ss[p]) : ss[p][i] = A(p)[j]
              /\ \A j \in 1 .. Len(B(p)) : \E i \in 1 .. Len(ss[p]) : ss[p][i] = B(p)[j]
  <2> DEFINE a == A(p)
             b == B(p)
             c == a \o b
  <2>1. ss[p] = c
    BY <1>2
  <2>2. a \in Seq(C) /\ b \in Seq(C)
    BY <1>4
  <2>3. \A i, j \in 1 .. Len(a) : i < j => <<a[i], a[j]>> \in R
    <3>1. ASSUME NEW i \in 1 .. Len(a), NEW j \in 1 .. Len(a), i < j PROVE a[i].shard # a[j].shard
      BY <1>4, <1>6, <3>1
    <3>2. \A i \in 1 .. Len(a) : a[i] \in C
      BY <2>2
    <3> QED
      BY <1>8, <3>1, <3>2
  <2>4. \A i, j \in 1 .. Len(b) : i < j => <<b[i], b[j]>> \in R
    <3>1. ASSUME NEW i \in 1 .. Len(b), NEW j \in 1 .. Len(b), i < j PROVE b[i].shard # b[j].shard
      BY <1>4, <1>6, <3>1
    <3>2. \A i \in 1 .. Len(b) : b[i] \in C
      BY <2>2
    <3> QED
      BY <1>8, <3>1, <3>2
  <2>5. \A i \in 1 .. Len(a), j \in 1 .. Len(b) : <<a[i], b[j]>> \in R
    BY <1>8, <1>9
  <2> HIDE DEF a, b
  <2>6. /\ c \in Seq(C) /\ \A i, j \in 1 .. Len(c) : i < j => <<c[i], c[j]>> \in R
    BY <2>2, <2>3, <2>4, <2>5, BothOrdered
  <2>7. /\ Len(c) = Len(a) + Len(b) /\ Len(a) \in Nat /\ Len(b) \in Nat
        /\ \A i \in 1 .. Len(a) : c[i] = a[i]
        /\ \A i \in 1 .. Len(b) : c[Len(a) + i] = b[i]
    BY <2>2, BothParts
  <2> HIDE DEF c
  <2>8. ASSUME NEW i \in 1 .. Len(c)
        PROVE  (\E j \in 1 .. Len(a) : c[i] = a[j]) \/ (\E j \in 1 .. Len(b) : c[i] = b[j])
    <3>1. CASE i \in 1 .. Len(a)
      BY <2>7, <3>1
    <3>2. CASE i \notin 1 .. Len(a)
      <4>1. i - Len(a) \in 1 .. Len(b) /\ i = Len(a) + (i - Len(a))
        BY <2>7, <3>2
      <4> QED
        BY <2>7, <4>1
    <3> QED
      BY <3>1, <3>2
  <2>9. ss[p] = A(p) \o B(p)
    BY <2>1 DEF c, a, b
  <2>10. \A j \in 1 .. Len(a) : \E i \in 1 .. Len(c) : c[i] = a[j]
    BY <2>7
  <2>11. \A j \in 1 .. Len(b) : \E i \in 1 .. Len(c) : c[i] = b[j]
    <3>1. ASSUME NEW j \in 1 .. Len(b) PROVE Len(a) + j \in 1 .. Len(c)
      BY <2>7
    <3> QED
      BY <2>7, <3>1
  <2> QED
    BY <2>1, <2>6, <2>8, <2>9, <2>10, <2>11 DEF a, b
<1>11. ss \in Seq(Seq(C)) /\ Len(ss) = n
  <2>1. ss = [p \in 1 .. n |-> ss[p]]
    BY <1>2
  <2> HIDE DEF ss
  <2>2. ss \in [1 .. n -> Seq(C)]
    BY <1>10, <2>1
  <2> QED
    BY <1>2, <2>2, Numbered
<1>12. ASSUME NEW p \in 1 .. n, NEW q \in 1 .. n, NEW i \in 1 .. Len(ss[p]), NEW j \in 1 .. Len(ss[q]), p < q
       PROVE  <<ss[p][i], ss[q][j]>> \in R
  <2> DEFINE x == ss[p][i]
             y == ss[q][j]
  <2>1. (\E k \in 1 .. Len(A(p)) : x = A(p)[k]) \/ (\E k \in 1 .. Len(B(p)) : x = B(p)[k])
    BY <1>10
  <2>2. (\E k \in 1 .. Len(A(q)) : y = A(q)[k]) \/ (\E k \in 1 .. Len(B(q)) : y = B(q)[k])
    BY <1>10
  <2> HIDE DEF x, y, ss
  <2>3. \A k \in 1 .. Len(A(p)) : A(p)[k] \in C
    BY <1>4
  <2>4. \A k \in 1 .. Len(A(q)) : A(q)[k] \in C
    BY <1>4
  <2>5. \A k \in 1 .. Len(B(p)) : B(p)[k] \in C
    BY <1>4
  <2>6. \A k \in 1 .. Len(B(q)) : B(q)[k] \in C
    BY <1>4
  <2>7. \A k \in 1 .. Len(A(p)), l \in 1 .. Len(A(q)) : A(p)[k].shard # A(q)[l].shard
    BY <1>4, <1>6, <1>7, <1>12
  <2>8. \A k \in 1 .. Len(B(p)), l \in 1 .. Len(B(q)) : B(p)[k].shard # B(q)[l].shard
    BY <1>4, <1>6, <1>7, <1>12
  <2>9. \A k \in 1 .. Len(A(p)), l \in 1 .. Len(B(q)) : A(p)[k].shard # B(q)[l].shard
    BY <1>9
  <2>10. \A k \in 1 .. Len(B(p)), l \in 1 .. Len(A(q)) : B(p)[k].shard # A(q)[l].shard
    BY <1>9
  <2>11. x \in C /\ y \in C /\ x.shard # y.shard
    BY <2>1, <2>2, <2>3, <2>4, <2>5, <2>6, <2>7, <2>8, <2>9, <2>10
  <2> QED
    BY <1>8, <2>11 DEF x, y
<1>13. \A p \in 1 .. Len(ss) : \A j, k \in 1 .. Len(ss[p]) : j < k => <<ss[p][j], ss[p][k]>> \in R
  BY <1>10, <1>11
<1>14. \A p, q \in 1 .. Len(ss) : \A j \in 1 .. Len(ss[p]), k \in 1 .. Len(ss[q]) : p < q => <<ss[p][j], ss[q][k]>> \in R
  BY <1>11, <1>12
<1>15. ASSUME NEW b \in blocks, NEW k \in DOMAIN Along(d, e, b[1], b[2])
       PROVE  \E p \in 1 .. n : \E i \in 1 .. Len(ss[p]) : ss[p][i] = Along(d, e, b[1], b[2])[k]
  <2>1. PICK p \in 1 .. n : Blocks(e)[p] = b
    BY <1>1 DEF n
  <2>2. A(p) = Along(d, e, b[1], b[2])
    BY <2>1 DEF A
  <2>3. DOMAIN A(p) = 1 .. Len(A(p))
    BY <1>4
  <2>4. k \in 1 .. Len(A(p))
    BY <2>2, <2>3
  <2>5. PICK i \in 1 .. Len(ss[p]) : ss[p][i] = A(p)[k]
    BY <1>10, <2>4
  <2> QED
    BY <2>2, <2>5
<1>16. ASSUME NEW b \in blocks, NEW k \in DOMAIN Against(d, e, b[1], b[2])
       PROVE  \E p \in 1 .. n : \E i \in 1 .. Len(ss[p]) : ss[p][i] = Against(d, e, b[1], b[2])[k]
  <2>1. PICK p \in 1 .. n : Blocks(e)[p] = b
    BY <1>1 DEF n
  <2>2. B(p) = Against(d, e, b[1], b[2])
    BY <2>1 DEF B
  <2>3. DOMAIN B(p) = 1 .. Len(B(p))
    BY <1>4
  <2>4. k \in 1 .. Len(B(p))
    BY <2>2, <2>3
  <2>5. PICK i \in 1 .. Len(ss[p]) : ss[p][i] = B(p)[k]
    BY <1>10, <2>4
  <2> QED
    BY <2>2, <2>5
<1> DEFINE F == FlattenSeq(ss)
<1>17. F \in Seq(C) /\ \A i, j \in 1 .. Len(F) : i < j => <<F[i], F[j]>> \in R
  <2> HIDE DEF ss
  <2>1. F \in Seq(C)
    BY <1>11, <1>13, <1>14, FlattenOrdered
  <2>2. \A i, j \in 1 .. Len(F) : i < j => <<F[i], F[j]>> \in R
    BY <1>11, <1>13, <1>14, FlattenOrdered
  <2> QED
    BY <2>1, <2>2
<1>18. \A p \in 1 .. n : \A k \in 1 .. Len(ss[p]) : \E i \in 1 .. Len(F) : F[i] = ss[p][k]
  <2> HIDE DEF ss
  <2> QED
    BY <1>11, FlattenElements
<1> HIDE DEF F, ss
<1>19. ASSUME NEW c \in C PROVE \E i \in 1 .. Len(F) : F[i] = c
  <2>1. PICK b \in blocks : c \in ToSet(Along(d, e, b[1], b[2])) \cup ToSet(Against(d, e, b[1], b[2]))
    BY DEF C, Offers, e
  <2>2. PICK p \in 1 .. n : \E i \in 1 .. Len(ss[p]) : ss[p][i] = c
    <3>1. CASE c \in ToSet(Along(d, e, b[1], b[2]))
      <4>1. PICK k \in DOMAIN Along(d, e, b[1], b[2]) : Along(d, e, b[1], b[2])[k] = c
        BY <3>1 DEF ToSet
      <4> QED
        BY <1>15, <4>1, Zenon
    <3>2. CASE c \in ToSet(Against(d, e, b[1], b[2]))
      <4>1. PICK k \in DOMAIN Against(d, e, b[1], b[2]) : Against(d, e, b[1], b[2])[k] = c
        BY <3>2 DEF ToSet
      <4> QED
        BY <1>16, <4>1, Zenon
    <3> QED
      BY <2>1, <3>1, <3>2
  <2> QED
    BY <1>18, <2>2, SMTT(30)
<1>20. \A i, j \in 1 .. Len(F) : i # j => F[i].shard # F[j].shard
  <2>1. \A i \in 1 .. Len(F) : F[i] \in C
    BY <1>17
  <2>2. \A i, j \in 1 .. Len(F) : i < j => F[i].shard # F[j].shard
    BY <1>8, <1>17, <2>1
  <2>3. \A i \in 1 .. Len(F) : i \in Nat
    BY <1>17
  <2> QED
    BY <2>2, <2>3
<1>21. Candidates(d) = F
  BY <1>3 DEF F
<1> QED
  BY <1>17, <1>19, <1>20, <1>21 DEF C

(* The least range that has some addresses. *)
LEMMA RangesAreSound ==
  ASSUME NEW T \in SUBSET Addresses, T # {}
  PROVE  /\ RangeOf(T).lo \in Nat /\ RangeOf(T).hi \in Nat
         /\ T \subseteq Interval(RangeOf(T)) /\ Interval(RangeOf(T)) \subseteq Addresses
         /\ \A lo, hi \in Nat : T \subseteq lo .. hi => Interval(RangeOf(T)) \subseteq lo .. hi
<1> DEFINE n == GridBlockWidth - 1
<1>1. n \in Nat /\ Addresses = 0 .. n
  <2>1. GridBlockWidth \in Nat \ {0}
    BY InputsAssumption, Zenon DEF InputsAssumption
  <2> QED
    BY <2>1 DEF Addresses
<1>2. Min(T) \in T /\ \A y \in T : Min(T) <= y
  BY <1>1, LeastIsMin
<1>3. Max(T) \in T /\ \A y \in T : y <= Max(T)
  BY <1>1, GreatestOf
<1>4. RangeOf(T).lo = Min(T) /\ RangeOf(T).hi = Max(T) /\ Interval(RangeOf(T)) = Min(T) .. Max(T)
  BY DEF RangeOf, Interval
<1> HIDE DEF n
<1> DEFINE lo == Min(T)
           hi == Max(T)
           I == Interval(RangeOf(T))
<1>5. /\ lo \in T /\ hi \in T /\ lo \in 0 .. n /\ hi \in 0 .. n
      /\ \A y \in T : y \in 0 .. n /\ lo <= y /\ y <= hi
  BY <1>1, <1>2, <1>3
<1>6. I = lo .. hi
  BY <1>4
<1> HIDE DEF lo, hi, I
<1>7. T \subseteq I /\ I \subseteq Addresses
  BY <1>1, <1>5, <1>6
<1>8. ASSUME NEW a \in Nat, NEW b \in Nat, T \subseteq a .. b PROVE I \subseteq a .. b
  <2>1. lo \in a .. b /\ hi \in a .. b
    BY <1>5, <1>8
  <2> QED
    BY <1>6, <2>1
<1> QED
  BY <1>1, <1>4, <1>5, <1>7, <1>8 DEF lo, hi, I

(* A shard is read from the first end of its edge if it is one along it.   *)
LEMMA EndsOfReadings ==
  ASSUME Ordering, NEW d \in DOMAIN edgeOrder, NEW shard
  PROVE  \E e \in {EdgeAt(d)} :
           /\ e.v1 \in Vertices /\ e.v2 \in Vertices /\ e.v1 # e.v2 /\ Ends(e) = {e.v1, e.v2}
           /\ e.kind \in {"regular", "negative", "optional"} /\ e.dir \in {"directed", "undirected"}
           /\ e.dir = "undirected" => e.kind = "regular"
           /\ shard.way = WayAlong(d) => From(shard, e) = e.v1 /\ To(shard, e) = e.v2
           /\ shard.way = WayAgainst(d) => From(shard, e) = e.v2 /\ To(shard, e) = e.v1
           /\ PlaceOf(e.v1, order) \in Nat /\ PlaceOf(e.v2, order) \in Nat
           /\ PlaceOf(e.v1, order) # PlaceOf(e.v2, order)
<1> DEFINE e == EdgeAt(d)
           u == e.v1
           w == e.v2
           a == PlaceOf(u, order)
           b == PlaceOf(w, order)
<1>1. GraphFacts /\ OrderFacts
  BY OrderingIsSound
<1>2. edgeOrder[d].edge \in DOMAIN edges
  <2> DEFINE E == [edge : DOMAIN edges, at : DOMAIN order]
  <2>1. edgeOrder \in Seq(E)
    BY <1>1 DEF OrderFacts
  <2>2. \A x \in E : x.edge \in DOMAIN edges
    OBVIOUS
  <2> HIDE DEF E
  <2>3. edgeOrder[d] \in E
    BY <2>1
  <2> QED
    BY <2>2, <2>3
<1>3. /\ u \in Vertices /\ w \in Vertices /\ u # w
      /\ e.kind \in {"regular", "negative", "optional"} /\ e.dir \in {"directed", "undirected"}
      /\ e.dir = "undirected" => e.kind = "regular"
  BY <1>1, <1>2 DEF GraphFacts, EdgeAt
<1>4. ReadForward(d) <=> a < b
  BY <1>1 DEF OrderFacts, EdgeAt
<1>5. Ends(e) = {u, w}
  BY DEF Ends
<1>6. a \in Nat /\ b \in Nat /\ a # b
  <2>1. /\ order \in Seq(Vertices) /\ \A v \in Vertices : \E p \in DOMAIN order : order[p] = v
    BY <1>1 DEF OrderFacts
  <2>2. \A v \in Vertices : PlaceOf(v, order) \in DOMAIN order /\ order[PlaceOf(v, order)] = v
    BY <2>1 DEF PlaceOf
  <2>3. \A p \in DOMAIN order : p \in Nat
    BY <2>1
  <2> HIDE DEF u, w
  <2> QED
    BY <1>3, <2>2, <2>3
<1> HIDE DEF u, w, e
<1>7. /\ a < b => Earlier(e) = u /\ Later(e) = w
      /\ b < a => Earlier(e) = w /\ Later(e) = u
  <2>1. Earlier(e) = CHOOSE v \in {u, w} : \A x \in {u, w} : PlaceOf(v, order) <= PlaceOf(x, order)
    BY <1>5 DEF Earlier
  <2>2. Later(e) = CHOOSE v \in {u, w} : v # Earlier(e)
    BY <1>5 DEF Later
  <2>3. a < b => Earlier(e) = u
    BY <1>6, <2>1
  <2>4. b < a => Earlier(e) = w
    BY <1>6, <2>1
  <2> HIDE DEF a, b
  <2> QED
    BY <1>3, <2>2, <2>3, <2>4
<1>8. /\ shard.way = WayAlong(d) => From(shard, e) = u /\ To(shard, e) = w
      /\ shard.way = WayAgainst(d) => From(shard, e) = w /\ To(shard, e) = u
  <2> HIDE DEF a, b
  <2>1. ASSUME shard.way = WayAlong(d) PROVE From(shard, e) = u /\ To(shard, e) = w
    BY <1>4, <1>6, <1>7, <2>1 DEF WayAlong, From, To
  <2>2. ASSUME shard.way = WayAgainst(d) PROVE From(shard, e) = w /\ To(shard, e) = u
    BY <1>4, <1>6, <1>7, <2>2 DEF WayAgainst, From, To
  <2> QED
    BY <2>1, <2>2
<1> QED
  BY <1>3, <1>5, <1>6, <1>8 DEF u, w, e, a, b

(* A shard of a leaf. *)
LEMMA ShardsOfLeaves ==
  ASSUME input \in Inputs, NEW label, NEW row, NEW col, NEW k \in DOMAIN Leaves(label, row, col),
         NEW way \in {"out", "in"}
  PROVE  /\ ShardId(label, row, col, k, way) \in Shards
         /\ LeafOf(ShardId(label, row, col, k, way)) = Leaves(label, row, col)[k]
<1> DEFINE b == <<label, row, col>>
           s == ShardId(label, row, col, k, way)
<1>1. b \in DOMAIN input.blocks /\ Leaves(label, row, col)[k] = input.blocks[b][k]
  BY LeavesOfBlocks
<1>2. s.label = label /\ s.row = row /\ s.col = col /\ s.leaf = k
  BY DEF ShardId
<1>3. LeafOf(s) = input.blocks[b][k]
  BY <1>2 DEF LeafOf
<1>4. s \in ShardsOf(label, <<row, col>>)
  BY DEF ShardsOf
<1>5. b[1] = label /\ b[2] = row /\ b[3] = col
  OBVIOUS
<1>6. s \in Shards
  <2> HIDE DEF b, s
  <2>1. s \in ShardsOf(b[1], <<b[2], b[3]>>)
    BY <1>4, <1>5
  <2> QED
    BY <1>1, <2>1 DEF Shards
<1> QED
  BY <1>1, <1>3, <1>6

(* Whatever shard there is, it is one of a leaf. *)
LEMMA LeavesOfShards ==
  ASSUME NEW s \in Shards
  PROVE  /\ s.leaf \in DOMAIN Leaves(s.label, s.row, s.col) /\ s.way \in {"out", "in"}
         /\ s = ShardId(s.label, s.row, s.col, s.leaf, s.way)
<1>1. PICK b \in DOMAIN input.blocks : s \in ShardsOf(b[1], <<b[2], b[3]>>)
  BY DEF Shards
<1> DEFINE label == b[1]
           row == b[2]
           col == b[3]
<1>2. PICK k \in DOMAIN Leaves(label, row, col), way \in {"out", "in"} : s = ShardId(label, row, col, k, way)
  <2>1. <<row, col>>[1] = row /\ <<row, col>>[2] = col
    OBVIOUS
  <2> QED
    BY <1>1, <2>1 DEF ShardsOf
<1> HIDE DEF label, row, col
<1>3. s.label = label /\ s.row = row /\ s.col = col /\ s.leaf = k /\ s.way = way
  BY <1>2 DEF ShardId
<1> QED
  BY <1>2, <1>3

(* The ranges of the out-edges of a leaf. *)
LEMMA LeavesAreSound ==
  ASSUME NEW leaf, SoundLeaf(leaf)
  PROVE  /\ leaf.src.lo \in Nat /\ leaf.src.hi \in Nat /\ leaf.dst.lo \in Nat /\ leaf.dst.hi \in Nat
         /\ ActualSrc(leaf).lo \in Nat /\ ActualSrc(leaf).hi \in Nat
         /\ ActualDst(leaf).lo \in Nat /\ ActualDst(leaf).hi \in Nat
         /\ Interval(ActualSrc(leaf)) \subseteq Addresses /\ Interval(ActualSrc(leaf)) \subseteq Interval(leaf.src)
         /\ Interval(ActualDst(leaf)) \subseteq Addresses /\ Interval(ActualDst(leaf)) \subseteq Interval(leaf.dst)
         /\ \A p \in leaf.edges : p[1] \in Interval(ActualSrc(leaf)) /\ p[2] \in Interval(ActualDst(leaf))
<1> DEFINE S == {p[1] : p \in leaf.edges}
           T == {p[2] : p \in leaf.edges}
           src == leaf.src
           dst == leaf.dst
<1>1. src \in [lo : Addresses, hi : Addresses] /\ dst \in [lo : Addresses, hi : Addresses]
  BY DEF SoundLeaf
<1>2. leaf.edges # {} /\ leaf.edges \subseteq Interval(src) \X Interval(dst)
  BY DEF SoundLeaf
<1>3. Addresses \in SUBSET Nat /\ \A a, b \in Addresses : a .. b \in SUBSET Addresses
  <2>1. GridBlockWidth \in Nat \ {0}
    BY InputsAssumption, Zenon DEF InputsAssumption
  <2> QED
    BY <2>1 DEF Addresses
<1> HIDE DEF src, dst
<1>4. /\ src.lo \in Addresses /\ src.hi \in Addresses /\ dst.lo \in Addresses /\ dst.hi \in Addresses
      /\ Interval(src) = src.lo .. src.hi /\ Interval(dst) = dst.lo .. dst.hi
  BY <1>1 DEF Interval
<1>5. S \subseteq Interval(src) /\ T \subseteq Interval(dst) /\ S # {} /\ T # {}
  BY <1>2
<1>6. S \in SUBSET Addresses /\ T \in SUBSET Addresses
  BY <1>3, <1>4, <1>5
<1>7. \A p \in leaf.edges : p[1] \in S /\ p[2] \in T
  OBVIOUS
<1>8. ActualSrc(leaf) = RangeOf(S) /\ ActualDst(leaf) = RangeOf(T)
  BY DEF ActualSrc, ActualDst
<1> HIDE DEF S, T
<1>9. /\ RangeOf(S).lo \in Nat /\ RangeOf(S).hi \in Nat
      /\ S \subseteq Interval(RangeOf(S)) /\ Interval(RangeOf(S)) \subseteq Addresses
      /\ \A lo, hi \in Nat : S \subseteq lo .. hi => Interval(RangeOf(S)) \subseteq lo .. hi
  BY <1>5, <1>6, RangesAreSound
<1>10. /\ RangeOf(T).lo \in Nat /\ RangeOf(T).hi \in Nat
       /\ T \subseteq Interval(RangeOf(T)) /\ Interval(RangeOf(T)) \subseteq Addresses
       /\ \A lo, hi \in Nat : T \subseteq lo .. hi => Interval(RangeOf(T)) \subseteq lo .. hi
  BY <1>5, <1>6, RangesAreSound
<1>11. /\ src.lo \in Nat /\ src.hi \in Nat /\ dst.lo \in Nat /\ dst.hi \in Nat
       /\ Interval(RangeOf(S)) \subseteq Interval(src) /\ Interval(RangeOf(T)) \subseteq Interval(dst)
  <2>1. src.lo \in Nat /\ src.hi \in Nat /\ dst.lo \in Nat /\ dst.hi \in Nat
    BY <1>3, <1>4
  <2> QED
    BY <1>4, <1>5, <1>9, <1>10, <2>1
<1> QED
  BY <1>7, <1>8, <1>9, <1>10, <1>11 DEF src, dst

(* What a candidate says of the ends of its edge is what its shard has.    *)
LEMMA OffersAreSound ==
  ASSUME Ordering, NEW d \in DOMAIN edgeOrder, NEW c \in Offers(d)
  PROVE  \E e \in {EdgeAt(d)} :
           /\ c.shard \in Shards /\ c.row \in RowsOf(e.v1) /\ c.col \in RowsOf(e.v2)
           /\ RowAt(c.shard, e, e.v1) = c.row /\ RowAt(c.shard, e, e.v2) = c.col
           /\ c.r1 = RangeOf(AddressesAt(c.shard, e, e.v1)) /\ c.r2 = RangeOf(AddressesAt(c.shard, e, e.v2))
           /\ c.r1.lo \in Nat /\ c.r1.hi \in Nat /\ Interval(c.r1) \subseteq Addresses
           /\ c.r2.lo \in Nat /\ c.r2.hi \in Nat /\ Interval(c.r2) \subseteq Addresses
           /\ c.max1.lo \in Nat /\ c.max1.hi \in Nat /\ c.max2.lo \in Nat /\ c.max2.hi \in Nat
<1> DEFINE e == EdgeAt(d)
           s == c.shard
<1>1. input \in Inputs
  BY DEF Ordering, Graph
<1>2. /\ e.v1 # e.v2
      /\ s.way = WayAlong(d) => From(s, e) = e.v1
      /\ s.way = WayAgainst(d) => From(s, e) = e.v2
  BY EndsOfReadings
<1>3. PICK b \in RowsOf(e.v1) \X RowsOf(e.v2) :
        c \in ToSet(Along(d, e, b[1], b[2])) \cup ToSet(Against(d, e, b[1], b[2]))
  BY DEF Offers
<1> DEFINE row == b[1]
           col == b[2]
<1>4. row \in RowsOf(e.v1) /\ col \in RowsOf(e.v2)
  OBVIOUS
<1> HIDE DEF e, s, row, col
<1>5. CASE c \in ToSet(Along(d, e, row, col))
  <2>1. PICK k \in DOMAIN Along(d, e, row, col) : Along(d, e, row, col)[k] = c
    BY <1>5 DEF ToSet
  <2> DEFINE leaf == Leaves(e.label, row, col)[k]
  <2>2. k \in DOMAIN Leaves(e.label, row, col)
    BY <2>1 DEF Along
  <2>3. c = Candidate(row, col, ShardId(e.label, row, col, k, WayAlong(d)),
                      ActualSrc(leaf), ActualDst(leaf), leaf.src, leaf.dst)
    BY <2>1 DEF Along, WayAlong
  <2>4. WayAlong(d) \in {"out", "in"}
    BY DEF WayAlong
  <2>5. SoundLeaf(leaf)
    BY <1>1, <2>2, LeavesOfBlocks
  <2>6. ShardId(e.label, row, col, k, WayAlong(d)) \in Shards
        /\ LeafOf(ShardId(e.label, row, col, k, WayAlong(d))) = leaf
    BY <1>1, <2>2, <2>4, ShardsOfLeaves
  <2> HIDE DEF leaf
  <2>7. /\ c.row = row /\ c.col = col /\ s = ShardId(e.label, row, col, k, WayAlong(d))
        /\ c.r1 = ActualSrc(leaf) /\ c.r2 = ActualDst(leaf) /\ c.max1 = leaf.src /\ c.max2 = leaf.dst
    BY <2>3 DEF Candidate, s
  <2>8. s.row = row /\ s.col = col /\ s.way = WayAlong(d)
    BY <2>7 DEF ShardId
  <2>9. From(s, e) = e.v1
    BY <1>2, <2>8
  <2>10. RowAt(s, e, e.v1) = row /\ RowAt(s, e, e.v2) = col
    BY <1>2, <2>8, <2>9 DEF RowAt
  <2>11. LeafOf(s) = leaf /\ s \in Shards
    BY <2>6, <2>7
  <2>12. ActualSrc(leaf) = RangeOf(AddressesAt(s, e, e.v1)) /\ ActualDst(leaf) = RangeOf(AddressesAt(s, e, e.v2))
    BY <1>2, <2>9, <2>11 DEF AddressesAt, ActualSrc, ActualDst
  <2> QED
    BY <1>4, <2>5, <2>7, <2>10, <2>11, <2>12, LeavesAreSound DEF s, e
<1>6. CASE c \in ToSet(Against(d, e, row, col))
  <2>1. PICK k \in DOMAIN Against(d, e, row, col) : Against(d, e, row, col)[k] = c
    BY <1>6 DEF ToSet
  <2> DEFINE leaf == Leaves(e.label, col, row)[k]
  <2>2. k \in DOMAIN Leaves(e.label, col, row)
    BY <1>1, <2>1, CandidatesOfBlock
  <2>3. e.dir = "undirected"
    BY <1>1, <2>1, CandidatesOfBlock
  <2>4. c = Candidate(row, col, ShardId(e.label, col, row, k, WayAgainst(d)),
                      ActualDst(leaf), ActualSrc(leaf), leaf.src, leaf.dst)
    BY <2>1, <2>3 DEF Against, WayAgainst
  <2>5. WayAgainst(d) \in {"out", "in"}
    BY DEF WayAgainst
  <2>6. SoundLeaf(leaf)
    BY <1>1, <2>2, LeavesOfBlocks
  <2>7. ShardId(e.label, col, row, k, WayAgainst(d)) \in Shards
        /\ LeafOf(ShardId(e.label, col, row, k, WayAgainst(d))) = leaf
    BY <1>1, <2>2, <2>5, ShardsOfLeaves
  <2> HIDE DEF leaf
  <2>8. /\ c.row = row /\ c.col = col /\ s = ShardId(e.label, col, row, k, WayAgainst(d))
        /\ c.r1 = ActualDst(leaf) /\ c.r2 = ActualSrc(leaf) /\ c.max1 = leaf.src /\ c.max2 = leaf.dst
    BY <2>4 DEF Candidate, s
  <2>9. s.row = col /\ s.col = row /\ s.way = WayAgainst(d)
    BY <2>8 DEF ShardId
  <2>10. From(s, e) = e.v2
    BY <1>2, <2>9
  <2>11. RowAt(s, e, e.v1) = row /\ RowAt(s, e, e.v2) = col
    BY <1>2, <2>9, <2>10 DEF RowAt
  <2>12. LeafOf(s) = leaf /\ s \in Shards
    BY <2>7, <2>8
  <2>13. ActualSrc(leaf) = RangeOf(AddressesAt(s, e, e.v2)) /\ ActualDst(leaf) = RangeOf(AddressesAt(s, e, e.v1))
    BY <1>2, <2>10, <2>12 DEF AddressesAt, ActualSrc, ActualDst
  <2> QED
    BY <1>4, <2>6, <2>8, <2>11, <2>12, <2>13, LeavesAreSound DEF s, e
<1> QED
  BY <1>3, <1>5, <1>6 DEF row, col, e

(* The data vertices of the ends of edge d are where the search compares   *)
(* the candidate with others.                                              *)
Admits(c, d, m) ==
  \E e \in {EdgeAt(d)} :
    /\ m[e.v1].row = c.row /\ m[e.v2].row = c.col
    /\ e.kind = "regular" \/ TouchedLater(d) =>
         m[e.v1].addr \in Interval(c.r1) /\ m[e.v2].addr \in Interval(c.r2)
    /\ e.kind # "regular" => m[e.v1].addr \in Interval(c.max1) /\ m[e.v2].addr \in Interval(c.max2)

(* A shard that serves an assignment is that of a candidate. *)
LEMMA ServingIsOffered ==
  ASSUME Ordering, NEW d \in DOMAIN edgeOrder, NEW m \in Matches, NEW s \in Shards, Serves(s, d, m)
  PROVE  \E c \in Offers(d) : c.shard = s /\ Admits(c, d, m)
<1> DEFINE e == EdgeAt(d)
           u == From(s, e)
           w == To(s, e)
           leaf == LeafOf(s)
           row == s.row
           col == s.col
           k == s.leaf
<1>1. input \in Inputs
  BY DEF Ordering, Graph
<1>2. /\ e.v1 \in Vertices /\ e.v2 \in Vertices /\ e.v1 # e.v2
      /\ e.kind \in {"regular", "negative", "optional"} /\ e.dir \in {"directed", "undirected"}
      /\ e.dir = "undirected" => e.kind = "regular"
      /\ s.way = WayAlong(d) => u = e.v1 /\ w = e.v2
      /\ s.way = WayAgainst(d) => u = e.v2 /\ w = e.v1
  BY EndsOfReadings
<1>3. m[e.v1].row \in RowsOf(e.v1) /\ m[e.v2].row \in RowsOf(e.v2)
  BY <1>2 DEF Matches
<1>4. s.label = e.label /\ (e.dir = "directed" => u = e.v1) /\ m[u].row = row /\ m[w].row = col
  BY DEF Serves, EdgeAt
<1>5. /\ e.kind = "regular" => <<m[u].addr, m[w].addr>> \in leaf.edges
      /\ e.kind # "regular" /\ TouchedLater(d) => /\ m[u].addr \in Interval(RangeOf(AddressesAt(s, e, u)))
                                                  /\ m[w].addr \in Interval(RangeOf(AddressesAt(s, e, w)))
      /\ e.kind # "regular" /\ ~TouchedLater(d) => m[u].addr \in Interval(leaf.src) /\ m[w].addr \in Interval(leaf.dst)
  <2>1. (CASE e.kind = "regular" -> <<m[u].addr, m[w].addr>> \in leaf.edges
          [] e.kind # "regular" /\ TouchedLater(d) ->
               /\ m[u].addr \in Interval(RangeOf(AddressesAt(s, e, u)))
               /\ m[w].addr \in Interval(RangeOf(AddressesAt(s, e, w)))
          [] OTHER -> /\ m[u].addr \in Interval(LeafOf(s).src)
                      /\ m[w].addr \in Interval(LeafOf(s).dst))
    BY DEF Serves, EdgeAt
  <2> HIDE DEF e, u, w, leaf
  <2> QED
    BY <2>1 DEF leaf
<1>6. /\ k \in DOMAIN Leaves(s.label, row, col) /\ s.way \in {"out", "in"}
      /\ s = ShardId(s.label, row, col, k, s.way)
  BY LeavesOfShards
<1>7. s.way = WayAlong(d) \/ s.way = WayAgainst(d)
  BY <1>6 DEF WayAlong, WayAgainst
<1>8. leaf = Leaves(s.label, row, col)[k]
  BY <1>1, <1>6, ShardsOfLeaves
<1>9. SoundLeaf(leaf)
  <2>1. SoundLeaf(Leaves(s.label, row, col)[k])
    BY <1>1, <1>6, LeavesOfBlocks
  <2> HIDE DEF leaf
  <2> QED
    BY <1>8, <2>1
<1>10. /\ Interval(ActualSrc(leaf)) \subseteq Interval(leaf.src) /\ Interval(ActualDst(leaf)) \subseteq Interval(leaf.dst)
       /\ \A p \in leaf.edges : p[1] \in Interval(ActualSrc(leaf)) /\ p[2] \in Interval(ActualDst(leaf))
  BY <1>9, LeavesAreSound
<1>11. e.kind = "regular" => m[u].addr \in Interval(ActualSrc(leaf)) /\ m[w].addr \in Interval(ActualDst(leaf))
  <2> HIDE DEF e, u, w, leaf
  <2> SUFFICES ASSUME e.kind = "regular"
               PROVE  m[u].addr \in Interval(ActualSrc(leaf)) /\ m[w].addr \in Interval(ActualDst(leaf))
    OBVIOUS
  <2> DEFINE p == <<m[u].addr, m[w].addr>>
  <2>1. p \in leaf.edges /\ p[1] = m[u].addr /\ p[2] = m[w].addr
    BY <1>5
  <2> HIDE DEF p
  <2> QED
    BY <1>10, <2>1
<1> HIDE DEF e, leaf, row, col, k
<1>12. CASE s.way = WayAlong(d)
  <2>1. u = e.v1 /\ w = e.v2
    BY <1>2, <1>12
  <2> DEFINE c == Along(d, e, row, col)[k]
  <2>2. k \in DOMAIN Along(d, e, row, col) /\ s = ShardId(e.label, row, col, k, WayAlong(d))
    BY <1>4, <1>6, <1>12 DEF Along, row, col, k
  <2>3. c = Candidate(row, col, s, ActualSrc(leaf), ActualDst(leaf), leaf.src, leaf.dst)
    BY <1>4, <1>8, <2>2 DEF Along, WayAlong
  <2>4. <<row, col>> \in RowsOf(e.v1) \X RowsOf(e.v2) /\ <<row, col>>[1] = row /\ <<row, col>>[2] = col
    BY <1>3, <1>4, <2>1
  <2>5. c \in Offers(d)
    <3>1. c \in ToSet(Along(d, e, row, col))
      BY <2>2 DEF ToSet
    <3> HIDE DEF c
    <3> QED
      BY <2>4, <3>1 DEF Offers, e
  <2> HIDE DEF c, u, w
  <2>6. /\ c.shard = s /\ c.row = row /\ c.col = col
        /\ c.r1 = ActualSrc(leaf) /\ c.r2 = ActualDst(leaf) /\ c.max1 = leaf.src /\ c.max2 = leaf.dst
    BY <2>3 DEF Candidate
  <2>7. u = From(s, e)
    BY DEF u
  <2>8. AddressesAt(s, e, u) = {p[1] : p \in leaf.edges} /\ AddressesAt(s, e, w) = {p[2] : p \in leaf.edges}
    BY <1>2, <2>1, <2>7 DEF AddressesAt, leaf
  <2>9. RangeOf(AddressesAt(s, e, u)) = ActualSrc(leaf) /\ RangeOf(AddressesAt(s, e, w)) = ActualDst(leaf)
    BY <2>8 DEF ActualSrc, ActualDst
  <2>10. m[e.v1].row = c.row /\ m[e.v2].row = c.col
    BY <1>4, <2>1, <2>6
  <2>11. e.kind = "regular" \/ TouchedLater(d) => m[e.v1].addr \in Interval(c.r1) /\ m[e.v2].addr \in Interval(c.r2)
    BY <1>5, <1>11, <2>1, <2>6, <2>9
  <2>12. e.kind # "regular" => m[e.v1].addr \in Interval(c.max1) /\ m[e.v2].addr \in Interval(c.max2)
    BY <1>5, <1>10, <2>1, <2>6, <2>9
  <2> QED
    BY <2>5, <2>6, <2>10, <2>11, <2>12 DEF Admits, e
<1>13. CASE s.way = WayAgainst(d)
  <2>1. u = e.v2 /\ w = e.v1
    BY <1>2, <1>13
  <2>2. e.dir = "undirected" /\ e.kind = "regular"
    BY <1>2, <1>4, <2>1
  <2> DEFINE c == Against(d, e, col, row)[k]
  <2>3. k \in DOMAIN Against(d, e, col, row) /\ s = ShardId(e.label, row, col, k, WayAgainst(d))
    BY <1>4, <1>6, <1>13, <2>2 DEF Against, row, col, k
  <2>4. c = Candidate(col, row, s, ActualDst(leaf), ActualSrc(leaf), leaf.src, leaf.dst)
    BY <1>4, <1>8, <2>2, <2>3 DEF Against, WayAgainst
  <2>5. <<col, row>> \in RowsOf(e.v1) \X RowsOf(e.v2) /\ <<col, row>>[1] = col /\ <<col, row>>[2] = row
    BY <1>3, <1>4, <2>1
  <2>6. c \in Offers(d)
    <3>1. c \in ToSet(Against(d, e, col, row))
      BY <2>3 DEF ToSet
    <3> HIDE DEF c
    <3> QED
      BY <2>5, <3>1 DEF Offers, e
  <2> HIDE DEF c, u, w
  <2>7. /\ c.shard = s /\ c.row = col /\ c.col = row
        /\ c.r1 = ActualDst(leaf) /\ c.r2 = ActualSrc(leaf)
    BY <2>4 DEF Candidate
  <2>8. m[e.v1].row = c.row /\ m[e.v2].row = c.col
    BY <1>4, <2>1, <2>7
  <2>9. m[e.v1].addr \in Interval(c.r1) /\ m[e.v2].addr \in Interval(c.r2)
    BY <1>11, <2>1, <2>2, <2>7
  <2> QED
    BY <2>2, <2>6, <2>7, <2>8, <2>9 DEF Admits, e
<1> QED
  BY <1>7, <1>12, <1>13

-----------------------------------------------------------------------------
(* The search.                                                             *)

(* What the search is about does not change. *)
LEMMA SearchFacts ==
  ASSUME Ordering
  PROVE  /\ Len(edges) \in Nat \ {0} /\ Len(edgeOrder) = Len(edges) /\ DOMAIN edgeOrder = 1 .. Len(edges)
         /\ \A d \in 1 .. Len(edges) :
              /\ Len(Candidates(d)) \in Nat /\ DOMAIN Candidates(d) = 1 .. Len(Candidates(d))
              /\ \A i \in 1 .. Len(Candidates(d)) : Candidates(d)[i] \in Offers(d)
<1>1. GraphFacts /\ OrderFacts /\ input \in Inputs
  BY OrderingIsSound DEF Ordering, Graph
<1>2. Len(edges) \in Nat \ {0} /\ Len(edgeOrder) = Len(edges) /\ DOMAIN edgeOrder = 1 .. Len(edges)
  <2> DEFINE E == [edge : DOMAIN edges, at : DOMAIN order]
  <2>1. edgeOrder \in Seq(E)
    BY <1>1 DEF OrderFacts
  <2> HIDE DEF E
  <2>2. DOMAIN edgeOrder = 1 .. Len(edgeOrder)
    BY <2>1
  <2> QED
    BY <1>1, <2>2 DEF GraphFacts, OrderFacts
<1>3. ASSUME NEW d \in 1 .. Len(edges)
      PROVE  /\ Len(Candidates(d)) \in Nat /\ DOMAIN Candidates(d) = 1 .. Len(Candidates(d))
             /\ \A i \in 1 .. Len(Candidates(d)) : Candidates(d)[i] \in Offers(d)
  <2>1. EdgeAt(d).v1 \in Vertices /\ EdgeAt(d).v2 \in Vertices
    BY <1>2, EndsOfReadings
  <2>2. Candidates(d) \in Seq(Offers(d))
    BY <1>1, <2>1, OffersListed
  <2> QED
    BY <2>2
<1> QED
  BY <1>2, <1>3

(* The steps of the search. *)
Searches == Skip \/ Enter \/ Found \/ Return \/ Finish

LEMMA SearchKept ==
  ASSUME Searches
  PROVE  /\ phase = "search" /\ input' = input /\ edges' = edges /\ optional' = optional
         /\ order' = order /\ edgeOrder' = edgeOrder /\ preloaded' = preloaded
         /\ \A d : Candidates(d)' = Candidates(d)
         /\ \A d : EdgeAt(d)' = EdgeAt(d)
         /\ \A d : TouchedLater(d)' = TouchedLater(d)
         /\ Vertices' = Vertices
<1>1. /\ phase = "search" /\ input' = input /\ edges' = edges /\ optional' = optional
      /\ order' = order /\ edgeOrder' = edgeOrder /\ preloaded' = preloaded
  BY DEF Searches, Skip, Enter, Found, Return, Finish, Back, AtCandidate, Exhausted, queryVars, orderVars
<1> QED
  BY <1>1, CandidatesKept, GraphKept

(* Where the search is: a candidate for each edge on the way. *)
Place ==
  /\ path \in Seq(ToSet(path)) /\ valid \in Seq(BOOLEAN) /\ cursor \in Seq(Nat)
  /\ Depth \in 0 .. Len(edges) /\ Len(valid) = Depth + 1 /\ Len(cursor) = Depth + 1
  /\ \A d \in 1 .. Depth : cursor[d] \in 1 .. Len(Candidates(d)) /\ path[d] = Candidates(d)[cursor[d]]
  /\ cursor[Depth + 1] \in 1 .. (IF Depth = Len(edges) THEN 1 ELSE Len(Candidates(Depth + 1)) + 1)

LEMMA BlankPlace == Ordering /\ Blank => Place
<1> SUFFICES ASSUME Ordering, Blank PROVE Place
  OBVIOUS
<1>1. Len(edges) \in Nat \ {0} /\ Len(Candidates(1)) \in Nat
  <2>1. Len(edges) \in Nat \ {0}
    BY SearchFacts
  <2>2. 1 \in 1 .. Len(edges)
    BY <2>1
  <2> QED
    BY <2>1, <2>2, SearchFacts
<1>2. path = <<>> /\ Depth = 0 /\ valid = <<FALSE>> /\ cursor = <<1>>
  BY DEF Blank, Depth
<1>3. path \in Seq(ToSet(path)) /\ valid \in Seq(BOOLEAN) /\ cursor \in Seq(Nat)
  BY <1>2 DEF ToSet
<1>4. Len(valid) = 1 /\ Len(cursor) = 1 /\ cursor[1] = 1
  BY <1>2
<1> QED
  BY <1>1, <1>2, <1>3, <1>4 DEF Place

(* The last node of a sequence goes. *)
LEMMA FrontOf ==
  ASSUME NEW S, NEW s \in Seq(S), s # <<>>
  PROVE  /\ Front(s) \in Seq(S) /\ Len(Front(s)) = Len(s) - 1
         /\ \A i \in 1 .. Len(s) - 1 : Front(s)[i] = s[i]
<1>1. Front(s) = SubSeq(s, 1, Len(s) - 1)
  BY DEF Front
<1>2. Len(s) \in Nat \ {0}
  BY EmptySeq, LenProperties
<1> DEFINE n == Len(s) - 1
           r == SubSeq(s, 1, n)
<1>3. n \in Nat /\ \A i \in 1 .. n : s[i] \in S
  BY <1>2
<1> HIDE DEF n
<1>4. r \in Seq(S) /\ Len(r) = (IF 1 <= n THEN n - 1 + 1 ELSE 0) /\ \A i \in 1 .. n - 1 + 1 : r[i] = s[1 + i - 1]
  BY <1>3, SubSeqProperties
<1> HIDE DEF r
<1>5. Len(r) = n /\ \A i \in 1 .. n : r[i] = s[i]
  BY <1>3, <1>4
<1> QED
  BY <1>1, <1>4, <1>5 DEF n, r

(* The steps of the search from candidate to candidate. *)
LEMMA SearchPlace == Ordering /\ Place /\ Searches => Place'
<1> SUFFICES ASSUME Ordering, Place, Searches PROVE Place'
  OBVIOUS
<1> DEFINE n == Len(edges)
           D == Depth
           L(d) == Len(Candidates(d))
<1>1. /\ edges' = edges /\ \A d : Candidates(d)' = Candidates(d)
  BY SearchKept
<1>2. n \in Nat \ {0} /\ \A d \in 1 .. n : L(d) \in Nat
  BY SearchFacts
<1>3. /\ path \in Seq(ToSet(path)) /\ valid \in Seq(BOOLEAN) /\ cursor \in Seq(Nat)
      /\ D \in 0 .. n /\ Len(valid) = D + 1 /\ Len(cursor) = D + 1 /\ Len(path) = D
      /\ \A d \in 1 .. D : cursor[d] \in 1 .. L(d) /\ path[d] = Candidates(d)[cursor[d]]
      /\ cursor[D + 1] \in 1 .. (IF D = n THEN 1 ELSE L(D + 1) + 1)
  BY DEF Place, Depth
<1>4. Place' <=>
        /\ path' \in Seq(ToSet(path')) /\ valid' \in Seq(BOOLEAN) /\ cursor' \in Seq(Nat)
        /\ Len(path') \in 0 .. n /\ Len(valid') = Len(path') + 1 /\ Len(cursor') = Len(path') + 1
        /\ \A d \in 1 .. Len(path') : cursor'[d] \in 1 .. L(d) /\ path'[d] = Candidates(d)[cursor'[d]]
        /\ cursor'[Len(path') + 1] \in 1 .. (IF Len(path') = n THEN 1 ELSE L(Len(path') + 1) + 1)
  BY <1>1 DEF Place, Depth
<1> HIDE DEF L, n, D
<1>5. CASE Skip
  <2>1. /\ path' = path /\ valid' = valid /\ cursor' = [cursor EXCEPT ![D + 1] = cursor[D + 1] + 1]
        /\ D < n /\ cursor[D + 1] <= L(D + 1)
    BY <1>3, <1>5 DEF Skip, AtCandidate, NextCandidate, D, n, L
  <2>2. cursor' \in Seq(Nat) /\ Len(cursor') = D + 1 /\ cursor'[D + 1] = cursor[D + 1] + 1
        /\ \A d \in 1 .. D : cursor'[d] = cursor[d]
    BY <1>2, <1>3, <2>1
  <2>3. D \in Nat /\ n \in Nat /\ D + 1 \in 1 .. n /\ L(D + 1) \in Nat
    BY <1>2, <1>3, <2>1
  <2>4. cursor[D + 1] \in Nat /\ cursor[D + 1] + 1 \in 1 .. L(D + 1) + 1 /\ D # n
    BY <1>3, <2>1, <2>3
  <2>5. Len(path') = D /\ cursor'[D + 1] \in 1 .. (IF D = n THEN 1 ELSE L(D + 1) + 1)
    BY <1>3, <2>1, <2>2, <2>4
  <2>6. \A d \in 1 .. D : cursor'[d] \in 1 .. L(d) /\ path'[d] = Candidates(d)[cursor'[d]]
    BY <1>3, <2>1, <2>2
  <2> QED
    BY <1>3, <1>4, <2>1, <2>2, <2>5, <2>6
<1>6. CASE Enter
  <2> DEFINE c == Candidates(D + 1)[cursor[D + 1]]
  <2>1. /\ path' = Append(path, c) /\ valid' = Append(valid, FALSE) /\ cursor' = Append(cursor, 1)
        /\ D < n /\ cursor[D + 1] <= L(D + 1)
    BY <1>6 DEF Enter, AtCandidate, Current, D, n, L
  <2>2. D \in Nat /\ n \in Nat /\ D + 1 \in 1 .. n /\ L(D + 1) \in Nat /\ D # n
    BY <1>2, <1>3, <2>1
  <2>3. cursor[D + 1] \in 1 .. L(D + 1)
    BY <1>3, <2>1, <2>2
  <2> HIDE DEF c
  <2>4. /\ path' \in Seq(ToSet(path')) /\ Len(path') = D + 1 /\ path'[D + 1] = c
        /\ \A d \in 1 .. D : path'[d] = path[d]
    <3> DEFINE S == ToSet(path) \cup {c}
    <3>1. path \in Seq(S) /\ c \in S
      BY <1>3
    <3> HIDE DEF S
    <3>2. path' \in Seq(S) /\ Len(path') = D + 1 /\ path'[D + 1] = c /\ \A d \in 1 .. D : path'[d] = path[d]
      BY <1>3, <2>1, <3>1, AppendProperties
    <3> QED
      BY <3>2, OwnElements
  <2>5. valid' \in Seq(BOOLEAN) /\ Len(valid') = (D + 1) + 1
    BY <1>3, <2>1
  <2>6. /\ cursor' \in Seq(Nat) /\ Len(cursor') = (D + 1) + 1 /\ cursor'[(D + 1) + 1] = 1
        /\ \A d \in 1 .. D + 1 : cursor'[d] = cursor[d]
    BY <1>3, <2>1, <2>2
  <2>7. ASSUME NEW d \in 1 .. D + 1 PROVE cursor'[d] \in 1 .. L(d) /\ path'[d] = Candidates(d)[cursor'[d]]
    <3>1. CASE d = D + 1
      BY <2>2, <2>3, <2>4, <2>6, <3>1 DEF c
    <3>2. CASE d # D + 1
      <4>1. d \in 1 .. D
        BY <2>2, <3>2
      <4> QED
        BY <1>3, <2>4, <2>6, <4>1
    <3> QED
      BY <3>1, <3>2
  <2>8. 1 \in 1 .. (IF D + 1 = n THEN 1 ELSE L((D + 1) + 1) + 1)
    <3>1. CASE D + 1 = n
      BY <3>1
    <3>2. CASE D + 1 # n
      <4>1. (D + 1) + 1 \in 1 .. n
        BY <2>2, <3>2
      <4>2. L((D + 1) + 1) \in Nat
        BY <1>2, <4>1
      <4> QED
        BY <3>2, <4>2
    <3> QED
      BY <3>1, <3>2
  <2>9. Len(path') \in 0 .. n
    BY <2>2, <2>4
  <2> QED
    BY <1>4, <2>4, <2>5, <2>6, <2>7, <2>8, <2>9
<1>7. ASSUME NEW isValid \in BOOLEAN, Back(isValid), D > 0 PROVE Place'
  <2>1. /\ path' = Front(path) /\ cursor' = NextCandidate(Front(cursor))
        /\ valid' \in {[Front(valid) EXCEPT ![D] = TRUE], Front(valid)}
    BY <1>7 DEF Back, D
  <2>2. D \in 1 .. n /\ n \in Nat /\ D - 1 \in 0 .. n /\ D - 1 # n /\ (D - 1) + 1 = D /\ L(D) \in Nat
    BY <1>2, <1>3, <1>7
  <2>3. /\ path' \in Seq(ToSet(path')) /\ Len(path') = D - 1
        /\ \A d \in 1 .. D - 1 : path'[d] = path[d]
    <3>1. path # <<>>
      BY <1>3, <2>2
    <3>2. path' \in Seq(ToSet(path)) /\ Len(path') = D - 1 /\ \A d \in 1 .. D - 1 : path'[d] = path[d]
      BY <1>3, <2>1, <3>1, FrontOf
    <3> QED
      BY <3>2, OwnElements
  <2>4. valid' \in Seq(BOOLEAN) /\ Len(valid') = D
    <3>1. valid # <<>>
      BY <1>3, <2>2
    <3>2. Front(valid) \in Seq(BOOLEAN) /\ Len(Front(valid)) = D
      <4>1. (D + 1) - 1 = D
        BY <2>2
      <4> QED
        BY <1>3, <3>1, <4>1, FrontOf
    <3> DEFINE f == Front(valid)
    <3>3. valid' = f \/ valid' = [f EXCEPT ![D] = TRUE]
      BY <2>1
    <3> HIDE DEF f
    <3>4. f \in Seq(BOOLEAN) /\ Len(f) = D
      BY <3>2 DEF f
    <3>5. [f EXCEPT ![D] = TRUE] \in Seq(BOOLEAN) /\ Len([f EXCEPT ![D] = TRUE]) = D
      BY <2>2, <3>4
    <3> QED
      BY <3>3, <3>4, <3>5
  <2>5. /\ cursor' \in Seq(Nat) /\ Len(cursor') = D /\ cursor'[D] = cursor[D] + 1
        /\ \A d \in 1 .. D - 1 : cursor'[d] = cursor[d]
    <3> DEFINE f == Front(cursor)
    <3>1. cursor # <<>>
      BY <1>3, <2>2
    <3>2. f \in Seq(Nat) /\ Len(f) = D /\ \A d \in 1 .. D : f[d] = cursor[d]
      <4>1. Len(cursor) - 1 = D /\ cursor \in Seq(Nat)
        BY <1>3, <2>2
      <4>2. f \in Seq(Nat) /\ Len(f) = Len(cursor) - 1 /\ \A d \in 1 .. Len(cursor) - 1 : f[d] = cursor[d]
        BY <3>1, <4>1, FrontOf
      <4> HIDE DEF f
      <4> QED
        BY <4>1, <4>2
    <3> HIDE DEF f
    <3>3. cursor' = [f EXCEPT ![D] = f[D] + 1]
      BY <2>1, <3>2 DEF NextCandidate, f
    <3> QED
      BY <2>2, <3>2, <3>3
  <2>6. cursor'[D] \in 1 .. L(D) + 1
    BY <1>3, <2>2, <2>5
  <2>7. ASSUME NEW d \in 1 .. D - 1 PROVE cursor'[d] \in 1 .. L(d) /\ path'[d] = Candidates(d)[cursor'[d]]
    <3>1. d \in 1 .. D
      BY <2>2
    <3> QED
      BY <1>3, <2>3, <2>5, <3>1
  <2>8. Len(path') + 1 = D /\ Len(path') # n /\ Len(path') \in 0 .. n
    BY <2>2, <2>3
  <2>9. cursor'[Len(path') + 1] \in 1 .. (IF Len(path') = n THEN 1 ELSE L(Len(path') + 1) + 1)
    BY <2>6, <2>8
  <2>10. /\ path' \in Seq(ToSet(path')) /\ valid' \in Seq(BOOLEAN) /\ cursor' \in Seq(Nat)
         /\ Len(path') \in 0 .. n /\ Len(valid') = Len(path') + 1 /\ Len(cursor') = Len(path') + 1
    BY <2>3, <2>4, <2>5, <2>8
  <2>11. \A d \in 1 .. Len(path') : cursor'[d] \in 1 .. L(d) /\ path'[d] = Candidates(d)[cursor'[d]]
    BY <2>3, <2>7
  <2> QED
    BY <1>4, <2>9, <2>10, <2>11
<1>8. CASE Found
  <2>1. D > 0
    BY <1>2, <1>8 DEF Found, D, n
  <2>2. Back(TRUE) /\ TRUE \in BOOLEAN
    BY <1>8 DEF Found
  <2> QED
    BY <1>7, <2>1, <2>2, Zenon
<1>9. CASE Return
  <2>1. valid[Depth + 1] \in BOOLEAN
    BY <1>3 DEF D
  <2> QED
    BY <1>7, <1>9, <2>1 DEF Return, D
<1>10. CASE Finish
  BY <1>3, <1>4, <1>10 DEF Finish, searchVars
<1> QED
  BY <1>5, <1>6, <1>8, <1>9, <1>10 DEF Searches

-----------------------------------------------------------------------------
(* The subtasks.                                                           *)

(* A way through all edges, as the numbers of the candidates, its shards,  *)
(* and whether the search is past it.                                      *)
Ways == {w \in [1 .. Len(edges) -> Nat] : \A d \in 1 .. Len(edges) : w[d] \in 1 .. Len(Candidates(d))}
ShardsBy(w) == [d \in 1 .. Len(edges) |-> Candidates(d)[w[d]].shard]
Behind(w) ==
  \E d \in 1 .. Len(edges) : d <= Depth + 1 /\ (\A e \in 1 .. d - 1 : w[e] = cursor[e]) /\ w[d] < cursor[d]

LEMMA WaysKept ==
  ASSUME Searches
  PROVE  Ways' = Ways /\ \A w : ShardsBy(w)' = ShardsBy(w)
<1>1. edges' = edges /\ \A d : Candidates(d)' = Candidates(d)
  BY SearchKept
<1>2. Ways' = Ways
  BY <1>1 DEF Ways
<1>3. ASSUME NEW w PROVE ShardsBy(w)' = ShardsBy(w)
  BY <1>1 DEF ShardsBy
<1> QED
  BY <1>2, <1>3

(* Different ways have different shards. *)
LEMMA ShardsTellWays ==
  ASSUME Ordering, NEW w \in Ways, NEW z \in Ways, ShardsBy(w) = ShardsBy(z)
  PROVE  w = z
<1> DEFINE n == Len(edges)
<1>1. ASSUME NEW d \in 1 .. n PROVE w[d] = z[d]
  <2>1. w[d] \in 1 .. Len(Candidates(d)) /\ z[d] \in 1 .. Len(Candidates(d))
    BY DEF Ways
  <2>2. Candidates(d)[w[d]].shard = Candidates(d)[z[d]].shard
    <3>1. ShardsBy(w)[d] = Candidates(d)[w[d]].shard /\ ShardsBy(z)[d] = Candidates(d)[z[d]].shard
      BY DEF ShardsBy
    <3> QED
      BY <3>1
  <2>3. /\ input \in Inputs /\ EdgeAt(d).v1 \in Vertices /\ EdgeAt(d).v2 \in Vertices
    BY SearchFacts, EndsOfReadings DEF Ordering, Graph
  <2>4. \A i, j \in 1 .. Len(Candidates(d)) : i # j => Candidates(d)[i].shard # Candidates(d)[j].shard
    BY <2>3, OffersListed
  <2> QED
    BY <2>1, <2>2, <2>4
<1>2. w \in [1 .. n -> Nat] /\ z \in [1 .. n -> Nat]
  BY DEF Ways
<1> QED
  BY <1>1, <1>2

(* How the search gets past ways: all with the candidate that is skipped,  *)
(* the one that was found, and none when it enters or returns.             *)
LEMMA PassedBy ==
  ASSUME Ordering, Place, Searches, NEW w \in Ways
  PROVE  /\ Behind(w) => Behind(w)'
         /\ Enter \/ Return \/ Finish => (Behind(w)' => Behind(w))
         /\ Skip /\ Behind(w)' /\ ~Behind(w) =>
              \A d \in 1 .. Depth + 1 : w[d] = cursor[d]
         /\ Found => Depth = Len(edges) /\ (Behind(w)' <=> Behind(w) \/ \A d \in 1 .. Len(edges) : w[d] = cursor[d])
<1> DEFINE n == Len(edges)
           D == Depth
           L(d) == Len(Candidates(d))
<1>1. edges' = edges
  BY SearchKept
<1>2. n \in Nat \ {0} /\ (\A d \in 1 .. n : L(d) \in Nat) /\ \A d \in 1 .. n : w[d] \in 1 .. L(d) /\ w[d] \in Nat
  <2>1. n \in Nat \ {0} /\ \A d \in 1 .. n : L(d) \in Nat
    BY SearchFacts
  <2> QED
    BY <2>1 DEF Ways
<1>3. /\ cursor \in Seq(Nat) /\ valid \in Seq(BOOLEAN) /\ D \in 0 .. n /\ Len(cursor) = D + 1 /\ Len(path) = D
      /\ \A d \in 1 .. D : cursor[d] \in 1 .. L(d)
      /\ cursor[D + 1] \in Nat
  BY DEF Place, Depth
<1>4. Behind(w) <=> \E d \in 1 .. n : d <= D + 1 /\ (\A e \in 1 .. d - 1 : w[e] = cursor[e]) /\ w[d] < cursor[d]
  BY DEF Behind
<1>5. Behind(w)' <=>
        \E d \in 1 .. n : d <= Len(path') + 1 /\ (\A e \in 1 .. d - 1 : w[e] = cursor'[e]) /\ w[d] < cursor'[d]
  BY <1>1 DEF Behind, Depth
<1> HIDE DEF n, D, L
<1>6. ASSUME Skip
      PROVE  /\ Behind(w) => Behind(w)'
             /\ Behind(w)' /\ ~Behind(w) => \A d \in 1 .. D + 1 : w[d] = cursor[d]
  <2>1. path' = path /\ cursor' = [cursor EXCEPT ![D + 1] = cursor[D + 1] + 1] /\ D < n
    BY <1>3, <1>6 DEF Skip, AtCandidate, NextCandidate, D, n
  <2>2. /\ cursor'[D + 1] = cursor[D + 1] + 1 /\ \A d \in 1 .. D : cursor'[d] = cursor[d]
    BY <1>2, <1>3, <2>1
  <2>3. D \in Nat /\ n \in Nat /\ D + 1 \in 1 .. n /\ Len(path') = D
    BY <1>2, <1>3, <2>1
  <2>4. ASSUME Behind(w) PROVE Behind(w)'
    <3>1. PICK d \in 1 .. n : d <= D + 1 /\ (\A e \in 1 .. d - 1 : w[e] = cursor[e]) /\ w[d] < cursor[d]
      BY <1>4, <2>4
    <3>2. \A e \in 1 .. d - 1 : e \in 1 .. D
      BY <2>3, <3>1
    <3>3. d \in 1 .. D \/ d = D + 1
      BY <2>3, <3>1
    <3>4. w[d] < cursor'[d]
      BY <1>2, <1>3, <2>2, <3>1, <3>3
    <3> QED
      BY <1>5, <2>2, <2>3, <3>1, <3>2, <3>4
  <2>5. ASSUME Behind(w)', ~Behind(w) PROVE \A d \in 1 .. D + 1 : w[d] = cursor[d]
    <3>1. PICK d \in 1 .. n : d <= D + 1 /\ (\A e \in 1 .. d - 1 : w[e] = cursor'[e]) /\ w[d] < cursor'[d]
      BY <1>5, <2>3, <2>5
    <3>2. \A e \in 1 .. d - 1 : e \in 1 .. D
      BY <2>3, <3>1
    <3>3. \A e \in 1 .. d - 1 : w[e] = cursor[e]
      BY <2>2, <3>1, <3>2
    <3>4. ~(w[d] < cursor[d])
      BY <1>4, <2>5, <3>1, <3>3
    <3>5. d = D + 1
      BY <2>2, <2>3, <3>1, <3>4
    <3>6. w[D + 1] = cursor[D + 1]
      BY <1>2, <1>3, <2>2, <2>3, <3>1, <3>4, <3>5
    <3> QED
      BY <2>3, <3>3, <3>5, <3>6
  <2> QED
    BY <2>4, <2>5
<1>7. ASSUME Enter PROVE Behind(w)' <=> Behind(w)
  <2>1. cursor' = Append(cursor, 1) /\ D < n
    BY <1>7 DEF Enter, AtCandidate, D, n
  <2>2. Len(path') = D + 1
    <3>1. \E c : path' = Append(path, c)
      BY <1>7 DEF Enter
    <3>2. path \in Seq(ToSet(path))
      BY DEF Place
    <3> QED
      BY <1>3, <3>1, <3>2
  <2>3. cursor'[(D + 1) + 1] = 1 /\ \A d \in 1 .. D + 1 : cursor'[d] = cursor[d]
    BY <1>3, <2>1
  <2>4. D \in Nat /\ n \in Nat /\ D + 1 \in 1 .. n
    BY <1>2, <1>3, <2>1
  <2>5. ASSUME Behind(w) PROVE Behind(w)'
    <3>1. PICK d \in 1 .. n : d <= D + 1 /\ (\A e \in 1 .. d - 1 : w[e] = cursor[e]) /\ w[d] < cursor[d]
      BY <1>4, <2>5
    <3>2. d \in 1 .. D + 1 /\ d <= (D + 1) + 1 /\ \A e \in 1 .. d - 1 : e \in 1 .. D + 1
      BY <2>4, <3>1
    <3> QED
      BY <1>5, <2>2, <2>3, <3>1, <3>2
  <2>6. ASSUME Behind(w)' PROVE Behind(w)
    <3>1. PICK d \in 1 .. n : d <= (D + 1) + 1 /\ (\A e \in 1 .. d - 1 : w[e] = cursor'[e]) /\ w[d] < cursor'[d]
      BY <1>5, <2>2, <2>6
    <3>2. d # (D + 1) + 1
      BY <1>2, <2>3, <3>1
    <3>3. d \in 1 .. D + 1 /\ d <= D + 1 /\ \A e \in 1 .. d - 1 : e \in 1 .. D + 1
      BY <2>4, <3>1, <3>2
    <3> QED
      BY <1>4, <2>3, <3>1, <3>3
  <2> QED
    BY <2>5, <2>6
<1>8. ASSUME NEW isValid, Back(isValid), D > 0
      PROVE  Behind(w)' <=> \/ \E d \in 1 .. n : d <= D /\ (\A e \in 1 .. d - 1 : w[e] = cursor[e]) /\ w[d] < cursor[d]
                            \/ \A d \in 1 .. D : w[d] = cursor[d]
  <2>1. path' = Front(path) /\ cursor' = NextCandidate(Front(cursor))
    BY <1>8 DEF Back
  <2>2. D \in 1 .. n /\ n \in Nat /\ (D - 1) + 1 = D /\ (D + 1) - 1 = D
    BY <1>2, <1>3, <1>8
  <2>3. Len(path') = D - 1
    <3>1. path # <<>> /\ path \in Seq(ToSet(path))
      BY <1>3, <2>2 DEF Place
    <3> QED
      BY <1>3, <2>1, <3>1, FrontOf
  <2>4. cursor'[D] = cursor[D] + 1 /\ \A d \in 1 .. D - 1 : cursor'[d] = cursor[d]
    <3> DEFINE f == Front(cursor)
    <3>1. cursor # <<>> /\ cursor \in Seq(Nat) /\ Len(cursor) - 1 = D
      BY <1>3, <2>2
    <3>2. f \in Seq(Nat) /\ Len(f) = Len(cursor) - 1 /\ \A d \in 1 .. Len(cursor) - 1 : f[d] = cursor[d]
      BY <3>1, FrontOf
    <3> HIDE DEF f
    <3>3. f \in Seq(Nat) /\ Len(f) = D /\ \A d \in 1 .. D : f[d] = cursor[d]
      BY <3>1, <3>2
    <3>4. cursor' = [f EXCEPT ![D] = f[D] + 1]
      BY <2>1, <3>3 DEF NextCandidate, f
    <3> QED
      BY <2>2, <3>3, <3>4
  <2>5. ASSUME Behind(w)'
        PROVE  \/ \E d \in 1 .. n : d <= D /\ (\A e \in 1 .. d - 1 : w[e] = cursor[e]) /\ w[d] < cursor[d]
               \/ \A d \in 1 .. D : w[d] = cursor[d]
    <3>1. PICK d \in 1 .. n : d <= D /\ (\A e \in 1 .. d - 1 : w[e] = cursor'[e]) /\ w[d] < cursor'[d]
      BY <1>5, <2>2, <2>3, <2>5
    <3>2. \A e \in 1 .. d - 1 : e \in 1 .. D - 1
      BY <2>2, <3>1
    <3>3. \A e \in 1 .. d - 1 : w[e] = cursor[e]
      BY <2>4, <3>1, <3>2
    <3>4. CASE d = D
      <4>1. w[D] < cursor[D] \/ w[D] = cursor[D]
        BY <1>2, <1>3, <2>2, <2>4, <3>1, <3>4
      <4>2. \A e \in 1 .. D : e \in 1 .. D - 1 \/ e = D
        BY <2>2
      <4> QED
        BY <3>1, <3>3, <3>4, <4>1, <4>2
    <3>5. CASE d # D
      <4>1. d \in 1 .. D - 1
        BY <2>2, <3>1, <3>5
      <4> QED
        BY <2>4, <3>1, <3>3, <4>1
    <3> QED
      BY <3>4, <3>5
  <2>6. ASSUME NEW d \in 1 .. n, d <= D, \A e \in 1 .. d - 1 : w[e] = cursor[e], w[d] < cursor[d] PROVE Behind(w)'
    <3>1. \A e \in 1 .. d - 1 : e \in 1 .. D - 1
      BY <2>2, <2>6
    <3>2. d \in 1 .. D - 1 \/ d = D
      BY <2>2, <2>6
    <3>3. w[d] < cursor'[d]
      BY <1>2, <1>3, <2>2, <2>4, <2>6, <3>2, SMTT(30)
    <3> QED
      BY <1>5, <2>2, <2>3, <2>4, <2>6, <3>1, <3>3
  <2>7. ASSUME \A d \in 1 .. D : w[d] = cursor[d] PROVE Behind(w)'
    <3>1. D \in 1 .. D /\ \A e \in 1 .. D - 1 : e \in 1 .. D
      BY <2>2
    <3>2. w[D] < cursor'[D]
      BY <1>2, <2>2, <2>4, <2>7, <3>1
    <3> QED
      BY <1>5, <2>2, <2>3, <2>4, <2>7, <3>1, <3>2
  <2> QED
    BY <2>5, <2>6, <2>7
<1>9. ASSUME Found PROVE D = n /\ (Behind(w)' <=> Behind(w) \/ \A d \in 1 .. n : w[d] = cursor[d])
  <2>1. D = n /\ Back(TRUE)
    BY <1>9 DEF Found, D, n
  <2>2. D > 0 /\ \A d \in 1 .. n : d <= D + 1 <=> d <= D
    BY <1>2, <2>1
  <2> QED
    BY <1>4, <1>8, <2>1, <2>2
<1>10. ASSUME Return PROVE Behind(w)' <=> Behind(w)
  <2>1. D < n /\ cursor[D + 1] > L(D + 1) /\ D > 0 /\ Back(valid[D + 1])
    BY <1>10 DEF Return, Exhausted, D, n, L
  <2>2. D \in 1 .. n /\ n \in Nat /\ D + 1 \in 1 .. n
    BY <1>2, <1>3, <2>1
  <2>3. w[D + 1] < cursor[D + 1]
    <3>1. w[D + 1] \in 1 .. L(D + 1) /\ L(D + 1) \in Nat
      BY <1>2, <2>2
    <3> QED
      BY <1>3, <2>1, <3>1
  <2>4. (D + 1) - 1 = D
    BY <2>2
  <2>5. (\A d \in 1 .. D : w[d] = cursor[d]) => Behind(w)
    BY <1>4, <2>2, <2>3, <2>4
  <2>6. ASSUME Behind(w)
        PROVE  \/ \E d \in 1 .. n : d <= D /\ (\A e \in 1 .. d - 1 : w[e] = cursor[e]) /\ w[d] < cursor[d]
               \/ \A d \in 1 .. D : w[d] = cursor[d]
    <3>1. PICK d \in 1 .. n : d <= D + 1 /\ (\A e \in 1 .. d - 1 : w[e] = cursor[e]) /\ w[d] < cursor[d]
      BY <1>4, <2>6
    <3>2. d <= D \/ d = D + 1
      BY <2>2, <3>1
    <3> QED
      BY <2>4, <3>1, <3>2
  <2>7. \A d \in 1 .. n : d <= D => d <= D + 1
    BY <2>2
  <2> QED
    BY <1>4, <1>8, <2>1, <2>5, <2>6, <2>7
<1>11. Finish => (Behind(w)' <=> Behind(w))
  BY <1>3, <1>4, <1>5 DEF Finish, searchVars
<1> QED
  BY <1>6, <1>7, <1>9, <1>10, <1>11 DEF Searches, n, D

(* What a found subtask is. *)
LEMMA FoundWay ==
  ASSUME Ordering, Place, Found
  PROVE  \E w \in Ways : /\ ShardsOn(path) = ShardsBy(w) /\ ~Behind(w)
                         /\ \A d \in 1 .. Len(edges) : w[d] = cursor[d]
<1> DEFINE n == Len(edges)
           w == [d \in 1 .. n |-> cursor[d]]
<1>1. Depth = n /\ Len(path) = n
  BY DEF Found, Depth
<1>2. n \in Nat \ {0}
  BY SearchFacts
<1>3. /\ path \in Seq(ToSet(path)) /\ cursor \in Seq(Nat) /\ Len(cursor) = n + 1
      /\ \A d \in 1 .. n : cursor[d] \in 1 .. Len(Candidates(d)) /\ path[d] = Candidates(d)[cursor[d]]
  BY <1>1 DEF Place
<1>4. DOMAIN path = 1 .. n
  BY <1>1, <1>3
<1> HIDE DEF n
<1>5. \A d \in 1 .. n : w[d] = cursor[d] /\ cursor[d] \in Nat
  BY <1>2, <1>3
<1>6. w \in Ways
  <2>1. w \in [1 .. n -> Nat]
    BY <1>5
  <2> HIDE DEF w
  <2> QED
    BY <1>3, <1>5, <2>1 DEF Ways, n
<1>7. ShardsOn(path) = ShardsBy(w)
  BY <1>3, <1>4 DEF ShardsOn, ShardsBy, n
<1>8. ~Behind(w)
  <2> HIDE DEF w
  <2> QED
    BY <1>5 DEF Behind, n
<1> HIDE DEF w
<1> QED
  BY <1>5, <1>6, <1>7, <1>8 DEF n

(* Each subtask is a way the search is past, and there once. *)
Plans ==
  /\ plan \in Seq(ToSet(plan))
  /\ \A k \in DOMAIN plan : \E w \in Ways : plan[k] = ShardsBy(w) /\ Behind(w)
  /\ \A j, k \in DOMAIN plan : plan[j] = plan[k] => j = k

LEMMA BlankPlans == Blank => Plans
  BY DEF Blank, Plans, ToSet

LEMMA PlanGrows ==
  ASSUME Ordering, Place, Plans, Found
  PROVE  /\ plan' = Append(plan, ShardsOn(path)) /\ plan' \in Seq(ToSet(plan'))
         /\ Len(plan) \in Nat /\ DOMAIN plan = 1 .. Len(plan) /\ DOMAIN plan' = 1 .. Len(plan) + 1
         /\ \A k \in 1 .. Len(plan) : plan'[k] = plan[k]
         /\ plan'[Len(plan) + 1] = ShardsOn(path)
<1> DEFINE s == ShardsOn(path)
           S == ToSet(plan) \cup {s}
<1>1. plan' = Append(plan, s)
  BY DEF Found
<1>2. plan \in Seq(S) /\ s \in S
  BY DEF Plans
<1> HIDE DEF s, S
<1>3. /\ plan' \in Seq(S) /\ Len(plan') = Len(plan) + 1 /\ plan'[Len(plan) + 1] = s
      /\ \A k \in 1 .. Len(plan) : plan'[k] = plan[k]
  BY <1>1, <1>2, AppendProperties
<1>4. plan' \in Seq(ToSet(plan'))
  BY <1>3, OwnElements
<1>5. Len(plan) \in Nat /\ DOMAIN plan = 1 .. Len(plan) /\ DOMAIN plan' = 1 .. Len(plan) + 1
  BY <1>2, <1>3
<1> QED
  BY <1>1, <1>3, <1>4, <1>5 DEF s

LEMMA SearchPlans == Ordering /\ Place /\ Plans /\ Searches => Plans'
<1> SUFFICES ASSUME Ordering, Place, Plans, Searches PROVE Plans'
  OBVIOUS
<1>1. Ways' = Ways /\ \A w : ShardsBy(w)' = ShardsBy(w)
  BY WaysKept
<1>2. \A w \in Ways : Behind(w) => Behind(w)'
  BY PassedBy
<1>3. Plans' <=>
        /\ plan' \in Seq(ToSet(plan'))
        /\ \A k \in DOMAIN plan' : \E w \in Ways : plan'[k] = ShardsBy(w) /\ Behind(w)'
        /\ \A j, k \in DOMAIN plan' : plan'[j] = plan'[k] => j = k
  BY <1>1 DEF Plans
<1>4. CASE plan' = plan
  BY <1>2, <1>3, <1>4 DEF Plans
<1>5. CASE Found
  <2> DEFINE n == Len(plan)
             s == ShardsOn(path)
  <2>1. /\ plan' \in Seq(ToSet(plan')) /\ n \in Nat /\ DOMAIN plan = 1 .. n /\ DOMAIN plan' = 1 .. n + 1
        /\ (\A k \in 1 .. n : plan'[k] = plan[k]) /\ plan'[n + 1] = s
    BY <1>5, PlanGrows
  <2>2. PICK w \in Ways : s = ShardsBy(w) /\ ~Behind(w) /\ \A d \in 1 .. Len(edges) : w[d] = cursor[d]
    BY <1>5, FoundWay
  <2>3. Behind(w)'
    BY <1>5, <2>2, PassedBy
  <2> HIDE DEF n, s
  <2>4. \A k \in 1 .. n + 1 : k \in 1 .. n \/ k = n + 1
    BY <2>1
  <2>5. ASSUME NEW k \in 1 .. n + 1 PROVE \E z \in Ways : plan'[k] = ShardsBy(z) /\ Behind(z)'
    <3>1. CASE k \in 1 .. n
      <4>1. PICK z \in Ways : plan[k] = ShardsBy(z) /\ Behind(z)
        BY <2>1, <3>1 DEF Plans
      <4> QED
        BY <1>2, <2>1, <3>1, <4>1
    <3>2. CASE k = n + 1
      BY <2>1, <2>2, <2>3, <3>2
    <3> QED
      BY <2>4, <3>1, <3>2
  <2>6. ASSUME NEW k \in 1 .. n PROVE plan[k] # s
    <3>1. PICK z \in Ways : plan[k] = ShardsBy(z) /\ Behind(z)
      BY <2>1 DEF Plans
    <3>2. z # w
      BY <2>2, <3>1
    <3> QED
      BY <2>2, <3>1, <3>2, ShardsTellWays
  <2>7. \A j, k \in 1 .. n : plan[j] = plan[k] => j = k
    BY <2>1 DEF Plans
  <2>8. \A j, k \in 1 .. n + 1 : plan'[j] = plan'[k] => j = k
    BY <2>1, <2>4, <2>6, <2>7
  <2> QED
    BY <1>3, <2>1, <2>5, <2>8
<1> QED
  BY <1>4, <1>5 DEF Searches, Skip, Enter, Return, Finish, searchVars-----------------------------------------------------------------------------

(* The tree.                                                               *)

(* The way from the root to level d, *)
Upto(s, d) == [i \in 1 .. d |-> s[i]]

(* which is that to the node the search is at. *)
OnWay(s, d) == \A i \in 1 .. d : s[i] = path[i].shard

(* The nodes in the tree are those of subtasks, and a node of a subtask    *)
(* that is not yet there is on the way and will be, as v says: a node on   *)
(* the way is valid if a subtask has it.                                   *)
NodesAt(p, v) ==
  /\ \A t \in tree : \E k \in DOMAIN p, d \in 1 .. Len(edges) : t = Upto(p[k], d)
  /\ \A k \in DOMAIN p, d \in 1 .. Len(edges) :
       Upto(p[k], d) \in tree \/ (OnWay(p[k], d) /\ \E m \in d .. Depth : v[m])
  /\ \A m \in 0 .. Depth : v[m] => \E k \in DOMAIN p : OnWay(p[k], m)

Nodes == NodesAt(plan, [m \in 0 .. Depth |-> valid[m + 1]])

LEMMA BlankNodes == Blank => Nodes
<1> SUFFICES ASSUME Blank PROVE Nodes
  OBVIOUS
<1> DEFINE v == [m \in 0 .. Depth |-> valid[m + 1]]
<1>1. Depth = 0 /\ plan = <<>> /\ tree = {} /\ v[0] = FALSE
  <2>1. path = <<>> /\ valid = <<FALSE>> /\ plan = <<>> /\ tree = {}
    BY DEF Blank
  <2>2. Depth = 0 /\ valid[1] = FALSE /\ 0 \in 0 .. 0 /\ 0 + 1 = 1
    BY <2>1 DEF Depth
  <2> QED
    BY <2>1, <2>2
<1>2. DOMAIN plan = {} /\ \A m \in 0 .. Depth : m = 0
  BY <1>1
<1> HIDE DEF v
<1>3. NodesAt(plan, v)
  BY <1>1, <1>2 DEF NodesAt
<1> QED
  BY <1>3 DEF Nodes, v

(* What going back to the parent does. *)
LEMMA BackTo ==
  ASSUME Place, Depth > 0, NEW isValid \in BOOLEAN, Back(isValid)
  PROVE  /\ Len(path') = Depth - 1 /\ \A i \in 1 .. Depth - 1 : path'[i] = path[i]
         /\ \A m \in 1 .. Depth - 1 : valid'[m] = valid[m]
         /\ valid'[Depth] = (isValid \/ valid[Depth])
         /\ tree' = tree \cup (IF isValid THEN {ShardsOn(path)} ELSE {})
         /\ ShardsOn(path) = [i \in 1 .. Depth |-> path[i].shard]
<1> DEFINE D == Depth
           f == Front(valid)
<1>1. /\ path \in Seq(ToSet(path)) /\ valid \in Seq(BOOLEAN) /\ D \in Nat \ {0} /\ Len(path) = D
      /\ Len(valid) = D + 1
  BY DEF Place, Depth
<1>2. /\ path' = Front(path)
      /\ isValid => valid' = [f EXCEPT ![D] = TRUE] /\ tree' = tree \cup {ShardsOn(path)}
      /\ ~isValid => valid' = f /\ tree' = tree
  BY DEF Back
<1>3. path # <<>> /\ valid # <<>> /\ DOMAIN path = 1 .. D
  BY <1>1
<1>4. Len(path') = D - 1 /\ \A i \in 1 .. D - 1 : path'[i] = path[i]
  BY <1>1, <1>2, <1>3, FrontOf
<1>5. f \in Seq(BOOLEAN) /\ Len(f) = D /\ \A i \in 1 .. D : f[i] = valid[i]
  <2>1. f \in Seq(BOOLEAN) /\ Len(f) = (D + 1) - 1 /\ \A i \in 1 .. (D + 1) - 1 : f[i] = valid[i]
    BY <1>1, <1>3, FrontOf
  <2>2. (D + 1) - 1 = D
    BY <1>1
  <2> QED
    BY <2>1, <2>2
<1>6. ShardsOn(path) = [i \in 1 .. D |-> path[i].shard]
  BY <1>3 DEF ShardsOn
<1> HIDE DEF f, D
<1>7. /\ \A m \in 1 .. D - 1 : m \in 1 .. D /\ m # D
      /\ D \in 1 .. D /\ DOMAIN f = 1 .. D
  BY <1>1, <1>5
<1>8. (\A m \in 1 .. D - 1 : valid'[m] = valid[m]) /\ valid'[D] = (isValid \/ valid[D])
  <2>1. CASE isValid
    <3>1. valid'[D] = TRUE /\ \A m \in 1 .. D - 1 : valid'[m] = f[m]
      BY <1>2, <1>7, <2>1
    <3> QED
      BY <1>5, <1>7, <2>1, <3>1
  <2>2. CASE ~isValid
    <3>1. valid' = f /\ isValid = FALSE /\ valid[D] \in BOOLEAN /\ f[D] = valid[D]
      BY <1>1, <1>2, <1>5, <1>7, <2>2
    <3>2. valid'[D] = valid[D] /\ (isValid \/ valid[D]) = valid[D]
      BY <3>1
    <3> QED
      BY <1>5, <1>7, <3>1, <3>2
  <2> QED
    BY <2>1, <2>2
<1>9. tree' = tree \cup (IF isValid THEN {ShardsOn(path)} ELSE {})
  BY <1>2
<1> QED
  BY <1>4, <1>6, <1>8, <1>9 DEF D

(* A valid node enters the tree and makes its parent valid. *)
LEMMA BackNodes ==
  ASSUME Ordering, Place, Depth > 0, NEW isValid \in BOOLEAN, Back(isValid), edges' = edges,
         NEW v, NodesAt(plan', v), v[Depth] = isValid, \A m \in 0 .. Depth - 1 : v[m] = valid[m + 1]
  PROVE  Nodes'
<1> DEFINE n == Len(edges)
           D == Depth
           p == plan'
           z == [m \in 0 .. Len(path') |-> valid'[m + 1]]
<1>1. /\ Len(path') = D - 1 /\ \A i \in 1 .. D - 1 : path'[i] = path[i]
      /\ \A m \in 1 .. D - 1 : valid'[m] = valid[m]
      /\ valid'[D] = (isValid \/ valid[D])
      /\ tree' = tree \cup (IF isValid THEN {ShardsOn(path)} ELSE {})
      /\ ShardsOn(path) = [i \in 1 .. D |-> path[i].shard]
  BY BackTo
<1>2. n \in Nat \ {0} /\ D \in 1 .. n
  <2>1. n \in Nat \ {0}
    BY SearchFacts
  <2>2. D \in 0 .. n
    BY DEF Place
  <2> QED
    BY <2>1, <2>2
<1> DEFINE On(s, d) == \A i \in 1 .. d : s[i] = path'[i].shard
<1>3. Nodes' <=>
        /\ \A t \in tree' : \E k \in DOMAIN p, d \in 1 .. n : t = Upto(p[k], d)
        /\ \A k \in DOMAIN p, d \in 1 .. n :
             Upto(p[k], d) \in tree' \/ (On(p[k], d) /\ \E m \in d .. Len(path') : z[m])
        /\ \A m \in 0 .. Len(path') : z[m] => \E k \in DOMAIN p : On(p[k], m)
  BY DEF Nodes, NodesAt, OnWay, Upto, Depth
<1>4. /\ \A t \in tree : \E k \in DOMAIN p, d \in 1 .. n : t = Upto(p[k], d)
      /\ \A k \in DOMAIN p, d \in 1 .. n : Upto(p[k], d) \in tree \/ (OnWay(p[k], d) /\ \E m \in d .. D : v[m])
      /\ \A m \in 0 .. D : v[m] => \E k \in DOMAIN p : OnWay(p[k], m)
  BY DEF NodesAt
<1>5. Len(path') = D - 1 /\ D - 1 \in 0 .. D /\ D \in 0 .. D /\ (D - 1) + 1 = D /\ D \in Nat
  BY <1>1, <1>2
<1>6. ASSUME NEW m \in 0 .. D - 1 PROVE z[m] = IF m = D - 1 THEN isValid \/ v[m] ELSE v[m]
  <2>1. z[m] = valid'[m + 1] /\ v[m] = valid[m + 1]
    BY <1>5
  <2>2. CASE m = D - 1
    BY <1>1, <1>5, <2>1, <2>2
  <2>3. CASE m # D - 1
    <3>1. m + 1 \in 1 .. D - 1
      BY <1>5, <2>3
    <3> QED
      BY <1>1, <2>1, <2>3, <3>1
  <2> QED
    BY <2>2, <2>3
<1> HIDE DEF z, p, n, D
<1>7. \A s, d : d <= D - 1 /\ d \in Nat => (On(s, d) <=> OnWay(s, d))
  <2> SUFFICES ASSUME NEW s, NEW d \in Nat, d <= D - 1 PROVE On(s, d) <=> OnWay(s, d)
    OBVIOUS
  <2>1. \A i \in 1 .. d : i \in 1 .. D - 1
    BY <1>5
  <2> QED
    BY <1>1, <2>1 DEF OnWay
<1>8. \A s : OnWay(s, D) => /\ Upto(s, D) = ShardsOn(path)
                            /\ OnWay(s, D - 1)
  <2>1. \A i \in 1 .. D - 1 : i \in 1 .. D
    BY <1>5
  <2> QED
    BY <1>1, <2>1 DEF OnWay, Upto
<1> HIDE DEF On
<1>9. ASSUME NEW t \in tree' PROVE \E k \in DOMAIN p, d \in 1 .. n : t = Upto(p[k], d)
  <2>1. CASE t \in tree
    BY <1>4, <2>1
  <2>2. CASE t \notin tree
    <3>1. isValid /\ t = ShardsOn(path)
      BY <1>1, <2>2
    <3>2. v[D] = TRUE
      BY <3>1 DEF D
    <3>3. PICK k \in DOMAIN p : OnWay(p[k], D)
      BY <1>4, <1>5, <3>2
    <3> QED
      BY <1>2, <1>8, <3>1, <3>3
  <2> QED
    BY <2>1, <2>2
<1>10. ASSUME NEW k \in DOMAIN p, NEW d \in 1 .. n, Upto(p[k], d) \notin tree'
       PROVE  On(p[k], d) /\ \E m \in d .. Len(path') : z[m]
  <2>1. Upto(p[k], d) \notin tree
    BY <1>1, <1>10
  <2>2. OnWay(p[k], d)
    BY <1>4, <2>1
  <2>3. PICK m \in d .. D : v[m]
    BY <1>4, <2>1
  <2>4. d \in Nat /\ 1 <= d
    BY <1>2
  <2>5. d # D
    <3> SUFFICES ASSUME d = D PROVE FALSE
      OBVIOUS
    <3>1. m = D
      BY <1>2, <2>3, <2>4
    <3>2. isValid
      BY <2>3, <3>1 DEF D
    <3>3. Upto(p[k], d) = ShardsOn(path)
      BY <1>8, <2>2
    <3> QED
      BY <1>1, <1>10, <3>2, <3>3
  <2>6. d <= D - 1 /\ D - 1 \in d .. D - 1 /\ (m # D => m \in d .. D - 1)
    BY <1>2, <2>3, <2>4, <2>5
  <2>7. On(p[k], d)
    BY <1>7, <2>2, <2>4, <2>6
  <2>8. \A l \in d .. D - 1 : l \in 0 .. D - 1
    BY <2>4
  <2>9. CASE m = D
    <3>1. isValid
      BY <2>3, <2>9 DEF D
    <3>2. z[D - 1]
      BY <1>6, <2>6, <2>8, <3>1
    <3> QED
      BY <1>5, <2>6, <2>7, <3>2
  <2>10. CASE m # D
    <3>1. z[m]
      BY <1>6, <2>3, <2>6, <2>8, <2>10
    <3> QED
      BY <1>5, <2>6, <2>7, <2>10, <3>1
  <2> QED
    BY <2>9, <2>10
<1>11. ASSUME NEW m \in 0 .. D - 1, z[m] PROVE \E k \in DOMAIN p : On(p[k], m)
  <2>1. m \in 0 .. D /\ m \in Nat /\ m <= D - 1
    BY <1>5
  <2>2. CASE v[m]
    <3>1. PICK k \in DOMAIN p : OnWay(p[k], m)
      BY <1>4, <2>1, <2>2
    <3> QED
      BY <1>7, <2>1, <3>1
  <2>3. CASE ~v[m]
    <3>1. m = D - 1 /\ isValid
      BY <1>6, <1>11, <2>3
    <3>2. v[D]
      BY <3>1 DEF D
    <3>3. PICK k \in DOMAIN p : OnWay(p[k], D)
      BY <1>4, <1>5, <3>2
    <3>4. OnWay(p[k], m)
      BY <1>8, <3>1, <3>3
    <3> QED
      BY <1>7, <2>1, <3>4
  <2> QED
    BY <2>2, <2>3
<1> QED
  BY <1>3, <1>5, <1>9, <1>10, <1>11

LEMMA SearchNodes == Ordering /\ Place /\ Plans /\ Nodes /\ Searches => Nodes'
<1> SUFFICES ASSUME Ordering, Place, Plans, Nodes, Searches PROVE Nodes'
  OBVIOUS
<1> DEFINE n == Len(edges)
           D == Depth
           v == [m \in 0 .. D |-> valid[m + 1]]
<1>1. edges' = edges
  BY SearchKept
<1>2. n \in Nat \ {0} /\ D \in 0 .. n /\ D \in Nat /\ Len(path) = D
  <2>1. n \in Nat \ {0}
    BY SearchFacts
  <2>2. D \in 0 .. n /\ Len(path) = D
    BY DEF Place, Depth
  <2> QED
    BY <2>1, <2>2
<1>3. /\ \A t \in tree : \E k \in DOMAIN plan, d \in 1 .. n : t = Upto(plan[k], d)
      /\ \A k \in DOMAIN plan, d \in 1 .. n :
           Upto(plan[k], d) \in tree \/ (OnWay(plan[k], d) /\ \E m \in d .. D : v[m])
      /\ \A m \in 0 .. D : v[m] => \E k \in DOMAIN plan : OnWay(plan[k], m)
  BY DEF Nodes, NodesAt
<1>4. path \in Seq(ToSet(path)) /\ valid \in Seq(BOOLEAN) /\ Len(valid) = D + 1
  BY DEF Place
<1>5. CASE path' = path /\ valid' = valid /\ tree' = tree /\ plan' = plan
  BY <1>1, <1>5, SMTT(30) DEF Nodes, NodesAt, OnWay, Upto, Depth
<1>6. CASE Enter
  <2> DEFINE On(s, d) == \A i \in 1 .. d : s[i] = path'[i].shard
             z == [m \in 0 .. Len(path') |-> valid'[m + 1]]
  <2>1. tree' = tree /\ plan' = plan /\ valid' = Append(valid, FALSE) /\ \E c : path' = Append(path, c)
    BY <1>6 DEF Enter
  <2>2. Len(path') = D + 1 /\ \A i \in 1 .. D : path'[i] = path[i]
    <3>1. PICK c : path' = Append(path, c)
      BY <2>1
    <3> QED
      BY <1>2, <1>4, <3>1
  <2>3. valid'[D + 2] = FALSE /\ \A m \in 1 .. D + 1 : valid'[m] = valid[m]
    <3>1. /\ valid'[Len(valid) + 1] = FALSE
          /\ \A m \in 1 .. Len(valid) : valid'[m] = valid[m]
      <4>1. FALSE \in BOOLEAN
        OBVIOUS
      <4> QED
        BY <1>4, <2>1, <4>1, AppendProperties, ZenonT(60)
    <3>2. (D + 1) + 1 = D + 2
      BY <1>2
    <3> QED
      BY <1>4, <3>1, <3>2
  <2>4. Nodes' <=>
          /\ \A t \in tree' : \E k \in DOMAIN plan', d \in 1 .. n : t = Upto(plan'[k], d)
          /\ \A k \in DOMAIN plan', d \in 1 .. n :
               Upto(plan'[k], d) \in tree' \/ (On(plan'[k], d) /\ \E m \in d .. Len(path') : z[m])
          /\ \A m \in 0 .. Len(path') : z[m] => \E k \in DOMAIN plan' : On(plan'[k], m)
    BY <1>1 DEF Nodes, NodesAt, OnWay, Upto, Depth
  <2>5. z[D + 1] = FALSE /\ \A m \in 0 .. D : z[m] = v[m]
    <3>1. D + 1 \in 0 .. Len(path') /\ (D + 1) + 1 = D + 2
      BY <1>2, <2>2
    <3>2. ASSUME NEW m \in 0 .. D PROVE m + 1 \in 1 .. D + 1 /\ m \in 0 .. Len(path')
      BY <1>2, <2>2
    <3> QED
      BY <2>3, <3>1, <3>2
  <2> HIDE DEF z, v, D, n
  <2>6. \A s, d : d \in Nat /\ d <= D => (On(s, d) <=> OnWay(s, d))
    <3> SUFFICES ASSUME NEW s, NEW d \in Nat, d <= D PROVE On(s, d) <=> OnWay(s, d)
      OBVIOUS
    <3>1. \A i \in 1 .. d : i \in 1 .. D
      BY <1>2
    <3> QED
      BY <2>2, <3>1 DEF OnWay
  <2> HIDE DEF On
  <2>7. ASSUME NEW k \in DOMAIN plan, NEW d \in 1 .. n, Upto(plan[k], d) \notin tree
        PROVE  On(plan[k], d) /\ \E m \in d .. D + 1 : z[m]
    <3>1. OnWay(plan[k], d) /\ \E m \in d .. D : v[m]
      BY <1>3, <2>7
    <3>2. PICK m \in d .. D : v[m]
      BY <3>1
    <3>3. m \in 0 .. D /\ m \in d .. D + 1 /\ d \in Nat /\ d <= D
      BY <1>2, <3>2
    <3> QED
      BY <2>5, <2>6, <3>1, <3>2, <3>3
  <2>8. ASSUME NEW m \in 0 .. D + 1, z[m] PROVE \E k \in DOMAIN plan : On(plan[k], m)
    <3>1. m # D + 1
      BY <2>5, <2>8
    <3>2. m \in 0 .. D /\ m \in Nat /\ m <= D
      BY <1>2, <3>1
    <3>3. PICK k \in DOMAIN plan : OnWay(plan[k], m)
      BY <1>3, <2>5, <2>8, <3>2
    <3> QED
      BY <2>6, <3>2, <3>3
  <2> QED
    BY <1>3, <2>1, <2>2, <2>4, <2>7, <2>8
<1>7. CASE Found
  <2> DEFINE s == ShardsOn(path)
             l == Len(plan)
             z == [m \in 0 .. D |-> m = n \/ v[m]]
  <2>1. /\ l \in Nat /\ DOMAIN plan = 1 .. l /\ DOMAIN plan' = 1 .. l + 1
        /\ \A k \in 1 .. l : plan'[k] = plan[k]
        /\ plan'[l + 1] = s
    BY <1>7, PlanGrows
  <2>2. D = n /\ D > 0 /\ Depth > 0 /\ Back(TRUE) /\ TRUE \in BOOLEAN
    <3>1. D = n /\ Back(TRUE)
      BY <1>7 DEF Found
    <3>2. D > 0
      BY <1>2, <3>1
    <3> QED
      BY <3>1, <3>2
  <2>3. \A d \in 1 .. n : OnWay(s, d)
    <3>1. s = [i \in 1 .. D |-> path[i].shard]
      BY <2>2, BackTo, Zenon
    <3> HIDE DEF s, D, n
    <3> QED
      BY <1>2, <2>2, <3>1 DEF OnWay
  <2>4. z[n] = TRUE /\ \A m \in 0 .. D : v[m] => z[m]
    BY <1>2, <2>2
  <2>5. \A m \in 0 .. D - 1 : z[m] = v[m] /\ m \in 0 .. D
    <3> SUFFICES ASSUME NEW m \in 0 .. D - 1 PROVE z[m] = v[m] /\ m \in 0 .. D
      OBVIOUS
    <3>1. m \in 0 .. D /\ m # n /\ m + 1 \in 1 .. D + 1 /\ DOMAIN valid = 1 .. D + 1
      BY <1>2, <1>4, <2>2
    <3>2. valid[m + 1] \in BOOLEAN
      BY <1>4, <3>1
    <3>3. v[m] = valid[m + 1] /\ z[m] = (m = n \/ v[m])
      BY <3>1
    <3> QED
      BY <3>1, <3>2, <3>3
  <2>6. \A m \in 0 .. D - 1 : v[m] = valid[m + 1]
    BY <2>5
  <2> HIDE DEF s, l, z, v
  <2>7. NodesAt(plan', z)
    <3> HIDE DEF n, D
    <3>1. \A k \in 1 .. l + 1 : k \in 1 .. l \/ k = l + 1
      BY <2>1
    <3>2. \A k \in 1 .. l : k \in 1 .. l + 1
      BY <2>1
    <3>3. ASSUME NEW t \in tree PROVE \E k \in 1 .. l + 1, d \in 1 .. n : t = Upto(plan'[k], d)
      <4>1. PICK k \in DOMAIN plan, d \in 1 .. n : t = Upto(plan[k], d)
        BY <1>3
      <4> QED
        BY <2>1, <3>2, <4>1
    <3>4. ASSUME NEW k \in 1 .. l + 1, NEW d \in 1 .. n, Upto(plan'[k], d) \notin tree
          PROVE  OnWay(plan'[k], d) /\ \E m \in d .. D : z[m]
      <4>1. CASE k \in 1 .. l
        <5>1. OnWay(plan[k], d) /\ \E m \in d .. D : v[m]
          BY <1>3, <2>1, <3>4, <4>1
        <5>2. \A m \in d .. D : m \in 0 .. D
          BY <1>2
        <5> QED
          BY <2>1, <2>4, <4>1, <5>1, <5>2
      <4>2. CASE k = l + 1
        <5>1. n \in d .. D
          BY <1>2, <2>2
        <5> QED
          BY <2>1, <2>3, <2>4, <4>2, <5>1
      <4> QED
        BY <3>1, <4>1, <4>2
    <3>5. ASSUME NEW m \in 0 .. D PROVE \E k \in 1 .. l + 1 : OnWay(plan'[k], m)
      <4>1. OnWay(s, m)
        <5>1. n \in 1 .. n /\ \A i \in 1 .. m : i \in 1 .. n
          BY <1>2, <2>2
        <5> QED
          BY <2>3, <5>1 DEF OnWay
      <4>2. l + 1 \in 1 .. l + 1
        BY <2>1
      <4> QED
        BY <2>1, <4>1, <4>2
    <3> QED
      BY <2>1, <3>3, <3>4, <3>5 DEF NodesAt, D, n
  <2>8. z[Depth] = TRUE /\ \A m \in 0 .. Depth - 1 : z[m] = valid[m + 1]
    BY <2>2, <2>4, <2>5, <2>6
  <2> QED
    BY <1>1, <2>2, <2>7, <2>8, BackNodes, Zenon
<1>8. CASE Return
  <2>1. plan' = plan /\ D > 0 /\ Back(valid[D + 1])
    BY <1>8 DEF Return
  <2>2. valid[D + 1] \in BOOLEAN
    <3>1. D + 1 \in 1 .. D + 1
      BY <1>2
    <3> QED
      BY <1>4, <3>1
  <2>3. NodesAt(plan', v)
    BY <2>1 DEF Nodes
  <2>4. v[Depth] = valid[D + 1] /\ \A m \in 0 .. Depth - 1 : v[m] = valid[m + 1]
    BY <1>2
  <2> HIDE DEF v
  <2> QED
    BY <1>1, <2>1, <2>2, <2>3, <2>4, BackNodes
<1> QED
  BY <1>5, <1>6, <1>7, <1>8 DEF Searches, Skip, Finish, searchVars

(* When the search is back at the root the tree is complete. *)
LEMMA TreeOfPlan ==
  ASSUME Ordering, Plans, Nodes, Depth = 0
  PROVE  tree = {SubSeq(plan[k], 1, d) : k \in DOMAIN plan, d \in DOMAIN edgeOrder}
<1> DEFINE n == Len(edges)
<1>1. n \in Nat /\ DOMAIN edgeOrder = 1 .. n
  BY SearchFacts
<1>2. ASSUME NEW k \in DOMAIN plan, NEW d \in 1 .. n PROVE SubSeq(plan[k], 1, d) = Upto(plan[k], d)
  <2> DEFINE s == plan[k]
             r == SubSeq(s, 1, d)
  <2>1. PICK w \in Ways : s = ShardsBy(w)
    BY DEF Plans
  <2>2. s = [i \in 1 .. n |-> s[i]]
    BY <2>1 DEF ShardsBy
  <2> DEFINE S == {s[i] : i \in 1 .. n}
  <2> HIDE DEF s, n
  <2>3. s \in Seq(S) /\ Len(s) = n
    <3>1. s \in [1 .. n -> S]
      BY <2>2
    <3> HIDE DEF S
    <3> QED
      BY <1>1, <3>1, Numbered
  <2>4. \A i \in 1 .. d : s[i] \in S
    BY <1>1
  <2> HIDE DEF S
  <2>5. /\ r \in Seq(S) /\ Len(r) = (IF 1 <= d THEN d - 1 + 1 ELSE 0)
        /\ \A i \in 1 .. d - 1 + 1 : r[i] = s[1 + i - 1]
    BY <1>1, <2>3, <2>4, SubSeqProperties
  <2> HIDE DEF r
  <2>6. Len(r) = d /\ \A i \in 1 .. d : r[i] = s[i]
    BY <1>1, <2>5
  <2>7. r = [i \in 1 .. d |-> s[i]]
    BY <2>5, <2>6
  <2> QED
    BY <2>7 DEF Upto, r, s
<1>3. \A t \in tree : \E k \in DOMAIN plan, d \in 1 .. n : t = Upto(plan[k], d)
  BY DEF Nodes, NodesAt
<1>4. ASSUME NEW k \in DOMAIN plan, NEW d \in 1 .. n PROVE Upto(plan[k], d) \in tree
  <2>1. d .. Depth = {}
    BY <1>1
  <2> QED
    BY <2>1 DEF Nodes, NodesAt
<1> HIDE DEF n
<1> DEFINE T == {SubSeq(plan[k], 1, d) : k \in DOMAIN plan, d \in 1 .. n}
<1>5. \A t \in tree : t \in T
  BY <1>2, <1>3
<1>6. \A t \in T : t \in tree
  BY <1>2, <1>4
<1> HIDE DEF T
<1>7. tree = T
  BY <1>5, <1>6
<1> QED
  BY <1>1, <1>7 DEF T-----------------------------------------------------------------------------

(* The ranges.                                                             *)

Ranges == [lo : Nat, hi : Nat]

LEMMA MeetIsBoth ==
  ASSUME NEW a \in Ranges, NEW b, b.lo \in Nat, b.hi \in Nat
  PROVE  Meet(a, b) \in Ranges /\ Interval(Meet(a, b)) = Interval(a) \cap Interval(b)
<1> DEFINE x == Max({a.lo, b.lo})
           y == Min({a.hi, b.hi})
<1>1. a.lo \in Nat /\ a.hi \in Nat
  BY DEF Ranges
<1>2. x \in {a.lo, b.lo} /\ a.lo <= x /\ b.lo <= x
  <2> DEFINE n == a.lo + b.lo
             S == {a.lo, b.lo}
  <2>1. n \in Nat /\ S \in SUBSET (0 .. n) /\ S # {}
    BY <1>1
  <2>2. a.lo \in S /\ b.lo \in S
    OBVIOUS
  <2> HIDE DEF n, S
  <2>3. Max(S) \in S /\ \A z \in S : z <= Max(S)
    BY <2>1, GreatestOf
  <2> QED
    BY <2>2, <2>3 DEF S
<1>3. y \in {a.hi, b.hi} /\ y <= a.hi /\ y <= b.hi
  <2> DEFINE S == {a.hi, b.hi}
  <2>1. S \in SUBSET Nat /\ S # {} /\ a.hi \in S /\ b.hi \in S
    BY <1>1
  <2> HIDE DEF S
  <2>2. Min(S) \in S /\ \A z \in S : Min(S) <= z
    BY <2>1, LeastIsMin
  <2> QED
    BY <2>1, <2>2 DEF S
<1>4. Meet(a, b) = [lo |-> x, hi |-> y]
  BY DEF Meet
<1> HIDE DEF x, y
<1>5. x \in Nat /\ y \in Nat
  BY <1>1, <1>2, <1>3
<1>6. x .. y = (a.lo .. a.hi) \cap (b.lo .. b.hi)
  BY <1>1, <1>2, <1>3, <1>5
<1> QED
  BY <1>4, <1>5, <1>6 DEF Interval, Ranges

(* The edges on the way to level m that have the vertex, *)
Uses(v, m) == {d \in 1 .. m : v \in Ends(EdgeAt(d))}

(* the row and the range a candidate for edge d has for the vertex, and    *)
(* the addresses that are in those of all candidates on the way.           *)
RowIn(c, d, v) == IF v = EdgeAt(d).v1 THEN c.row ELSE c.col
RangeIn(c, d, v) == IF v = EdgeAt(d).v1 THEN c.r1 ELSE c.r2
Reach(v, m) == {a \in Addresses : \A d \in Uses(v, m) : a \in Interval(RangeIn(path[d], d, v))}

(* What the search keeps of a vertex, with a range for each node on the    *)
(* way that narrowed it.                                                   *)
Spanned(v) ==
  /\ grid[v] \in Nat /\ ranges[v] \in Seq(Ranges)
  /\ Len(ranges[v]) = 1 + Cardinality(Uses(v, Depth))
  /\ \A m \in 0 .. Depth : Interval(ranges[v][1 + Cardinality(Uses(v, m))]) = Reach(v, m)
  /\ \A d \in Uses(v, Depth) : RowIn(path[d], d, v) = grid[v]

Spans ==
  /\ DOMAIN grid = Vertices /\ DOMAIN ranges = Vertices
  /\ \A v \in Vertices : Spanned(v)

LEMMA UsesCount ==
  ASSUME NEW v, NEW m \in Nat
  PROVE  /\ Cardinality(Uses(v, m)) \in Nat /\ IsFiniteSet(Uses(v, m))
         /\ Uses(v, 0) = {} /\ Cardinality(Uses(v, 0)) = 0
         /\ \A l \in 0 .. m : Uses(v, l) \subseteq Uses(v, m) /\ Cardinality(Uses(v, l)) <= Cardinality(Uses(v, m))
         /\ (Cardinality(Uses(v, m)) = 0 <=> Uses(v, m) = {})
         /\ v \in Ends(EdgeAt(m + 1)) =>
              /\ Uses(v, m + 1) = Uses(v, m) \cup {m + 1}
              /\ Cardinality(Uses(v, m + 1)) = Cardinality(Uses(v, m)) + 1
         /\ v \notin Ends(EdgeAt(m + 1)) => Uses(v, m + 1) = Uses(v, m)
<1>1. ASSUME NEW l \in Nat PROVE IsFiniteSet(Uses(v, l)) /\ Cardinality(Uses(v, l)) \in Nat
  <2>1. IsFiniteSet(1 .. l)
    BY FS_Interval
  <2>2. Uses(v, l) \subseteq 1 .. l
    BY DEF Uses
  <2>3. IsFiniteSet(Uses(v, l))
    BY <2>1, <2>2, FS_Subset
  <2> QED
    BY <2>3, FS_CardinalityType
<1>2. Uses(v, 0) = {}
  BY DEF Uses
<1>3. ASSUME NEW l \in 0 .. m PROVE Uses(v, l) \subseteq Uses(v, m) /\ Cardinality(Uses(v, l)) <= Cardinality(Uses(v, m))
  <2>1. \A d \in 1 .. l : d \in 1 .. m
    OBVIOUS
  <2>2. Uses(v, l) \subseteq Uses(v, m)
    BY <2>1 DEF Uses
  <2> QED
    BY <1>1, <2>2, FS_Subset
<1>4. \A d \in 1 .. m + 1 : d \in 1 .. m \/ d = m + 1
  OBVIOUS
<1>5. (\A d \in 1 .. m : d \in 1 .. m + 1 /\ d # m + 1) /\ m + 1 \in 1 .. m + 1
  OBVIOUS
<1>6. v \in Ends(EdgeAt(m + 1)) => Uses(v, m + 1) = Uses(v, m) \cup {m + 1}
  BY <1>4, <1>5 DEF Uses
<1>7. v \notin Ends(EdgeAt(m + 1)) => Uses(v, m + 1) = Uses(v, m)
  BY <1>4, <1>5 DEF Uses
<1>8. m + 1 \notin Uses(v, m)
  BY DEF Uses
<1>9. v \in Ends(EdgeAt(m + 1)) => Cardinality(Uses(v, m + 1)) = Cardinality(Uses(v, m)) + 1
  BY <1>1, <1>6, <1>8, FS_AddElement
<1>10. Cardinality(Uses(v, m)) = 0 <=> Uses(v, m) = {}
  BY <1>1, FS_EmptySet
<1>11. Cardinality(Uses(v, 0)) = 0
  BY <1>2, FS_EmptySet
<1> QED
  BY <1>1, <1>2, <1>3, <1>6, <1>7, <1>9, <1>10, <1>11

LEMMA BlankSpans == Blank => Spans
<1> SUFFICES ASSUME Blank PROVE Spans
  OBVIOUS
<1>1. /\ path = <<>> /\ Depth = 0
      /\ grid = [v \in Vertices |-> 0] /\ ranges = [v \in Vertices |-> <<Whole>>]
  BY DEF Blank, Depth
<1>2. Whole \in Ranges /\ Interval(Whole) = Addresses
  <2>1. GridBlockWidth \in Nat \ {0}
    BY InputsAssumption, Zenon DEF InputsAssumption
  <2> QED
    BY <2>1 DEF Whole, Ranges, Interval, Addresses
<1>3. ASSUME NEW v \in Vertices PROVE Spanned(v)
  <2>1. Uses(v, 0) = {} /\ Cardinality(Uses(v, 0)) = 0
    BY UsesCount
  <2>2. grid[v] = 0 /\ ranges[v] = <<Whole>>
    BY <1>1
  <2>3. ranges[v] \in Seq(Ranges) /\ Len(ranges[v]) = 1 /\ ranges[v][1] = Whole
    BY <1>2, <2>2
  <2>4. Reach(v, 0) = Addresses
    BY <2>1 DEF Reach
  <2>5. \A m \in 0 .. 0 : m = 0
    OBVIOUS
  <2> QED
    BY <1>1, <1>2, <2>1, <2>2, <2>3, <2>4, <2>5 DEF Spanned
<1> QED
  BY <1>1, <1>3 DEF Spans

(* What of a vertex does not depend on the end of the way. *)
LEMMA ReachKept ==
  ASSUME Searches, NEW n \in Nat, \A d \in 1 .. n : path'[d] = path[d], NEW v
  PROVE  /\ \A m \in Nat : Uses(v, m)' = Uses(v, m)
         /\ \A m \in 0 .. n : Reach(v, m)' = Reach(v, m)
         /\ \A m \in 0 .. n : \A d \in Uses(v, m) : RowIn(path[d], d, v)' = RowIn(path[d], d, v)
<1>1. \A d : EdgeAt(d)' = EdgeAt(d)
  BY SearchKept
<1>2. ASSUME NEW m \in Nat PROVE Uses(v, m)' = Uses(v, m)
  BY <1>1 DEF Uses, Ends
<1>3. ASSUME NEW m \in 0 .. n, NEW d \in Uses(v, m)
      PROVE  /\ RowIn(path[d], d, v)' = RowIn(path[d], d, v)
             /\ RangeIn(path[d], d, v)' = RangeIn(path[d], d, v)
  <2>1. d \in 1 .. n
    BY DEF Uses
  <2>2. path'[d] = path[d]
    BY <2>1
  <2> QED
    BY <1>1, <2>2 DEF RowIn, RangeIn
<1>4. ASSUME NEW m \in 0 .. n PROVE Reach(v, m)' = Reach(v, m)
  <2>1. m \in Nat
    OBVIOUS
  <2>2. Uses(v, m)' = Uses(v, m)
    BY <1>2, <2>1
  <2>3. Reach(v, m)' = {a \in Addresses : \A d \in Uses(v, m)' : a \in Interval(RangeIn(path[d], d, v)')}
    BY DEF Reach, Interval, Addresses
  <2> QED
    BY <1>3, <2>2, <2>3 DEF Reach
<1> QED
  BY <1>2, <1>3, <1>4

(* The candidate the search is at. *)
LEMMA CurrentIsOffered ==
  ASSUME Ordering, Place, AtCandidate
  PROVE  /\ Depth + 1 \in 1 .. Len(edges) /\ cursor[Depth + 1] \in 1 .. Len(Candidates(Depth + 1))
         /\ Depth + 1 \in DOMAIN edgeOrder /\ Current \in Offers(Depth + 1) /\ CurrentEdge = EdgeAt(Depth + 1)
<1> DEFINE D == Depth
           n == Len(edges)
<1>1. n \in Nat \ {0} /\ DOMAIN edgeOrder = 1 .. n
  BY SearchFacts
<1>2. D < n /\ cursor[D + 1] <= Len(Candidates(D + 1))
  BY DEF AtCandidate
<1>3. D \in 0 .. n /\ cursor[D + 1] \in 1 .. (IF D = n THEN 1 ELSE Len(Candidates(D + 1)) + 1)
  BY DEF Place
<1> HIDE DEF D, n
<1>4. D + 1 \in 1 .. n /\ D # n
  BY <1>1, <1>2, <1>3
<1>5. Len(Candidates(D + 1)) \in Nat /\ \A i \in 1 .. Len(Candidates(D + 1)) : Candidates(D + 1)[i] \in Offers(D + 1)
  BY <1>4, SearchFacts DEF n
<1>6. cursor[D + 1] \in 1 .. Len(Candidates(D + 1))
  BY <1>2, <1>3, <1>4, <1>5
<1>7. Candidates(D + 1)[cursor[D + 1]] \in Offers(D + 1)
  BY <1>5, <1>6
<1> QED
  BY <1>1, <1>4, <1>6, <1>7 DEF Current, CurrentEdge, EdgeAt, D, n

LEMMA RangesOfOffers ==
  ASSUME Ordering, NEW d \in DOMAIN edgeOrder, NEW c \in Offers(d), NEW v \in Ends(EdgeAt(d))
  PROVE  RowIn(c, d, v) \in Nat /\ RangeIn(c, d, v).lo \in Nat /\ RangeIn(c, d, v).hi \in Nat
<1> DEFINE e == EdgeAt(d)
<1>1. e.v1 \in Vertices /\ e.v2 \in Vertices /\ input \in Inputs
  BY EndsOfReadings DEF Ordering, Graph
<1>2. /\ c.row \in RowsOf(e.v1) /\ c.col \in RowsOf(e.v2)
      /\ c.r1.lo \in Nat /\ c.r1.hi \in Nat /\ c.r2.lo \in Nat /\ c.r2.hi \in Nat
  BY OffersAreSound
<1>3. RowsOf(e.v1) \in SUBSET Nat /\ RowsOf(e.v2) \in SUBSET Nat
  BY <1>1, RowsAreNumbers
<1>4. c.row \in Nat /\ c.col \in Nat
  BY <1>2, <1>3
<1> QED
  BY <1>2, <1>4 DEF RowIn, RangeIn

(* Entering a candidate narrows the ends of its edge. *)
LEMMA EnterVertex ==
  ASSUME Ordering, Place, Spans, Enter, NEW v \in Vertices
  PROVE  /\ v \in Ends(EdgeAt(Depth + 1)) =>
              /\ ranges'[v] = Append(ranges[v], Meet(Top(v), RangeIn(Current, Depth + 1, v)))
              /\ grid'[v] = RowIn(Current, Depth + 1, v)
              /\ Narrowed(v) => grid[v] = RowIn(Current, Depth + 1, v)
         /\ v \notin Ends(EdgeAt(Depth + 1)) => ranges'[v] = ranges[v] /\ grid'[v] = grid[v]
<1> DEFINE D == Depth
           c == Current
           e == CurrentEdge
           u == e.v1
           w == e.v2
<1>1. D + 1 \in DOMAIN edgeOrder /\ e = EdgeAt(D + 1)
  BY CurrentIsOffered DEF Enter
<1>2. u \in Vertices /\ w \in Vertices /\ u # w /\ Ends(EdgeAt(D + 1)) = {u, w}
  BY <1>1, EndsOfReadings
<1>3. /\ SameGrids(c, e)
      /\ grid' = [grid EXCEPT ![u] = IF Narrowed(u) THEN @ ELSE c.row,
                              ![w] = IF Narrowed(w) THEN @ ELSE c.col]
      /\ ranges' = [ranges EXCEPT ![u] = Append(@, Meet(Top(u), c.r1)),
                                  ![w] = Append(@, Meet(Top(w), c.r2))]
  BY DEF Enter
<1>4. (Narrowed(u) => grid[u] = c.row) /\ (Narrowed(w) => grid[w] = c.col)
  BY <1>3 DEF SameGrids
<1>5. DOMAIN grid = Vertices /\ DOMAIN ranges = Vertices
  BY DEF Spans
<1>6. RowIn(c, D + 1, u) = c.row /\ RangeIn(c, D + 1, u) = c.r1 /\ RowIn(c, D + 1, w) = c.col /\ RangeIn(c, D + 1, w) = c.r2
  BY <1>1, <1>2 DEF RowIn, RangeIn
<1> HIDE DEF c, e, u, w
<1>7. /\ ranges'[u] = Append(ranges[u], Meet(Top(u), c.r1)) /\ ranges'[w] = Append(ranges[w], Meet(Top(w), c.r2))
      /\ v \notin {u, w} => ranges'[v] = ranges[v]
  BY <1>2, <1>3, <1>5, Zenon
<1>8. /\ grid'[u] = IF Narrowed(u) THEN grid[u] ELSE c.row
      /\ grid'[w] = IF Narrowed(w) THEN grid[w] ELSE c.col
      /\ v \notin {u, w} => grid'[v] = grid[v]
  BY <1>2, <1>3, <1>5, Zenon
<1>9. grid'[u] = c.row /\ grid'[w] = c.col
  BY <1>4, <1>8
<1>10. v \in {u, w} => v = u \/ v = w
  OBVIOUS
<1> QED
  BY <1>2, <1>4, <1>6, <1>7, <1>8, <1>9, <1>10 DEF c

LEMMA EnterSpans == Ordering /\ Place /\ Spans /\ Enter => Spans'
<1> SUFFICES ASSUME Ordering, Place, Spans, Enter PROVE Spans'
  OBVIOUS
<1> DEFINE n == Len(edges)
           c == Current
<1>0. PICK D \in Nat : D = Depth
  <2>1. Len(edges) \in Nat \ {0} /\ Depth \in 0 .. Len(edges)
    BY SearchFacts DEF Place
  <2> QED
    BY <2>1, SMTT(30)
<1>1. Vertices' = Vertices /\ Searches
  BY SearchKept DEF Searches
<1>2. DOMAIN grid' = Vertices /\ DOMAIN ranges' = Vertices
  <2>1. DOMAIN grid = Vertices /\ DOMAIN ranges = Vertices
    BY DEF Spans
  <2>2. DOMAIN grid' = DOMAIN grid /\ DOMAIN ranges' = DOMAIN ranges
    BY DEF Enter
  <2> QED
    BY <2>1, <2>2
<1>3. /\ D + 1 \in DOMAIN edgeOrder /\ c \in Offers(D + 1) /\ D + 1 \in 1 .. n
  BY <1>0, CurrentIsOffered DEF Enter
<1>4. D \in Nat /\ Len(path') = D + 1 /\ path'[D + 1] = c /\ \A d \in 1 .. D : path'[d] = path[d]
  <2>1. path \in Seq(ToSet(path)) /\ Len(path) = D /\ D \in Nat
    BY <1>0 DEF Place, Depth
  <2>2. path' = Append(path, c)
    BY DEF Enter
  <2> DEFINE S == ToSet(path) \cup {c}
  <2>3. path \in Seq(S) /\ c \in S
    BY <2>1
  <2> HIDE DEF S, c
  <2>4. Len(path') = Len(path) + 1 /\ path'[Len(path) + 1] = c /\ \A d \in 1 .. Len(path) : path'[d] = path[d]
    BY <2>2, <2>3, AppendProperties
  <2> QED
    BY <2>1, <2>4
<1> HIDE DEF n, c
<1>5. ASSUME NEW v \in Vertices PROVE Spanned(v)'
  <2> DEFINE C(m) == Cardinality(Uses(v, m))
             r == ranges[v]
             q == ranges'[v]
  <2>1. /\ grid[v] \in Nat /\ r \in Seq(Ranges) /\ Len(r) = 1 + C(D)
        /\ \A m \in 0 .. D : Interval(r[1 + C(m)]) = Reach(v, m)
        /\ \A d \in Uses(v, D) : RowIn(path[d], d, v) = grid[v]
    BY <1>0 DEF Spans, Spanned
  <2>2. /\ \A m \in Nat : Uses(v, m)' = Uses(v, m)
        /\ \A m \in 0 .. D : Reach(v, m)' = Reach(v, m)
        /\ \A m \in 0 .. D : \A d \in Uses(v, m) : RowIn(path[d], d, v)' = RowIn(path[d], d, v)
    BY <1>1, <1>4, ReachKept
  <2>3. /\ C(D) \in Nat /\ \A l \in 0 .. D : C(l) <= C(D)
        /\ C(D) = 0 <=> Uses(v, D) = {}
        /\ v \in Ends(EdgeAt(D + 1)) => Uses(v, D + 1) = Uses(v, D) \cup {D + 1} /\ C(D + 1) = C(D) + 1
        /\ v \notin Ends(EdgeAt(D + 1)) => Uses(v, D + 1) = Uses(v, D)
    BY <1>4, UsesCount
  <2>4. \A l \in 0 .. D : C(l) \in Nat
    <3>1. \A l \in 0 .. D : l \in Nat
      BY <1>4
    <3> QED
      BY <3>1, UsesCount
  <2>5. /\ v \in Ends(EdgeAt(D + 1)) =>
             /\ q = Append(r, Meet(Top(v), RangeIn(c, D + 1, v)))
             /\ grid'[v] = RowIn(c, D + 1, v)
             /\ Narrowed(v) => grid[v] = RowIn(c, D + 1, v)
        /\ v \notin Ends(EdgeAt(D + 1)) => q = r /\ grid'[v] = grid[v]
    BY <1>0, EnterVertex DEF c
  <2>6. \A m \in 0 .. D + 1 : m \in 0 .. D \/ m = D + 1
    BY <1>4
  <2>7. D \in 0 .. D /\ D + 1 \in Nat
    BY <1>4
  <2>8. ASSUME grid'[v] \in Nat, q \in Seq(Ranges), Len(q) = 1 + C(D + 1),
               \A m \in 0 .. D : Interval(q[1 + C(m)]) = Reach(v, m),
               Interval(q[1 + C(D + 1)]) = Reach(v, D + 1)',
               \A d \in Uses(v, D + 1) : RowIn(path[d], d, v)' = grid'[v]
        PROVE  Spanned(v)'
    <3>1. Uses(v, D + 1)' = Uses(v, D + 1) /\ \A m \in 0 .. D : Uses(v, m)' = Uses(v, m)
      <4>1. \A m \in 0 .. D : m \in Nat
        BY <1>4
      <4> QED
        BY <2>2, <2>7, <4>1
    <3>2. Spanned(v)' <=>
            /\ grid'[v] \in Nat /\ q \in Seq(Ranges)
            /\ Len(q) = 1 + Cardinality(Uses(v, D + 1)')
            /\ \A m \in 0 .. D + 1 : Interval(q[1 + Cardinality(Uses(v, m)')]) = Reach(v, m)'
            /\ \A d \in Uses(v, D + 1)' : RowIn(path[d], d, v)' = grid'[v]
      BY <1>4 DEF Spanned, Depth, Ranges, Interval
    <3> HIDE DEF q
    <3>3. \A m \in 0 .. D + 1 : Interval(q[1 + Cardinality(Uses(v, m)')]) = Reach(v, m)'
      BY <2>2, <2>6, <2>8, <3>1
    <3> QED
      BY <2>8, <3>1, <3>2, <3>3
  <2> HIDE DEF C, r, q
  <2>9. CASE v \in Ends(EdgeAt(D + 1))
    <3> DEFINE a == Top(v)
               b == RangeIn(c, D + 1, v)
               x == Meet(a, b)
    <3>1. DOMAIN r = 1 .. Len(r) /\ Len(r) \in 1 .. Len(r) /\ a = r[Len(r)] /\ \A i \in 1 .. Len(r) : r[i] \in Ranges
      <4>1. a = r[Len(r)]
        BY DEF Top, Last, r
      <4> QED
        BY <2>1, <2>3, <4>1
    <3>2. RowIn(c, D + 1, v) \in Nat /\ b.lo \in Nat /\ b.hi \in Nat
      BY <1>3, <2>9, RangesOfOffers
    <3>3. x \in Ranges /\ Interval(x) = Interval(a) \cap Interval(b)
      BY <3>1, <3>2, MeetIsBoth
    <3> HIDE DEF a, b, x
    <3>4. q = Append(r, x)
      BY <2>5, <2>9 DEF x, a, b
    <3>5. q \in Seq(Ranges) /\ Len(q) = Len(r) + 1 /\ q[Len(r) + 1] = x /\ \A i \in 1 .. Len(r) : q[i] = r[i]
      BY <2>1, <3>3, <3>4, AppendProperties
    <3>6. Len(q) = 1 + C(D + 1) /\ q[1 + C(D + 1)] = x
      BY <2>1, <2>3, <2>9, <3>5
    <3>7. ASSUME NEW m \in 0 .. D PROVE Interval(q[1 + C(m)]) = Reach(v, m)
      <4>1. 1 + C(m) \in 1 .. Len(r)
        BY <2>1, <2>3, <2>4
      <4> QED
        BY <2>1, <3>5, <4>1
    <3>8. Interval(a) = Reach(v, D)
      BY <2>1, <2>7, <3>1
    <3>9. Interval(x) = Reach(v, D + 1)'
      <4>1. ASSUME NEW d \in Uses(v, D) PROVE RangeIn(path[d], d, v)' = RangeIn(path[d], d, v)
        <5>1. d \in 1 .. D /\ EdgeAt(d)' = EdgeAt(d)
          BY <1>1, SearchKept DEF Uses
        <5> QED
          BY <1>4, <5>1 DEF RangeIn
      <4>2. RangeIn(path[D + 1], D + 1, v)' = b
        <5>1. EdgeAt(D + 1)' = EdgeAt(D + 1)
          BY <1>1, SearchKept
        <5>2. RangeIn(path[D + 1], D + 1, v)' = RangeIn(path'[D + 1], D + 1, v)
          BY <5>1 DEF RangeIn
        <5> QED
          BY <1>4, <5>2 DEF b
      <4>3. Reach(v, D + 1)' = {y \in Addresses : \A d \in Uses(v, D + 1) : y \in Interval(RangeIn(path[d], d, v)')}
        BY <2>2, <2>7 DEF Reach, Interval, Addresses
      <4>4. Uses(v, D + 1) = Uses(v, D) \cup {D + 1}
        BY <2>3, <2>9
      <4>5. Reach(v, D) = {y \in Addresses : \A d \in Uses(v, D) : y \in Interval(RangeIn(path[d], d, v))}
        BY DEF Reach
      <4>6. ASSUME NEW y PROVE y \in Reach(v, D + 1)' <=> y \in Reach(v, D) /\ y \in Interval(b)
        BY <4>1, <4>2, <4>3, <4>4, <4>5
      <4> QED
        BY <3>3, <3>8, <4>6
    <3>10. ASSUME NEW d \in Uses(v, D + 1) PROVE RowIn(path[d], d, v)' = grid'[v]
      <4>1. CASE d \in Uses(v, D)
        <5>1. Len(r) # 1
          BY <2>1, <2>3, <4>1
        <5>2. Narrowed(v)
          BY <5>1 DEF Narrowed, r
        <5> QED
          BY <2>1, <2>2, <2>5, <2>7, <2>9, <4>1, <5>2
      <4>2. CASE d = D + 1
        <5>1. EdgeAt(D + 1)' = EdgeAt(D + 1)
          BY <1>1, SearchKept
        <5>2. RowIn(path[D + 1], D + 1, v)' = RowIn(path'[D + 1], D + 1, v)
          BY <5>1 DEF RowIn
        <5> QED
          BY <1>4, <2>5, <2>9, <4>2, <5>2
      <4> QED
        BY <2>3, <2>9, <4>1, <4>2
    <3>11. grid'[v] \in Nat
      BY <2>5, <2>9, <3>2
    <3> QED
      BY <2>8, <3>5, <3>6, <3>7, <3>9, <3>10, <3>11
  <2>10. CASE v \notin Ends(EdgeAt(D + 1))
    <3>1. q = r /\ grid'[v] = grid[v] /\ Uses(v, D + 1) = Uses(v, D)
      BY <2>3, <2>5, <2>10
    <3>2. C(D + 1) = C(D)
      BY <3>1 DEF C
    <3>3. Reach(v, D + 1)' = Reach(v, D)'
      <4>1. Uses(v, D + 1)' = Uses(v, D)'
        BY <2>2, <2>7, <3>1
      <4> QED
        BY <4>1 DEF Reach
    <3>4. \A d \in Uses(v, D) : RowIn(path[d], d, v)' = RowIn(path[d], d, v)
      BY <2>2, <2>7
    <3> QED
      BY <2>1, <2>2, <2>7, <2>8, <3>1, <3>2, <3>3, <3>4
  <2> QED
    BY <2>9, <2>10
<1> QED
  BY <1>1, <1>2, <1>5 DEF Spans

(* Going back takes the narrowing of the last candidate from the ends of   *)
(* its edge, and nothing else.                                             *)
LEMMA BackSpans ==
  ASSUME Ordering, Place, Spans, Searches, Depth > 0, NEW isValid \in BOOLEAN, Back(isValid)
  PROVE  Spans'
<1>0. PICK D \in Nat \ {0} : D = Depth
  <2>1. Len(edges) \in Nat \ {0} /\ Depth \in 0 .. Len(edges)
    BY SearchFacts DEF Place
  <2> QED
    BY <2>1, SMTT(30)
<1> DEFINE n == Len(edges)
           e == EdgeAt(D)
           u == e.v1
           w == e.v2
           l == D - 1
<1>1. Vertices' = Vertices
  BY SearchKept
<1>2. D \in DOMAIN edgeOrder
  <2>1. Len(edges) \in Nat \ {0} /\ Depth \in 0 .. Len(edges) /\ DOMAIN edgeOrder = 1 .. Len(edges)
    BY SearchFacts DEF Place
  <2> QED
    BY <1>0, <2>1, SMTT(30)
<1>3. u \in Vertices /\ w \in Vertices /\ u # w /\ Ends(EdgeAt(D)) = {u, w}
  BY <1>2, EndsOfReadings
<1>4. /\ grid' = grid /\ ranges' = [ranges EXCEPT ![u] = Front(@), ![w] = Front(@)]
  BY <1>0 DEF Back, EdgeAt
<1>5. DOMAIN grid = Vertices /\ DOMAIN ranges = Vertices
  BY DEF Spans
<1>6. l \in Nat /\ l + 1 = D /\ l \in 0 .. l /\ l \in 0 .. D /\ \A m \in 0 .. l : m \in 0 .. D /\ m \in Nat
  BY <1>0
<1>7. Len(path') = l /\ \A d \in 1 .. l : path'[d] = path[d]
  BY <1>0, BackTo
<1> HIDE DEF e, u, w, l
<1>8. DOMAIN ranges' = Vertices
  BY <1>4, <1>5
<1>9. ASSUME NEW v \in Vertices PROVE Spanned(v)'
  <2> DEFINE C(m) == Cardinality(Uses(v, m))
             r == ranges[v]
             q == ranges'[v]
  <2>1. /\ grid[v] \in Nat /\ r \in Seq(Ranges) /\ Len(r) = 1 + C(D)
        /\ \A m \in 0 .. D : Interval(r[1 + C(m)]) = Reach(v, m)
        /\ \A d \in Uses(v, D) : RowIn(path[d], d, v) = grid[v]
    BY <1>0 DEF Spans, Spanned
  <2>2. /\ \A m \in Nat : Uses(v, m)' = Uses(v, m)
        /\ \A m \in 0 .. l : Reach(v, m)' = Reach(v, m)
        /\ \A m \in 0 .. l : \A d \in Uses(v, m) : RowIn(path[d], d, v)' = RowIn(path[d], d, v)
    BY <1>6, <1>7, ReachKept
  <2>3. /\ C(l) \in Nat /\ \A m \in 0 .. l : C(m) <= C(l)
        /\ v \in Ends(EdgeAt(l + 1)) => Uses(v, l + 1) = Uses(v, l) \cup {l + 1} /\ C(l + 1) = C(l) + 1
        /\ v \notin Ends(EdgeAt(l + 1)) => Uses(v, l + 1) = Uses(v, l)
    BY <1>6, UsesCount
  <2>4. \A m \in 0 .. l : C(m) \in Nat
    BY <1>6, UsesCount
  <2>5. q \in Seq(Ranges) /\ Len(q) = 1 + C(l) /\ \A i \in 1 .. 1 + C(l) : q[i] = r[i]
    <3>1. CASE v \in Ends(EdgeAt(D))
      <4>1. q = Front(r)
        <5>1. v = u \/ v = w
          BY <1>3, <3>1
        <5>2. ranges'[u] = Front(ranges[u]) /\ ranges'[w] = Front(ranges[w])
          BY <1>3, <1>4, <1>5, Zenon
        <5> QED
          BY <5>1, <5>2
      <4>2. Len(r) = 1 + (C(l) + 1) /\ r # <<>> /\ Len(r) - 1 = 1 + C(l)
        <5>1. C(D) = C(l) + 1
          BY <1>6, <2>3, <3>1
        <5> HIDE DEF C, r
        <5> QED
          BY <2>1, <2>3, <5>1
      <4> HIDE DEF q, r, C
      <4>3. Front(r) \in Seq(Ranges) /\ Len(Front(r)) = Len(r) - 1 /\ \A i \in 1 .. Len(r) - 1 : Front(r)[i] = r[i]
        BY <2>1, <4>2, FrontOf
      <4> QED
        BY <4>1, <4>2, <4>3
    <3>2. CASE v \notin Ends(EdgeAt(D))
      <4>1. q = r
        <5>1. v # u /\ v # w
          BY <1>3, <3>2
        <5> QED
          BY <1>4, <1>5, <5>1
      <4>2. Uses(v, D) = Uses(v, l)
        BY <1>6, <2>3, <3>2
      <4> QED
        BY <2>1, <4>1, <4>2
    <3> QED
      BY <3>1, <3>2
  <2>6. Uses(v, l) \subseteq Uses(v, D)
    BY <1>6, UsesCount
  <2>7. \A m \in 0 .. l : Interval(q[1 + C(m)]) = Reach(v, m)
    <3> HIDE DEF q, r, C
    <3>1. \A m \in 0 .. l : 1 + C(m) \in 1 .. 1 + C(l)
      BY <2>3, <2>4
    <3> QED
      BY <1>6, <2>1, <2>5, <3>1
  <2>8. Uses(v, l)' = Uses(v, l) /\ \A m \in 0 .. l : Uses(v, m)' = Uses(v, m)
    BY <1>6, <2>2
  <2>9. Spanned(v)' <=>
          /\ grid'[v] \in Nat /\ q \in Seq(Ranges)
          /\ Len(q) = 1 + Cardinality(Uses(v, Depth)')
          /\ \A m \in 0 .. Len(path') : Interval(q[1 + Cardinality(Uses(v, m)')]) = Reach(v, m)'
          /\ \A d \in Uses(v, Depth)' : RowIn(path[d], d, v)' = grid'[v]
    BY DEF Spanned, Depth, Ranges, Interval
  <2>10. Uses(v, Depth)' = Uses(v, l)
    <3>1. Uses(v, Depth)' = {d \in 1 .. Len(path') : v \in Ends(EdgeAt(d)')}
      BY DEF Uses, Depth, Ends
    <3>2. \A d : EdgeAt(d)' = EdgeAt(d)
      BY SearchKept
    <3> QED
      BY <1>7, <3>1, <3>2 DEF Uses
  <2> HIDE DEF q, r
  <2>11. \A d \in Uses(v, l) : RowIn(path[d], d, v)' = grid'[v]
    BY <1>4, <1>6, <2>1, <2>2, <2>6
  <2>12. \A m \in 0 .. l : Interval(q[1 + Cardinality(Uses(v, m)')]) = Reach(v, m)'
    BY <2>2, <2>7, <2>8
  <2>13. Len(q) = 1 + Cardinality(Uses(v, l)) /\ q \in Seq(Ranges) /\ grid'[v] \in Nat
    BY <1>4, <2>1, <2>5
  <2> QED
    BY <1>7, <2>9, <2>10, <2>11, <2>12, <2>13
<1> QED
  BY <1>1, <1>4, <1>5, <1>8, <1>9 DEF Spans

LEMMA SearchSpans == Ordering /\ Place /\ Spans /\ Searches => Spans'
<1> SUFFICES ASSUME Ordering, Place, Spans, Searches PROVE Spans'
  OBVIOUS
<1>1. Len(edges) \in Nat \ {0} /\ valid \in Seq(BOOLEAN) /\ Depth \in Nat /\ Len(valid) = Depth + 1
  <2>1. Len(edges) \in Nat \ {0} /\ Depth \in 0 .. Len(edges) /\ valid \in Seq(BOOLEAN) /\ Len(valid) = Depth + 1
    BY SearchFacts DEF Place
  <2> QED
    BY <2>1, SMTT(30)
<1>2. CASE path' = path /\ grid' = grid /\ ranges' = ranges
  <2>1. /\ Vertices' = Vertices /\ \A d : EdgeAt(d)' = EdgeAt(d)
    BY SearchKept
  <2>2. Depth' = Depth
    BY <1>2 DEF Depth
  <2>3. ASSUME NEW v, NEW m PROVE Uses(v, m)' = Uses(v, m) /\ Reach(v, m)' = Reach(v, m)
    BY <1>2, <2>1 DEF Uses, Reach, Ends, RangeIn, Interval, Addresses
  <2>4. ASSUME NEW v, NEW d PROVE RowIn(path[d], d, v)' = RowIn(path[d], d, v)
    BY <1>2, <2>1 DEF RowIn
  <2>5. ASSUME NEW v PROVE Uses(v, Depth)' = Uses(v, Depth)
    BY <2>1, <2>2 DEF Uses, Ends
  <2>6. ASSUME NEW v, Spanned(v) PROVE Spanned(v)'
    BY <1>2, <2>2, <2>3, <2>4, <2>5, <2>6 DEF Spanned, Ranges, Interval
  <2> QED
    BY <1>2, <2>1, <2>6 DEF Spans
<1>3. CASE Enter
  BY <1>3, EnterSpans
<1>4. CASE Found
  <2>1. Depth > 0 /\ Back(TRUE)
    <3>1. Depth = Len(edges) /\ Back(TRUE)
      BY <1>4 DEF Found
    <3>2. Depth > 0
      BY <1>1, <3>1
    <3> QED
      BY <3>1, <3>2
  <2>2. TRUE \in BOOLEAN
    OBVIOUS
  <2> QED
    BY <2>1, <2>2, BackSpans, Zenon
<1>5. CASE Return
  <2>1. Depth > 0 /\ Back(valid[Depth + 1])
    BY <1>5 DEF Return
  <2>2. valid[Depth + 1] \in BOOLEAN
    BY <1>1
  <2> QED
    BY <2>1, <2>2, BackSpans, Zenon
<1> QED
  BY <1>2, <1>3, <1>4, <1>5 DEF Searches, Skip, Finish, searchVars

(* What the invariant says, told from the shards. *)
LEMMA RangesFromSpans == Ordering /\ Place /\ Spans => RangesOfThePath
<1> SUFFICES ASSUME Ordering, Place, Spans, NEW v \in Vertices
             PROVE  \E at \in {{d \in DOMAIN path : v \in Ends(EdgeAt(d))}} :
                      /\ Len(ranges[v]) = 1 + Cardinality(at)
                      /\ Interval(Top(v)) = {a \in Addresses : \A d \in at :
                           a \in Interval(RangeOf(AddressesAt(path[d].shard, EdgeAt(d), v)))}
                      /\ \A d \in at : RowAt(path[d].shard, EdgeAt(d), v) = grid[v]
  BY DEF RangesOfThePath, EdgeAt
<1> DEFINE D == Depth
           at == Uses(v, D)
<1>1. /\ Len(edges) \in Nat \ {0} /\ DOMAIN edgeOrder = 1 .. Len(edges) /\ D \in 0 .. Len(edges)
      /\ path \in Seq(ToSet(path)) /\ Len(path) = D
      /\ \A d \in 1 .. D : cursor[d] \in 1 .. Len(Candidates(d)) /\ path[d] = Candidates(d)[cursor[d]]
  BY SearchFacts DEF Place, Depth
<1>2. DOMAIN path = 1 .. D /\ D \in Nat /\ \A d \in 1 .. D : d \in 1 .. Len(edges)
  BY <1>1
<1>3. at = {d \in DOMAIN path : v \in Ends(EdgeAt(d))}
  BY <1>2 DEF Uses
<1>4. /\ ranges[v] \in Seq(Ranges) /\ Len(ranges[v]) = 1 + Cardinality(at)
      /\ \A m \in 0 .. D : Interval(ranges[v][1 + Cardinality(Uses(v, m))]) = Reach(v, m)
      /\ \A d \in at : RowIn(path[d], d, v) = grid[v]
  BY DEF Spans, Spanned
<1>5. Interval(Top(v)) = Reach(v, D)
  <2>1. Top(v) = ranges[v][Len(ranges[v])] /\ D \in 0 .. D
    BY <1>2 DEF Top, Last
  <2> QED
    BY <1>4, <2>1
<1>6. ASSUME NEW d \in at
      PROVE  /\ RangeIn(path[d], d, v) = RangeOf(AddressesAt(path[d].shard, EdgeAt(d), v))
             /\ RowIn(path[d], d, v) = RowAt(path[d].shard, EdgeAt(d), v)
  <2> DEFINE c == path[d]
             e == EdgeAt(d)
  <2>1. d \in 1 .. D /\ v \in Ends(e)
    BY DEF Uses
  <2>2. d \in 1 .. Len(edges) /\ d \in DOMAIN edgeOrder
    BY <1>1, <1>2, <2>1
  <2>3. c \in Offers(d)
    BY <1>1, <2>1, <2>2, SearchFacts
  <2>4. /\ RowAt(c.shard, e, e.v1) = c.row /\ RowAt(c.shard, e, e.v2) = c.col
        /\ c.r1 = RangeOf(AddressesAt(c.shard, e, e.v1)) /\ c.r2 = RangeOf(AddressesAt(c.shard, e, e.v2))
    BY <2>2, <2>3, OffersAreSound
  <2>5. v = e.v1 \/ v = e.v2
    BY <2>1 DEF Ends
  <2> HIDE DEF c, e
  <2>6. /\ RangeIn(c, d, v) = IF v = e.v1 THEN c.r1 ELSE c.r2
        /\ RowIn(c, d, v) = IF v = e.v1 THEN c.row ELSE c.col
    BY DEF RangeIn, RowIn, e
  <2>7. RangeIn(c, d, v) = RangeOf(AddressesAt(c.shard, e, v)) /\ RowIn(c, d, v) = RowAt(c.shard, e, v)
    BY <2>4, <2>5, <2>6
  <2> QED
    BY <2>7 DEF c, e
<1>7. Interval(Top(v)) = {a \in Addresses : \A d \in at :
                            a \in Interval(RangeOf(AddressesAt(path[d].shard, EdgeAt(d), v)))}
  <2>1. Reach(v, D) = {a \in Addresses : \A d \in at : a \in Interval(RangeIn(path[d], d, v))}
    BY DEF Reach
  <2> HIDE DEF at
  <2> QED
    BY <1>5, <1>6, <2>1
<1>8. \A d \in at : RowAt(path[d].shard, EdgeAt(d), v) = grid[v]
  BY <1>4, <1>6
<1> HIDE DEF at
<1> QED
  BY <1>3, <1>4, <1>7, <1>8-----------------------------------------------------------------------------

(* No match is lost.                                                       *)

(* The candidates of a way admit the data vertices of an assignment, *)
Admitted(w, m) == \A d \in 1 .. Len(edges) : Admits(Candidates(d)[w[d]], d, m)

(* and the search does not get past such a way without a subtask. *)
Complete ==
  \A m \in Matches, w \in Ways : Admitted(w, m) /\ Behind(w) => \E k \in DOMAIN plan : plan[k] = ShardsBy(w)

LEMMA OverlapAt ==
  ASSUME NEW a \in Ranges, NEW b, b.lo \in Nat, b.hi \in Nat, NEW x \in Interval(a), x \in Interval(b)
  PROVE  Overlap(a, b)
<1>1. Meet(a, b) \in Ranges /\ x \in Interval(Meet(a, b))
  BY MeetIsBoth
<1> DEFINE c == Meet(a, b)
<1> HIDE DEF c
<1>2. c.lo \in Nat /\ c.hi \in Nat /\ x \in c.lo .. c.hi
  BY <1>1 DEF c, Ranges, Interval
<1>3. c.lo <= c.hi
  BY <1>2
<1> QED
  BY <1>3 DEF Overlap, c

(* The search enters a candidate if data vertices are in it and in those   *)
(* on the way.                                                             *)
LEMMA AdmittedIsEntered ==
  ASSUME Ordering, Place, Spans, AtCandidate, NEW m \in Matches,
         \A d \in 1 .. Depth : Admits(path[d], d, m), Admits(Current, Depth + 1, m)
  PROVE  SameGrids(Current, CurrentEdge) /\ Fits(Current, CurrentEdge)
<1> DEFINE D == Depth
           c == Current
           e == CurrentEdge
<1>1. /\ D + 1 \in DOMAIN edgeOrder /\ c \in Offers(D + 1) /\ e = EdgeAt(D + 1)
  BY CurrentIsOffered
<1>2. /\ e.v1 \in Vertices /\ e.v2 \in Vertices /\ e.v1 # e.v2 /\ Ends(e) = {e.v1, e.v2}
      /\ e.kind \in {"regular", "negative", "optional"}
  BY <1>1, EndsOfReadings
<1>3. /\ c.r1.lo \in Nat /\ c.r1.hi \in Nat /\ c.r2.lo \in Nat /\ c.r2.hi \in Nat
      /\ c.max1.lo \in Nat /\ c.max1.hi \in Nat /\ c.max2.lo \in Nat /\ c.max2.hi \in Nat
  BY <1>1, OffersAreSound
<1>4. /\ m[e.v1].row = c.row /\ m[e.v2].row = c.col
      /\ e.kind = "regular" => m[e.v1].addr \in Interval(c.r1) /\ m[e.v2].addr \in Interval(c.r2)
      /\ e.kind # "regular" => m[e.v1].addr \in Interval(c.max1) /\ m[e.v2].addr \in Interval(c.max2)
  BY <1>1 DEF Admits
<1>5. D \in Nat /\ DOMAIN edgeOrder = 1 .. Len(edgeOrder) /\ Len(edgeOrder) \in Nat
  <2>1. Len(edges) \in Nat \ {0} /\ Depth \in 0 .. Len(edges) /\ Len(edgeOrder) = Len(edges)
        /\ DOMAIN edgeOrder = 1 .. Len(edges)
    BY SearchFacts DEF Place
  <2> QED
    BY <2>1
<1> HIDE DEF c, e, D
<1>6. ASSUME NEW v \in Vertices, v \in Ends(e)
      PROVE  /\ Top(v) \in Ranges /\ m[v].addr \in Interval(Top(v))
             /\ Narrowed(v) => grid[v] = m[v].row
  <2>1. /\ ranges[v] \in Seq(Ranges) /\ Len(ranges[v]) = 1 + Cardinality(Uses(v, D))
        /\ \A l \in 0 .. D : Interval(ranges[v][1 + Cardinality(Uses(v, l))]) = Reach(v, l)
        /\ \A d \in Uses(v, D) : RowIn(path[d], d, v) = grid[v]
    BY DEF Spans, Spanned, D
  <2>2. Cardinality(Uses(v, D)) \in Nat /\ (Uses(v, D) = {} => Cardinality(Uses(v, D)) = 0)
    BY <1>5, UsesCount
  <2>3. Top(v) = ranges[v][Len(ranges[v])]
    BY DEF Top, Last
  <2>4. Top(v) \in Ranges
    BY <2>1, <2>2, <2>3
  <2>5. Interval(Top(v)) = Reach(v, D)
    <3>1. D \in 0 .. D
      BY <1>5
    <3> QED
      BY <2>1, <2>3, <3>1
  <2>6. ASSUME NEW d \in Uses(v, D)
        PROVE  m[v].row = RowIn(path[d], d, v) /\ m[v].addr \in Interval(RangeIn(path[d], d, v))
    <3>1. d \in 1 .. D /\ v \in Ends(EdgeAt(d))
      BY DEF Uses
    <3>2. D + 1 \in d + 1 .. Len(edgeOrder)
      BY <1>1, <1>5, <3>1
    <3>3. TouchedLater(d)
      BY <1>1, <1>6, <3>1, <3>2 DEF TouchedLater, EdgeAt
    <3>4. /\ m[EdgeAt(d).v1].row = path[d].row /\ m[EdgeAt(d).v2].row = path[d].col
          /\ m[EdgeAt(d).v1].addr \in Interval(path[d].r1) /\ m[EdgeAt(d).v2].addr \in Interval(path[d].r2)
      BY <3>1, <3>3 DEF Admits, D
    <3>5. v = EdgeAt(d).v1 \/ v = EdgeAt(d).v2
      BY <3>1 DEF Ends
    <3> QED
      BY <3>4, <3>5 DEF RowIn, RangeIn
  <2>7. m[v].addr \in Addresses
    BY DEF Matches
  <2>8. m[v].addr \in Interval(Top(v))
    BY <2>5, <2>6, <2>7 DEF Reach
  <2>9. ASSUME Narrowed(v) PROVE grid[v] = m[v].row
    <3>1. Uses(v, D) # {}
      BY <2>1, <2>2, <2>9 DEF Narrowed
    <3> QED
      BY <2>1, <2>6, <3>1
  <2> QED
    BY <2>4, <2>8, <2>9
<1>7. /\ Top(e.v1) \in Ranges /\ m[e.v1].addr \in Interval(Top(e.v1)) /\ (Narrowed(e.v1) => grid[e.v1] = m[e.v1].row)
      /\ Top(e.v2) \in Ranges /\ m[e.v2].addr \in Interval(Top(e.v2)) /\ (Narrowed(e.v2) => grid[e.v2] = m[e.v2].row)
  BY <1>2, <1>6
<1>8. SameGrids(c, e)
  BY <1>4, <1>7 DEF SameGrids
<1>9. ASSUME e.kind = "regular" PROVE Overlap(Top(e.v1), c.r1) /\ Overlap(Top(e.v2), c.r2)
  BY <1>3, <1>4, <1>7, <1>9, OverlapAt
<1>10. ASSUME e.kind # "regular" PROVE Overlap(Top(e.v1), c.max1) /\ Overlap(Top(e.v2), c.max2)
  BY <1>3, <1>4, <1>7, <1>10, OverlapAt
<1>11. Fits(c, e)
  BY <1>2, <1>9, <1>10 DEF Fits
<1> QED
  BY <1>8, <1>11 DEF c, e

LEMMA BlankComplete == Ordering /\ Blank => Complete
<1> SUFFICES ASSUME Ordering, Blank, NEW w \in Ways PROVE ~Behind(w)
  BY DEF Complete
<1>1. Depth = 0 /\ cursor[1] = 1
  BY DEF Blank, Depth
<1>2. SUFFICES ASSUME NEW d \in 1 .. Len(edges), d <= Depth + 1, w[d] < cursor[d] PROVE FALSE
  BY DEF Behind
<1>3. d = 1
  BY <1>1, <1>2, SearchFacts
<1>4. w[1] \in 1 .. Len(Candidates(1)) /\ Len(Candidates(1)) \in Nat
  BY <1>2, <1>3, SearchFacts DEF Ways
<1> QED
  BY <1>1, <1>2, <1>3, <1>4

LEMMA SearchComplete == Ordering /\ Place /\ Plans /\ Spans /\ Complete /\ Searches => Complete'
<1> SUFFICES ASSUME Ordering, Place, Plans, Spans, Complete, Searches PROVE Complete'
  OBVIOUS
<1>1. /\ Ways' = Ways /\ \A w : ShardsBy(w)' = ShardsBy(w)
  BY WaysKept
<1>2. /\ edges' = edges /\ input' = input /\ Vertices' = Vertices
      /\ \A d : Candidates(d)' = Candidates(d)
      /\ \A d : EdgeAt(d)' = EdgeAt(d)
      /\ \A d : TouchedLater(d)' = TouchedLater(d)
  BY SearchKept
<1>3. Matches' = Matches
  <2>1. \A v : RowsOf(v)' = RowsOf(v)
    BY <1>2 DEF RowsOf, Query
  <2> QED
    BY <1>2, <2>1 DEF Matches, Addresses
<1>4. ASSUME NEW w, NEW m PROVE Admitted(w, m)' = Admitted(w, m)
  <2>1. ASSUME NEW d PROVE Admits(Candidates(d)[w[d]], d, m)' = Admits(Candidates(d)[w[d]], d, m)
    <3> DEFINE c == Candidates(d)[w[d]]
    <3>1. c' = c
      BY <1>2
    <3> HIDE DEF c
    <3>2. Admits(c, d, m)' = Admits(c, d, m)
      BY <1>2, <3>1 DEF Admits, Interval
    <3> QED
      BY <3>2 DEF c
  <2> QED
    BY <1>2, <2>1 DEF Admitted
<1>5. Complete' <=> \A m \in Matches, w \in Ways :
        Admitted(w, m) /\ Behind(w)' => \E k \in DOMAIN plan' : plan'[k] = ShardsBy(w)
  BY <1>1, <1>3, <1>4 DEF Complete
<1>6. SUFFICES ASSUME NEW m \in Matches, NEW w \in Ways, Admitted(w, m), Behind(w)'
               PROVE  \E k \in DOMAIN plan' : plan'[k] = ShardsBy(w)
  BY <1>5
<1>7. CASE Behind(w)
  <2>1. PICK k \in DOMAIN plan : plan[k] = ShardsBy(w)
    BY <1>6, <1>7 DEF Complete
  <2>2. k \in DOMAIN plan' /\ plan'[k] = plan[k]
    <3>1. CASE Found
      <4>1. /\ Len(plan) \in Nat /\ DOMAIN plan = 1 .. Len(plan) /\ DOMAIN plan' = 1 .. Len(plan) + 1
            /\ \A j \in 1 .. Len(plan) : plan'[j] = plan[j]
        BY <3>1, PlanGrows
      <4> QED
        BY <4>1
    <3>2. CASE ~Found
      <4>1. plan' = plan
        BY <3>2 DEF Searches, Skip, Enter, Return, Finish, searchVars
      <4> QED
        BY <4>1
    <3> QED
      BY <3>1, <3>2
  <2> QED
    BY <2>1, <2>2
<1>8. CASE ~Behind(w) /\ Found
  <2>1. Depth = Len(edges) /\ \A d \in 1 .. Len(edges) : w[d] = cursor[d]
    BY <1>6, <1>8, PassedBy
  <2>2. PICK z \in Ways : ShardsOn(path) = ShardsBy(z) /\ \A d \in 1 .. Len(edges) : z[d] = cursor[d]
    BY <1>8, FoundWay
  <2>3. w = z
    <3>1. w \in [1 .. Len(edges) -> Nat] /\ z \in [1 .. Len(edges) -> Nat]
      BY DEF Ways
    <3>2. \A d \in 1 .. Len(edges) : w[d] = z[d]
      BY <2>1, <2>2
    <3> QED
      BY <3>1, <3>2
  <2>4. /\ Len(plan) \in Nat /\ DOMAIN plan' = 1 .. Len(plan) + 1
        /\ plan'[Len(plan) + 1] = ShardsOn(path)
    BY <1>8, PlanGrows
  <2>5. Len(plan) + 1 \in DOMAIN plan'
    BY <2>4
  <2> QED
    BY <2>2, <2>3, <2>4, <2>5
<1>9. CASE ~Behind(w) /\ Skip
  <2>1. \A d \in 1 .. Depth + 1 : w[d] = cursor[d]
    BY <1>6, <1>9, PassedBy
  <2>2. AtCandidate /\ ~(SameGrids(Current, CurrentEdge) /\ Fits(Current, CurrentEdge))
    BY <1>9, SMTT(20) DEF Skip
  <2>3. Len(edges) \in Nat \ {0} /\ Depth \in 0 .. Len(edges) /\ Depth + 1 \in 1 .. Len(edges)
    BY <2>2, CurrentIsOffered, SearchFacts DEF Place
  <2>4. \A d \in 1 .. Depth : d \in 1 .. Depth + 1 /\ d \in 1 .. Len(edges)
    BY <2>3
  <2>5. Depth + 1 \in 1 .. Depth + 1
    BY <2>3
  <2>6. \A d \in 1 .. Depth : path[d] = Candidates(d)[cursor[d]]
    BY DEF Place
  <2>7. \A d \in 1 .. Depth : Admits(path[d], d, m)
    BY <1>6, <2>1, <2>4, <2>6 DEF Admitted
  <2>8. Admits(Current, Depth + 1, m)
    BY <1>6, <2>1, <2>3, <2>5 DEF Admitted, Current
  <2> QED
    BY <2>2, <2>7, <2>8, AdmittedIsEntered
<1>10. Skip \/ Found \/ Behind(w)
  BY <1>6, PassedBy DEF Searches
<1> QED
  BY <1>7, <1>8, <1>9, <1>10

(* At the end every way is behind. *)
LEMMA MatchesFromPlans ==
  Ordering /\ Plans /\ Complete /\ Depth = 0 /\ cursor[1] > Len(Candidates(1)) /\ cursor[1] \in Nat
    => EveryMatchPlannedOnce
<1> SUFFICES ASSUME Ordering, Plans, Complete, Depth = 0, cursor[1] > Len(Candidates(1)), cursor[1] \in Nat,
                    NEW m \in Matches,
                    NEW served, served = [d \in DOMAIN edgeOrder |-> {s \in Shards : Serves(s, d, m)}],
                    NEW way \in [DOMAIN edgeOrder -> UNION {served[d] : d \in DOMAIN served}],
                    \A d \in DOMAIN way : way[d] \in served[d]
             PROVE  Cardinality({k \in DOMAIN plan : plan[k] = way}) = 1
  BY DEF EveryMatchPlannedOnce
<1> DEFINE n == Len(edges)
           Is(d, i) == Candidates(d)[i].shard = way[d] /\ Admits(Candidates(d)[i], d, m)
           w == [d \in 1 .. n |-> CHOOSE i \in 1 .. Len(Candidates(d)) : Is(d, i)]
<1>1. n \in Nat \ {0} /\ DOMAIN edgeOrder = 1 .. n /\ \A d \in 1 .. n : Len(Candidates(d)) \in Nat
  BY SearchFacts
<1>2. DOMAIN way = 1 .. n /\ way = [d \in 1 .. n |-> way[d]]
  BY <1>1
<1>3. ASSUME NEW d \in 1 .. n PROVE \E i \in 1 .. Len(Candidates(d)) : Is(d, i)
  <2>1. way[d] \in Shards /\ Serves(way[d], d, m)
    BY <1>1, <1>2
  <2>2. PICK c \in Offers(d) : c.shard = way[d] /\ Admits(c, d, m)
    BY <1>1, <2>1, ServingIsOffered
  <2>3. input \in Inputs /\ EdgeAt(d).v1 \in Vertices /\ EdgeAt(d).v2 \in Vertices
    BY <1>1, EndsOfReadings DEF Ordering, Graph
  <2>4. PICK i \in 1 .. Len(Candidates(d)) : Candidates(d)[i] = c
    BY <2>3, OffersListed
  <2> QED
    BY <2>2, <2>4
<1> HIDE DEF Is, n
<1>4. ASSUME NEW d \in 1 .. n PROVE w[d] \in 1 .. Len(Candidates(d)) /\ Is(d, w[d]) /\ w[d] \in Nat
  <2>1. w[d] = CHOOSE i \in 1 .. Len(Candidates(d)) : Is(d, i)
    OBVIOUS
  <2>2. w[d] \in 1 .. Len(Candidates(d)) /\ Is(d, w[d])
    BY <1>3, <2>1
  <2> QED
    BY <1>1, <2>2
<1>5. w \in [1 .. n -> Nat]
  BY <1>4
<1> HIDE DEF w
<1>6. w \in Ways
  BY <1>4, <1>5 DEF Ways, n
<1>7. ShardsBy(w) = way
  <2>1. \A d \in 1 .. n : Candidates(d)[w[d]].shard = way[d]
    BY <1>4 DEF Is
  <2>2. ShardsBy(w) = [d \in 1 .. n |-> Candidates(d)[w[d]].shard]
    BY DEF ShardsBy, n
  <2> QED
    BY <1>2, <2>1, <2>2
<1>8. Admitted(w, m)
  BY <1>4 DEF Admitted, Is, n
<1>9. Behind(w)
  <2>1. 1 \in 1 .. n /\ 1 <= Depth + 1 /\ 1 .. 1 - 1 = {}
    BY <1>1
  <2>2. w[1] < cursor[1]
    <3> DEFINE l == Len(Candidates(1))
    <3>1. w[1] \in 1 .. l /\ l \in Nat /\ cursor[1] > l
      BY <1>1, <1>4, <2>1
    <3> HIDE DEF l
    <3> QED
      BY <3>1
  <2> QED
    BY <2>1, <2>2 DEF Behind, n
<1>10. PICK k \in DOMAIN plan : plan[k] = way
  BY <1>6, <1>7, <1>8, <1>9 DEF Complete
<1>11. {j \in DOMAIN plan : plan[j] = way} = {k}
  BY <1>10 DEF Plans
<1> QED
  BY <1>11, FS_Singleton-----------------------------------------------------------------------------

(* The invariant.                                                          *)

Searched == Place /\ Plans /\ Nodes /\ Spans /\ Complete

(* The search begins as it goes on. *)
SearchStarts == Ordering /\ Blank => Searched

LEMMA Starting == SearchStarts
BY BlankPlace, BlankPlans, BlankNodes, BlankSpans, BlankComplete DEF SearchStarts, Searched

LEMMA SearchesOn == Ordering /\ Searched /\ Searches => Searched'
BY SearchPlace, SearchPlans, SearchNodes, SearchSpans, SearchComplete DEF Searched

LEMMA SearchedKept ==
  ASSUME input' = input, edges' = edges, optional' = optional, UNCHANGED orderVars, UNCHANGED searchVars
  PROVE  Searched' <=> Searched
<1>1. /\ order' = order /\ edgeOrder' = edgeOrder
      /\ path' = path /\ valid' = valid /\ cursor' = cursor /\ grid' = grid /\ ranges' = ranges
      /\ tree' = tree /\ plan' = plan
  BY DEF orderVars, searchVars
<1>2. /\ \A d : Candidates(d)' = Candidates(d)
      /\ \A d : EdgeAt(d)' = EdgeAt(d)
      /\ \A d : TouchedLater(d)' = TouchedLater(d)
  BY <1>1, CandidatesKept
<1>3. Depth' = Depth /\ Vertices' = Vertices
  BY <1>1 DEF Depth, Vertices, Query
<1>4. Place' <=> Place
  BY <1>1, <1>2, <1>3 DEF Place
<1>5. Ways' = Ways /\ \A w : ShardsBy(w)' = ShardsBy(w)
  <2>1. Ways' = Ways
    BY <1>2 DEF Ways
  <2>2. ASSUME NEW w PROVE ShardsBy(w)' = ShardsBy(w)
    BY <1>2 DEF ShardsBy
  <2> QED
    BY <2>1, <2>2
<1>6. \A w : Behind(w)' <=> Behind(w)
  BY <1>1, <1>3 DEF Behind
<1>7. Plans' <=> Plans
  BY <1>1, <1>5, <1>6 DEF Plans
<1>8. Nodes' <=> Nodes
  BY <1>1, <1>3 DEF Nodes, NodesAt, OnWay, Upto
<1>9. Spans' <=> Spans
  <2>1. ASSUME NEW v, NEW m PROVE Uses(v, m)' = Uses(v, m) /\ Reach(v, m)' = Reach(v, m)
    BY <1>1, <1>2 DEF Uses, Reach, Ends, RangeIn, Interval, Addresses
  <2>2. ASSUME NEW v, NEW d PROVE RowIn(path[d], d, v)' = RowIn(path[d], d, v)
    BY <1>1, <1>2 DEF RowIn
  <2>3. ASSUME NEW v PROVE Uses(v, Depth)' = Uses(v, Depth)
    BY <1>2, <1>3 DEF Uses, Ends
  <2>4. ASSUME NEW v PROVE Spanned(v)' <=> Spanned(v)
    BY <1>1, <1>3, <2>1, <2>2, <2>3 DEF Spanned, Ranges, Interval
  <2> QED
    BY <1>1, <1>3, <2>4 DEF Spans
<1>10. Complete' <=> Complete
  <2>1. \A v : RowsOf(v)' = RowsOf(v)
    BY DEF RowsOf, Query
  <2>2. Matches' = Matches
    BY <1>3, <2>1 DEF Matches, Addresses
  <2>3. ASSUME NEW w, NEW m PROVE Admitted(w, m)' <=> Admitted(w, m)
    <3>1. ASSUME NEW d PROVE Admits(Candidates(d)[w[d]], d, m)' <=> Admits(Candidates(d)[w[d]], d, m)
      <4> DEFINE c == Candidates(d)[w[d]]
      <4>1. c' = c
        BY <1>2
      <4> HIDE DEF c
      <4>2. Admits(c, d, m)' <=> Admits(c, d, m)
        BY <1>2, <4>1 DEF Admits, Interval
      <4> QED
        BY <4>2 DEF c
    <3> QED
      BY <3>1 DEF Admitted
  <2> QED
    BY <1>1, <1>5, <1>6, <2>2, <2>3 DEF Complete
<1> QED
  BY <1>4, <1>7, <1>8, <1>9, <1>10 DEF Searched

(* What init() loads. *)
InMemory ==
  IF input.inMemory
  THEN UNION {UNION {ShardsOf(edges[i].label, b) : b \in PreloadBlocks(i)} : i \in DOMAIN edges}
  ELSE {}

Loaded == preloaded = {} \/ (Graph /\ preloaded = InMemory)

(* All candidates at the first edge were tried. *)
Over == Depth = 0 /\ cursor[1] > Len(Candidates(1))

IInv ==
  /\ Prepared
  /\ Loaded
  /\ phase \in {"parse", "graph", "init"} => preloaded = {}
  /\ phase \in {"order", "search", "planned"} => preloaded = InMemory
  /\ phase \in {"search", "planned"} => Searched
  /\ phase = "planned" => Over
  /\ phase = "failed" => Unsearched \/ (Ordering /\ Searched)

LEMMA LoadedKept ==
  ASSUME input' = input, edges' = edges, optional' = optional
  PROVE  InMemory' = InMemory /\ (preloaded' = preloaded => (Loaded' <=> Loaded))
<1>1. ASSUME NEW l, NEW b PROVE ShardsOf(l, b)' = ShardsOf(l, b)
  BY DEF ShardsOf, Leaves
<1>2. ASSUME NEW i PROVE PreloadBlocks(i)' = PreloadBlocks(i)
  BY DEF PreloadBlocks, RowsOf, Query
<1> DEFINE All(i) == UNION {ShardsOf(edges[i].label, b) : b \in PreloadBlocks(i)}
<1>3. ASSUME NEW i PROVE All(i)' = All(i)
  BY <1>1, <1>2
<1>4. InMemory = (IF input.inMemory THEN UNION {All(i) : i \in DOMAIN edges} ELSE {})
  BY DEF InMemory
<1>5. InMemory' = (IF input'.inMemory THEN UNION {All(i)' : i \in DOMAIN edges'} ELSE {})
  BY DEF InMemory
<1> HIDE DEF All
<1>6. InMemory' = InMemory
  BY <1>3, <1>4, <1>5
<1> QED
  BY <1>6, GraphKept DEF Loaded

LEMMA InitIInv == Init => IInv
<1> SUFFICES ASSUME Init PROVE IInv
  OBVIOUS
<1>1. Prepared /\ phase = "parse" /\ preloaded = {}
  BY InitPrepared DEF Init
<1> QED
  BY <1>1 DEF IInv, Loaded

LEMMA NextIInv == IInv /\ SearchStarts' /\ [Next]_vars => IInv'
<1> SUFFICES ASSUME IInv, SearchStarts', [Next]_vars PROVE IInv'
  OBVIOUS
<1>1. Prepared /\ Prepared'
  BY NextPrepared DEF IInv
<1>2. CASE ParseQuery
  <2>1. /\ input' = input /\ edges' = edges /\ optional' = optional /\ preloaded' = preloaded
        /\ UNCHANGED orderVars /\ UNCHANGED searchVars /\ phase = "parse" /\ phase' \in {"graph", "failed"}
    BY <1>2 DEF ParseQuery, queryVars
  <2>2. Unsearched' /\ preloaded' = {}
    BY <1>1, <2>1, UnsearchedKept DEF IInv, Prepared
  <2> QED
    BY <1>1, <2>1, <2>2 DEF IInv, Loaded
<1>3. CASE MakeQueryGraph
  <2>1. /\ input' = input /\ preloaded' = preloaded /\ UNCHANGED orderVars /\ UNCHANGED searchVars
        /\ phase = "graph" /\ phase' \in {"init", "failed"}
    BY <1>3 DEF MakeQueryGraph
  <2>2. Unsearched' /\ preloaded' = {}
    BY <1>1, <2>1, UnsearchedKept DEF IInv, Prepared
  <2> QED
    BY <1>1, <2>1, <2>2 DEF IInv, Loaded
<1>4. CASE InitDevices
  <2>1. /\ input' = input /\ edges' = edges /\ optional' = optional /\ phase = "init" /\ phase' = "order"
        /\ preloaded' = InMemory
    BY <1>4 DEF InitDevices, InMemory, queryVars
  <2>2. preloaded' = InMemory' /\ Graph'
    BY <1>1, <2>1, LoadedKept, GraphKept DEF Prepared
  <2> QED
    BY <1>1, <2>1, <2>2 DEF IInv, Loaded
<1>5. CASE MakeOrder
  <2>1. /\ input' = input /\ edges' = edges /\ optional' = optional /\ preloaded' = preloaded
        /\ UNCHANGED searchVars /\ phase = "order" /\ phase' = "search"
    BY <1>5 DEF MakeOrder, queryVars
  <2>2. preloaded' = InMemory' /\ Loaded'
    BY <2>1, LoadedKept DEF IInv
  <2>3. Blank'
    <3>1. Blank
      BY <1>1, <2>1 DEF Prepared, Unsearched
    <3> QED
      BY <2>1, <3>1 DEF Blank, searchVars, Vertices, Query, Whole
  <2>4. Searched'
    BY <1>1, <2>1, <2>3 DEF SearchStarts, Prepared
  <2> QED
    BY <1>1, <2>1, <2>2, <2>4 DEF IInv
<1>6. CASE OrderFails
  <2>1. /\ input' = input /\ edges' = edges /\ optional' = optional /\ preloaded' = preloaded
        /\ UNCHANGED orderVars /\ UNCHANGED searchVars /\ phase = "order" /\ phase' = "failed"
    BY <1>6 DEF OrderFails, queryVars
  <2>2. Unsearched' /\ Loaded'
    BY <1>1, <2>1, UnsearchedKept, LoadedKept DEF IInv, Prepared
  <2> QED
    BY <1>1, <2>1, <2>2 DEF IInv
<1>7. CASE Searches
  <2>1. /\ input' = input /\ edges' = edges /\ optional' = optional /\ preloaded' = preloaded
        /\ phase = "search" /\ \A d : Candidates(d)' = Candidates(d)
    BY <1>7, SearchKept
  <2>2. Ordering /\ Searched
    BY <1>1, <2>1 DEF IInv, Prepared
  <2>3. Searched' /\ preloaded' = InMemory' /\ Loaded'
    BY <1>7, <2>1, <2>2, SearchesOn, LoadedKept DEF IInv
  <2>4. Ordering'
    BY <1>7, <2>2, SearchKept, OrderingKept
  <2>5. phase' \in {"search", "planned", "failed"}
    BY <1>7 DEF Searches, Skip, Enter, Found, Return, Finish, Back, AtCandidate, Exhausted
  <2>6. phase' = "planned" => Over'
    <3>1. CASE Finish
      <4>1. Over /\ path' = path /\ cursor' = cursor
        BY <3>1 DEF Finish, Exhausted, Over, searchVars
      <4> QED
        BY <2>1, <4>1 DEF Over, Depth
    <3>2. CASE ~Finish
      <4>1. phase' = "search"
        BY <1>7, <3>2 DEF Searches, Skip, Enter, Found, Return, Back, AtCandidate, Exhausted
      <4> QED
        BY <4>1
    <3> QED
      BY <3>1, <3>2
  <2> QED
    BY <1>1, <2>3, <2>4, <2>5, <2>6 DEF IInv
<1>8. CASE UNCHANGED vars
  <2>1. /\ input' = input /\ phase' = phase /\ edges' = edges /\ optional' = optional /\ preloaded' = preloaded
        /\ order' = order /\ edgeOrder' = edgeOrder /\ UNCHANGED orderVars /\ UNCHANGED searchVars
        /\ path' = path /\ cursor' = cursor
    BY <1>8 DEF vars, queryVars, orderVars, searchVars
  <2>2. (Ordering' <=> Ordering) /\ (Unsearched => Unsearched') /\ (Searched' <=> Searched)
    BY <2>1, OrderingKept, UnsearchedKept, SearchedKept
  <2>3. InMemory' = InMemory /\ (Loaded' <=> Loaded)
    BY <2>1, LoadedKept
  <2>4. Over => Over'
    BY <2>1, CandidatesKept DEF Over, Depth
  <2> QED
    BY <1>1, <2>1, <2>2, <2>3, <2>4 DEF IInv
<1> QED
  BY <1>2, <1>3, <1>4, <1>5, <1>6, <1>7, <1>8 DEF Next, Searches

(* The search, whatever the query and the data graph are: every subtask is *)
(* a way it is past, the tree has the nodes of the subtasks, the ranges    *)
(* are those of the shards on the way, and a way that some data vertices   *)
(* are admitted by is not passed without a subtask.                        *)
THEOREM Invariance == Spec => []IInv
<1>1. IInv /\ SearchStarts' /\ [Next]_vars => IInv'
  BY NextIInv
<1> QED
  BY InitIInv, Starting, <1>1, PTL DEF Spec

(* No match is lost and none is counted twice: each way to serve data      *)
(* vertices by shards is one subtask.                                      *)
THEOREM MatchesArePlanned == Spec => []EveryMatchPlannedOnce
<1>1. IInv => EveryMatchPlannedOnce
  <2> SUFFICES ASSUME IInv, phase = "planned" PROVE EveryMatchPlannedOnce
    BY DEF EveryMatchPlannedOnce
  <2>1. Ordering /\ Plans /\ Complete /\ Place /\ Depth = 0 /\ cursor[1] > Len(Candidates(1))
    BY DEF IInv, Prepared, Searched, Over
  <2>2. cursor[1] \in Nat
    BY <2>1 DEF Place
  <2> QED
    BY <2>1, <2>2, MatchesFromPlans
<1> QED
  BY <1>1, Invariance, PTL

(* The tree the search leaves is what SchedPlanTree takes it to be. *)
THEOREM TreeIsOfSubtasks == Spec => []NoDeadEnds
<1>1. IInv => NoDeadEnds
  <2> SUFFICES ASSUME IInv, phase = "planned" PROVE NoDeadEnds
    BY DEF NoDeadEnds
  <2>1. Ordering /\ Plans /\ Nodes /\ Depth = 0
    BY DEF IInv, Prepared, Searched, Over
  <2>2. tree = {SubSeq(plan[k], 1, d) : k \in DOMAIN plan, d \in DOMAIN edgeOrder}
    BY <2>1, TreeOfPlan
  <2>3. \A j, k \in DOMAIN plan : plan[j] = plan[k] => j = k
    BY <2>1 DEF Plans
  <2> QED
    BY <2>2, <2>3 DEF NoDeadEnds
<1> QED
  BY <1>1, Invariance, PTL

(* The ranges and the row the search keeps of a vertex are those of the    *)
(* shards on the way, however often it has gone back.                      *)
THEOREM RangesAreOfThePath == Spec => []RangesOfThePath
<1>1. IInv => RangesOfThePath
  <2> SUFFICES ASSUME IInv, phase = "search" PROVE RangesOfThePath
    BY DEF RangesOfThePath
  <2>1. Ordering /\ Place /\ Spans
    BY DEF IInv, Prepared, Searched
  <2> QED
    BY <2>1, RangesFromSpans
<1> QED
  BY <1>1, Invariance, PTL

LEMMA InMemoryAreShards == input \in Inputs => InMemory \subseteq Shards
<1> SUFFICES ASSUME input \in Inputs, NEW s \in InMemory PROVE s \in Shards
  OBVIOUS
<1>1. PICK i \in DOMAIN edges : \E b \in PreloadBlocks(i) : s \in ShardsOf(edges[i].label, b)
  BY DEF InMemory
<1>2. PICK b \in PreloadBlocks(i) : s \in ShardsOf(edges[i].label, b)
  BY <1>1
<1>3. PICK k \in DOMAIN Leaves(edges[i].label, b[1], b[2]), way \in {"out", "in"} :
        s = ShardId(edges[i].label, b[1], b[2], k, way)
  BY <1>2 DEF ShardsOf
<1> QED
  BY <1>3, ShardsOfLeaves

(* The shards of a subtask. *)
LEMMA PlannedShards ==
  ASSUME Ordering, Plans, NEW k \in DOMAIN plan
  PROVE  /\ DOMAIN plan[k] = 1 .. Len(edges) /\ Len(plan[k]) = Len(edges)
         /\ \A d \in 1 .. Len(edges) : \E c \in Offers(d) : plan[k][d] = c.shard
<1>1. PICK w \in Ways : plan[k] = ShardsBy(w)
  BY DEF Plans
<1> DEFINE n == Len(edges)
           s == plan[k]
           S == {s[d] : d \in 1 .. n}
<1>2. n \in Nat /\ s = [d \in 1 .. n |-> Candidates(d)[w[d]].shard]
  BY <1>1, SearchFacts DEF ShardsBy
<1>3. DOMAIN s = 1 .. n /\ Len(s) = n
  <2>1. s \in [1 .. n -> S]
    BY <1>2
  <2> HIDE DEF s, n, S
  <2>2. s \in Seq(S) /\ Len(s) = n
    BY <1>2, <2>1, Numbered
  <2> QED
    BY <2>2
<1>4. ASSUME NEW d \in 1 .. n PROVE \E c \in Offers(d) : s[d] = c.shard
  <2>1. w[d] \in 1 .. Len(Candidates(d))
    BY DEF Ways
  <2>2. Candidates(d)[w[d]] \in Offers(d)
    BY <2>1, SearchFacts
  <2>3. s[d] = Candidates(d)[w[d]].shard
    BY <1>2
  <2> QED
    BY <2>2, <2>3
<1> QED
  BY <1>3, <1>4

LEMMA TypeFromIInv == IInv => TypeOK
<1> SUFFICES ASSUME IInv PROVE TypeOK
  OBVIOUS
<1>1. /\ input \in Inputs
      /\ phase \in {"parse", "graph", "init", "order", "search", "planned", "failed"}
      /\ Unsearched \/ (Ordering /\ Searched)
      /\ phase = "search" => Ordering /\ Searched
  BY DEF IInv, Prepared
<1>2. preloaded \subseteq Shards
  BY <1>1, InMemoryAreShards DEF IInv, Loaded
<1>3. ASSUME Unsearched, phase # "search" PROVE TypeOK
  <2>1. /\ edgeOrder = <<>> /\ path = <<>> /\ valid = <<FALSE>> /\ cursor = <<1>> /\ plan = <<>>
        /\ grid = [v \in Vertices |-> 0] /\ ranges = [v \in Vertices |-> <<Whole>>]
    BY <1>3 DEF Unsearched, Blank
  <2>2. Len(valid) = 1 /\ Len(cursor) = 1 /\ Depth = 0 /\ DOMAIN edgeOrder = {} /\ DOMAIN plan = {}
    BY <2>1 DEF Depth
  <2>3. \A v \in Vertices : grid[v] \in Nat /\ ranges[v] # <<>>
    BY <2>1
  <2> QED
    BY <1>1, <1>2, <1>3, <2>2, <2>3 DEF TypeOK
<1>4. ASSUME Ordering, Searched PROVE TypeOK
  <2> DEFINE n == Len(edges)
  <2>1. /\ n \in Nat \ {0} /\ DOMAIN edgeOrder = 1 .. n
        /\ \A d \in 1 .. n : Len(Candidates(d)) \in Nat
    BY <1>4, SearchFacts
  <2>2. {edgeOrder[d].edge : d \in DOMAIN edgeOrder} \subseteq DOMAIN edges
    <3> DEFINE E == [edge : DOMAIN edges, at : DOMAIN order]
    <3>1. edgeOrder \in Seq(E)
      BY <1>4, OrderingIsSound DEF OrderFacts
    <3>2. \A x \in E : x.edge \in DOMAIN edges
      OBVIOUS
    <3> HIDE DEF E
    <3>3. \A d \in DOMAIN edgeOrder : edgeOrder[d] \in E
      BY <3>1
    <3> QED
      BY <3>2, <3>3
  <2>3. /\ Depth \in 0 .. n /\ Len(valid) = Depth + 1 /\ Len(cursor) = Depth + 1 /\ cursor \in Seq(Nat)
        /\ \A d \in 1 .. Depth : cursor[d] \in 1 .. Len(Candidates(d))
        /\ cursor[Depth + 1] \in 1 .. (IF Depth = n THEN 1 ELSE Len(Candidates(Depth + 1)) + 1)
    BY <1>4 DEF Searched, Place
  <2>4. \A d \in DOMAIN cursor : cursor[d] \in 1 .. (IF d > n THEN 1 ELSE Len(Candidates(d)) + 1)
    <3> HIDE DEF n
    <3> SUFFICES ASSUME NEW d \in DOMAIN cursor
                 PROVE  cursor[d] \in 1 .. (IF d > n THEN 1 ELSE Len(Candidates(d)) + 1)
      OBVIOUS
    <3>1. d \in 1 .. Depth \/ d = Depth + 1
      BY <2>1, <2>3
    <3>2. CASE d \in 1 .. Depth
      <4>1. d \in 1 .. n /\ ~(d > n)
        BY <2>1, <2>3, <3>2, SMTT(30)
      <4>2. cursor[d] \in 1 .. Len(Candidates(d)) /\ Len(Candidates(d)) \in Nat
        BY <2>1, <2>3, <3>2, <4>1
      <4> QED
        BY <4>1, <4>2
    <3>3. CASE d = Depth + 1
      <4>1. Depth = n <=> d > n
        BY <2>1, <2>3, <3>3
      <4> QED
        BY <2>3, <3>3, <4>1
    <3> QED
      BY <3>1, <3>2, <3>3
  <2>5. ASSUME NEW v \in Vertices PROVE grid[v] \in Nat /\ ranges[v] # <<>>
    <3>1. grid[v] \in Nat /\ Len(ranges[v]) = 1 + Cardinality(Uses(v, Depth))
      BY <1>4 DEF Searched, Spans, Spanned
    <3>2. Cardinality(Uses(v, Depth)) \in Nat
      <4>1. Depth \in Nat
        BY <2>1, <2>3
      <4> QED
        BY <4>1, UsesCount
    <3>3. Len(ranges[v]) # 0
      BY <3>1, <3>2
    <3> QED
      BY <3>1, <3>3
  <2>6. ASSUME NEW k \in DOMAIN plan
        PROVE  Len(plan[k]) = n /\ \A d \in DOMAIN plan[k] : plan[k][d] \in Shards
    <3>1. /\ DOMAIN plan[k] = 1 .. n /\ Len(plan[k]) = n
          /\ \A d \in 1 .. n : \E c \in Offers(d) : plan[k][d] = c.shard
      BY <1>4, PlannedShards DEF Searched
    <3>2. \A d \in 1 .. n : \A c \in Offers(d) : c.shard \in Shards
      BY <1>4, <2>1, OffersAreSound
    <3> QED
      BY <3>1, <3>2
  <2> QED
    BY <1>1, <1>2, <2>2, <2>3, <2>4, <2>5, <2>6 DEF TypeOK
<1> QED
  BY <1>1, <1>3, <1>4

(* Cursors stay at candidates or behind the last, stacks are never empty,  *)
(* and a subtask has a shard that there is for every edge.                 *)
THEOREM TypeCorrect == Spec => []TypeOK
BY Invariance, TypeFromIInv, PTL

(* In in-memory mode, what a subtask has was loaded if the first edge is   *)
(* undirected or no undirected edge joins vertices of two labels.          *)
THEOREM PlansAreLoaded == Spec => []PlanIsLoaded
<1>1. IInv => PlanIsLoaded
  <2> SUFFICES ASSUME IInv, input.inMemory, phase = "planned",
                      \/ edges[1].dir = "undirected"
                      \/ \A i \in DOMAIN edges : edges[i].dir = "undirected" => RowsOf(edges[i].v1) = RowsOf(edges[i].v2),
                      NEW k \in DOMAIN plan, NEW d \in DOMAIN plan[k]
               PROVE  plan[k][d] \in preloaded
    BY DEF PlanIsLoaded
  <2>1. Ordering /\ Plans /\ preloaded = InMemory /\ input \in Inputs
    BY DEF IInv, Prepared, Searched
  <2>2. d \in 1 .. Len(edges) /\ \E c \in Offers(d) : plan[k][d] = c.shard
    BY <2>1, PlannedShards
  <2> DEFINE s == plan[k][d]
             i == edgeOrder[d].edge
             e == edges[i]
             blocks == RowsOf(e.v1) \X RowsOf(e.v2)
  <2>3. i \in DOMAIN edges
    <3>1. {edgeOrder[j].edge : j \in DOMAIN edgeOrder} \subseteq DOMAIN edges
      BY TypeFromIInv DEF TypeOK
    <3>2. d \in DOMAIN edgeOrder
      BY <2>1, <2>2, SearchFacts
    <3> QED
      BY <3>1, <3>2
  <2>4. \E b \in PreloadBlocks(i) : s \in ShardsOf(e.label, b)
    <3>1. PICK c \in Offers(d) : s = c.shard
      BY <2>2
    <3>2. PICK b \in blocks : c \in ToSet(Along(d, e, b[1], b[2])) \cup ToSet(Against(d, e, b[1], b[2]))
      BY DEF Offers, EdgeAt
    <3>3. b \in PreloadBlocks(i) /\ b = <<b[1], b[2]>> /\ b[1] \in RowsOf(e.v1) /\ b[2] \in RowsOf(e.v2)
      BY DEF PreloadBlocks
    <3> HIDE DEF s, i, e, blocks
    <3>4. WayAlong(d) \in {"out", "in"} /\ WayAgainst(d) \in {"out", "in"}
      BY DEF WayAlong, WayAgainst
    <3>5. CASE c \in ToSet(Along(d, e, b[1], b[2]))
      <4>1. PICK l \in DOMAIN Along(d, e, b[1], b[2]) : Along(d, e, b[1], b[2])[l] = c
        BY <3>5 DEF ToSet
      <4>2. l \in DOMAIN Leaves(e.label, b[1], b[2]) /\ s = ShardId(e.label, b[1], b[2], l, WayAlong(d))
        BY <2>1, <3>1, <4>1, CandidatesOfBlock
      <4>3. s \in ShardsOf(e.label, b)
        BY <3>4, <4>2 DEF ShardsOf
      <4> QED
        BY <3>3, <4>3
    <3>6. CASE c \in ToSet(Against(d, e, b[1], b[2]))
      <4> DEFINE t == <<b[2], b[1]>>
      <4>1. PICK l \in DOMAIN Against(d, e, b[1], b[2]) : Against(d, e, b[1], b[2])[l] = c
        BY <3>6 DEF ToSet
      <4>2. /\ l \in DOMAIN Leaves(e.label, b[2], b[1]) /\ e.dir = "undirected"
            /\ s = ShardId(e.label, b[2], b[1], l, WayAgainst(d))
        BY <2>1, <3>1, <4>1, CandidatesOfBlock
      <4>3. t[1] = b[2] /\ t[2] = b[1]
        OBVIOUS
      <4> HIDE DEF t
      <4>4. s \in ShardsOf(e.label, t)
        BY <3>4, <4>2, <4>3 DEF ShardsOf
      <4>5. t \in PreloadBlocks(i)
        <5>1. CASE edges[1].dir = "undirected"
          BY <5>1 DEF PreloadBlocks, t, e, blocks
        <5>2. CASE RowsOf(e.v1) = RowsOf(e.v2)
          BY <3>3, <5>2 DEF PreloadBlocks, t, e
        <5> QED
          BY <2>3, <4>2, <5>1, <5>2 DEF e
      <4> QED
        BY <4>4, <4>5
    <3> QED
      BY <3>2, <3>5, <3>6
  <2>5. s \in InMemory
    BY <2>3, <2>4 DEF InMemory
  <2> QED
    BY <2>1, <2>5
<1> QED
  BY <1>1, Invariance, PTL
=============================================================================

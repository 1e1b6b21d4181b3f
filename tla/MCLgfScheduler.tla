--------------------------- MODULE MCLgfScheduler ---------------------------
(* Two data graphs and queries of every kind of edge for LgfScheduler. *)
EXTENDS LgfScheduler

(* Label A has two grid rows, B one. *)
MCRows == [A |-> {0, 1}, B |-> {2}]

Leaf(src, dst, es) == [src |-> src, dst |-> dst, edges |-> es]

(* Halves of a grid row: a block is one leaf, or quadrants of it. *)
Low == [lo |-> 0, hi |-> 1]
High == [lo |-> 2, hi |-> 3]

MCBlocks ==
  [b \in {<<"x", 0, 0>>, <<"x", 0, 1>>, <<"x", 1, 0>>, <<"x", 0, 2>>, <<"x", 1, 2>>,
          <<"y", 0, 2>>, <<"y", 2, 0>>, <<"y", 2, 1>>} |->
     CASE b = <<"x", 0, 0>> -> <<Leaf(Whole, Whole, {<<0, 1>>, <<1, 3>>, <<3, 2>>})>>
       [] b = <<"x", 0, 1>> -> <<Leaf(Low, Low, {<<0, 0>>, <<1, 1>>}), Leaf(High, Low, {<<2, 1>>})>>
       [] b = <<"x", 1, 0>> -> <<Leaf(Low, High, {<<0, 3>>})>>
       [] b = <<"x", 0, 2>> -> <<Leaf(Low, Low, {<<0, 0>>, <<1, 0>>}), Leaf(High, High, {<<2, 2>>, <<3, 3>>})>>
       [] b = <<"x", 1, 2>> -> <<Leaf(Whole, Whole, {<<0, 0>>, <<1, 2>>})>>
       [] b = <<"y", 0, 2>> -> <<Leaf(Low, Whole, {<<1, 0>>, <<1, 1>>})>>
       [] b = <<"y", 2, 0>> -> <<Leaf(Whole, Whole, {<<0, 0>>, <<2, 3>>})>>
       [] b = <<"y", 2, 1>> -> <<Leaf(Low, Low, {<<0, 1>>})>>]

V(name, label) == [name |-> name, label |-> label]
E(left, arrow, label, right) == Text("", left, arrow, label, right)

Query_(vertices, es, constraints) == [vertices |-> vertices, edges |-> es, constraints |-> constraints]

AAB == <<V("a", "A"), V("b", "A"), V("c", "B")>>
ABC == <<V("a", "A"), V("b", "B"), V("c", "A")>>
AABB == <<V("a", "A"), V("b", "A"), V("c", "B"), V("d", "B")>>

(* Queries of attribute joins: a triangle, arrows in both directions and   *)
(* undirected, negative and optional edges, vertices of either kind        *)
(* without edges of their own.                                             *)
AttributeJoins == {
  Query_(AAB, <<E("a", "->", "x", "b"), E("b", "->", "x", "c"), E("a", "->", "x", "c")>>, {<<"a", "b">>}),
  Query_(AAB, <<E("a", "-", "x", "b"), E("c", "<-", "x", "b"), E("c", "-", "y", "a")>>, {}),
  Query_(ABC, <<E("a", "->", "x", "b"), E("b", "-", "y", "c")>>, {}),
  Query_(AAB, <<E("a", "->", "x", "b"), E("b", "->", "x", "c"), Text("NOT", "a", "->", "y", "c")>>, {}),
  Query_(AAB, <<E("a", "->", "x", "b"), Text("NOT", "b", "->", "x", "c"), E("a", "->", "y", "c")>>, {}),
  Query_(AAB, <<E("a", "->", "x", "b"), Text("OPTIONAL", "b", "->", "x", "c")>>, {}),
  Query_(AABB, <<E("a", "->", "x", "b"), Text("OPTIONAL", "a", "->", "x", "c"), Text("OPTIONAL", "d", "->", "y", "a")>>, {}),
  Query_(AABB, <<E("a", "->", "x", "b"), E("a", "->", "x", "c"), E("c", "-", "y", "b"), E("b", "->", "x", "d")>>, {}),
  Query_(<<V("a", "A"), V("b", "B"), V("c", "A"), V("d", "B")>>, <<E("a", "->", "x", "b"), E("a", "->", "x", "c"), E("c", "->", "x", "d")>>, {})}

(* Queries of table joins, the vertices reached in another order. *)
TableJoins == {
  Query_(AAB, <<E("b", "->", "x", "c"), E("c", "->", "y", "a"), E("a", "-", "x", "b")>>, {}),
  Query_(<<V("a", "A"), V("b", "B")>>, <<E("a", "->", "x", "b")>>, {})}

(* Queries that are refused: by the parser, by the query graph, by the     *)
(* matching order, and for want of data.                                   *)
Refused == {
  Query_(AAB, <<E("a", "->", "x", "b"), E("b", "->", "x", "c"), Text("NOT", "a", "-", "y", "c")>>, {}),
  Query_(AAB, <<E("a", "->", "x", "b"), E("a", "-", "x", "b")>>, {}),
  Query_(ABC, <<E("a", "->", "x", "c"), Text("OPTIONAL", "a", "->", "x", "b")>>, {}),
  Query_(ABC, <<E("a", "->", "x", "b"), E("b", "->", "x", "c")>>, {})}

MCInputs ==
  {[query |-> q, rows |-> MCRows, blocks |-> MCBlocks, table |-> FALSE, inMemory |-> m]
     : q \in AttributeJoins \cup Refused, m \in BOOLEAN}
  \cup {[query |-> q, rows |-> MCRows, blocks |-> MCBlocks, table |-> TRUE, inMemory |-> TRUE] : q \in TableJoins}
=============================================================================

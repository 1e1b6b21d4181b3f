----------------------------- MODULE QueryGraph -----------------------------
(***************************************************************************)
(* From the query file to the query graph: simple_parser and query_graph.  *)
(*                                                                         *)
(* Abstracted: a name, a label and an arrow are tokens, not characters; a  *)
(* query vertex is always written well and vertices are numbered as in the *)
(* file; every label of the query is one of the data graph; the limits on  *)
(* the numbers of vertices, edges and edges at a vertex are not reached.   *)
(***************************************************************************)
EXTENDS Naturals, Sequences, FiniteSets

(* The text of an edge: a prefix or "", the name to the left, an arrow     *)
(* ("->", "<-" or "-") around a label, and the name to the right.          *)
Text(prefix, left, arrow, label, right) ==
  [prefix |-> prefix, left |-> left, arrow |-> arrow, label |-> label, right |-> right]

(* _edge_type_tokens, and the kind of an edge without one of them. *)
KindOf(prefix) ==
  CASE prefix = "OPTIONAL" -> "optional"
    [] prefix = "NOT" -> "negative"
    [] OTHER -> "regular"

(* The tokens between the characters " <->": both of "->" leave an empty   *)
(* one behind the label, "<-" before it.                                   *)
Tokens(text) ==
  (IF text.prefix = "" THEN <<>> ELSE <<text.prefix>>) \o
  CASE text.arrow = "->" -> <<text.left, text.label, "", text.right>>
    [] text.arrow = "<-" -> <<text.left, "", text.label, text.right>>
    [] text.arrow = "-" -> <<text.left, text.label, text.right>>

Edge(kind, from, label, to, dir, target) ==
  [kind |-> kind, from |-> from, label |-> label, to |-> to, dir |-> dir, target |-> target]

(* The tokens are none of an edge; its text is no text of an edge. *)
NoEdge == Edge("none", "", "", "", "", Text("", "", "", "", ""))

(* Mutant: a prefix is taken off texts of any length. *)
ReadingAnyPrefix(text) ==
  LET all == Tokens(text)
      prefix == IF all[1] \in {"OPTIONAL", "NOT"} THEN all[1] ELSE ""
      t == IF prefix # "" THEN Tail(all) ELSE all
  IN  CASE Len(t) = 4 /\ t[3] = "" ->
             Edge(KindOf(prefix), t[1], t[2], t[4], "directed", Text(prefix, t[1], "->", t[2], t[4]))
        [] Len(t) = 4 /\ t[3] # "" /\ t[2] = "" ->
             Edge(KindOf(prefix), t[4], t[3], t[1], "directed", Text(prefix, t[1], "<-", t[3], t[4]))
        [] Len(t) = 3 ->
             Edge(KindOf(prefix), t[1], t[2], t[3], "undirected", Text(prefix, t[1], "-", t[2], t[3]))
        [] OTHER -> NoEdge

(* _parse_query_edges_data, for one edge: what the tokens say, and the     *)
(* text they would be written as.                                          *)
Reading(text) ==
  LET all == Tokens(text)
      prefix == IF Len(all) = 5 /\ all[1] \in {"OPTIONAL", "NOT"} THEN all[1] ELSE ""
      t == IF Len(all) = 5 THEN Tail(all) ELSE all
  IN  CASE Len(t) = 4 /\ t[3] = "" ->
             Edge(KindOf(prefix), t[1], t[2], t[4], "directed", Text(prefix, t[1], "->", t[2], t[4]))
        [] Len(t) = 4 /\ t[3] # "" /\ t[2] = "" ->
             Edge(KindOf(prefix), t[4], t[3], t[1], "directed", Text(prefix, t[1], "<-", t[3], t[4]))
        [] Len(t) = 3 ->
             Edge(KindOf(prefix), t[1], t[2], t[3], "undirected", Text("", t[1], "-", t[2], t[3]))
        [] OTHER -> NoEdge

(* The text is accepted if it is what was understood. *)
Accepted(text) == Reading(text).target = text

(* A query: the name and label of each vertex, the texts of the edges, and *)
(* the pairs of names that constraints keep apart.                         *)
Parses(q) == \A i \in DOMAIN q.edges : Accepted(q.edges[i])

(* _vname_map *)
IdOf(q, name) == CHOOSE v \in DOMAIN q.vertices : q.vertices[v].name = name

Named(q, name) == \E v \in DOMAIN q.vertices : q.vertices[v].name = name

(* _edges_info, up to optional_edge_with_regular_vertex. *)
EdgesInfo(q) ==
  [i \in DOMAIN q.edges |->
     LET e == Reading(q.edges[i])
     IN  [v1 |-> IdOf(q, e.from), v2 |-> IdOf(q, e.to), label |-> e.label, kind |-> e.kind, dir |-> e.dir]]

Ends(e) == {e.v1, e.v2}

Degree(edges, v) == Cardinality({i \in DOMAIN edges : v \in Ends(edges[i])})

(* is_regular_vertex when edge i is looked at. *)
IsRegularBefore(edges, i, v) ==
  \E j \in 1 .. i - 1 : edges[j].kind # "optional" /\ v \in Ends(edges[j])

(* is_optional: the end of an optional edge that no other edge has         *)
(* reached, the first one if there are two.                                *)
IsOptionalVertex(edges, v) ==
  \E i \in DOMAIN edges :
    /\ edges[i].kind = "optional" /\ ~IsRegularBefore(edges, i, v)
    /\ v = edges[i].v1 \/ (v = edges[i].v2 /\ IsRegularBefore(edges, i, edges[i].v1))

(* optional_edge_with_regular_vertex *)
WithRegular(edges, i) ==
  edges[i].kind = "optional"
    /\ IsOptionalVertex(edges, edges[i].v1) # IsOptionalVertex(edges, edges[i].v2)

(* The assertions of _make_query_graph. *)
WellFormed(q) ==
  /\ q.vertices # <<>> /\ q.edges # <<>>
  /\ \A u, v \in DOMAIN q.vertices : q.vertices[u].name = q.vertices[v].name => u = v
  /\ \A i \in DOMAIN q.edges : \E e \in {Reading(q.edges[i])} :
       Named(q, e.from) /\ Named(q, e.to) /\ e.from # e.to
  /\ \E edges \in {EdgesInfo(q)} :
       /\ edges[1].kind # "optional"
       /\ \A v \in DOMAIN q.vertices : Degree(edges, v) # 0
       /\ \A i \in 2 .. Len(edges) :
            ~(edges[i].kind # "optional" /\ edges[i - 1].kind = "optional")
       /\ \A i \in DOMAIN edges : edges[i].kind = "optional" =>
            \E v \in Ends(edges[i]) : ~IsRegularBefore(edges, i, v)
       /\ \A i \in DOMAIN edges : edges[i].kind = "negative" =>
            \A v \in Ends(edges[i]) : Degree(edges, v) > 1
  /\ \A c \in q.constraints :
       /\ Named(q, c[1]) /\ Named(q, c[2]) /\ c[1] # c[2]
       /\ q.vertices[IdOf(q, c[1])].label = q.vertices[IdOf(q, c[2])].label
=============================================================================

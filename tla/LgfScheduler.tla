---------------------------- MODULE LgfScheduler ----------------------------
(***************************************************************************)
(* subgraph_matcher up to the plan: the query is parsed, its graph is      *)
(* built, the shards are loaded if the mode is in-memory, the matching     *)
(* order is made, and lgf_scheduler searches for all subtasks, ways to     *)
(* give every query edge a shard that may have matches in common with the  *)
(* others.  They are the leaves of the tree that SchedPlanTree starts      *)
(* from; the ranges of data vertices are not looked at again.              *)
(*                                                                         *)
(* The search is a recursion over the query edges.  It keeps a stack of    *)
(* ranges for every query vertex, pushed and popped for the edges at it.   *)
(*                                                                         *)
(* Abstracted: a data vertex is a grid row and an address in it; a shard   *)
(* is a leaf of the tree of a grid block, read along or against its edges; *)
(* the matching order is that of the query file (identity), which is all   *)
(* the builder makes.  A failed assertion ends the program; what a build   *)
(* without assertions does after it is not followed.                       *)
(***************************************************************************)
EXTENDS QueryGraph, SequencesExt, FiniteSetsExt

CONSTANTS
  Inputs,          \* queries, data graphs and modes to consider
  GridBlockWidth   \* the number of addresses in a grid row

Addresses == 0 .. GridBlockWidth - 1

Interval(range) == range.lo .. range.hi

(* An input: the query, the grid rows of each vertex label, the leaves of  *)
(* the grid blocks by edge label, row and column, and the modes.  A leaf   *)
(* has its ranges and edges, which lie in them; none is empty, and no two  *)
(* of a block overlap.  The kernel of a table join takes regular edges     *)
(* only (kernel_executor.cu:80).                                           *)
InputsAssumption ==
  /\ GridBlockWidth \in Nat \ {0}
  /\ \A i \in Inputs :
       /\ {i.table, i.inMemory} \subseteq BOOLEAN
       /\ i.query.vertices \in Seq(ToSet(i.query.vertices))
       /\ i.query.edges \in Seq(ToSet(i.query.edges))
       /\ \A v \in ToSet(i.query.vertices) : v.label \in DOMAIN i.rows
       /\ i.table => \A text \in ToSet(i.query.edges) : text.prefix = ""
       /\ \A l \in DOMAIN i.rows : i.rows[l] \subseteq Nat /\ i.rows[l] # {} /\ IsFiniteSet(i.rows[l])
       /\ \A b \in DOMAIN i.blocks : i.blocks[b] \in Seq(ToSet(i.blocks[b]))
       /\ \A b \in DOMAIN i.blocks : \A k \in DOMAIN i.blocks[b] : \E leaf \in {i.blocks[b][k]} :
            /\ leaf.edges # {} /\ leaf.edges \subseteq Interval(leaf.src) \X Interval(leaf.dst)
            /\ {leaf.src, leaf.dst} \subseteq [lo : Addresses, hi : Addresses]
            /\ \A j \in DOMAIN i.blocks[b] \ {k} : leaf.edges \cap i.blocks[b][j].edges = {}

ASSUME InputsAssumption

VARIABLES
  input,      \* config_t, fixed
  phase,      \* "parse", "graph", "init", "order", "search", "planned" or "failed"
  edges,      \* _edges_info
  optional,   \* is_optional of each vertex
  preloaded,  \* the shards in host memory before the query
  order,      \* _order
  edgeOrder,  \* _edge_order: an edge and the place in the order of the vertex it is chosen at
  path,       \* the candidates on the way from the root: leaf_ptr of the nodes, ranges
  valid,      \* the valid of the root and of the nodes on the way
  cursor,     \* the next candidate for the root and for each of them
  grid,       \* grid_id of each vertex
  ranges,     \* local_range of each vertex
  tree,       \* the nodes added to their parents, each as the shards from the root
  plan        \* the subtasks in the order they were found

queryVars == <<edges, optional>>
orderVars == <<order, edgeOrder>>
searchVars == <<path, valid, cursor, grid, ranges, tree, plan>>
vars == <<input, phase, queryVars, preloaded, orderVars, searchVars>>

Query == input.query
Vertices == DOMAIN Query.vertices

(* The elements of a set in an order that is given by its pairs. *)
Sorted(S, R) ==
  [i \in 1 .. Cardinality(S) |-> CHOOSE x \in S : Cardinality({y \in S : <<y, x>> \in R}) = i - 1]

-----------------------------------------------------------------------------
(* The data graph.                                                         *)

Whole == [lo |-> 0, hi |-> GridBlockWidth - 1]

RowsOf(v) == input.rows[Query.vertices[v].label]

(* stree(gbid): the switch nodes of a grid block in postorder. *)
Leaves(label, row, col) ==
  IF <<label, row, col>> \in DOMAIN input.blocks THEN input.blocks[<<label, row, col>>] ELSE <<>>

(* actual_src_range and actual_dst_range of the out-edges of a leaf. *)
RangeOf(addresses) == [lo |-> Min(addresses), hi |-> Max(addresses)]
ActualSrc(leaf) == RangeOf({p[1] : p \in leaf.edges})
ActualDst(leaf) == RangeOf({p[2] : p \in leaf.edges})

ShardId(label, row, col, k, way) == [label |-> label, row |-> row, col |-> col, leaf |-> k, way |-> way]

-----------------------------------------------------------------------------
(* subgraph_matcher::_init.                                                *)

ParseQuery ==
  /\ phase = "parse"
  /\ IF Parses(Query) THEN phase' = "graph" ELSE phase' = "failed"
  /\ UNCHANGED <<input, queryVars, preloaded, orderVars, searchVars>>

MakeQueryGraph ==
  /\ phase = "graph"
  /\ IF WellFormed(Query)
     THEN /\ edges' = EdgesInfo(Query)
          /\ optional' = [v \in Vertices |-> IsOptionalVertex(edges', v)]
          /\ phase' = "init"
     ELSE phase' = "failed" /\ UNCHANGED queryVars
  /\ UNCHANGED <<input, preloaded, orderVars, searchVars>>

(* Mutant: blocks are preloaded in one direction. *)
PreloadDirected(i) == RowsOf(edges[i].v1) \X RowsOf(edges[i].v2)

(* The grid blocks an edge is preloaded from; the direction looked at is   *)
(* that of the first edge.                                                 *)
PreloadBlocks(i) ==
  LET blocks == RowsOf(edges[i].v1) \X RowsOf(edges[i].v2)
  IN  blocks \cup IF edges[1].dir = "undirected" THEN {<<b[2], b[1]>> : b \in blocks} ELSE {}

(* The shards of all leaves of a block, in both directions. *)
ShardsOf(label, b) ==
  {ShardId(label, b[1], b[2], k, way) : k \in DOMAIN Leaves(label, b[1], b[2]), way \in {"out", "in"}}

(* device_manager::init, as far as shards are concerned. *)
InitDevices ==
  /\ phase = "init"
  /\ preloaded' = IF input.inMemory
                  THEN UNION {UNION {ShardsOf(edges[i].label, b) : b \in PreloadBlocks(i)} : i \in DOMAIN edges}
                  ELSE {}
  /\ phase' = "order"
  /\ UNCHANGED <<input, queryVars, orderVars, searchVars>>

-----------------------------------------------------------------------------
(* gen_matching_order and make_LGF_schedule, up to the search.             *)

(* _attribute_join_validation: with optional edges, optional vertices come *)
(* after all others.                                                       *)
OrderIsValid ==
  (\E i \in DOMAIN edges : edges[i].kind = "optional") =>
    /\ ~optional[1]
    /\ \A v \in Vertices \ {1} : optional[v - 1] => optional[v]

(* The vertex an edge is chosen at: the earlier end, but the optional one  *)
(* if only one is.                                                         *)
Owner(i) ==
  LET e == edges[i]
  IN  IF WithRegular(edges, i) THEN (IF ~optional[e.v1] THEN e.v2 ELSE e.v1)
      ELSE Min(Ends(e))

Opposite(i) == IF edges[i].v1 = Owner(i) THEN edges[i].v2 ELSE edges[i].v1

(* _adj_list, by the place of the opposite vertex. Edges with the same one *)
(* keep the order in which they were added, that of their index: std::sort *)
(* is an insertion sort for up to 16 elements, and no property relies on   *)
(* the order of such edges.                                                *)
AdjList(v) ==
  LET own == {i \in DOMAIN edges : Owner(i) = v}
      Before(i, j) == Opposite(i) < Opposite(j) \/ (Opposite(i) = Opposite(j) /\ i < j)
  IN  Sorted(own, {p \in own \X own : Before(p[1], p[2])})

(* _order of the builder, restricted to some vertices. *)
Ordered(vs) == Sorted(vs, {p \in vs \X vs : p[1] < p[2]})

(* _make_LFTJ_schedule: the vertices without edges of their own come after *)
(* the others, the optional ones after all that are not.                   *)
WithEdges(isOptional) == Ordered({v \in Vertices : optional[v] = isOptional /\ AdjList(v) # <<>>})
Postfix(isOptional) == Ordered({v \in Vertices : optional[v] = isOptional /\ AdjList(v) = <<>>})

(* Mutant: the order is left as it was given. *)
VertexOrderAsGiven == Ordered(Vertices)

VertexOrder == WithEdges(FALSE) \o Postfix(FALSE) \o WithEdges(TRUE) \o Postfix(TRUE)

PlaceOf(v, o) == CHOOSE p \in DOMAIN o : o[p] = v

EdgesAt(o) == FlattenSeq([p \in DOMAIN o |-> [k \in DOMAIN AdjList(o[p]) |-> [edge |-> AdjList(o[p])[k], at |-> p]]])

MakeLFTJSchedule ==
  /\ OrderIsValid
  /\ order' = VertexOrder
  /\ edgeOrder' = EdgesAt(order')

(* _make_MJ_schedule: the vertices in the order the edges reach them. *)
Reached(v) == Min({2 * i + (IF edges[i].v1 = v THEN 0 ELSE 1) : i \in {j \in DOMAIN edges : v \in Ends(edges[j])}})

MakeMJSchedule ==
  /\ Len(edges) > 1
  /\ order' = Sorted(Vertices, {p \in Vertices \X Vertices : Reached(p[1]) < Reached(p[2])})
  /\ edgeOrder' = [i \in DOMAIN edges |->
                     [edge |-> i, at |-> Min({PlaceOf(v, order') : v \in Ends(edges[i])})]]

MakeOrder ==
  /\ phase = "order"
  /\ IF input.table THEN MakeMJSchedule ELSE MakeLFTJSchedule
  /\ phase' = "search"
  /\ UNCHANGED <<input, queryVars, preloaded, searchVars>>

(* An assertion about the order does not hold. *)
OrderFails ==
  /\ phase = "order"
  /\ IF input.table THEN Len(edges) <= 1 ELSE ~OrderIsValid
  /\ phase' = "failed"
  /\ UNCHANGED <<input, queryVars, preloaded, orderVars, searchVars>>

-----------------------------------------------------------------------------
(* _iterate_sub_task.                                                      *)

Depth == Len(path)

(* A shard for an edge, with the grid rows, actual and largest ranges of   *)
(* the ends of the edge.                                                   *)
Candidate(row, col, shard, r1, r2, max1, max2) ==
  [row |-> row, col |-> col, shard |-> shard, r1 |-> r1, r2 |-> r2, max1 |-> max1, max2 |-> max2]

(* Mutant: optional edges are read like the others. *)
ReadForwardAlways(d) == order[edgeOrder[d].at] = edges[edgeOrder[d].edge].v1

(* The edge is read from its first end, unless it is chosen at the other;  *)
(* an optional edge with a regular vertex is chosen at its later end.      *)
ReadForward(d) ==
  LET i == edgeOrder[d].edge
  IN  (order[edgeOrder[d].at] = edges[i].v1) # WithRegular(edges, i)

(* The candidates of a grid block, *)
Along(d, e, row, col) ==
  [k \in DOMAIN Leaves(e.label, row, col) |->
     LET leaf == Leaves(e.label, row, col)[k]
     IN  Candidate(row, col, ShardId(e.label, row, col, k, IF ReadForward(d) THEN "out" ELSE "in"),
                   ActualSrc(leaf), ActualDst(leaf), leaf.src, leaf.dst)]

(* and, for an undirected edge, of the transposed one; the largest ranges  *)
(* are still those of the out-edges.                                       *)
Against(d, e, row, col) ==
  IF e.dir # "undirected" THEN <<>>
  ELSE [k \in DOMAIN Leaves(e.label, col, row) |->
          LET leaf == Leaves(e.label, col, row)[k]
          IN  Candidate(row, col, ShardId(e.label, col, row, k, IF ReadForward(d) THEN "in" ELSE "out"),
                        ActualDst(leaf), ActualSrc(leaf), leaf.src, leaf.dst)]

(* The rows and columns of an edge, in the order of the loops. *)
Blocks(e) ==
  LET blocks == RowsOf(e.v1) \X RowsOf(e.v2)
      Before(a, b) == a[1] < b[1] \/ (a[1] = b[1] /\ a[2] < b[2])
  IN  Sorted(blocks, {p \in blocks \X blocks : Before(p[1], p[2])})

Candidates(d) ==
  LET e == edges[edgeOrder[d].edge]
      blocks == Blocks(e)
  IN  FlattenSeq([b \in DOMAIN blocks |-> Along(d, e, blocks[b][1], blocks[b][2])
                                            \o Against(d, e, blocks[b][1], blocks[b][2])])

Top(v) == Last(ranges[v])

(* The range of the vertex was narrowed by an edge. *)
Narrowed(v) == Len(ranges[v]) # 1

Meet(a, b) == [lo |-> Max({a.lo, b.lo}), hi |-> Min({a.hi, b.hi})]

(* Mutant: ranges that touch in one address do not overlap. *)
OverlapStrictly(a, b) == Meet(a, b).lo < Meet(a, b).hi

(* is_overlap *)
Overlap(a, b) == Meet(a, b).lo <= Meet(a, b).hi

(* Mutant: grid rows are not compared. *)
AnyGrids(c, e) == TRUE

(* _chk_grid_range *)
SameGrids(c, e) ==
  /\ Narrowed(e.v1) => grid[e.v1] = c.row
  /\ Narrowed(e.v2) => grid[e.v2] = c.col

(* The condition of _push_range_rslt: for an optional edge its earlier end *)
(* counts, and for others than regular edges the largest ranges do.        *)
Fits(c, e) ==
  CASE e.kind = "optional" ->
         IF PlaceOf(e.v1, order) < PlaceOf(e.v2, order) THEN Overlap(Top(e.v1), c.max1)
         ELSE Overlap(Top(e.v2), c.max2)
    [] e.kind = "negative" -> Overlap(Top(e.v1), c.max1) /\ Overlap(Top(e.v2), c.max2)
    [] OTHER -> Overlap(Top(e.v1), c.r1) /\ Overlap(Top(e.v2), c.r2)

(* The loops are at a candidate for the next edge. *)
AtCandidate ==
  /\ phase = "search"
  /\ Depth < Len(edges)
  /\ cursor[Depth + 1] <= Len(Candidates(Depth + 1))

Current == Candidates(Depth + 1)[cursor[Depth + 1]]
CurrentEdge == edges[edgeOrder[Depth + 1].edge]

(* Mutant: a candidate is left out. *)
NextButOne(cursors) == [cursors EXCEPT ![Len(cursors)] = @ + 2]

NextCandidate(cursors) == [cursors EXCEPT ![Len(cursors)] = @ + 1]

(* Mutant: only another grid row makes a candidate unfit. *)
SkipOtherGrids ==
  /\ AtCandidate
  /\ \E c \in {Current} : ~SameGrids(c, CurrentEdge)
  /\ cursor' = NextCandidate(cursor)
  /\ UNCHANGED <<input, phase, queryVars, preloaded, orderVars, path, valid, grid, ranges, tree, plan>>

(* A candidate that cannot have a match in common with those on the way. *)
Skip ==
  /\ AtCandidate
  /\ \E c \in {Current} : ~(SameGrids(c, CurrentEdge) /\ Fits(c, CurrentEdge))
  /\ cursor' = NextCandidate(cursor)
  /\ UNCHANGED <<input, phase, queryVars, preloaded, orderVars, path, valid, grid, ranges, tree, plan>>

(* _push_range_rslt, and the recursion. *)
Enter ==
  /\ AtCandidate
  /\ \E c \in {Current} : \E e \in {CurrentEdge} :
       /\ SameGrids(c, e) /\ Fits(c, e)
       /\ grid' = [grid EXCEPT ![e.v1] = IF Narrowed(e.v1) THEN @ ELSE c.row,
                               ![e.v2] = IF Narrowed(e.v2) THEN @ ELSE c.col]
       /\ ranges' = [ranges EXCEPT ![e.v1] = Append(@, Meet(Top(e.v1), c.r1)),
                                   ![e.v2] = Append(@, Meet(Top(e.v2), c.r2))]
       /\ path' = Append(path, c)
  /\ valid' = Append(valid, FALSE)
  /\ cursor' = Append(cursor, 1)
  /\ UNCHANGED <<input, phase, queryVars, preloaded, orderVars, tree, plan>>

ShardsOn(way) == [d \in DOMAIN way |-> way[d].shard]

(* Back in the parent: the node is added to it if it is valid, and         *)
(* _pop_range_rslt.                                                        *)
Back(isValid) ==
  \E e \in {edges[edgeOrder[Depth].edge]} :
    /\ ranges' = [ranges EXCEPT ![e.v1] = Front(@), ![e.v2] = Front(@)]
    /\ path' = Front(path)
    /\ cursor' = NextCandidate(Front(cursor))
    /\ IF isValid
       THEN /\ valid' = [Front(valid) EXCEPT ![Depth] = TRUE]
            /\ tree' = tree \cup {ShardsOn(path)}
       ELSE valid' = Front(valid) /\ UNCHANGED tree
    /\ UNCHANGED <<input, phase, queryVars, preloaded, orderVars, grid>>

(* Every edge has a shard: a subtask. *)
Found ==
  /\ phase = "search"
  /\ Depth = Len(edges)
  /\ plan' = Append(plan, ShardsOn(path))
  /\ Back(TRUE)

Exhausted ==
  /\ phase = "search"
  /\ Depth < Len(edges)
  /\ cursor[Depth + 1] > Len(Candidates(Depth + 1))

(* Mutant: a node without children is kept. *)
ReturnAnyway ==
  /\ Exhausted
  /\ Depth > 0
  /\ Back(TRUE)
  /\ UNCHANGED plan

(* No candidate is left below a node. *)
Return ==
  /\ Exhausted
  /\ Depth > 0
  /\ Back(valid[Depth + 1])
  /\ UNCHANGED plan

(* No candidate is left below the root, which is asserted to be valid. *)
Finish ==
  /\ Exhausted
  /\ Depth = 0
  /\ phase' = IF valid[1] THEN "planned" ELSE "failed"
  /\ UNCHANGED <<input, queryVars, preloaded, orderVars, searchVars>>

-----------------------------------------------------------------------------

Init ==
  /\ input \in Inputs
  /\ phase = "parse"
  /\ edges = <<>> /\ optional = <<>>
  /\ preloaded = {}
  /\ order = <<>> /\ edgeOrder = <<>>
  /\ path = <<>>
  /\ valid = <<FALSE>>
  /\ cursor = <<1>>
  /\ grid = [v \in DOMAIN input.query.vertices |-> 0]
  /\ ranges = [v \in DOMAIN input.query.vertices |-> <<Whole>>]
  /\ tree = {}
  /\ plan = <<>>

Next ==
  \/ ParseQuery \/ MakeQueryGraph \/ InitDevices \/ MakeOrder \/ OrderFails
  \/ Skip \/ Enter \/ Found \/ Return \/ Finish

Spec == Init /\ [][Next]_vars

(* The planner is a single thread that is not held up by anything. *)
FairSpec == Spec /\ WF_vars(Next)

-----------------------------------------------------------------------------
(* What a shard holds, told from its leaf and not from the search.         *)

LeafOf(shard) == input.blocks[<<shard.label, shard.row, shard.col>>][shard.leaf]

(* A kernel looks a shard up by the data vertex of the earlier end.        *)
Earlier(e) == CHOOSE v \in Ends(e) : \A u \in Ends(e) : PlaceOf(v, order) <= PlaceOf(u, order)
Later(e) == CHOOSE v \in Ends(e) : v # Earlier(e)
From(shard, e) == IF shard.way = "out" THEN Earlier(e) ELSE Later(e)
To(shard, e) == IF shard.way = "out" THEN Later(e) ELSE Earlier(e)

(* The grid row and the addresses a shard has for an end of the edge. *)
RowAt(shard, e, v) == IF v = From(shard, e) THEN shard.row ELSE shard.col
AddressesAt(shard, e, v) ==
  {p[IF v = From(shard, e) THEN 1 ELSE 2] : p \in LeafOf(shard).edges}

(* A later edge of the search touches the ends of edge d. *)
TouchedLater(d) ==
  \E k \in d + 1 .. Len(edgeOrder) : Ends(edges[edgeOrder[k].edge]) \cap Ends(edges[edgeOrder[d].edge]) # {}

(* The shard can serve an assignment of data vertices for edge d: it has   *)
(* the data edge if there has to be one, and otherwise it is where the     *)
(* data edge would be.                                                     *)
Serves(shard, d, match) ==
  \E e \in {edges[edgeOrder[d].edge]} : \E u \in {From(shard, e)}, w \in {To(shard, e)} :
    /\ shard.label = e.label
    /\ e.dir = "directed" => u = e.v1
    /\ match[u].row = shard.row /\ match[w].row = shard.col
    /\ CASE e.kind = "regular" -> <<match[u].addr, match[w].addr>> \in LeafOf(shard).edges
         [] e.kind # "regular" /\ TouchedLater(d) ->
              /\ match[u].addr \in Interval(RangeOf(AddressesAt(shard, e, u)))
              /\ match[w].addr \in Interval(RangeOf(AddressesAt(shard, e, w)))
         [] OTHER -> /\ match[u].addr \in Interval(LeafOf(shard).src)
                     /\ match[w].addr \in Interval(LeafOf(shard).dst)

Shards == UNION {ShardsOf(b[1], <<b[2], b[3]>>) : b \in DOMAIN input.blocks}

(* Assignments of data vertices that use the rows of the right labels. *)
Matches ==
  {m \in [Vertices -> [row : UNION {RowsOf(v) : v \in Vertices}, addr : Addresses]] :
     \A v \in Vertices : m[v].row \in RowsOf(v)}

-----------------------------------------------------------------------------
(* The properties.                                                         *)

(* Every vertex keeps at least the whole grid row as its range, every node *)
(* on the way has a cursor that is at a candidate or behind the last, and  *)
(* a subtask has a shard for every edge.                                   *)
TypeOK ==
  /\ input \in Inputs
  /\ phase \in {"parse", "graph", "init", "order", "search", "planned", "failed"}
  /\ preloaded \subseteq Shards
  /\ {edgeOrder[d].edge : d \in DOMAIN edgeOrder} \subseteq DOMAIN edges
  /\ Len(valid) = Depth + 1 /\ Len(cursor) = Depth + 1
  /\ phase = "search" => \A d \in DOMAIN cursor :
       cursor[d] \in 1 .. (IF d > Len(edges) THEN 1 ELSE Len(Candidates(d)) + 1)
  /\ \A v \in Vertices : grid[v] \in Nat /\ ranges[v] # <<>>
  /\ \A k \in DOMAIN plan : Len(plan[k]) = Len(edges) /\ \A d \in DOMAIN plan[k] : plan[k][d] \in Shards

(* simple_parser lets no undirected edge pass that is negative or          *)
(* optional.  The planner depends on it: for the transposed grid block it  *)
(* passes the largest ranges of the two ends the wrong way round, and they *)
(* are only used for those edges.                                          *)
UndirectedAreRegular ==
  \A i \in DOMAIN edges : edges[i].dir = "undirected" => edges[i].kind = "regular"

(* "DFS traverse for find all sub-task": whatever data vertices the query  *)
(* vertices are given, each way to serve its edges by shards is one        *)
(* subtask, so a match is neither lost nor counted twice.  It is less for  *)
(* a negative or optional edge that a later edge touches: the search goes  *)
(* on with the actual ranges of its shard, and only assignments within     *)
(* them are sure to be planned.                                            *)
EveryMatchPlannedOnce ==
  phase = "planned" =>
    \A m \in Matches : \E served \in {[d \in DOMAIN edgeOrder |-> {s \in Shards : Serves(s, d, m)}]} :
      \A way \in {w \in [DOMAIN edgeOrder -> UNION {served[d] : d \in DOMAIN served}] :
                    \A d \in DOMAIN w : w[d] \in served[d]} :
        Cardinality({k \in DOMAIN plan : plan[k] = way}) = 1

(* The tree given to sched_plan_tree has the subtasks as its leaves and no *)
(* dead ends, each shard once below its parent: what that module assumes   *)
(* of the tree it is given.                                                *)
NoDeadEnds ==
  phase = "planned" =>
    /\ tree = {SubSeq(plan[k], 1, d) : k \in DOMAIN plan, d \in DOMAIN edgeOrder}
    /\ \A j, k \in DOMAIN plan : plan[j] = plan[k] => j = k

(* However often the search has gone back, what it keeps of a vertex is    *)
(* what the shards on the way say of it: one range for each that has the   *)
(* vertex, the last the intersection, and all in one grid row, the one     *)
(* remembered.  (The row is not reset by _pop_range_rslt.)                 *)
RangesOfThePath ==
  phase = "search" =>
    \A v \in Vertices : \E at \in {{d \in DOMAIN path : v \in Ends(edges[edgeOrder[d].edge])}} :
      /\ Len(ranges[v]) = 1 + Cardinality(at)
      /\ Interval(Top(v)) = {a \in Addresses : \A d \in at :
           a \in Interval(RangeOf(AddressesAt(path[d].shard, edges[edgeOrder[d].edge], v)))}
      /\ \A d \in at : RowAt(path[d].shard, edges[edgeOrder[d].edge], v) = grid[v]

(* Every edge is chosen once, the vertices of an attribute join in the     *)
(* order "(regular intersection vertices) + (regular                       *)
(* postfix_order_vertices) + (post intersection vertices) + (post          *)
(* postfix_order_vertices)", and no edge before an edge of an earlier      *)
(* vertex.  The vertices that have no edges of their own thus end the      *)
(* regular and the optional part, as the kernels expect.                   *)
LevelsFollowOrder ==
  phase \in {"search", "planned"} =>
    /\ \A v \in Vertices : Cardinality({p \in DOMAIN order : order[p] = v}) = 1
    /\ \A i \in DOMAIN edges : Cardinality({d \in DOMAIN edgeOrder : edgeOrder[d].edge = i}) = 1
    /\ ~input.table =>
         /\ \A d \in 2 .. Len(edgeOrder) : edgeOrder[d - 1].at <= edgeOrder[d].at
         /\ \A p \in 2 .. Len(order) :
              LET Chosen(q) == \E d \in DOMAIN edgeOrder : edgeOrder[d].at = q
              IN  /\ optional[order[p - 1]] => optional[order[p]]
                  /\ Chosen(p) /\ ~Chosen(p - 1) => optional[order[p]] /\ ~optional[order[p - 1]]

(* In in-memory mode every shard of a subtask was loaded before the query. *)
(* The preload goes by the direction of the first edge, so this holds when *)
(* that edge is undirected or each undirected edge joins vertices of one   *)
(* label.                                                                  *)
PlanIsLoaded ==
  /\ input.inMemory
  /\ phase = "planned"
  /\ \/ edges[1].dir = "undirected"
     \/ \A i \in DOMAIN edges : edges[i].dir = "undirected" => RowsOf(edges[i].v1) = RowsOf(edges[i].v2)
  => \A k \in DOMAIN plan : \A d \in DOMAIN plan[k] : plan[k][d] \in preloaded

(* The planner comes to an end: with a plan, or by a failed assertion. *)
Terminates == <>(phase \in {"planned", "failed"})

=============================================================================

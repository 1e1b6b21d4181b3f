------------------------------ MODULE JoinWalk ------------------------------
(***************************************************************************)
(* What the join kernels have in common: the walk of a block over the tree *)
(* of subtasks.                                                            *)
(*                                                                         *)
(* A leapfrog triejoin kernel matches the query vertices in order, the     *)
(* table join kernel the query edges; a level of the walk is a vertex or   *)
(* an edge.  At each level the kernel fills a buffer with candidates and   *)
(* goes down with every one of them.  The subtasks of the task form a      *)
(* tree: below one partial match there may be several groups of shards for *)
(* the next level, and the buffer is replayed for each of them.            *)
(*                                                                         *)
(* Abstracted: query vertices are numbered by their place in the matching  *)
(* order, from 1; a list is a set, and its order is that of its elements;  *)
(* a node of the scheduling tree is the set of the subtasks below it,      *)
(* which is what SchedPlanTree shows about the kernel's tree; blocks share *)
(* nothing but the counter, to which they add atomically, and are run one  *)
(* after the other; the threads of a block run in step, but the place of a *)
(* vertex in the buffer is a race between them.                            *)
(***************************************************************************)
EXTENDS Naturals, Sequences, FiniteSets, FiniteSetsExt

CONSTANTS
  Tasks,   \* the kernel tasks to consider
  Null     \* NULL_VALUE, larger than any data vertex

(* A task: the kind of join, the number of query vertices, the query edges *)
(* in edge order (earlier and later vertex, and kind) with their data      *)
(* edges, the earlier vertices each vertex must differ from, the subtasks, *)
(* each a range of data vertices for every query vertex, the size of the   *)
(* buffer, and the number of blocks the work is divided for and of those   *)
(* launched.  Every vertex has a list to take its candidates from: without *)
(* one the kernel reads the first of no lists.  A table join of one edge   *)
(* is not scheduled (MakeMJSchedule of LgfScheduler).                      *)
TasksAssumption ==
  \A k \in Tasks :
    /\ k.join \in {"LFTJ", "TABLE"}
    /\ k.n \in Nat \ {0, 1}
    /\ k.edges \in Seq([lo : 1 .. k.n, hi : 1 .. k.n, kind : {"regular", "negative", "optional"},
                        data : SUBSET ((0 .. Null - 1) \X (0 .. Null - 1))])
    /\ \A e \in DOMAIN k.edges : k.edges[e].lo < k.edges[e].hi
    /\ k.join = "TABLE" => Len(k.edges) > 1
    /\ \A v \in 1 .. k.n : \E e \in DOMAIN k.edges :
         \/ k.edges[e].kind # "negative" /\ k.edges[e].hi = v
         \/ k.edges[e].kind = "regular" /\ k.edges[e].lo = v
    /\ k.apart \in [1 .. k.n -> SUBSET (1 .. k.n)]
    /\ \A v \in 1 .. k.n : k.apart[v] \subseteq 1 .. v - 1
    /\ k.subtasks \in Seq([1 .. k.n -> SUBSET (0 .. Null - 1)]) /\ k.subtasks # <<>>
    /\ {k.threshold, k.maxBlocks, k.blocks} \subseteq Nat \ {0}
    /\ k.blocks >= k.maxBlocks

ASSUME NullAssumption == Null \in Nat
ASSUME TasksAssumption

VARIABLES
  task,       \* the task, fixed
  block,      \* the block at work
  root,       \* st_idx: the group of the first level it is at
  pc,         \* "root", "match" or "done"
  node,       \* tree_node_id, as the set of subtasks below the node
  dep,        \* dep
  subtask,    \* subtask_id; shard_idxs is that subtask's list
  child,      \* sched_tree_child
  finish,     \* is_finish
  resume,     \* state = RESUME
  rslt,       \* rslt, the partial match
  arr,        \* for each vertex the windows of the lists it intersects
  pivot,      \* shard_offset_arr: the edge of the shortest of them
  rows,       \* for each edge the sources that follow the one at work
  rest,       \* what is left of the list that is read into the buffer
  im,         \* im_data, as filled; tmp_im_size is its size
  todo,       \* the part of it up to im_size
  empty,      \* is_null_value: those of the vertex above it has no candidate for yet
  count,      \* thread_local_counter
  counter,    \* kbuf->counter
  left        \* history: the matches not counted yet

treeVars == <<node, subtask, child>>
listVars == <<arr, pivot, rows, rest, im>>
outVars == <<count, counter, left>>
vars == <<task, block, root, pc, dep, finish, resume, rslt, todo, empty, treeVars, listVars, outVars>>

IsTable == task.join = "TABLE"

Edges == DOMAIN task.edges
Edge(e) == task.edges[e]

IsOptional(v) == \E e \in Edges : Edge(e).kind = "optional" /\ Edge(e).hi = v

(* The levels of the walk. *)
Levels == IF IsTable THEN Len(task.edges) ELSE task.n

PerLevel(x) == [d \in 1 .. Levels |-> x]

PerVertex(x) == [v \in 1 .. task.n |-> x]

-----------------------------------------------------------------------------
(* The tree of subtasks.                                                   *)

(* The shard of edge e in subtask t. *)
Shard(e, t) ==
  {p \in Edge(e).data : /\ p[1] \in task.subtasks[t][Edge(e).lo]
                        /\ p[2] \in task.subtasks[t][Edge(e).hi]}

(* The level at which the shard of an edge is chosen: that of the edge, or *)
(* its earlier vertex, or the optional one if the other is not.            *)
Level(e) ==
  IF IsTable THEN e
  ELSE IF Edge(e).kind = "optional" /\ ~IsOptional(Edge(e).lo) THEN Edge(e).hi
  ELSE Edge(e).lo

(* Two subtasks use the same shards for the edges of the first d levels. *)
SameUpTo(s, t, d) ==
  \A e \in Edges : Level(e) <= d =>
    \A v \in {Edge(e).lo, Edge(e).hi} : task.subtasks[s][v] = task.subtasks[t][v]

NodeOf(t, d) == {s \in DOMAIN task.subtasks : SameUpTo(s, t, d)}

(* The nodes below node s, which are those of level d. *)
Groups(s, d) == {NodeOf(t, d) : t \in s}

(* sched_tree_st_id: the subtask whose list stands for a node. *)
FirstOf(s) == Min(s)

(* The i-th of a set of nodes, from 0. *)
Nth(groups, i) ==
  CHOOSE g \in groups : Cardinality({h \in groups : FirstOf(h) < FirstOf(g)}) = i

Roots == Groups(DOMAIN task.subtasks, 1)

Below == Groups(node, dep + 1)

Parent == NodeOf(FirstOf(node), dep - 1)

-----------------------------------------------------------------------------
(* Lists.                                                                  *)

(* A data edge is stored before another. *)
Stored(p, q) == p[1] < q[1] \/ (p[1] = q[1] /\ p[2] < q[2])

(* The end point of the i-th data edge of a shard, from 0; 0 beyond them. *)
Colv(shard, i) ==
  LET at == {p \in shard : Cardinality({q \in shard : Stored(q, p)}) = i}
  IN  IF at = {} THEN 0 ELSE (CHOOSE p \in at : TRUE)[2]

(* adj_list_vid: the neighbours of u, and the first element of the window. *)
(* That of a vertex without neighbours is empty and starts at those of the *)
(* next vertex, or, for a vertex out of range, at the second data edge.    *)
AdjList(shard, u) ==
  [list |-> {p[2] : p \in {q \in shard : q[1] = u}},
   first |-> IF \E p, q \in shard : p[1] <= u /\ u <= q[1]
             THEN Colv(shard, Cardinality({p \in shard : p[1] < u}))
             ELSE Colv(shard, 1)]

(* The source vertices of a shard. *)
Rows(shard) ==
  LET sources == {p[1] : p \in shard}
  IN  [list |-> sources, first |-> IF sources = {} THEN 0 ELSE Min(sources)]

Rank(v, list) == Cardinality({w \in list : w < v})

(* Mutant: one element more is read. *)
ChunkOneMore(list) == {v \in list : Rank(v, list) <= task.threshold}

(* The part of a list that is read into the buffer at once. *)
Chunk(list) == {v \in list : Rank(v, list) < task.threshold}

-----------------------------------------------------------------------------
(* What is to be counted.                                                  *)

DataVertices == UNION {s[v] : s \in {task.subtasks[t] : t \in DOMAIN task.subtasks}, v \in 1 .. task.n}

(* The part of a match that vertices 1 to d make up.  A null value is no   *)
(* vertex, and is not compared.                                            *)
Agrees(m, d) ==
  /\ \A e \in Edges : Edge(e).hi <= d /\ ~(Edge(e).kind = "optional" /\ m[Edge(e).hi] = Null) =>
       (<<m[Edge(e).lo], m[Edge(e).hi]>> \in Edge(e).data) = (Edge(e).kind # "negative")
  /\ \A v \in 1 .. d : m[v] # Null => \A c \in task.apart[v] : m[v] # m[c]

InRange(m, d, t) == \A v \in 1 .. d : m[v] \in task.subtasks[t][v] \cup {Null}

(* The data vertices that extend the first d - 1 vertices of m. *)
Extensions(m, d) ==
  {v \in DataVertices : \E x \in {[m EXCEPT ![d] = v]} :
     Agrees(x, d) /\ \E t \in DOMAIN task.subtasks : InRange(x, d, t)}

(* The matches of the task, by definition: optional vertices are added one *)
(* by one as in an outer join.                                             *)
Matches ==
  LET extended(m, d) == IF IsOptional(d) /\ Extensions(m, d) = {} THEN {Null} ELSE Extensions(m, d)
      upTo[d \in 0 .. task.n] ==
        IF d = 0 THEN {PerVertex(0)}
        ELSE UNION {{[m EXCEPT ![d] = v] : v \in extended(m, d)} : m \in upTo[d - 1]}
  IN  upTo[task.n]

-----------------------------------------------------------------------------
(* The walk.                                                               *)

Init ==
  /\ task \in Tasks
  /\ block = 1
  /\ root = 1
  /\ pc = "root"
  /\ node = {}
  /\ dep = 1
  /\ subtask = 0
  /\ child = PerLevel(0)
  /\ finish = PerLevel(TRUE)
  /\ resume = PerLevel(FALSE)
  /\ rslt = PerVertex(0)
  /\ arr = PerLevel(<<>>)
  /\ pivot = PerLevel(0)
  /\ rows = PerLevel({})
  /\ rest = PerLevel({})
  /\ im = PerLevel({})
  /\ todo = PerLevel({})
  /\ empty = PerLevel({})
  /\ count = 0
  /\ counter = 0
  /\ left = Matches

(* The next group of the first level. *)
BeginRoot ==
  /\ pc = "root"
  /\ root <= Cardinality(Roots)
  /\ node' = Nth(Roots, root - 1)
  /\ subtask' = FirstOf(node')
  /\ pc' = "match"
  /\ UNCHANGED <<task, block, root, dep, child, finish, resume, rslt, todo, empty, listVars, outVars>>

AtLast == pc = "match" /\ dep = Levels

(* The buffer is to be filled, for the first time or again. *)
AtInitial == pc = "match" /\ dep < Levels /\ finish[dep] /\ ~resume[dep]

AtResume == pc = "match" /\ dep < Levels /\ finish[dep] /\ resume[dep]

(* The last level is left with the matches m. *)
CountAndLeave(n, m) ==
  /\ count' = count + n
  /\ left' = left \ m
  /\ dep' = dep - 1
  /\ node' = Parent
  /\ UNCHANGED <<task, block, root, pc, subtask, child, finish, resume, todo, listVars, counter>>

(* The query vertex that is matched at level d. *)
Target(d) == IF IsTable THEN Edge(d).hi ELSE d

(* A vertex is taken from the end of the buffer, and matched. *)
Descend ==
  /\ pc = "match"
  /\ dep < Levels
  /\ ~finish[dep]
  /\ \E v \in todo[dep] :
       /\ rslt' = [rslt EXCEPT ![Target(dep)] = v]
       /\ todo' = [todo EXCEPT ![dep] = @ \ {v}]
  /\ node' = Nth(Below, child[dep])
  /\ dep' = dep + 1
  /\ UNCHANGED <<task, block, root, pc, subtask, child, finish, resume, empty, listVars, outVars>>

NextChild ==
  IF Cardinality(Below) > 1 THEN (child[dep] + 1) % Cardinality(Below) ELSE child[dep]

Exhausted == pc = "match" /\ dep < Levels /\ ~finish[dep] /\ todo[dep] = {}

(* Mutant: the buffer is not replayed. *)
NextGroupNoReplay ==
  /\ Exhausted
  /\ NextChild # 0
  /\ child' = [child EXCEPT ![dep] = NextChild]
  /\ subtask' = FirstOf(Nth(Below, NextChild))
  /\ UNCHANGED <<task, block, root, pc, node, dep, finish, resume, rslt, todo, empty, listVars, outVars>>

(* Mutant: the shards of the group are not loaded. *)
NextGroupSameShards ==
  /\ Exhausted
  /\ NextChild # 0
  /\ child' = [child EXCEPT ![dep] = NextChild]
  /\ todo' = [todo EXCEPT ![dep] = im[dep]]
  /\ UNCHANGED <<task, block, root, pc, node, dep, subtask, finish, resume, rslt, empty, listVars, outVars>>

(* The buffer is empty and there are more groups below the node: it is     *)
(* replayed for the next of them.                                          *)
NextGroup ==
  /\ Exhausted
  /\ NextChild # 0
  /\ child' = [child EXCEPT ![dep] = NextChild]
  /\ subtask' = FirstOf(Nth(Below, NextChild))
  /\ todo' = [todo EXCEPT ![dep] = im[dep]]
  /\ UNCHANGED <<task, block, root, pc, node, dep, finish, resume, rslt, empty, listVars, outVars>>

(* Mutant: the shards of the first group are not loaded again. *)
AllGroupsSameShards ==
  /\ Exhausted
  /\ NextChild = 0
  /\ child' = [child EXCEPT ![dep] = 0]
  /\ finish' = [finish EXCEPT ![dep] = TRUE]
  /\ IF Cardinality(Below) > 1 THEN todo' = [todo EXCEPT ![dep] = im[dep]] ELSE UNCHANGED todo
  /\ UNCHANGED <<task, block, subtask, resume, rslt, empty, listVars, outVars>>

(* All groups below the node are done, and the shards of the first of them *)
(* are those of the list again.                                            *)
AllGroups ==
  /\ Exhausted
  /\ NextChild = 0
  /\ child' = [child EXCEPT ![dep] = 0]
  /\ finish' = [finish EXCEPT ![dep] = TRUE]
  /\ IF Cardinality(Below) > 1
     THEN subtask' = FirstOf(Nth(Below, 0)) /\ todo' = [todo EXCEPT ![dep] = im[dep]]
     ELSE UNCHANGED <<subtask, todo>>
  /\ UNCHANGED <<task, block, resume, rslt, empty, listVars, outVars>>

(* There is more for the buffer. *)
Refill ==
  /\ AllGroups
  /\ resume[dep]
  /\ UNCHANGED <<root, pc, node, dep>>

(* Mutant: a level without candidates is not left. *)
LeaveNotEmpty ==
  /\ AllGroups
  /\ im[dep] # {}
  /\ ~resume[dep] /\ dep # 1
  /\ node' = Parent
  /\ dep' = dep - 1
  /\ UNCHANGED <<root, pc>>

(* There is no more: back to the level above, *)
Leave ==
  /\ AllGroups
  /\ ~resume[dep] /\ dep # 1
  /\ node' = Parent
  /\ dep' = dep - 1
  /\ UNCHANGED <<root, pc>>

(* or, from the first level, on to its next group. *)
EndRoot ==
  /\ AllGroups
  /\ ~resume[dep] /\ dep = 1
  /\ root' = root + 1
  /\ pc' = "root"
  /\ UNCHANGED <<node, dep>>

(* A block is done: it adds its counter; the next one starts afresh. *)
EndBlock ==
  /\ pc = "root"
  /\ root > Cardinality(Roots)
  /\ counter' = counter + count
  /\ IF block = task.blocks
     THEN pc' = "done" /\ UNCHANGED <<block, root>>
     ELSE block' = block + 1 /\ root' = 1 /\ UNCHANGED pc
  /\ count' = 0
  /\ node' = {} /\ subtask' = 0 /\ dep' = 1
  /\ child' = PerLevel(0) /\ finish' = PerLevel(TRUE) /\ resume' = PerLevel(FALSE)
  /\ rslt' = PerVertex(0) /\ arr' = PerLevel(<<>>) /\ pivot' = PerLevel(0) /\ rows' = PerLevel({})
  /\ rest' = PerLevel({}) /\ im' = PerLevel({}) /\ todo' = PerLevel({})
  /\ empty' = PerLevel({})
  /\ UNCHANGED <<task, left>>

Walk == BeginRoot \/ Descend \/ NextGroup \/ Refill \/ Leave \/ EndRoot \/ EndBlock

=============================================================================

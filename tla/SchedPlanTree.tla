--------------------------- MODULE SchedPlanTree ----------------------------
(***************************************************************************)
(* sched_plan_tree: the scheduling tree of a query and the loop of         *)
(* device_manager that cuts it into kernel tasks.                          *)
(*                                                                         *)
(* Level e of the tree chooses the shard for the e-th query edge; a path   *)
(* from the root to a leaf is a subtask, one shard per edge.  The tree is  *)
(* scanned in preorder.  Consecutive nodes of one query vertex form a grid *)
(* group; whole groups are added to a task until the device memory or one  *)
(* of the tables of the kernel is nearly full.  The group that did not fit *)
(* opens the next task.  Last, the tree over the query VERTICES that the   *)
(* kernel follows is rebuilt from the groups of the task.                  *)
(*                                                                         *)
(* Abstracted: the tree is given by its leaves, each the sequence of its   *)
(* shards, and children are visited by increasing shard number.  Vertices  *)
(* are numbered by their place in the matching order.  The release build   *)
(* (NDEBUG) is modelled: assertions have no effect.                        *)
(***************************************************************************)
EXTENDS Naturals, Sequences, FiniteSets, SequencesExt, FiniteSetsExt

CONSTANTS
  Shards,              \* unique ids of the shards
  Size,                \* in_memory_size of each shard
  SizeModulus,         \* 2^32: the width of required_size
  MaxNumTreeNodes,     \* device_defines: bound of the kernel's tree
  Configs              \* the values of _cfg, with the capacity, to consider

ASSUME ShardsAssumption == Shards \subseteq Nat /\ IsFiniteSet(Shards)
ASSUME SizeAssumption == Size \in [Shards -> Nat \ {0}]
ASSUME LimitsAssumption ==
  /\ SizeModulus \in Nat \ {0}
  /\ MaxNumTreeNodes \in Nat

(* A configuration: the leaves of the tree, the vertex level of every edge *)
(* level, the number of vertices, of optional vertices, and of regular and *)
(* optional vertices matched last without edges of their own, the mode,    *)
(* the device memory left for shards, and MaxNumShardPerIter.              *)
ConfigsAssumption ==
  \A c \in Configs :
    /\ c.vlevel \in Seq(Nat \ {0}) /\ c.vlevel # <<>>
    /\ c.leaves # {} /\ c.leaves \subseteq [1 .. Len(c.vlevel) -> Shards]
    /\ {c.vertices, c.optional, c.postfix, c.optionalPostfix} \subseteq Nat
    /\ {c.capacity, c.maxShards} \subseteq Nat
    /\ c.tableJoin \in BOOLEAN
ASSUME ConfigsAssumption

(* The vertices without edges of their own that follow vertex level v. *)
FollowersOf(c, v) ==
  IF c.tableJoin THEN 0
  ELSE (IF v = c.vertices - c.optional - c.postfix THEN c.postfix ELSE 0)
       + (IF v = c.vertices - c.optionalPostfix THEN c.optionalPostfix ELSE 0)

(* The edges are scheduled vertex by vertex: an edge level belongs to the  *)
(* vertex of the one before it, or to the next vertex that is no follower, *)
(* and the last vertex with edges and its followers are the last.  In a    *)
(* table join every edge level stands for itself.  A query without regular *)
(* edges is left out: its first vertex has no edges.                       *)
LevelsAssumption ==
  \A c \in Configs :
    LET next(v) == v + FollowersOf(c, v) + 1
    IN  /\ c.optional + c.postfix <= c.vertices /\ c.optionalPostfix <= c.optional
        /\ c.vlevel[1] = 1
        /\ \A e \in 1 .. Len(c.vlevel) - 1 :
             \/ c.vlevel[e + 1] = c.vlevel[e] /\ ~c.tableJoin
             \/ c.vlevel[e + 1] = next(c.vlevel[e])
        /\ next(Last(c.vlevel)) = 1 + (IF c.tableJoin THEN Len(c.vlevel) ELSE c.vertices)
ASSUME LevelsAssumption

VARIABLES
  cfg,        \* _cfg and capacity, fixed for the query
  pc,         \* where the loop of device_manager is
  stk,        \* _tracking_stk
  tmp,        \* _tmp_group_info, the group being collected
  group,      \* *_grid_group_ptr, or NoGroup
  initial,    \* first_task
  used,       \* used
  total,      \* total_sleaf_ptrs of the task; its elements are _cache
  subtasks,   \* subtasks of the task
  infos,      \* _tree_info_vec, less the entries already in the tree
  tree,       \* the kernel's tree, as far as it is rebuilt
  tasks       \* _task_queue: the tasks made so far

taskVars == <<used, total, subtasks, infos, tree>>
scanVars == <<stk, tmp, group>>
vars == <<cfg, pc, scanVars, initial, taskVars, tasks>>

MaxLevel == Len(cfg.vlevel)

NoGroup == [v |-> 0, min |-> 0, max |-> 0, st |-> <<>>]

Root == [shard |-> 0, idx |-> 1]

(* The tree of the kernel: its nodes in the order of their ids, each with  *)
(* the node above it (0 for the root), its depth and its subtask; the      *)
(* stack; and tree_root_id, the nodes the kernel starts from.              *)
EmptyTree == [nodes |-> <<>>, stk |-> <<[id |-> 0, dep |-> 0]>>, roots |-> <<>>]

Init ==
  /\ cfg \in Configs
  /\ pc = "begin"
  /\ stk = <<Root>>
  /\ tmp = NoGroup
  /\ group = NoGroup
  /\ initial = TRUE
  /\ used = 0
  /\ total = <<>>
  /\ subtasks = <<>>
  /\ infos = <<>>
  /\ tree = EmptyTree
  /\ tasks = <<>>

-----------------------------------------------------------------------------
(* The scan.                                                               *)

(* The path of the node on top of the d lowest entries of the stack. *)
Path(s, d) == [i \in 1 .. d - 1 |-> s[i + 1].shard]

(* The children of the node at the end of a path, and the k-th of them. *)
Children(path) ==
  IF Len(path) = MaxLevel THEN {}
  ELSE {leaf[Len(path) + 1] : leaf \in {l \in cfg.leaves : IsPrefix(path, l)}}
Child(path, k) == CHOOSE s \in Children(path) : Cardinality({r \in Children(path) : r < s}) = k - 1

(* Mutant: the last child is not visited. *)
UnfinishedButOne == {d \in DOMAIN stk : stk[d].idx < Cardinality(Children(Path(stk, d)))}

(* The entries with a child still to visit; those above the last of them   *)
(* are popped.                                                             *)
Unfinished == {d \in DOMAIN stk : stk[d].idx <= Cardinality(Children(Path(stk, d)))}

Deepest(d) == \A e \in Unfinished : e <= d

(* _next_node, when there is one: the next child of the entry at depth d. *)
NextStack(d) ==
  Append([SubSeq(stk, 1, d) EXCEPT ![d].idx = @ + 1],
         [shard |-> Child(Path(stk, d), stk[d].idx), idx |-> 1])

(* A group of the one node on top of stack s. *)
SingleGroup(s) ==
  LET level == Len(s) - 1
  IN  [v |-> cfg.vlevel[level], min |-> level, max |-> level,
       st |-> IF level = MaxLevel THEN Path(s, Len(s)) ELSE <<>>]

(* The node on top of stack s does not continue the group tmp. *)
OpensGroup(s) ==
  LET level == Len(s) - 1
  IN  level = 1 \/ tmp.v # cfg.vlevel[level] \/ tmp.max >= level \/ cfg.tableJoin

(* One round of pop_grid_group.  A node that opens a new group returns the *)
(* previous one, if any.                                                   *)
ScanNode ==
  /\ pc = "scan"
  /\ stk # <<>>
  /\ \E d \in Unfinished : Deepest(d) /\ stk' = NextStack(d)
  /\ tmp' = IF OpensGroup(stk') THEN SingleGroup(stk')
            ELSE [SingleGroup(stk') EXCEPT !.min = tmp.min]
  /\ IF OpensGroup(stk') /\ tmp.v # 0
     THEN group' = tmp /\ pc' = "decide"
     ELSE UNCHANGED <<group, pc>>
  /\ UNCHANGED <<cfg, initial, taskVars, tasks>>

(* The last node was visited: the group collected so far is returned. *)
ScanLast ==
  /\ pc = "scan"
  /\ stk # <<>>
  /\ Unfinished = {}
  /\ stk' = <<>>
  /\ group' = tmp
  /\ pc' = "decide"
  /\ UNCHANGED <<cfg, tmp, initial, taskVars, tasks>>

(* pop_grid_group on an empty stack returns false and the task is closed. *)
ScanOver ==
  /\ pc = "scan"
  /\ stk = <<>>
  /\ group' = NoGroup
  /\ pc' = "close"
  /\ UNCHANGED <<cfg, stk, tmp, initial, taskVars, tasks>>

-----------------------------------------------------------------------------
(* pop_single_kernel_task.                                                 *)

Cached(s) == Contains(total, s)

(* Mutant: the cache is looked up once for the subtask, by its first edge. *)
AddShardsUnlessFirst(ptrs, st) ==
  IF st = <<>> \/ Contains(ptrs, Head(st)) THEN ptrs
  ELSE FoldLeft(LAMBDA acc, s : IF Contains(acc, s) THEN acc ELSE Append(acc, s), ptrs, st)

(* The shards of subtask st appended to ptrs, without those it holds. *)
AddShards(ptrs, st) ==
  FoldLeft(LAMBDA acc, s : IF Contains(acc, s) THEN acc ELSE Append(acc, s), ptrs, st)

SizeOf(shards) == FoldLeft(LAMBDA acc, s : acc + Size[s], 0, shards)

(* required_size counts a shard once for every level it is new at. *)
RequiredSize(st) ==
  FoldLeft(LAMBDA acc, s : IF Cached(s) THEN acc ELSE (acc + Size[s]) % SizeModulus, 0, st)

SubtasksOf(g) == IF g.st = <<>> THEN <<>> ELSE <<g.st>>

(* A task opens with the group that did not fit the previous one: a tree   *)
(* entry for every vertex level down to it, and its shards.                *)
OpenTask ==
  /\ pc = "begin"
  /\ initial \/ group # NoGroup
  /\ total' = IF initial THEN <<>> ELSE AddShards(<<>>, group.st)
  /\ used' = SizeOf(total')
  /\ subtasks' = IF initial THEN <<>> ELSE SubtasksOf(group)
  /\ infos' = IF initial THEN <<>>
              ELSE [i \in 1 .. cfg.vlevel[group.max] |-> [v |-> i, st |-> 1]]
  /\ tree' = EmptyTree
  /\ pc' = "scan"
  /\ UNCHANGED <<cfg, scanVars, initial, tasks>>

(* Mutant: device_manager does not stop on zero. *)
StopEmptyNever ==
  /\ pc = "begin"
  /\ ~initial /\ group = NoGroup
  /\ UNCHANGED vars

(* With no group pending zero is returned and the query is planned. *)
StopEmpty ==
  /\ pc = "begin"
  /\ ~initial /\ group = NoGroup
  /\ pc' = "stopped"
  /\ UNCHANGED <<cfg, scanVars, initial, taskVars, tasks>>

NineTenths(n) == (n \div 10) * 9

NearlyFull ==
  \/ used > NineTenths(cfg.capacity)
  \/ Len(total) > NineTenths(cfg.maxShards)
  \/ cfg.vertices * Len(subtasks) + 1 > NineTenths(MaxNumTreeNodes)

(* Mutant: the capacity is halved for double buffering a second time. *)
ClosesTaskHalf ==
  \/ RequiredSize(group.st) + used >= cfg.capacity \div 2
  \/ cfg.vlevel[group.min] = 1 /\ NearlyFull

(* A task is closed before the group when its shards do not fit, or, where *)
(* the scan is back at the first vertex, when anything is nearly full.     *)
ClosesTask ==
  \/ RequiredSize(group.st) + used >= cfg.capacity
  \/ cfg.vlevel[group.min] = 1 /\ NearlyFull

AddGroup ==
  /\ pc = "decide"
  /\ ~ClosesTask
  /\ infos' = Append(infos, [v |-> cfg.vlevel[group.max], st |-> Len(subtasks) + 1])
  /\ used' = used + RequiredSize(group.st)
  /\ total' = AddShards(total, group.st)
  /\ subtasks' = subtasks \o SubtasksOf(group)
  /\ group' = NoGroup
  /\ pc' = "scan"
  /\ UNCHANGED <<cfg, stk, tmp, initial, tree, tasks>>

(* Mutant: the group that did not fit is forgotten. *)
LeaveGroupLost ==
  /\ pc = "decide"
  /\ ClosesTask
  /\ group' = NoGroup
  /\ pc' = "close"
  /\ UNCHANGED <<cfg, stk, tmp, initial, taskVars, tasks>>

LeaveGroup ==
  /\ pc = "decide"
  /\ ClosesTask
  /\ pc' = "close"
  /\ UNCHANGED <<cfg, scanVars, initial, taskVars, tasks>>

-----------------------------------------------------------------------------
(* _regenerate_LFTJ_grid_group_tree and _regenerate_MJ_grid_group_tree.    *)

(* Mutant: vertices without edges are left to the kernel. *)
FollowersNone(v) == 0

Followers(v) == FollowersOf(cfg, v)

(* Mutant: a node as deep as the new one stays on the stack. *)
AboveOrBeside(e, info) == e.dep <= info.v

Above(e, info) == e.dep < info.v

(* One entry of _tree_info_vec.  The stack is popped down to a node less   *)
(* deep than the entry; the new node, and one for each follower, are hung  *)
(* below it, all with the same depth.                                      *)
AddInfo(info) ==
  LET stack == SubSeq(tree.stk, 1, Max({d \in DOMAIN tree.stk : Above(tree.stk[d], info)}))
      first == Len(tree.nodes) + 1
      new == [j \in 1 .. 1 + Followers(info.v) |-> first + j - 1]
  IN  [nodes |-> tree.nodes \o
                   [j \in DOMAIN new |->
                      [prv |-> IF j = 1 THEN Last(stack).id ELSE new[j - 1],
                       dep |-> info.v, st |-> info.st]],
       stk |-> stack \o [j \in DOMAIN new |-> [id |-> new[j], dep |-> info.v]],
       roots |-> IF info.v = 1 THEN Append(tree.roots, first) ELSE tree.roots]

(* Entries made after the last subtask of the task belong to the next one. *)
MoreToHang == infos # <<>> /\ Head(infos).st <= Len(subtasks)

HangNode ==
  /\ pc = "close"
  /\ MoreToHang
  /\ tree' = AddInfo(Head(infos))
  /\ infos' = Tail(infos)
  /\ UNCHANGED <<cfg, pc, scanVars, initial, used, total, subtasks, tasks>>

NumTreeNodes == Len(tree.nodes) + 1

(* The tree is complete: the task goes to the queue. *)
CloseTask ==
  /\ pc = "close"
  /\ ~MoreToHang
  /\ NumTreeNodes < MaxNumTreeNodes
  /\ used # 0
  /\ tasks' = Append(tasks, [subtasks |-> subtasks, total |-> total,
                             nodes |-> tree.nodes, roots |-> tree.roots])
  /\ initial' = FALSE
  /\ pc' = "begin"
  /\ UNCHANGED <<cfg, scanVars, taskVars>>

(* used_estimate is zero: device_manager takes it for the end of the plan. *)
CloseEmpty ==
  /\ pc = "close"
  /\ ~MoreToHang
  /\ NumTreeNodes < MaxNumTreeNodes
  /\ used = 0
  /\ pc' = "stopped"
  /\ UNCHANGED <<cfg, scanVars, initial, taskVars, tasks>>

(* exit(1): the tree does not fit the tables of the kernel. *)
TreeTooLarge ==
  /\ pc = "close"
  /\ ~MoreToHang
  /\ NumTreeNodes >= MaxNumTreeNodes
  /\ pc' = "exited"
  /\ UNCHANGED <<cfg, scanVars, initial, taskVars, tasks>>

Next ==
  \/ OpenTask \/ StopEmpty
  \/ ScanNode \/ ScanLast \/ ScanOver
  \/ AddGroup \/ LeaveGroup
  \/ HangNode \/ CloseTask \/ CloseEmpty \/ TreeTooLarge

Spec == Init /\ [][Next]_vars

(* The planning is one sequential loop. *)
FairSpec == Spec /\ WF_vars(Next)

-----------------------------------------------------------------------------
(* Properties.                                                             *)

Groups ==
  {NoGroup} \cup
  [v : Nat \ {0}, min : 1 .. MaxLevel, max : 1 .. MaxLevel,
   st : {<<>>} \cup cfg.leaves]

(* The variables have their types. *)
TypeOK ==
  /\ cfg.leaves \subseteq [1 .. MaxLevel -> Shards]
  /\ pc \in {"begin", "scan", "decide", "close", "stopped", "exited"}
  /\ stk \in Seq([shard : Shards \cup {0}, idx : Nat \ {0}])
  /\ tmp \in Groups /\ group \in Groups
  /\ initial \in BOOLEAN
  /\ used \in Nat
  /\ total \in Seq(Shards) /\ IsInjective(total)
  /\ subtasks \in Seq(cfg.leaves)
  /\ infos \in Seq([v : Nat \ {0}, st : Nat \ {0}])
  /\ tasks \in Seq(ToSet(tasks))
  /\ \A t \in ToSet(tasks) : t.subtasks \in Seq(cfg.leaves) /\ t.total \in Seq(Shards)

Before(p, q) ==
  \E i \in DOMAIN p : p[i] < q[i] /\ \A j \in 1 .. i - 1 : p[j] = q[j]

Leaves ==
  [i \in 1 .. Cardinality(cfg.leaves) |->
     CHOOSE l \in cfg.leaves : Cardinality({m \in cfg.leaves : Before(m, l)}) = i - 1]

Planned == FlattenSeq([i \in DOMAIN tasks |-> tasks[i].subtasks])

(* assert(used # 0) fails: the plan ends before the group that is pending. *)
Short == pc = "stopped" /\ group # NoGroup

Stream == INSTANCE TaskStream WITH
  capacity <- cfg.capacity,
  left <- SubSeq(Leaves, Len(Planned) + 1, Len(Leaves)),
  cut <- [i \in DOMAIN tasks |-> tasks[i].subtasks],
  status <- CASE pc = "stopped" /\ ~Short -> "ended"
              [] pc = "exited" \/ Short -> "failed"
              [] OTHER -> "open"

(* However the scan is interrupted and resumed between tasks, every leaf   *)
(* of the tree ends up in exactly one task, in order; the shards of a task *)
(* of several subtasks fit in the device memory it was planned for; and    *)
(* when the plan is cut short or the program gives up, what was planned is *)
(* the beginning of the tree.                                              *)
Implements == Stream!Spec

(* The shards to be staged for a task are those of its subtasks, once each. *)
StagesWhatItNeeds ==
  \A t \in ToSet(tasks) : IsInjective(t.total) /\ ToSet(t.total) = Stream!ShardsOf(t.subtasks)

(* The stack is a way into the tree, a group is collected from the first   *)
(* node on, and one that was returned is there until it is decided upon.   *)
ScanInTree ==
  /\ stk # <<>> => stk[1].shard = 0 /\ \E l \in cfg.leaves : IsPrefix(Path(stk, Len(stk)), l)
  /\ tmp = NoGroup => stk = <<Root>>
  /\ pc = "decide" => group # NoGroup

(* The leaves still to visit: on the way from an entry of the stack there  *)
(* is a child whose turn has not come.                                     *)
Rank(path, s) == Cardinality({r \in Children(path) : r < s})

ToVisit ==
  {l \in cfg.leaves : \E d \in DOMAIN stk :
     /\ d <= MaxLevel /\ IsPrefix(Path(stk, d), l)
     /\ stk[d].idx <= Rank(Path(stk, d), l[d]) + 1}

(* The leaves visited: those of the tasks made, of the task being filled,  *)
(* of the group that is to be decided upon, and of the one collected.      *)
Visited ==
  Planned \o (IF pc \in {"scan", "decide", "close"} THEN subtasks ELSE <<>>)
          \o (IF pc \in {"begin", "decide", "close"} THEN SubtasksOf(group) ELSE <<>>)
          \o (IF stk # <<>> THEN SubtasksOf(tmp) ELSE <<>>)

(* Every entry of the stack is the child last visited of the one below it; *)
(* a group with a subtask ends at a leaf; the group to open a task with is *)
(* missing only for the first task and when the scan is over.              *)
ScanInOrder ==
  /\ \A d \in 1 .. Len(stk) - 1 : Rank(Path(stk, d), stk[d + 1].shard) + 2 = stk[d].idx
  /\ tmp.st # <<>> => tmp.max = MaxLevel
  /\ pc = "begin" /\ initial => group = NoGroup
  /\ group = NoGroup /\ (pc = "close" \/ (pc = "begin" /\ ~initial)) => stk = <<>>

(* As long as planning goes on, what was visited and what is still to come *)
(* are the leaves of the tree, in order, none twice and none left out.     *)
VisitedInOrder ==
  pc \in {"begin", "scan", "decide", "close"} =>
    /\ ToSet(Visited) = cfg.leaves \ ToVisit
    /\ \A i, j \in DOMAIN Visited : i < j => Before(Visited[i], Visited[j])
    /\ \A i \in DOMAIN Visited : \A l \in ToVisit : Before(Visited[i], l)

(* No subtask is so large that required_size wraps around. *)
NothingWraps == \A c \in Configs : \A l \in c.leaves : SizeOf(l) < SizeModulus

(* What is counted as used covers the shards of the task, and a task with  *)
(* more than one subtask was filled within the device memory.              *)
RoomIsCounted ==
  /\ subtasks = <<>> => used = 0
  /\ NothingWraps =>
       /\ Stream!Weight(ToSet(total)) <= used
       /\ Len(subtasks) > 1 => used < cfg.capacity

(* The inductive invariant of the scan, of the plan and of what is staged: *)
(* the shards collected are at every moment those of the subtasks          *)
(* collected.                                                              *)
IInv ==
  /\ TypeOK /\ ScanInTree /\ ScanInOrder /\ VisitedInOrder /\ RoomIsCounted
  /\ ToSet(total) = Stream!ShardsOf(subtasks) /\ StagesWhatItNeeds

(* The nodes from the root of the tree to node k. *)
Ancestry(nodes, k) ==
  LET line[n \in 0 .. Len(nodes)] ==
        IF n = 0 THEN <<>> ELSE Append(line[nodes[n].prv], n)
  IN  line[k]

Below(nodes, k) == {n \in DOMAIN nodes : nodes[n].prv = k}

Tips(nodes) == {n \in DOMAIN nodes : Below(nodes, n) = {}}

(* The steps the kernel takes from a root to a match. *)
Steps == IF cfg.tableJoin THEN MaxLevel ELSE cfg.vertices

(* The tree the kernel walks matches as many vertices on every path as the *)
(* query has (no path is cut short or doubled where a task was broken off  *)
(* and resumed), every subtask is the end of exactly one path, and the     *)
(* kernel's list of roots misses none.                                     *)
EveryPathIsAMatch ==
  \A t \in ToSet(tasks) :
    LET nodes == t.nodes
    IN  /\ \A k \in Tips(nodes) : Len(Ancestry(nodes, k)) = Steps
        /\ Cardinality(Tips(nodes)) = Len(t.subtasks)
        /\ {nodes[k].st : k \in Tips(nodes)} = DOMAIN t.subtasks
        /\ ToSet(t.roots) = Below(nodes, 0)

(* Subtasks p and q take the same shards for the first d vertices. *)
SameUpTo(p, q, d) == \A e \in 1 .. MaxLevel : cfg.vlevel[e] <= d => p[e] = q[e]

(* A node of that tree stands for one choice of shards, that of its        *)
(* subtask: all subtasks below it agree with it, so the kernel may use its *)
(* shards for all of them, and no two nodes side by side stand for the     *)
(* same choice, so no partial match is extended twice.                     *)
NodesAreChoices ==
  \A t \in ToSet(tasks) :
    LET nodes == t.nodes
        shards(k) == t.subtasks[nodes[k].st]
    IN  /\ \A k \in Tips(nodes) : \A a \in ToSet(Ancestry(nodes, k)) :
             SameUpTo(shards(a), shards(k), nodes[a].dep)
        /\ \A j, k \in DOMAIN nodes :
             j < k /\ nodes[j].prv = nodes[k].prv => ~SameUpTo(shards(j), shards(k), nodes[k].dep)

(* The planning ends. *)
Terminates == <>(pc \in {"stopped", "exited"})

(* The assertion used < capacity of pop_single_kernel_task: the shards of  *)
(* a task fit in the device memory.                                        *)
TasksFitTheDevice ==
  \A t \in ToSet(tasks) : Stream!Weight(ToSet(t.total)) < cfg.capacity

(* The assertion on num_optional_vertices of pop_single_kernel_task: with  *)
(* optional vertices a task is broken off at the first vertex only.        *)
BreaksAtFirstVertex ==
  [][LeaveGroup /\ cfg.optional > 0 => cfg.vlevel[group.min] = 1]_vars

(* The comment on the assertion used # 0 of pop_single_kernel_task: the    *)
(* memory of the GPU has to be increased only when the next subtask does   *)
(* not fit in it, a shard counted once for every edge it serves.           *)
StopsShortOnlyForMemory ==
  Short => SizeOf(Leaves[Len(Planned) + 1]) >= cfg.capacity
=============================================================================

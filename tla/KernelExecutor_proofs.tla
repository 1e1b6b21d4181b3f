------------------------ MODULE KernelExecutor_proofs ------------------------
(***************************************************************************)
(* The walk of a block over the tree of subtasks: wherever it is, however  *)
(* often buffers were replayed, the shards are those of the node it stands *)
(* at; the buffers, lists and flags stay in their bounds; and what is      *)
(* matched above that node is a partial match of the query.                *)
(***************************************************************************)
EXTENDS KernelExecutor, SetLemmas, FiniteSetTheorems, TLAPS

Subtasks == DOMAIN task.subtasks

(* What the assumption says of the task at work. *)
LEMMA TaskFacts ==
  ASSUME task \in Tasks
  PROVE  /\ Levels \in Nat /\ Levels > 1
         /\ Subtasks \in SUBSET Nat /\ Subtasks # {} /\ IsFiniteSet(Subtasks)
         /\ \A e \in Edges : Level(e) \in Nat
<1>1. /\ task.n \in Nat \ {0, 1}
      /\ task.edges \in Seq([lo : 1 .. task.n, hi : 1 .. task.n, kind : {"regular", "negative", "optional"},
                             data : SUBSET ((0 .. Null - 1) \X (0 .. Null - 1))])
      /\ task.join = "TABLE" => Len(task.edges) > 1
      /\ task.subtasks \in Seq([1 .. task.n -> SUBSET (0 .. Null - 1)]) /\ task.subtasks # <<>>
  BY TasksAssumption DEF TasksAssumption
<1>2. Levels \in Nat /\ Levels > 1
  BY <1>1 DEF Levels, IsTable
<1>3. Subtasks = 1 .. Len(task.subtasks) /\ Len(task.subtasks) \in Nat /\ Len(task.subtasks) # 0
  BY <1>1 DEF Subtasks
<1>4. IsFiniteSet(Subtasks)
  BY <1>3, FS_Interval
<1>5. \A e \in Edges : e \in Nat /\ Edge(e).lo \in Nat /\ Edge(e).hi \in Nat
  <2>1. ASSUME NEW e \in DOMAIN task.edges
        PROVE  e \in Nat /\ task.edges[e].lo \in 1 .. task.n /\ task.edges[e].hi \in 1 .. task.n
    <3> DEFINE R == [lo : 1 .. task.n, hi : 1 .. task.n, kind : {"regular", "negative", "optional"},
                     data : SUBSET ((0 .. Null - 1) \X (0 .. Null - 1))]
    <3>1. task.edges \in Seq(R)
      BY <1>1
    <3> HIDE DEF R
    <3>2. e \in Nat /\ task.edges[e] \in R
      BY <2>1, <3>1
    <3>3. \A r \in R : r.lo \in 1 .. task.n /\ r.hi \in 1 .. task.n
      BY DEF R
    <3> QED
      BY <3>2, <3>3
  <2> QED
    BY <1>1, <2>1, SMTT(30) DEF Edges, Edge
<1>6. \A e \in Edges : Level(e) \in Nat
  BY <1>5 DEF Level
<1>7. Subtasks \in SUBSET Nat /\ Subtasks # {}
  <2>1. 1 \in Subtasks
    BY <1>3
  <2> QED
    BY <1>3, <2>1
<1> QED
  BY <1>2, <1>4, <1>6, <1>7

(* A node is the subtasks that agree with one of its own, *)
LEMMA NodeIsAClass ==
  /\ \A t \in Subtasks : \A d : t \in NodeOf(t, d)
  /\ \A t, d : NodeOf(t, d) \subseteq Subtasks
  /\ \A s, t, d : s \in NodeOf(t, d) => NodeOf(s, d) = NodeOf(t, d)
BY DEF NodeOf, SameUpTo, Subtasks

(* and subtasks that agree down to a level agree down to the levels above. *)
LEMMA NodesNest ==
  ASSUME task \in Tasks, NEW d \in Nat, NEW e \in Nat, e <= d, NEW t, NEW s \in NodeOf(t, d)
  PROVE  NodeOf(s, e) = NodeOf(t, e)
<1>1. \A x \in Edges : Level(x) <= e => Level(x) <= d
  BY TaskFacts
<1>2. s \in NodeOf(t, e)
  BY <1>1 DEF NodeOf, SameUpTo
<1> QED
  BY <1>2, NodeIsAClass

(* The first subtask of a node stands for it. *)
LEMMA FirstOfNode ==
  ASSUME task \in Tasks, NEW d, NEW s \in Groups(Subtasks, d)
  PROVE  /\ s \subseteq Subtasks
         /\ FirstOf(s) \in s /\ FirstOf(s) \in Nat /\ \A t \in s : FirstOf(s) <= t
         /\ s = NodeOf(FirstOf(s), d)
<1>1. PICK t \in Subtasks : s = NodeOf(t, d)
  BY DEF Groups
<1>2. s \subseteq Subtasks /\ s # {}
  BY <1>1, NodeIsAClass
<1>3. s \in SUBSET Nat
  BY <1>2, TaskFacts
<1>4. FirstOf(s) \in s /\ \A x \in s : FirstOf(s) <= x
  BY <1>2, <1>3, LeastIsMin DEF FirstOf
<1>5. s = NodeOf(FirstOf(s), d)
  BY <1>1, <1>4, NodeIsAClass
<1> QED
  BY <1>2, <1>3, <1>4, <1>5

(* Any subtask belongs to a node of each level. *)
LEMMA NodeOfIsANode ==
  ASSUME NEW t \in Subtasks, NEW d
  PROVE  NodeOf(t, d) \in Groups(Subtasks, d)
BY DEF Groups

(* The groups below a node are nodes of the next level, and the first of   *)
(* them has the shards of the node itself.                                 *)
LEMMA GroupsBelow ==
  ASSUME task \in Tasks, NEW d \in Nat, NEW s \in Groups(Subtasks, d)
  PROVE  /\ IsFiniteSet(Groups(s, d + 1)) /\ Cardinality(Groups(s, d + 1)) \in Nat \ {0}
         /\ \A g \in Groups(s, d + 1) : g \in Groups(Subtasks, d + 1) /\ g \subseteq s
<1>1. s \subseteq Subtasks /\ FirstOf(s) \in s /\ s = NodeOf(FirstOf(s), d)
  BY FirstOfNode
<1>2. ASSUME NEW g \in Groups(s, d + 1)
      PROVE  g \in Groups(Subtasks, d + 1) /\ g \subseteq s
  <2>1. PICK t \in s : g = NodeOf(t, d + 1)
    BY DEF Groups
  <2>2. \A x \in g : NodeOf(x, d) = NodeOf(t, d)
    BY <2>1, NodesNest
  <2>3. NodeOf(t, d) = s
    BY <1>1, NodeIsAClass
  <2>4. g \subseteq Subtasks
    BY <2>1, NodeIsAClass
  <2>5. \A x \in g : x \in NodeOf(x, d)
    BY <2>4, NodeIsAClass
  <2> QED
    BY <1>1, <2>1, <2>2, <2>3, <2>5 DEF Groups
<1>3. IsFiniteSet(SUBSET Subtasks)
  BY TaskFacts, FS_SUBSET
<1>4. Groups(s, d + 1) \in SUBSET SUBSET Subtasks
  BY <1>1, <1>2
<1>5. IsFiniteSet(Groups(s, d + 1))
  BY <1>3, <1>4, FS_Subset
<1>6. NodeOf(FirstOf(s), d + 1) \in Groups(s, d + 1)
  BY <1>1 DEF Groups
<1>7. Cardinality(Groups(s, d + 1)) \in Nat /\ Cardinality(Groups(s, d + 1)) # 0
  BY <1>5, <1>6, FS_CardinalityType, FS_EmptySet
<1> QED
  BY <1>2, <1>5, <1>7

(* Nodes side by side are numbered by their first subtasks. *)
LEMMA NthIsANode ==
  ASSUME task \in Tasks, NEW d, NEW G \in SUBSET Groups(Subtasks, d), IsFiniteSet(G),
         NEW i \in 0 .. Cardinality(G) - 1
  PROVE  /\ Nth(G, i) \in G
         /\ i = 0 => \A h \in G : FirstOf(Nth(G, i)) <= FirstOf(h)
<1> DEFINE f == [g \in G |-> FirstOf(g)]
<1>1. \A g \in G : f[g] = FirstOf(g) /\ f[g] \in Nat
  BY FirstOfNode
<1>2. \A g, h \in G : f[g] = f[h] => g = h
  BY <1>1, FirstOfNode
<1> HIDE DEF f
<1>3. \E g \in G : Cardinality({h \in G : f[h] < f[g]}) = i
  BY <1>1, <1>2, Ranked
<1>4. \A g \in G : {h \in G : f[h] < f[g]} = {h \in G : FirstOf(h) < FirstOf(g)}
  BY <1>1
<1>5. \E g \in G : Cardinality({h \in G : FirstOf(h) < FirstOf(g)}) = i
  BY <1>3, <1>4
<1>6. Nth(G, i) \in G /\ Cardinality({h \in G : FirstOf(h) < FirstOf(Nth(G, i))}) = i
  BY <1>5 DEF Nth
<1>7. ASSUME i = 0, NEW h \in G PROVE FirstOf(Nth(G, i)) <= FirstOf(h)
  <2> DEFINE B == {x \in G : FirstOf(x) < FirstOf(Nth(G, i))}
  <2>1. IsFiniteSet(B)
    BY FS_Subset
  <2>2. B = {}
    BY <1>6, <1>7, <2>1, FS_EmptySet
  <2>3. FirstOf(h) \in Nat /\ FirstOf(Nth(G, i)) \in Nat /\ ~(FirstOf(h) < FirstOf(Nth(G, i)))
    BY <1>6, <2>2, FirstOfNode
  <2> QED
    BY <2>3
<1> QED
  BY <1>6, <1>7

(* The same for the groups below a node. *)
LEMMA NthBelow ==
  ASSUME task \in Tasks, NEW d \in Nat, NEW s \in Groups(Subtasks, d),
         NEW i \in Nat, i < Cardinality(Groups(s, d + 1))
  PROVE  /\ Nth(Groups(s, d + 1), i) \in Groups(Subtasks, d + 1)
         /\ Nth(Groups(s, d + 1), i) \subseteq s
         /\ i = 0 => FirstOf(Nth(Groups(s, d + 1), i)) = FirstOf(s)
<1> DEFINE G == Groups(s, d + 1)
           g == Nth(G, i)
<1>1. G \in SUBSET Groups(Subtasks, d + 1) /\ IsFiniteSet(G) /\ Cardinality(G) \in Nat
      /\ \A h \in G : h \subseteq s
  BY GroupsBelow
<1>2. i \in 0 .. Cardinality(G) - 1
  BY <1>1
<1> HIDE DEF G
<1>3. g \in G /\ (i = 0 => \A h \in G : FirstOf(g) <= FirstOf(h))
  BY <1>1, <1>2, NthIsANode
<1>4. ASSUME i = 0 PROVE FirstOf(g) = FirstOf(s)
  <2> DEFINE h == NodeOf(FirstOf(s), d + 1)
  <2>1. FirstOf(s) \in s /\ s \subseteq Subtasks /\ \A t \in s : FirstOf(s) <= t
    BY FirstOfNode
  <2>2. h \in G
    BY <2>1 DEF G, Groups
  <2>3. FirstOf(s) \in h
    BY <2>1, NodeIsAClass
  <2>4. FirstOf(g) <= FirstOf(h)
    BY <1>3, <1>4, <2>2
  <2>5. FirstOf(h) <= FirstOf(s)
    BY <1>1, <2>2, <2>3, FirstOfNode
  <2>6. FirstOf(g) \in s
    BY <1>1, <1>3, FirstOfNode
  <2>7. FirstOf(s) <= FirstOf(g)
    BY <2>1, <2>6
  <2>8. FirstOf(g) \in Nat /\ FirstOf(h) \in Nat /\ FirstOf(s) \in Nat
    BY <1>1, <1>3, <2>2, FirstOfNode
  <2> QED
    BY <2>4, <2>5, <2>7, <2>8
<1> QED
  BY <1>1, <1>3, <1>4 DEF G

-----------------------------------------------------------------------------
(* The steps.                                                              *)

(* The tree belongs to the task. *)
LEMMA SameTask ==
  ASSUME task' = task
  PROVE  /\ Levels' = Levels /\ Subtasks' = Subtasks
         /\ \A t, d : NodeOf(t, d)' = NodeOf(t, d)
         /\ \A s, d : Groups(s, d)' = Groups(s, d)
<1>1. \A t, d : NodeOf(t, d)' = NodeOf(t, d)
  BY DEF NodeOf, SameUpTo, Level, Edges, Edge, IsTable, IsOptional
<1>2. Levels' = Levels /\ Subtasks' = Subtasks
  BY DEF Levels, IsTable, Subtasks
<1> QED
  BY <1>1, <1>2 DEF Groups

(* Where the walk is: on the way from the root to the node, and the nodes  *)
(* above it are those of each of its subtasks.                             *)
LEMMA PathFacts ==
  ASSUME task \in Tasks, IInv, pc = "match"
  PROVE  /\ dep \in Nat \ {0} /\ dep <= Levels /\ Levels \in Nat
         /\ node \in Groups(Subtasks, dep) /\ FirstOf(node) \in node /\ node \subseteq Subtasks
         /\ NodeAt(dep) = node /\ GroupsAt(dep) = Below
         /\ \A t \in node, d \in 1 .. dep : NodeOf(t, d) = NodeAt(d)
<1>1. dep \in Nat \ {0} /\ dep <= Levels /\ Levels \in Nat /\ node \in Groups(Subtasks, dep)
  BY TaskFacts DEF IInv, OnPath, Subtasks
<1>2. FirstOf(node) \in node /\ node = NodeOf(FirstOf(node), dep) /\ node \subseteq Subtasks
  BY <1>1, FirstOfNode
<1>3. NodeAt(dep) = node /\ GroupsAt(dep) = Below
  BY <1>2 DEF NodeAt, GroupsAt, Below
<1>4. ASSUME NEW t \in node, NEW d \in 1 .. dep PROVE NodeOf(t, d) = NodeAt(d)
  <2>1. t \in NodeOf(FirstOf(node), dep) /\ d \in Nat /\ d <= dep
    BY <1>1, <1>2
  <2> QED
    BY <1>1, <2>1, NodesNest DEF NodeAt
<1> QED
  BY <1>1, <1>2, <1>3, <1>4

(* If the node stays above the first d levels stay where they were. *)
LEMMA PathKept ==
  ASSUME task \in Tasks, IInv, pc = "match", task' = task,
         NEW d \in 1 .. dep, FirstOf(node') \in node \/ FirstOf(node) \in NodeOf(FirstOf(node'), d)
  PROVE  \A e \in 1 .. d : NodeAt(e)' = NodeAt(e) /\ GroupsAt(e)' = GroupsAt(e)
<1>1. ASSUME NEW e \in 1 .. d PROVE NodeAt(e)' = NodeAt(e)
  <2>1. dep \in Nat \ {0} /\ e \in 1 .. dep /\ d \in Nat /\ e \in Nat /\ e <= d
    BY PathFacts
  <2>2. CASE FirstOf(node') \in node
    BY <2>1, <2>2, PathFacts, SameTask DEF NodeAt
  <2>3. CASE FirstOf(node) \in NodeOf(FirstOf(node'), d)
    BY <2>1, <2>3, NodesNest, SameTask DEF NodeAt
  <2> QED
    BY <2>2, <2>3
<1> QED
  BY <1>1, SameTask DEF GroupsAt

(* The first group is begun at its first subtask. *)
LEMMA BeginRootStep ==
  ASSUME task \in Tasks, IInv, BeginRoot
  PROVE  IInv'
<1>1. /\ task' = task /\ root' = root /\ dep' = dep /\ child' = child /\ finish' = finish
      /\ pc = "root" /\ pc' = "match"
      /\ root <= Cardinality(Roots) /\ node' = Nth(Roots, root - 1) /\ subtask' = FirstOf(node')
  BY DEF BeginRoot
<1>2. /\ root \in Nat \ {0} /\ dep = 1 /\ Levels \in Nat /\ Levels > 1
      /\ \A d \in 1 .. Levels : finish[d] /\ child[d] = 0
  BY <1>1, TaskFacts DEF IInv, OnPath
<1>3. Roots \subseteq Groups(Subtasks, 1) /\ IsFiniteSet(Roots)
  <2>1. Roots = Groups(Subtasks, 1)
    BY DEF Roots, Subtasks
  <2>2. Roots \in SUBSET SUBSET Subtasks
    BY <2>1, NodeIsAClass DEF Groups
  <2>3. IsFiniteSet(SUBSET Subtasks)
    BY TaskFacts, FS_SUBSET
  <2> QED
    BY <2>1, <2>2, <2>3, FS_Subset
<1>4. root - 1 \in 0 .. Cardinality(Roots) - 1
  BY <1>1, <1>2, <1>3, FS_CardinalityType
<1>5. node' \in Groups(Subtasks, 1)
  BY <1>1, <1>3, <1>4, NthIsANode
<1>6. OnPath'
  <2>1. node' \in Groups(Subtasks, dep)'
    BY <1>1, <1>2, <1>5, SameTask
  <2> QED
    BY <1>1, <1>2, <2>1, SameTask DEF OnPath, Subtasks
<1> QED
  BY <1>1, <1>6, SameTask DEF IInv

(* One level down, to the group whose turn it is. *)
LEMMA DescendStep ==
  ASSUME task \in Tasks, IInv, Descend
  PROVE  IInv'
<1>1. /\ task' = task /\ root' = root /\ pc' = pc /\ child' = child /\ finish' = finish
      /\ subtask' = subtask
      /\ pc = "match" /\ dep < Levels /\ ~finish[dep]
      /\ node' = Nth(Below, child[dep]) /\ dep' = dep + 1
  BY DEF Descend
<1>2. /\ dep \in Nat \ {0} /\ Levels \in Nat /\ child[dep] \in Nat /\ child[dep] < Cardinality(Below)
      /\ subtask = FirstOf(Nth(Below, child[dep]))
      /\ \A d \in dep + 1 .. Levels : finish[d] /\ child[d] = 0
      /\ \A d \in 1 .. dep - 1 : /\ ~finish[d] /\ child[d] < Cardinality(GroupsAt(d))
                               /\ NodeAt(d + 1) = Nth(GroupsAt(d), child[d])
  BY <1>1, PathFacts DEF IInv, OnPath
<1>3. node' \in Groups(Subtasks, dep + 1) /\ node' \subseteq node
  BY <1>1, <1>2, PathFacts, NthBelow DEF Below
<1>4. FirstOf(node') \in node' /\ node' = NodeOf(FirstOf(node'), dep + 1)
  BY <1>1, <1>3, FirstOfNode
<1>5. \A d \in 1 .. dep : NodeAt(d)' = NodeAt(d) /\ GroupsAt(d)' = GroupsAt(d)
  <2>1. dep \in 1 .. dep /\ FirstOf(node') \in node
    BY <1>2, <1>3, <1>4
  <2> QED
    BY <1>1, <2>1, PathKept
<1>6. ASSUME NEW d, d = dep + 1 PROVE NodeAt(d)' = node'
  BY <1>1, <1>4, <1>6, SameTask DEF NodeAt
<1>7. ASSUME NEW d \in 1 .. dep' - 1
      PROVE  ~finish'[d] /\ child'[d] < Cardinality(GroupsAt(d)') /\ NodeAt(d + 1)' = Nth(GroupsAt(d)', child'[d])
  <2>1. CASE d = dep
    <3>1. GroupsAt(d)' = Below /\ NodeAt(d + 1)' = node'
      BY <1>1, <1>2, <1>5, <1>6, <2>1, PathFacts
    <3> QED
      BY <1>1, <1>2, <2>1, <3>1
  <2>2. CASE d # dep
    <3>1. d \in 1 .. dep - 1 /\ d \in 1 .. dep /\ d + 1 \in 1 .. dep
      BY <1>1, <1>2, <2>2
    <3> QED
      BY <1>1, <1>2, <1>5, <3>1
  <2> QED
    BY <2>1, <2>2
<1>8. /\ finish'[dep'] /\ child'[dep'] = 0 /\ dep' \in 1 .. Levels
      /\ \A d \in dep' + 1 .. Levels : finish'[d] /\ child'[d] = 0
  BY <1>1, <1>2
<1>9. node' \in Groups(Subtasks, dep)'
  BY <1>1, <1>3, SameTask
<1>10. OnPath'
  BY <1>1, <1>2, <1>7, <1>8, <1>9, SameTask DEF OnPath, Subtasks
<1> QED
  BY <1>1, <1>8, <1>10, SameTask DEF IInv

(* Back to the level above, with the shards of the node that is left.      *)
LEMMA UpStep ==
  ASSUME task \in Tasks, IInv, pc = "match", dep # 1,
         task' = task, root' \in Nat \ {0}, pc' = pc, node' = Parent, dep' = dep - 1,
         subtask' = FirstOf(node),
         child' \in [1 .. Levels -> Nat], finish' \in [1 .. Levels -> BOOLEAN],
         \A d \in 1 .. dep - 1 : child'[d] = child[d] /\ finish'[d] = finish[d],
         \A d \in dep .. Levels : child'[d] = 0 /\ finish'[d]
  PROVE  IInv'
<1>1. /\ dep \in Nat \ {0} /\ Levels \in Nat /\ dep <= Levels
      /\ node \in Groups(Subtasks, dep) /\ FirstOf(node) \in node /\ node \subseteq Subtasks
      /\ NodeAt(dep) = node
  BY PathFacts
<1>2. PICK k : k = dep - 1
  OBVIOUS
<1>3. k \in Nat \ {0} /\ k \in 1 .. dep /\ k + 1 = dep /\ k \in 1 .. dep - 1 /\ dep' = k
  BY <1>1, <1>2
<1>4. /\ \A d \in 1 .. k : /\ ~finish[d] /\ child[d] < Cardinality(GroupsAt(d))
                            /\ NodeAt(d + 1) = Nth(GroupsAt(d), child[d])
  BY <1>2 DEF IInv, OnPath
<1>5. node' = NodeAt(k) /\ node' \in Groups(Subtasks, k)
  BY <1>1, <1>2, NodeOfIsANode DEF Parent, NodeAt
<1>6. FirstOf(node) \in NodeOf(FirstOf(node'), k)
  <2>1. FirstOf(node') \in node' /\ node' = NodeOf(FirstOf(node'), k)
    BY <1>5, FirstOfNode
  <2>2. FirstOf(node) \in NodeAt(k)
    BY <1>1, NodeIsAClass DEF NodeAt
  <2> QED
    BY <1>5, <2>1, <2>2
<1>7. \A d \in 1 .. k : NodeAt(d)' = NodeAt(d) /\ GroupsAt(d)' = GroupsAt(d)
  BY <1>3, <1>6, PathKept
<1>8. node' \in Groups(Subtasks, dep)'
  BY <1>3, <1>5, SameTask
<1>9. Below' = GroupsAt(k)
  <2>1. Below' = Groups(node', k + 1)
    BY <1>3, SameTask DEF Below
  <2> QED
    BY <1>5, <2>1 DEF GroupsAt
<1>10. ASSUME NEW d \in 1 .. dep' - 1
       PROVE  ~finish'[d] /\ child'[d] < Cardinality(GroupsAt(d)') /\ NodeAt(d + 1)' = Nth(GroupsAt(d)', child'[d])
  <2>1. d \in 1 .. k /\ d + 1 \in 1 .. k /\ d \in 1 .. dep - 1
    BY <1>1, <1>3
  <2> QED
    BY <1>4, <1>7, <2>1
<1>11. /\ ~finish'[dep'] /\ child'[dep'] < Cardinality(Below')
       /\ subtask' = FirstOf(Nth(Below', child'[dep']))
  <2>1. /\ k \in 1 .. k /\ ~finish'[k] /\ child'[k] = child[k]
    BY <1>3, <1>4
  <2>2. Nth(GroupsAt(k), child[k]) = node
    BY <1>1, <1>3, <1>4, <2>1
  <2> QED
    BY <1>3, <1>4, <1>9, <2>1, <2>2
<1>12. \A d \in dep' + 1 .. Levels : finish'[d] /\ child'[d] = 0
  BY <1>1, <1>3
<1>13. dep' \in 1 .. Levels /\ dep' # Levels
  BY <1>1, <1>3
<1>14. OnPath'
  BY <1>8, <1>10, <1>11, <1>12, <1>13, SameTask DEF OnPath, Subtasks
<1> QED
  BY <1>13, <1>14, SameTask DEF IInv

(* The last level is left. *)
LEMMA LastStep ==
  ASSUME task \in Tasks, IInv, AtLast, NEW n, NEW m, CountAndLeave(n, m)
  PROVE  IInv'
<1>1. /\ pc = "match" /\ dep = Levels /\ task' = task /\ root' = root /\ pc' = pc
      /\ node' = Parent /\ dep' = dep - 1
      /\ subtask' = subtask /\ child' = child /\ finish' = finish
  BY DEF AtLast, CountAndLeave
<1>2. dep # 1 /\ dep \in Nat
  BY <1>1, TaskFacts
<1>3. finish[dep] /\ child[dep] = 0 /\ subtask = FirstOf(node) /\ root \in Nat \ {0}
      /\ child \in [1 .. Levels -> Nat] /\ finish \in [1 .. Levels -> BOOLEAN]
  BY <1>1 DEF IInv, OnPath
<1>4. \A d \in dep .. Levels : child'[d] = 0 /\ finish'[d]
  BY <1>1, <1>2, <1>3
<1> QED
  BY <1>1, <1>2, <1>3, <1>4, UpStep

(* A buffer is filled, in any of the kernels. *)
LEMMA FillStep ==
  ASSUME task \in Tasks, IInv, pc = "match", dep < Levels, finish[dep],
         task' = task, root' = root, pc' = pc, dep' = dep,
         node' = node, subtask' = subtask, child' = child,
         finish' = [finish EXCEPT ![dep] = FALSE]
  PROVE  IInv'
<1>1. /\ dep \in Nat \ {0} /\ Levels \in Nat /\ node \in Groups(Subtasks, dep)
      /\ child[dep] = 0 /\ subtask = FirstOf(node)
      /\ finish \in [1 .. Levels -> BOOLEAN] /\ dep \in 1 .. Levels
  BY PathFacts DEF IInv, OnPath
<1>2. Cardinality(Below) \in Nat \ {0}
  BY <1>1, GroupsBelow DEF Below
<1>3. 0 < Cardinality(Below) /\ FirstOf(Nth(Below, 0)) = FirstOf(node)
  BY <1>1, <1>2, NthBelow DEF Below
<1>4. /\ \A d : NodeAt(d)' = NodeAt(d) /\ GroupsAt(d)' = GroupsAt(d)
      /\ Below' = Below
  BY SameTask DEF NodeAt, GroupsAt, Below
<1>5. /\ ~finish'[dep] /\ \A d \in 1 .. Levels : d # dep => finish'[d] = finish[d]
      /\ finish' \in [1 .. Levels -> BOOLEAN]
  BY <1>1
<1>6. node' \in Groups(Subtasks, dep)'
  BY <1>1, SameTask
<1>7. \A d \in 1 .. dep - 1 :
        ~finish'[d] /\ child'[d] < Cardinality(GroupsAt(d)') /\ NodeAt(d + 1)' = Nth(GroupsAt(d)', child'[d])
  <2>1. ASSUME NEW d \in 1 .. dep - 1
        PROVE  d \in 1 .. Levels /\ d # dep
    BY <1>1
  <2>2. \A d \in 1 .. dep - 1 : /\ ~finish[d] /\ child[d] < Cardinality(GroupsAt(d))
                               /\ NodeAt(d + 1) = Nth(GroupsAt(d), child[d])
    BY DEF IInv, OnPath
  <2> QED
    BY <1>4, <1>5, <2>1, <2>2
<1>8. \A d \in dep + 1 .. Levels : finish'[d] /\ child'[d] = 0
  <2>1. \A d \in dep + 1 .. Levels : d \in 1 .. Levels /\ d # dep /\ finish[d] /\ child[d] = 0
    BY <1>1 DEF IInv, OnPath
  <2> QED
    BY <1>5, <2>1
<1>9. OnPath'
  BY <1>1, <1>3, <1>4, <1>5, <1>6, <1>7, <1>8, SameTask DEF OnPath, Subtasks
<1> QED
  BY <1>1, <1>5, <1>9, SameTask DEF IInv

(* The buffer is replayed for the next group. *)
LEMMA NextGroupStep ==
  ASSUME task \in Tasks, IInv, NextGroup
  PROVE  IInv'
<1>1. /\ pc = "match" /\ dep < Levels /\ ~finish[dep] /\ NextChild # 0
      /\ task' = task /\ root' = root /\ pc' = pc /\ dep' = dep /\ node' = node /\ finish' = finish
      /\ child' = [child EXCEPT ![dep] = NextChild]
      /\ subtask' = FirstOf(Nth(Below, NextChild))
  BY DEF NextGroup, Exhausted
<1>2. /\ dep \in Nat \ {0} /\ Levels \in Nat /\ node \in Groups(Subtasks, dep)
      /\ child \in [1 .. Levels -> Nat] /\ dep \in 1 .. Levels
      /\ child[dep] < Cardinality(Below)
  BY <1>1, PathFacts DEF IInv, OnPath
<1>3. Cardinality(Below) \in Nat \ {0}
  BY <1>2, GroupsBelow DEF Below
<1>4. NextChild \in Nat /\ NextChild < Cardinality(Below)
  <2>1. child[dep] \in Nat
    BY <1>2
  <2>2. CASE Cardinality(Below) > 1
    BY <1>3, <2>1, <2>2 DEF NextChild
  <2>3. CASE ~(Cardinality(Below) > 1)
    BY <1>2, <2>1, <2>3 DEF NextChild
  <2> QED
    BY <2>2, <2>3
<1>5. /\ \A d : NodeAt(d)' = NodeAt(d) /\ GroupsAt(d)' = GroupsAt(d)
      /\ Below' = Below
  BY <1>1, SameTask DEF NodeAt, GroupsAt, Below
<1>6. /\ child'[dep] = NextChild /\ \A d \in 1 .. Levels : d # dep => child'[d] = child[d]
      /\ child' \in [1 .. Levels -> Nat]
  BY <1>1, <1>2, <1>4
<1>7. \A d \in 1 .. dep - 1 :
        ~finish'[d] /\ child'[d] < Cardinality(GroupsAt(d)') /\ NodeAt(d + 1)' = Nth(GroupsAt(d)', child'[d])
  <2>1. \A d \in 1 .. dep - 1 : d \in 1 .. Levels /\ d # dep
    BY <1>1, <1>2
  <2>2. \A d \in 1 .. dep - 1 : /\ ~finish[d] /\ child[d] < Cardinality(GroupsAt(d))
                               /\ NodeAt(d + 1) = Nth(GroupsAt(d), child[d])
    BY <1>1 DEF IInv, OnPath
  <2> QED
    BY <1>1, <1>5, <1>6, <2>1, <2>2
<1>8. \A d \in dep + 1 .. Levels : finish'[d] /\ child'[d] = 0
  <2>1. \A d \in dep + 1 .. Levels : d \in 1 .. Levels /\ d # dep /\ finish[d] /\ child[d] = 0
    BY <1>1, <1>2 DEF IInv, OnPath
  <2> QED
    BY <1>1, <1>6, <2>1
<1>9. node' \in Groups(Subtasks, dep)'
  BY <1>1, <1>2, SameTask
<1>10. OnPath'
  BY <1>1, <1>2, <1>4, <1>5, <1>6, <1>7, <1>8, <1>9, SameTask DEF OnPath, Subtasks
<1> QED
  BY <1>1, <1>2, <1>6, <1>10, SameTask DEF IInv

(* After the last group the shards of the first are loaded again, which    *)
(* are those of the node.                                                  *)
LEMMA AllGroupsFacts ==
  ASSUME task \in Tasks, IInv, AllGroups
  PROVE  /\ pc = "match" /\ dep < Levels /\ dep \in Nat \ {0} /\ dep \in 1 .. Levels /\ Levels \in Nat
         /\ task' = task /\ subtask' = FirstOf(node)
         /\ child' \in [1 .. Levels -> Nat] /\ finish' \in [1 .. Levels -> BOOLEAN]
         /\ \A d \in 1 .. dep - 1 : child'[d] = child[d] /\ finish'[d] = finish[d]
         /\ \A d \in dep .. Levels : child'[d] = 0 /\ finish'[d]
<1>1. /\ pc = "match" /\ dep < Levels /\ ~finish[dep] /\ NextChild = 0
      /\ task' = task
      /\ child' = [child EXCEPT ![dep] = 0] /\ finish' = [finish EXCEPT ![dep] = TRUE]
      /\ (Cardinality(Below) > 1) => subtask' = FirstOf(Nth(Below, 0))
      /\ ~(Cardinality(Below) > 1) => subtask' = subtask
  BY DEF AllGroups, Exhausted
<1>2. /\ dep \in Nat \ {0} /\ Levels \in Nat /\ node \in Groups(Subtasks, dep)
      /\ child \in [1 .. Levels -> Nat] /\ finish \in [1 .. Levels -> BOOLEAN] /\ dep \in 1 .. Levels
      /\ child[dep] < Cardinality(Below) /\ subtask = FirstOf(Nth(Below, child[dep]))
  BY <1>1, PathFacts DEF IInv, OnPath
<1>3. Cardinality(Below) \in Nat \ {0}
  BY <1>2, GroupsBelow DEF Below
<1>4. FirstOf(Nth(Below, 0)) = FirstOf(node)
  BY <1>2, <1>3, NthBelow DEF Below
<1>5. subtask' = FirstOf(node)
  <2>1. CASE Cardinality(Below) > 1
    BY <1>1, <1>4, <2>1
  <2>2. CASE ~(Cardinality(Below) > 1)
    <3>1. child[dep] \in Nat
      BY <1>2
    <3>2. child[dep] = 0
      BY <1>2, <1>3, <2>2, <3>1
    <3> QED
      BY <1>1, <1>2, <1>4, <2>2, <3>2
  <2> QED
    BY <2>1, <2>2
<1>6. /\ child'[dep] = 0 /\ finish'[dep]
      /\ \A d \in 1 .. Levels : d # dep => child'[d] = child[d] /\ finish'[d] = finish[d]
      /\ child' \in [1 .. Levels -> Nat] /\ finish' \in [1 .. Levels -> BOOLEAN]
  BY <1>1, <1>2
<1>7. \A d \in 1 .. dep - 1 : child'[d] = child[d] /\ finish'[d] = finish[d]
  <2>1. \A d \in 1 .. dep - 1 : d \in 1 .. Levels /\ d # dep
    BY <1>1, <1>2
  <2> QED
    BY <1>6, <2>1
<1>8. \A d \in dep .. Levels : child'[d] = 0 /\ finish'[d]
  <2>1. \A d \in dep + 1 .. Levels : d \in 1 .. Levels /\ d # dep /\ finish[d] /\ child[d] = 0
    BY <1>1, <1>2 DEF IInv, OnPath
  <2>2. \A d \in dep .. Levels : d = dep \/ d \in dep + 1 .. Levels
    BY <1>2
  <2> QED
    BY <1>6, <2>1, <2>2
<1> QED
  BY <1>1, <1>2, <1>5, <1>6, <1>7, <1>8

(* The buffer will be filled again. *)
LEMMA RefillStep ==
  ASSUME task \in Tasks, IInv, Refill
  PROVE  IInv'
<1>1. AllGroups /\ root' = root /\ pc' = pc /\ node' = node /\ dep' = dep
  BY DEF Refill
<1>2. /\ pc = "match" /\ dep < Levels /\ dep \in Nat \ {0} /\ dep \in 1 .. Levels /\ Levels \in Nat
      /\ task' = task /\ subtask' = FirstOf(node)
      /\ child' \in [1 .. Levels -> Nat] /\ finish' \in [1 .. Levels -> BOOLEAN]
      /\ \A d \in 1 .. dep - 1 : child'[d] = child[d] /\ finish'[d] = finish[d]
      /\ \A d \in dep .. Levels : child'[d] = 0 /\ finish'[d]
  BY <1>1, AllGroupsFacts
<1>3. /\ \A d : NodeAt(d)' = NodeAt(d) /\ GroupsAt(d)' = GroupsAt(d)
  BY <1>1, <1>2, SameTask DEF NodeAt, GroupsAt
<1>4. node' \in Groups(Subtasks, dep)'
  BY <1>1, <1>2, PathFacts, SameTask
<1>5. \A d \in 1 .. dep - 1 :
        ~finish'[d] /\ child'[d] < Cardinality(GroupsAt(d)') /\ NodeAt(d + 1)' = Nth(GroupsAt(d)', child'[d])
  <2>1. \A d \in 1 .. dep - 1 : /\ ~finish[d] /\ child[d] < Cardinality(GroupsAt(d))
                               /\ NodeAt(d + 1) = Nth(GroupsAt(d), child[d])
    BY <1>2 DEF IInv, OnPath
  <2> QED
    BY <1>2, <1>3, <2>1
<1>6. finish'[dep] /\ child'[dep] = 0 /\ \A d \in dep + 1 .. Levels : finish'[d] /\ child'[d] = 0
  BY <1>2
<1>7. OnPath'
  BY <1>1, <1>2, <1>4, <1>5, <1>6, SameTask DEF OnPath, Subtasks
<1>8. root \in Nat \ {0}
  BY DEF IInv
<1> QED
  BY <1>1, <1>2, <1>7, <1>8, SameTask DEF IInv

(* Back to the level above. *)
LEMMA LeaveStep ==
  ASSUME task \in Tasks, IInv, Leave
  PROVE  IInv'
<1>1. AllGroups /\ root' = root /\ pc' = pc /\ node' = Parent /\ dep' = dep - 1 /\ dep # 1
  BY DEF Leave
<1>2. root \in Nat \ {0}
  BY DEF IInv
<1> QED
  BY <1>1, <1>2, AllGroupsFacts, UpStep

(* On to the next group of the first level. *)
LEMMA EndRootStep ==
  ASSUME task \in Tasks, IInv, EndRoot
  PROVE  IInv'
<1>1. AllGroups /\ root' = root + 1 /\ pc' = "root" /\ dep' = dep /\ dep = 1
  BY DEF EndRoot
<1>2. /\ task' = task /\ Levels \in Nat /\ dep \in 1 .. Levels
      /\ child' \in [1 .. Levels -> Nat] /\ finish' \in [1 .. Levels -> BOOLEAN]
      /\ \A d \in 1 .. Levels : child'[d] = 0 /\ finish'[d]
  BY <1>1, AllGroupsFacts
<1>3. root' \in Nat \ {0}
  BY <1>1 DEF IInv
<1> QED
  BY <1>1, <1>2, <1>3, SameTask DEF IInv, OnPath

(* A block ends, and the next one starts afresh. *)
LEMMA EndBlockStep ==
  ASSUME task \in Tasks, IInv, EndBlock
  PROVE  IInv'
<1>1. /\ task' = task /\ dep' = 1 /\ child' = PerLevel(0) /\ finish' = PerLevel(TRUE)
      /\ pc' \in {"root", "done"} /\ root' \in {1, root}
  BY DEF EndBlock, IInv
<1>2. Levels \in Nat /\ Levels > 1 /\ root' \in Nat \ {0}
  BY <1>1, TaskFacts DEF IInv
<1>3. /\ child' \in [1 .. Levels -> Nat] /\ finish' \in [1 .. Levels -> BOOLEAN]
      /\ \A d \in 1 .. Levels : child'[d] = 0 /\ finish'[d]
  BY <1>1 DEF PerLevel
<1>4. Levels' = Levels
  BY <1>1, SameTask
<1>5. pc' # "match"
  BY <1>1
<1>6. OnPath'
  BY <1>1, <1>3, <1>4, <1>5 DEF OnPath
<1>7. root' \in Nat \ {0} /\ dep' \in 1 .. Levels' /\ pc' \in {"root", "match", "done"}
  BY <1>1, <1>2, <1>4
<1> QED
  BY <1>3, <1>4, <1>6, <1>7 DEF IInv

(* The task is one of Tasks, and the walk through it is as it should be. *)
WalkInv == task \in Tasks /\ IInv

(* Before the first group. *)
LEMMA InitIInv == Init => WalkInv
<1> SUFFICES ASSUME Init PROVE task \in Tasks /\ IInv
  BY DEF WalkInv
<1>1. task \in Tasks /\ root = 1 /\ pc = "root" /\ dep = 1 /\ child = PerLevel(0) /\ finish = PerLevel(TRUE)
  BY DEF Init
<1>2. Levels \in Nat /\ Levels > 1
  BY <1>1, TaskFacts
<1> QED
  BY <1>1, <1>2 DEF IInv, OnPath, PerLevel

(* Every step of a kernel preserves the invariant of the walk. *)
LEMMA NextStep == WalkInv /\ [Next]_vars => WalkInv'
<1> SUFFICES ASSUME task \in Tasks, IInv, [Next]_vars PROVE task' \in Tasks /\ IInv'
  BY DEF WalkInv
<1>1. CASE Walk
  <2>1. IInv'
    BY <1>1, BeginRootStep, DescendStep, NextGroupStep, RefillStep, LeaveStep, EndRootStep, EndBlockStep DEF Walk
  <2>2. task' = task
    BY <1>1 DEF Walk, BeginRoot, Descend, NextGroup, Refill, Leave, EndRoot, AllGroups, EndBlock
  <2> QED
    BY <2>1, <2>2
<1>2. ASSUME NEW some, NEW more, Fill(some, more), AtInitial \/ AtResume
      PROVE  task' \in Tasks /\ IInv'
  <2>1. task' = task
    BY <1>2 DEF Fill
  <2> QED
    BY <1>2, <2>1, FillStep DEF Fill, treeVars, AtInitial, AtResume
<1>3. ASSUME NEW list, NEW more, FillFrom(list, more), AtInitial \/ AtResume
      PROVE  task' \in Tasks /\ IInv'
  <2>1. task' = task
    BY <1>3 DEF FillFrom
  <2> QED
    BY <1>3, <2>1, FillStep DEF FillFrom, treeVars, AtInitial, AtResume
<1>4. ASSUME AtLast, NEW n, NEW m, CountAndLeave(n, m)
      PROVE  task' \in Tasks /\ IInv'
  BY <1>4, LastStep DEF CountAndLeave
<1>5. CASE LFTJStep
  <2>1. CASE Intersect
    BY <1>2, <2>1 DEF Intersect
  <2>2. CASE Resume
    BY <1>2, <2>2 DEF Resume
  <2>3. CASE MatchLast
    BY <1>4, <2>3 DEF MatchLast
  <2> QED
    BY <1>5, <2>1, <2>2, <2>3 DEF LFTJStep
<1>6. CASE TableStep
  <2>1. CASE JoinSource
    BY <1>3, <2>1 DEF JoinSource
  <2>2. CASE FirstSource
    BY <1>3, <2>2 DEF FirstSource, NoSource, TakeSource
  <2>3. CASE MoreDestinations
    BY <1>3, <2>3 DEF MoreDestinations
  <2>4. CASE NextSource
    BY <1>3, <2>4 DEF NextSource, NoSource, TakeSource
  <2>5. CASE CountLast
    BY <1>4, <2>5 DEF CountLast
  <2> QED
    BY <1>6, <2>1, <2>2, <2>3, <2>4, <2>5 DEF TableStep
<1>7. CASE UNCHANGED vars
  <2>1. /\ task' = task /\ root' = root /\ pc' = pc /\ dep' = dep /\ node' = node /\ subtask' = subtask
        /\ child' = child /\ finish' = finish
    BY <1>7 DEF vars, treeVars
  <2>2. \A d : NodeAt(d)' = NodeAt(d) /\ GroupsAt(d)' = GroupsAt(d)
    BY <2>1, SameTask DEF NodeAt, GroupsAt
  <2>3. Below' = Below
    BY <2>1, SameTask DEF Below
  <2> QED
    BY <2>1, <2>2, <2>3, SameTask DEF IInv, OnPath, Subtasks
<1> QED
  BY <1>1, <1>5, <1>6, <1>7 DEF Next

-----------------------------------------------------------------------------
(* The lists of a task.                                                    *)

(* What the assumptions say of the parts of the task at work. *)
LEMMA TaskParts ==
  ASSUME task \in Tasks
  PROVE  /\ task.n \in Nat \ {0, 1}
         /\ {task.threshold, task.maxBlocks, task.blocks} \subseteq Nat \ {0}
         /\ task.apart \in [1 .. task.n -> SUBSET (1 .. task.n)]
         /\ \A v \in 1 .. task.n : task.apart[v] \subseteq 1 .. v - 1
         /\ \A t \in Subtasks : task.subtasks[t] \in [1 .. task.n -> SUBSET (0 .. Null - 1)]
         /\ \A v \in 1 .. task.n : \E e \in Edges : /\ Edge(e).kind # "negative"
                                                    /\ \/ Edge(e).hi = v
                                                       \/ Edge(e).kind = "regular" /\ Edge(e).lo = v
<1>1. /\ task.n \in Nat \ {0, 1}
      /\ {task.threshold, task.maxBlocks, task.blocks} \subseteq Nat \ {0}
      /\ task.apart \in [1 .. task.n -> SUBSET (1 .. task.n)]
      /\ \A v \in 1 .. task.n : task.apart[v] \subseteq 1 .. v - 1
      /\ task.subtasks \in Seq([1 .. task.n -> SUBSET (0 .. Null - 1)])
  BY TasksAssumption DEF TasksAssumption
<1>2. \A v \in 1 .. task.n : \E e \in DOMAIN task.edges :
        \/ task.edges[e].kind # "negative" /\ task.edges[e].hi = v
        \/ task.edges[e].kind = "regular" /\ task.edges[e].lo = v
  BY TasksAssumption DEF TasksAssumption
<1>3. \A t \in Subtasks : task.subtasks[t] \in [1 .. task.n -> SUBSET (0 .. Null - 1)]
  <2> DEFINE S == [1 .. task.n -> SUBSET (0 .. Null - 1)]
  <2>1. task.subtasks \in Seq(S)
    BY <1>1
  <2> HIDE DEF S
  <2>2. \A t \in DOMAIN task.subtasks : task.subtasks[t] \in S
    BY <2>1
  <2> QED
    BY <2>2 DEF S, Subtasks
<1>4. \A v \in 1 .. task.n : \E e \in Edges : /\ Edge(e).kind # "negative"
                                              /\ \/ Edge(e).hi = v
                                                 \/ Edge(e).kind = "regular" /\ Edge(e).lo = v
  BY <1>2 DEF Edges, Edge
<1> QED
  BY <1>1, <1>3, <1>4

(* What they say of an edge.                                               *)
LEMMA EdgeParts ==
  ASSUME task \in Tasks, NEW e \in Edges
  PROVE  /\ e \in Nat \ {0}
         /\ Edge(e).lo \in 1 .. task.n /\ Edge(e).hi \in 1 .. task.n /\ Edge(e).lo < Edge(e).hi
         /\ Edge(e).kind \in {"regular", "negative", "optional"}
         /\ Edge(e).data \subseteq (0 .. Null - 1) \X (0 .. Null - 1)
         /\ IsTable => Edge(e).kind = "regular" /\ e \in 1 .. Levels
<1> DEFINE R == [lo : 1 .. task.n, hi : 1 .. task.n, kind : {"regular", "negative", "optional"},
                 data : SUBSET ((0 .. Null - 1) \X (0 .. Null - 1))]
<1>1. task.edges \in Seq(R) /\ \A x \in DOMAIN task.edges : task.edges[x].lo < task.edges[x].hi
  BY TasksAssumption DEF TasksAssumption
<1> HIDE DEF R
<1>2. e \in 1 .. Len(task.edges) /\ Len(task.edges) \in Nat /\ task.edges[e] \in R
  BY <1>1 DEF Edges
<1>3. \A r \in R : /\ r.lo \in 1 .. task.n /\ r.hi \in 1 .. task.n
                   /\ r.kind \in {"regular", "negative", "optional"}
                   /\ r.data \subseteq (0 .. Null - 1) \X (0 .. Null - 1)
  BY DEF R
<1>4. IsTable => task.edges[e].kind = "regular"
  BY TableAssumption DEF TableAssumption, IsTable, Edges
<1>5. task.edges[e].lo < task.edges[e].hi
  BY <1>1 DEF Edges
<1>6. task.edges[e].lo \in 1 .. task.n /\ task.edges[e].hi \in 1 .. task.n
      /\ task.edges[e].kind \in {"regular", "negative", "optional"}
      /\ task.edges[e].data \subseteq (0 .. Null - 1) \X (0 .. Null - 1)
  BY <1>2, <1>3
<1>7. e \in Nat \ {0} /\ (IsTable => e \in 1 .. Levels)
  BY <1>2 DEF Levels
<1> QED
  BY <1>4, <1>5, <1>6, <1>7 DEF Edge

(* The data vertices are numbers below the null value. *)
LEMMA DataVerticesAreNumbers ==
  ASSUME task \in Tasks
  PROVE  /\ DataVertices \subseteq 0 .. Null - 1 /\ Null \in Nat /\ Null \notin DataVertices
         /\ IsFiniteSet(DataVertices)
         /\ \A t \in Subtasks, v \in 1 .. task.n : task.subtasks[t][v] \subseteq DataVertices
<1>1. \A t \in Subtasks, v \in 1 .. task.n : task.subtasks[t][v] \subseteq 0 .. Null - 1
  BY TaskParts
<1>2. DataVertices \subseteq 0 .. Null - 1
  BY <1>1 DEF DataVertices, Subtasks
<1>3. Null \in Nat /\ Null \notin 0 .. Null - 1
  BY NullAssumption
<1>4. IsFiniteSet(0 .. Null - 1)
  BY <1>3, FS_Interval
<1>5. IsFiniteSet(DataVertices)
  BY <1>2, <1>4, FS_Subset
<1>6. \A t \in Subtasks, v \in 1 .. task.n : task.subtasks[t][v] \subseteq DataVertices
  BY DEF DataVertices, Subtasks
<1> QED
  BY <1>2, <1>3, <1>5, <1>6

(* The end points of the edges of a shard are in the ranges of its subtask. *)
LEMMA ShardParts ==
  ASSUME task \in Tasks, NEW e \in Edges, NEW t \in Subtasks
  PROVE  \A p \in Shard(e, t) : /\ p = <<p[1], p[2]>> /\ p \in Edge(e).data
                                /\ p[1] \in task.subtasks[t][Edge(e).lo] /\ p[1] \in DataVertices
                                /\ p[2] \in task.subtasks[t][Edge(e).hi] /\ p[2] \in DataVertices
<1>1. /\ Edge(e).data \subseteq (0 .. Null - 1) \X (0 .. Null - 1)
      /\ Edge(e).lo \in 1 .. task.n /\ Edge(e).hi \in 1 .. task.n
  BY EdgeParts
<1>2. ASSUME NEW p \in Shard(e, t)
      PROVE  /\ p = <<p[1], p[2]>> /\ p \in Edge(e).data
             /\ p[1] \in task.subtasks[t][Edge(e).lo] /\ p[2] \in task.subtasks[t][Edge(e).hi]
  BY <1>1, <1>2 DEF Shard
<1> QED
  BY <1>1, <1>2, DataVerticesAreNumbers

(* The lists of a shard: its sources, and the destinations of each.        *)
LEMMA ListParts ==
  ASSUME task \in Tasks, NEW e \in Edges, NEW t \in Subtasks
  PROVE  /\ Rows(Shard(e, t)).list = {p[1] : p \in Shard(e, t)}
         /\ Rows(Shard(e, t)).list \subseteq task.subtasks[t][Edge(e).lo]
         /\ Rows(Shard(e, t)).list \subseteq DataVertices
         /\ \A u : /\ AdjList(Shard(e, t), u).list = {v \in DataVertices : <<u, v>> \in Shard(e, t)}
                   /\ AdjList(Shard(e, t), u).list \subseteq task.subtasks[t][Edge(e).hi]
<1>1. Rows(Shard(e, t)).list = {p[1] : p \in Shard(e, t)}
  BY DEF Rows
<1>2. Rows(Shard(e, t)).list \subseteq task.subtasks[t][Edge(e).lo] /\ Rows(Shard(e, t)).list \subseteq DataVertices
  BY <1>1, ShardParts
<1>3. ASSUME NEW u
      PROVE  /\ AdjList(Shard(e, t), u).list = {v \in DataVertices : <<u, v>> \in Shard(e, t)}
             /\ AdjList(Shard(e, t), u).list \subseteq task.subtasks[t][Edge(e).hi]
  <2>1. AdjList(Shard(e, t), u).list = {p[2] : p \in {q \in Shard(e, t) : q[1] = u}}
    BY DEF AdjList
  <2> QED
    BY <2>1, ShardParts
<1> QED
  BY <1>1, <1>2, <1>3

(* A buffer full of a list is no more than the buffer has room for. *)
LEMMA ChunkFits ==
  ASSUME task \in Tasks, NEW list \in SUBSET DataVertices
  PROVE  /\ Chunk(list) \subseteq list
         /\ \A s \in SUBSET Chunk(list) : IsFiniteSet(s) /\ Cardinality(s) <= task.threshold
<1> DEFINE R == {p \in list \X list : p[1] < p[2]}
           f == [v \in Chunk(list) |-> Rank(v, list)]
           T == 0 .. task.threshold - 1
<1>1. /\ list \in SUBSET Nat /\ IsFiniteSet(list) /\ task.threshold \in Nat \ {0}
  BY DataVerticesAreNumbers, TaskParts, FS_Subset
<1>2. Chunk(list) \subseteq list
  BY DEF Chunk
<1>3. \A v \in list : Rank(v, list) = Cardinality(Lower(R, list, v))
  <2>1. ASSUME NEW v \in list PROVE {w \in list : w < v} = Lower(R, list, v)
    BY <2>1 DEF Lower
  <2> QED
    BY <2>1 DEF Rank
<1>4. StrictOrder(R, list)
  BY <1>1 DEF StrictOrder
<1> HIDE DEF R
<1>5. /\ \A v, w \in list : Rank(v, list) = Rank(w, list) => v = w
      /\ \A v \in list : Rank(v, list) \in Nat
  BY <1>1, <1>3, <1>4, RankedBy, RankIsSmall
<1>6. f \in Injection(Chunk(list), T)
  <2>1. \A v \in Chunk(list) : Rank(v, list) \in T
    BY <1>1, <1>5 DEF Chunk
  <2>2. f \in [Chunk(list) -> T]
    BY <2>1
  <2> QED
    BY <1>2, <1>5, <2>2 DEF Injection, IsInjective
<1>7. IsFiniteSet(T) /\ Cardinality(T) = task.threshold
  <2>1. 0 \in Int /\ task.threshold - 1 \in Int /\ ~(0 > task.threshold - 1)
        /\ task.threshold - 1 - 0 + 1 = task.threshold
    BY <1>1
  <2> QED
    BY <2>1, FS_Interval
<1> HIDE DEF T, f
<1>8. IsFiniteSet(Chunk(list)) /\ Cardinality(Chunk(list)) <= task.threshold
  BY <1>6, <1>7, FS_Injection
<1>9. ASSUME NEW s \in SUBSET Chunk(list) PROVE IsFiniteSet(s) /\ Cardinality(s) <= task.threshold
  <2>1. IsFiniteSet(s) /\ Cardinality(s) <= Cardinality(Chunk(list))
    BY <1>8, FS_Subset
  <2> QED
    BY <1>1, <1>8, <2>1, FS_CardinalityType
<1> QED
  BY <1>2, <1>9

-----------------------------------------------------------------------------
(* The lists of a vertex, and what is taken from them.                     *)

(* The lists are those of the edges that join, and lists of data vertices. *)
LEMMA WindowsParts ==
  ASSUME task \in Tasks, subtask \in Subtasks
  PROVE  /\ Joins(dep) \subseteq Edges /\ DOMAIN Windows = Joins(dep)
         /\ \A e \in Joins(dep) : Windows[e].list \subseteq DataVertices
<1>1. Joins(dep) \subseteq Edges /\ DOMAIN Windows = Joins(dep)
  BY DEF Joins, Windows
<1>2. ASSUME NEW e \in Joins(dep) PROVE Windows[e].list \subseteq DataVertices
  <2>1. Windows[e] = IF Edge(e).lo = dep THEN Rows(Shard(e, subtask))
                     ELSE AdjList(Shard(e, subtask), rslt[Edge(e).lo])
    BY DEF Windows
  <2>2. /\ Rows(Shard(e, subtask)).list \subseteq DataVertices
        /\ \A u : AdjList(Shard(e, subtask), u).list = {v \in DataVertices : <<u, v>> \in Shard(e, subtask)}
    BY <1>1, ListParts
  <2>3. /\ Rows(Shard(e, subtask)).list \subseteq DataVertices
        /\ \A u : AdjList(Shard(e, subtask), u).list \subseteq DataVertices
    BY <2>2
  <2>4. CASE Edge(e).lo = dep
    BY <2>1, <2>3, <2>4
  <2>5. CASE Edge(e).lo # dep
    BY <2>1, <2>3, <2>5
  <2> QED
    BY <2>4, <2>5
<1> QED
  BY <1>1, <1>2

(* The pivot is the edge of a list that no other is shorter than. *)
LEMMA PivotParts ==
  ASSUME task \in Tasks, ~IsTable, dep \in 1 .. Levels,
         NEW w, DOMAIN w = Joins(dep), \A e \in Joins(dep) : w[e].list \subseteq DataVertices
  PROVE  /\ Pivot(w) \in Joins(dep) /\ Edge(Pivot(w)).kind # "negative"
         /\ \A f \in Joins(dep) : Edge(f).kind # "negative" =>
              Cardinality(w[Pivot(w)].list) <= Cardinality(w[f].list)
<1> DEFINE lists == {e \in DOMAIN w : Edge(e).kind # "negative"}
           sizes == {Cardinality(w[e].list) : e \in lists}
           Shortest(e) == \A f \in lists :
             \/ Cardinality(w[e].list) < Cardinality(w[f].list)
             \/ Cardinality(w[e].list) = Cardinality(w[f].list) /\ e <= f
<1>1. lists # {}
  <2>1. dep \in 1 .. task.n
    BY DEF Levels
  <2> QED
    BY <2>1, TaskParts DEF Joins
<1>2. \A e \in lists : e \in Nat /\ Cardinality(w[e].list) \in Nat
  <2>1. \A e \in lists : e \in Edges /\ w[e].list \subseteq DataVertices
    BY DEF Joins
  <2>2. \A e \in lists : IsFiniteSet(w[e].list)
    BY <2>1, DataVerticesAreNumbers, FS_Subset
  <2> QED
    BY <2>1, <2>2, EdgeParts, FS_CardinalityType
<1> HIDE DEF lists
<1>3. sizes \in SUBSET Nat /\ sizes # {}
  BY <1>1, <1>2
<1>4. PICK k \in sizes : \A x \in sizes : k <= x
  BY <1>3, LeastNatural
<1> DEFINE least == {e \in lists : Cardinality(w[e].list) = k}
<1>5. least \in SUBSET Nat /\ least # {}
  BY <1>2, <1>4
<1>6. PICK p \in least : \A x \in least : p <= x
  BY <1>5, LeastNatural
<1>7. p \in lists /\ Shortest(p)
  <2>1. ASSUME NEW f \in lists
        PROVE  \/ Cardinality(w[p].list) < Cardinality(w[f].list)
               \/ Cardinality(w[p].list) = Cardinality(w[f].list) /\ p <= f
    <3>1. Cardinality(w[f].list) \in sizes /\ Cardinality(w[p].list) = k /\ k \in Nat
      BY <1>3
    <3>2. k <= Cardinality(w[f].list) /\ Cardinality(w[f].list) \in Nat
      BY <1>2, <1>4, <3>1
    <3>3. CASE Cardinality(w[f].list) = k
      BY <1>6, <3>1, <3>3
    <3> QED
      BY <3>1, <3>2, <3>3
  <2> QED
    BY <2>1
<1>8. Pivot(w) = CHOOSE e \in lists : Shortest(e)
  BY DEF Pivot, lists
<1> HIDE DEF Shortest
<1>9. Pivot(w) \in lists /\ Shortest(Pivot(w))
  BY <1>7, <1>8
<1>10. \A f \in lists : Cardinality(w[Pivot(w)].list) <= Cardinality(w[f].list)
  BY <1>2, <1>9 DEF Shortest
<1> QED
  BY <1>9, <1>10 DEF lists

(* The kernel is that of the pattern. *)
LEMMA Dispatch ==
  ASSUME task \in Tasks, NEW w, NEW p
  PROVE  /\ \/ PatternOf(task) = {} /\ Initially(w, p) = InitialBasic(w, p)
                                    /\ Again(w, p) = ResumeBasic(w, p)
            \/ PatternOf(task) = {"constraint"} /\ Initially(w, p) = InitialConstraint(w, p)
                                                /\ Again(w, p) = ResumeConstraint(w, p)
            \/ PatternOf(task) = {"negative"} /\ Initially(w, p) = InitialNegative(w, p)
                                              /\ Again(w, p) = ResumeNegative(w, p)
            \/ PatternOf(task) = {"optional"} /\ Initially(w, p) = InitialOptional(w, p)
                                              /\ Again(w, p) = ResumeOptional(w, p)
            \/ PatternOf(task) = {"constraint", "optional"}
                 /\ Initially(w, p) = InitialOptionalConstraint(w, p)
                 /\ Again(w, p) = ResumeOptionalConstraint(w, p)
            \/ PatternOf(task) = {"constraint", "negative"}
                 /\ Initially(w, p) = InitialNegativeConstraint(w, p)
                 /\ Again(w, p) = ResumeNegativeConstraint(w, p)
         /\ \A e \in Edges : Edge(e).kind = "regular" \/ Edge(e).kind \in PatternOf(task)
         /\ \A v : IsOptional(v) => "optional" \in PatternOf(task)
         /\ \A v \in 1 .. task.n : task.apart[v] # {} => "constraint" \in PatternOf(task)
<1> DEFINE P == PatternOf(task)
<1>1. P \subseteq {"negative", "optional", "constraint"} /\ ~({"negative", "optional"} \subseteq P)
  <2>1. \A e \in DOMAIN task.edges : task.edges[e].kind \in {"regular", "negative", "optional"}
    BY EdgeParts DEF Edges, Edge
  <2>2. P \subseteq {"negative", "optional", "constraint"}
    BY <2>1 DEF PatternOf
  <2> QED
    BY <2>2, SupportedAssumption DEF SupportedAssumption
<1>2. \/ P = {} \/ P = {"constraint"} \/ P = {"negative"} \/ P = {"optional"}
      \/ P = {"constraint", "optional"} \/ P = {"constraint", "negative"}
  <2> HIDE DEF P
  <2>1. CASE "constraint" \in P
    <3>1. CASE "negative" \in P
      BY <1>1, <2>1, <3>1
    <3>2. CASE "optional" \in P
      BY <1>1, <2>1, <3>2
    <3>3. CASE "negative" \notin P /\ "optional" \notin P
      BY <1>1, <2>1, <3>3
    <3> QED
      BY <3>1, <3>2, <3>3
  <2>2. CASE "constraint" \notin P
    <3>1. CASE "negative" \in P
      BY <1>1, <2>2, <3>1
    <3>2. CASE "optional" \in P
      BY <1>1, <2>2, <3>2
    <3>3. CASE "negative" \notin P /\ "optional" \notin P
      BY <1>1, <2>2, <3>3
    <3> QED
      BY <3>1, <3>2, <3>3
  <2> QED
    BY <2>1, <2>2
<1>3. \A e \in Edges : Edge(e).kind = "regular" \/ Edge(e).kind \in P
  BY DEF PatternOf, Edges, Edge
<1>4. \A v : IsOptional(v) => "optional" \in P
  BY <1>3 DEF IsOptional
<1>5. \A v \in 1 .. task.n : task.apart[v] # {} => "constraint" \in P
  BY TaskParts DEF PatternOf
<1> HIDE DEF P
<1>6. /\ P = {} => Initially(w, p) = InitialBasic(w, p) /\ Again(w, p) = ResumeBasic(w, p)
      /\ P = {"constraint"} => Initially(w, p) = InitialConstraint(w, p) /\ Again(w, p) = ResumeConstraint(w, p)
      /\ P = {"negative"} => Initially(w, p) = InitialNegative(w, p) /\ Again(w, p) = ResumeNegative(w, p)
      /\ P = {"optional"} => Initially(w, p) = InitialOptional(w, p) /\ Again(w, p) = ResumeOptional(w, p)
      /\ P = {"constraint", "optional"} =>
           Initially(w, p) = InitialOptionalConstraint(w, p) /\ Again(w, p) = ResumeOptionalConstraint(w, p)
      /\ P = {"constraint", "negative"} =>
           Initially(w, p) = InitialNegativeConstraint(w, p) /\ Again(w, p) = ResumeNegativeConstraint(w, p)
  <2>1. /\ {} # {"constraint"} /\ {} # {"negative"} /\ {} # {"optional"}
        /\ {} # {"constraint", "optional"} /\ {} # {"constraint", "negative"}
    OBVIOUS
  <2>2. /\ "constraint" # "negative" /\ "constraint" # "optional" /\ "negative" # "optional"
    OBVIOUS
  <2>3. CASE P = {}
    BY <2>1, <2>3 DEF Initially, Again, P
  <2>4. CASE P = {"constraint"}
    BY <2>1, <2>2, <2>4 DEF Initially, Again, P
  <2>5. CASE P = {"negative"}
    BY <2>1, <2>2, <2>5 DEF Initially, Again, P
  <2>6. CASE P = {"optional"}
    BY <2>1, <2>2, <2>6 DEF Initially, Again, P
  <2>7. CASE P = {"constraint", "optional"}
    BY <2>1, <2>2, <2>7 DEF Initially, Again, P
  <2>8. CASE P = {"constraint", "negative"}
    BY <2>1, <2>2, <2>8 DEF Initially, Again, P
  <2> QED
    BY <1>2, <2>1, <2>2, <2>3, <2>4, <2>5, <2>6, <2>7, <2>8
<1> QED
  BY <1>2, <1>3, <1>4, <1>5, <1>6 DEF P

(* The other lists allow v: those of negative edges do not have it. *)
OthersAgree(w, p, v) ==
  \A e \in (DOMAIN w) \ {p} :
    IF Edge(e).kind = "negative" THEN v \notin w[e].list ELSE LowerBound(w[e], v)

(* The constraints of every vertex are compared: a constrained vertex of a *)
(* pattern with optional edges, below the last vertex, has two lists.  The *)
(* optional kernel takes a single list as it is.                           *)
ConstraintsCompared(k) ==
  "optional" \in PatternOf(k) =>
    \A v \in 1 .. k.n - 1 : k.apart[v] # {} =>
      \E e, f \in DOMAIN k.edges : e # f /\ \A g \in {e, f} :
        k.edges[g].hi = v \/ (k.edges[g].lo = v /\ k.edges[g].kind = "regular")

(* What was taken from a list, and what was left of it: of a list that is  *)
(* not taken whole, and before an optional vertex, a buffer full at most.  *)
TakenFrom(list, some, more) ==
  /\ some \subseteq list /\ more \subseteq list
  /\ more # {} \/ (dep < task.n /\ IsOptional(dep + 1)) => Cardinality(some) <= task.threshold

(* It was joined with the other lists. *)
Taken(list, w, p, some, more) ==
  /\ TakenFrom(list, some, more)
  /\ \A v \in some : OthersAgree(w, p, v) /\ (ConstraintsCompared(task) => Distinct(v))

(* A buffer full of a part of the list.                                    *)
LEMMA BufferTakes ==
  ASSUME task \in Tasks, NEW list \in SUBSET DataVertices, NEW part \in SUBSET list, NEW w, NEW p,
         NEW ok, \A v \in ok : OthersAgree(w, p, v) /\ Distinct(v)
  PROVE  Taken(list, w, p, Buffer(part, ok).some, Buffer(part, ok).more)
<1>1. Buffer(part, ok).some = Chunk(part) \cap ok /\ Buffer(part, ok).more = part \ Chunk(part)
  BY DEF Buffer
<1>2. part \in SUBSET DataVertices
  OBVIOUS
<1>3. Chunk(part) \subseteq part /\ Cardinality(Chunk(part) \cap ok) <= task.threshold
  BY <1>2, ChunkFits
<1> QED
  BY <1>1, <1>3 DEF Taken, TakenFrom

(* A list that is joined with the others, in a block's part.               *)
LEMMA JoinedTakes ==
  ASSUME task \in Tasks, NEW list \in SUBSET DataVertices, NEW w, NEW p, dep \in Nat,
         NEW ok \in SUBSET list, \A v \in ok : OthersAgree(w, p, v) /\ Distinct(v)
  PROVE  Taken(list, w, p, Joined(list, ok).some, Joined(list, ok).more)
<1>1. CASE dep = task.n
  <2>1. Joined(list, ok).some = ok /\ Joined(list, ok).more = {}
    BY <1>1, TaskParts DEF Joined
  <2>2. ~(dep < task.n)
    BY <1>1
  <2> QED
    BY <2>1, <2>2 DEF Taken, TakenFrom
<1>2. CASE dep # task.n
  <2>1. PICK part \in SUBSET list : Joined(list, ok) = Buffer(part, ok)
    <3>1. Part(list) \in SUBSET list
      BY DEF Part
    <3> QED
      BY <1>2, <3>1 DEF Joined
  <2> QED
    BY <2>1, BufferTakes
<1> QED
  BY <1>1, <1>2

(* A list that is taken as it is. *)
LEMMA WholeTakes ==
  ASSUME NEW list, NEW w, NEW p,
         dep < task.n /\ IsOptional(dep + 1) => Cardinality(list) <= task.threshold,
         \A v \in list : OthersAgree(w, p, v) /\ (ConstraintsCompared(task) => Distinct(v))
  PROVE  Taken(list, w, p, Whole(list).some, Whole(list).more)
<1>1. Whole(list).some = list /\ Whole(list).more = {}
  BY DEF Whole
<1> QED
  BY <1>1 DEF Taken, TakenFrom

(* If the list is the only one, no other has to agree. *)
LEMMA NoOthers ==
  ASSUME NEW w, NEW p \in DOMAIN w, OneList(w), IsFiniteSet(DOMAIN w), NEW v
  PROVE  DOMAIN w = {p} /\ OthersAgree(w, p, v)
<1>1. DOMAIN w = {p}
  BY FS_Singleton DEF OneList
<1> QED
  BY <1>1 DEF OthersAgree

(* The only list of a vertex before an optional one: there is a flag for   *)
(* each of its elements.                                                   *)
LEMMA SingleFits ==
  ASSUME task \in Tasks, ~IsTable, subtask \in Subtasks, dep \in 1 .. task.n - 1,
         IsOptional(dep + 1), NEW f \in Joins(dep), Joins(dep) = {f}
  PROVE  Cardinality(Windows[f].list) <= task.threshold
<1>1. PICK o \in Edges : Edge(o).kind = "optional" /\ Edge(o).hi = dep + 1
  BY DEF IsOptional
<1>2. f \in Edges /\ task.n \in Nat /\ dep \in Nat /\ task.threshold \in Nat
  BY TaskParts DEF Joins
<1>3. Edge(f).hi = dep
  <2>1. SUFFICES ASSUME Edge(f).hi # dep PROVE FALSE
    OBVIOUS
  <2>2. Edge(f).lo = dep /\ Edge(f).kind = "regular"
    BY <2>1 DEF Joins
  <2>3. Edge(f).hi < dep + 1
    BY <1>1, <1>2, <2>2, OptionalAssumption DEF OptionalAssumption, Edges, Edge
  <2>4. dep < Edge(f).hi /\ Edge(f).hi \in Nat
    BY <1>2, <2>2, EdgeParts
  <2> QED
    BY <1>2, <2>3, <2>4
<1>4. \A g \in Edges \ {f} : Edge(g).hi # Edge(f).hi /\ (Edge(g).lo = Edge(f).hi => Edge(g).kind # "regular")
  BY <1>3 DEF Joins
<1>5. \A t \in Subtasks : \A p \in Edge(f).data :
        Cardinality({q \in Edge(f).data : q[1] = p[1] /\ q[2] \in task.subtasks[t][Edge(f).hi]}) <= task.threshold
  <2>1. FlagsFit(task)
    BY OptionalAssumption DEF OptionalAssumption
  <2>2. task.edges[o].kind = "optional" /\ task.edges[f].hi = task.edges[o].hi - 1
    BY <1>1, <1>2, <1>3 DEF Edge
  <2>3. \A g \in (DOMAIN task.edges) \ {f} :
          /\ task.edges[g].hi # task.edges[f].hi
          /\ task.edges[g].lo = task.edges[f].hi => task.edges[g].kind # "regular"
    BY <1>4 DEF Edges, Edge
  <2>4. o \in DOMAIN task.edges /\ f \in DOMAIN task.edges
    BY <1>1, <1>2 DEF Edges
  <2>5. \A t \in DOMAIN task.subtasks : \A p \in task.edges[f].data :
          Cardinality({q \in task.edges[f].data :
                         q[1] = p[1] /\ q[2] \in task.subtasks[t][task.edges[f].hi]}) <= task.threshold
    BY <2>1, <2>2, <2>3, <2>4 DEF FlagsFit
  <2> QED
    BY <2>5 DEF Edge, Subtasks
<1> DEFINE u == rslt[Edge(f).lo]
           list == Windows[f].list
<1>6. list = {v \in DataVertices : <<u, v>> \in Shard(f, subtask)}
      /\ list \subseteq task.subtasks[subtask][Edge(f).hi]
  <2>1. Edge(f).lo # dep
    <3>1. Edge(f).lo < Edge(f).hi /\ Edge(f).lo \in Nat
      BY <1>2, EdgeParts
    <3> QED
      BY <1>3, <3>1
  <2>2. Windows[f] = AdjList(Shard(f, subtask), u)
    BY <2>1 DEF Windows
  <2> QED
    BY <1>2, <2>2, ListParts
<1> HIDE DEF list, u
<1>7. CASE list = {}
  BY <1>2, <1>7, FS_EmptySet DEF list
<1>8. ASSUME NEW x \in list PROVE Cardinality(list) <= task.threshold
  <2> DEFINE out == {q \in Edge(f).data : q[1] = u /\ q[2] \in task.subtasks[subtask][Edge(f).hi]}
             g == [v \in list |-> <<u, v>>]
  <2>1. <<u, x>> \in Edge(f).data /\ <<u, x>>[1] = u
    BY <1>6, <1>8 DEF Shard
  <2>2. Cardinality(out) <= task.threshold
    BY <1>5, <2>1
  <2>3. Edge(f).data \subseteq (0 .. Null - 1) \X (0 .. Null - 1)
    BY <1>2, EdgeParts
  <2>4. IsFiniteSet(out)
    <3>1. Null \in Nat
      BY NullAssumption
    <3>2. IsFiniteSet(0 .. Null - 1)
      BY <3>1, FS_Interval
    <3>3. IsFiniteSet((0 .. Null - 1) \X (0 .. Null - 1))
      BY <3>2, FS_Product
    <3>4. out \in SUBSET ((0 .. Null - 1) \X (0 .. Null - 1))
      BY <2>3
    <3> QED
      BY <3>3, <3>4, FS_Subset
  <2>5. \A v \in list : <<u, v>> \in out
    BY <1>6 DEF Shard
  <2> HIDE DEF out
  <2>6. g \in Injection(list, out)
    <3>1. g \in [list -> out]
      BY <2>5
    <3>2. \A v, y \in list : g[v] = g[y] => v = y
      OBVIOUS
    <3> QED
      BY <3>1, <3>2 DEF Injection, IsInjective
  <2>7. Cardinality(list) <= Cardinality(out) /\ IsFiniteSet(list)
    BY <2>4, <2>6, FS_Injection
  <2> QED
    BY <1>2, <2>2, <2>4, <2>7, FS_CardinalityType
<1> QED
  BY <1>7, <1>8 DEF list

(* There are finitely many edges.                                          *)
LEMMA EdgesAreFinite ==
  ASSUME task \in Tasks
  PROVE  IsFiniteSet(Edges) /\ IsFiniteSet(Joins(dep))
<1>1. task.edges \in Seq([lo : 1 .. task.n, hi : 1 .. task.n, kind : {"regular", "negative", "optional"},
                          data : SUBSET ((0 .. Null - 1) \X (0 .. Null - 1))])
  BY TasksAssumption DEF TasksAssumption
<1>2. Edges = 1 .. Len(task.edges) /\ Len(task.edges) \in Nat
  BY <1>1 DEF Edges
<1>3. IsFiniteSet(Edges)
  BY <1>2, FS_Interval
<1>4. Joins(dep) \in SUBSET Edges
  BY DEF Joins
<1> QED
  BY <1>3, <1>4, FS_Subset

(* A vertex without constraints is different from what it has to be. *)
LEMMA Unconstrained ==
  ASSUME ~Constrained, NEW v
  PROVE  Distinct(v)
BY DEF Constrained, Distinct

(* Without negative edges the lists agree if v is found in all of them. *)
LEMMA FoundAgrees ==
  ASSUME NEW w, NEW p, NEW v, InOthers(w, p, v), \A e \in DOMAIN w : Edge(e).kind # "negative"
  PROVE  OthersAgree(w, p, v)
BY DEF InOthers, OthersAgree

(* With negative edges, if v is not in the lists of those.                 *)
LEMMA FoundOrAbsentAgrees ==
  ASSUME NEW w, NEW p, NEW v, InOthersOrAbsent(w, p, v) \/ InOthersNotFound(w, p, v)
  PROVE  OthersAgree(w, p, v)
<1> SUFFICES ASSUME NEW e \in (DOMAIN w) \ {p}
             PROVE  IF Edge(e).kind = "negative" THEN v \notin w[e].list ELSE LowerBound(w[e], v)
  BY DEF OthersAgree
<1>1. v \in w[e].list => LowerBound(w[e], v)
  BY DEF LowerBound
<1>2. CASE Edge(e).kind = "negative"
  BY <1>1, <1>2 DEF InOthersOrAbsent, InOthersNotFound
<1>3. CASE Edge(e).kind # "negative"
  BY <1>3 DEF InOthersOrAbsent, InOthersNotFound
<1> QED
  BY <1>2, <1>3

(* Before an optional vertex all kernels but the optional ones are out of  *)
(* the question; whatever a kernel takes from the shortest list first is   *)
(* joined with the other lists, and if there are flags to set for the next *)
(* vertex there is one for each candidate.                                 *)
LEMMA InitialTakes ==
  ASSUME task \in Tasks, ~IsTable, subtask \in Subtasks, dep \in 1 .. Levels,
         NEW w, w = Windows, NEW p, p = Pivot(w), NEW r, r = Initially(w, p)
  PROVE  Taken(w[p].list, w, p, r.some, r.more)
<1> DEFINE list == w[p].list
           T(x) == Taken(list, w, p, x.some, x.more)
<1>1. DOMAIN w = Joins(dep) /\ Joins(dep) \subseteq Edges /\ \A e \in Joins(dep) : w[e].list \subseteq DataVertices
  BY WindowsParts
<1>2. p \in Joins(dep) /\ Edge(p).kind # "negative"
  BY <1>1, PivotParts
<1>3. list \in SUBSET DataVertices /\ IsFiniteSet(DOMAIN w) /\ dep \in 1 .. task.n /\ task.n \in Nat /\ dep \in Nat
  BY <1>1, <1>2, EdgesAreFinite, TaskParts DEF Levels
<1> HIDE DEF list
<1>4. ASSUME NEW ok \in SUBSET list, \A v \in ok : OthersAgree(w, p, v) /\ Distinct(v)
      PROVE  T(Joined(list, ok))
  BY <1>3, <1>4, JoinedTakes
<1>5. ASSUME OneList(w) PROVE \A v : OthersAgree(w, p, v)
  BY <1>1, <1>2, <1>3, <1>5, NoOthers
<1>6. ASSUME OneList(w), dep < task.n, IsOptional(dep + 1)
      PROVE  Cardinality(list) <= task.threshold
  <2>1. DOMAIN w = {p}
    BY <1>1, <1>2, <1>3, <1>6, NoOthers
  <2>2. dep \in 1 .. task.n - 1 /\ Joins(dep) = {p}
    BY <1>1, <1>3, <1>6, <2>1
  <2> QED
    BY <1>2, <1>6, <2>2, SingleFits DEF list
<1>7. ASSUME OneList(w), ConstraintsCompared(task) => \A v : Distinct(v)
      PROVE  T(Whole(list))
  BY <1>5, <1>6, <1>7, WholeTakes
<1>8. ASSUME list = {} PROVE T(Whole(list))
  <2>1. Cardinality(list) <= task.threshold
    BY <1>8, TaskParts, FS_EmptySet
  <2> QED
    BY <1>8, <2>1, WholeTakes
<1>9. ASSUME ~Constrained PROVE \A v : Distinct(v)
  BY <1>9, Unconstrained
<1>10. \A e \in DOMAIN w : Edge(e).kind = "regular" \/ Edge(e).kind \in PatternOf(task)
  BY <1>1, Dispatch
<1>11. ("constraint" \notin PatternOf(task)) => ~Constrained
  BY <1>3, Dispatch DEF Constrained
<1>12. ASSUME "negative" \notin PatternOf(task), NEW v, InOthers(w, p, v) PROVE OthersAgree(w, p, v)
  <2>1. \A e \in DOMAIN w : Edge(e).kind # "negative"
    BY <1>10, <1>12
  <2> QED
    BY <1>12, <2>1, FoundAgrees
<1>13. ASSUME "negative" \notin PatternOf(task)
       PROVE  T(Joined(list, {v \in list : Distinct(v) /\ InOthers(w, p, v)}))
  BY <1>4, <1>12, <1>13
<1>14. T(Joined(list, {v \in list : Distinct(v) /\ InOthersOrAbsent(w, p, v)}))
  BY <1>4, FoundOrAbsentAgrees
<1>15. ASSUME "negative" \notin PatternOf(task), ~Constrained
       PROVE  T(Joined(list, {v \in list : InOthers(w, p, v)}))
  BY <1>4, <1>9, <1>12, <1>15
<1>16. ASSUME ~Constrained
       PROVE  T(Joined(list, {v \in list : InOthersOrAbsent(w, p, v)}))
  BY <1>4, <1>9, <1>16, FoundOrAbsentAgrees
<1>17. ASSUME ~Constrained, OneList(w) PROVE T(Whole(list))
  BY <1>7, <1>9, <1>17
<1>18. ASSUME "negative" \notin PatternOf(task), ~Constrained PROVE T(InitialBasic(w, p))
  BY <1>15, <1>17, <1>18 DEF InitialBasic, list
<1>19. ASSUME ~Constrained PROVE T(InitialNegative(w, p))
  BY <1>16, <1>17, <1>19 DEF InitialNegative, list
<1>20. ASSUME "negative" \notin PatternOf(task), ~Constrained PROVE T(InitialOptional(w, p))
  BY <1>8, <1>15, <1>17, <1>20 DEF InitialOptional, list
<1>21. ASSUME "negative" \notin PatternOf(task) PROVE T(InitialConstraint(w, p))
  BY <1>13, <1>18, <1>21 DEF InitialConstraint, list
<1>22. T(InitialNegativeConstraint(w, p))
  BY <1>14, <1>19 DEF InitialNegativeConstraint, list
<1>23. ASSUME "negative" \notin PatternOf(task), "optional" \in PatternOf(task)
       PROVE  T(InitialOptionalConstraint(w, p))
  <2>1. CASE ~Constrained
    BY <1>20, <1>23, <2>1 DEF InitialOptionalConstraint
  <2>2. CASE Constrained /\ list = {}
    BY <1>8, <2>2 DEF InitialOptionalConstraint, list
  <2>3. CASE Constrained /\ list # {} /\ dep # 1 /\ OneList(w) /\ dep # task.n /\ ~LongList(list)
    <3>1. ASSUME ConstraintsCompared(task) PROVE FALSE
      <4>1. dep \in 1 .. task.n - 1
        BY <1>3, <2>3
      <4>2. PICK e, f \in Edges : e # f /\ \A g \in {e, f} :
              Edge(g).hi = dep \/ (Edge(g).lo = dep /\ Edge(g).kind = "regular")
        BY <1>23, <2>3, <3>1, <4>1 DEF ConstraintsCompared, Constrained, Edges, Edge
      <4>3. e \in Joins(dep) /\ f \in Joins(dep)
        BY <4>2 DEF Joins
      <4>4. Joins(dep) = {p}
        BY <1>1, <1>2, <1>3, <2>3, NoOthers
      <4> QED
        BY <4>2, <4>3, <4>4
    <3>2. T(Whole(list))
      BY <1>7, <2>3, <3>1
    <3> QED
      BY <2>3, <3>2 DEF InitialOptionalConstraint, list
  <2>4. CASE Constrained /\ list # {} /\ ~(dep # 1 /\ OneList(w) /\ dep # task.n /\ ~LongList(list))
    <3>1. InitialOptionalConstraint(w, p) = Joined(list, {v \in list : Distinct(v) /\ InOthers(w, p, v)})
      BY <2>4 DEF InitialOptionalConstraint, list
    <3> QED
      BY <1>13, <1>23, <3>1
  <2> QED
    BY <2>1, <2>2, <2>3, <2>4
<1> HIDE DEF T
<1>24. T(r)
  <2>1. CASE PatternOf(task) = {}
    BY <1>11, <1>18, <2>1, Dispatch
  <2>2. CASE PatternOf(task) = {"constraint"}
    BY <1>21, <2>2, Dispatch
  <2>3. CASE PatternOf(task) = {"negative"}
    BY <1>11, <1>19, <2>3, Dispatch
  <2>4. CASE PatternOf(task) = {"optional"}
    BY <1>11, <1>20, <2>4, Dispatch
  <2>5. CASE PatternOf(task) = {"constraint", "optional"}
    BY <1>23, <2>5, Dispatch
  <2>6. CASE PatternOf(task) = {"constraint", "negative"}
    BY <1>22, <2>6, Dispatch
  <2> QED
    BY <2>1, <2>2, <2>3, <2>4, <2>5, <2>6, Dispatch
<1> QED
  BY <1>24 DEF T, list

(* When the buffer is filled again it is with a buffer full of the rest. *)
LEMMA AgainTakes ==
  ASSUME task \in Tasks, rest[dep] \subseteq DataVertices, NEW w, NEW p, NEW r, r = Again(w, p)
  PROVE  TakenFrom(rest[dep], r.some, r.more)
<1> DEFINE B(x) == \E ok : x = Buffer(rest[dep], ok)
<1>1. B(ResumeBasic(w, p)) /\ B(ResumeNegative(w, p)) /\ B(ResumeOptional(w, p))
  BY DEF ResumeBasic, ResumeNegative, ResumeOptional
<1>2. /\ B(ResumeConstraint(w, p)) /\ B(ResumeNegativeConstraint(w, p)) /\ B(ResumeOptionalConstraint(w, p))
  BY <1>1 DEF ResumeConstraint, ResumeNegativeConstraint, ResumeOptionalConstraint
<1> HIDE DEF B
<1>3. B(r)
  BY <1>1, <1>2, Dispatch
<1>4. PICK ok : r = Buffer(rest[dep], ok)
  BY <1>3 DEF B
<1>5. r.some = Chunk(rest[dep]) \cap ok /\ r.more = rest[dep] \ Chunk(rest[dep])
  BY <1>4 DEF Buffer
<1>6. Chunk(rest[dep]) \subseteq rest[dep] /\ Cardinality(Chunk(rest[dep]) \cap ok) <= task.threshold
  BY ChunkFits
<1> QED
  BY <1>5, <1>6 DEF TakenFrom

(* It is joined with the other lists, too. *)
LEMMA ResumeTakes ==
  ASSUME task \in Tasks, dep \in 1 .. Levels, ~IsTable, rest[dep] \subseteq DataVertices,
         NEW w, DOMAIN w \subseteq Edges, NEW p, NEW r, r = Again(w, p)
  PROVE  Taken(rest[dep], w, p, r.some, r.more)
<1> DEFINE list == rest[dep]
           T(x) == Taken(list, w, p, x.some, x.more)
<1>1. list \in SUBSET DataVertices /\ list \in SUBSET list /\ dep \in 1 .. task.n
  BY DEF Levels
<1> HIDE DEF list
<1>2. ASSUME NEW ok, \A v \in ok : OthersAgree(w, p, v) /\ Distinct(v)
      PROVE  T(Buffer(list, ok))
  BY <1>1, <1>2, BufferTakes
<1>3. ASSUME ~Constrained PROVE \A v : Distinct(v)
  BY <1>3, Unconstrained
<1>4. ("constraint" \notin PatternOf(task)) => ~Constrained
  BY <1>1, Dispatch DEF Constrained
<1>5. ASSUME "negative" \notin PatternOf(task), NEW v, InOthers(w, p, v) PROVE OthersAgree(w, p, v)
  <2>1. \A e \in DOMAIN w : Edge(e).kind # "negative"
    BY <1>5, Dispatch
  <2> QED
    BY <1>5, <2>1, FoundAgrees
<1>6. ASSUME "negative" \notin PatternOf(task)
      PROVE  T(Buffer(list, {v \in list : Distinct(v) /\ InOthers(w, p, v)}))
  BY <1>2, <1>5, <1>6
<1>7. ASSUME "negative" \notin PatternOf(task), ~Constrained
      PROVE  T(Buffer(list, {v \in list : InOthers(w, p, v)}))
  BY <1>2, <1>3, <1>5, <1>7
<1>8. ASSUME ~Constrained
      PROVE  T(Buffer(list, {v \in list : InOthersOrAbsent(w, p, v)}))
  BY <1>2, <1>3, <1>8, FoundOrAbsentAgrees
<1>9. T(Buffer(list, {v \in list : Distinct(v) /\ InOthersNotFound(w, p, v)}))
  BY <1>2, FoundOrAbsentAgrees
<1>10. ASSUME "negative" \notin PatternOf(task)
       PROVE  /\ ~Constrained => T(ResumeBasic(w, p)) /\ T(ResumeOptional(w, p))
              /\ T(ResumeConstraint(w, p)) /\ T(ResumeOptionalConstraint(w, p))
  <2>1. ~Constrained => T(ResumeBasic(w, p)) /\ T(ResumeOptional(w, p))
    BY <1>7, <1>10 DEF ResumeBasic, ResumeOptional, list
  <2> QED
    BY <1>6, <1>10, <2>1 DEF ResumeConstraint, ResumeOptionalConstraint, list
<1>11. /\ ~Constrained => T(ResumeNegative(w, p))
       /\ T(ResumeNegativeConstraint(w, p))
  <2>1. ~Constrained => T(ResumeNegative(w, p))
    BY <1>8 DEF ResumeNegative, list
  <2> QED
    BY <1>9, <2>1 DEF ResumeNegativeConstraint, list
<1> HIDE DEF T
<1>12. T(r)
  <2>1. CASE PatternOf(task) = {}
    BY <1>4, <1>10, <2>1, Dispatch
  <2>2. CASE PatternOf(task) = {"constraint"}
    BY <1>10, <2>2, Dispatch
  <2>3. CASE PatternOf(task) = {"negative"}
    BY <1>4, <1>11, <2>3, Dispatch
  <2>4. CASE PatternOf(task) = {"optional"}
    BY <1>4, <1>10, <2>4, Dispatch
  <2>5. CASE PatternOf(task) = {"constraint", "optional"}
    BY <1>10, <2>5, Dispatch
  <2>6. CASE PatternOf(task) = {"constraint", "negative"}
    BY <1>11, <2>6, Dispatch
  <2> QED
    BY <2>1, <2>2, <2>3, <2>4, <2>5, <2>6, Dispatch
<1> QED
  BY <1>12 DEF T, list

-----------------------------------------------------------------------------
(* The types.                                                              *)

Candidates == DataVertices \cup {Null}

(* TypeOK with the domains of the functions: a group of the first level is *)
(* at work only if there is one, and a vertex that is not optional has no  *)
(* flags.                                                                  *)
TypeInv ==
  /\ block \in 1 .. task.blocks
  /\ root \in 1 .. Cardinality(Roots) + 1
  /\ pc = "match" => root <= Cardinality(Roots)
  /\ node \subseteq Subtasks
  /\ subtask \in {0} \cup Subtasks
  /\ rslt \in [1 .. task.n -> {0} \cup Candidates]
  /\ resume \in [1 .. Levels -> BOOLEAN]
  /\ pivot \in [1 .. Levels -> {0} \cup Edges]
  /\ {im, todo, empty} \subseteq [1 .. Levels -> SUBSET Candidates]
  /\ {rest, rows} \subseteq [1 .. Levels -> SUBSET DataVertices]
  /\ \A d \in 1 .. Levels :
       /\ todo[d] \subseteq im[d]
       /\ resume[d] => Cardinality(im[d]) <= task.threshold
       /\ empty[d] \subseteq IF d = 1 THEN {} ELSE im[d - 1]
       /\ IF IsOptional(d) THEN Cardinality(empty[d]) <= task.threshold ELSE empty[d] = {}
  /\ {count, counter} \subseteq Nat

(* They are those the runs check.                                          *)
LEMMA TypesAreOK ==
  ASSUME task \in Tasks, IInv, TypeInv
  PROVE  TypeOK
<1>1. /\ \A v \in 1 .. task.n : rslt[v] \in {0, Null} \cup DataVertices
      /\ \A d \in 1 .. Levels :
           /\ child[d] \in Nat /\ finish[d] \in BOOLEAN /\ resume[d] \in BOOLEAN
           /\ pivot[d] \in {0} \cup Edges
           /\ todo[d] \subseteq im[d] /\ im[d] \subseteq DataVertices \cup {Null}
           /\ (rest[d] \cup rows[d]) \subseteq DataVertices
           /\ resume[d] => Cardinality(im[d]) <= task.threshold
           /\ empty[d] \subseteq IF d = 1 THEN {} ELSE im[d - 1]
           /\ ~IsTable /\ IsOptional(d) => Cardinality(empty[d]) <= task.threshold
  BY DEF TypeInv, IInv, Candidates
<1> QED
  BY <1>1 DEF TypeOK, TypeInv, IInv, Subtasks

(* What does not change with the walk. *)
LEMMA SameTaskParts ==
  ASSUME task' = task
  PROVE  /\ IsTable' = IsTable /\ Edges' = Edges /\ DataVertices' = DataVertices /\ Candidates' = Candidates
         /\ Roots' = Roots /\ \A d : IsOptional(d)' = IsOptional(d)
         /\ \A e : Edge(e)' = Edge(e)
         /\ \A e, t : Shard(e, t)' = Shard(e, t)
         /\ \A d : Joins(d)' = Joins(d)
<1>1. /\ IsTable' = IsTable /\ Edges' = Edges /\ DataVertices' = DataVertices /\ Candidates' = Candidates
      /\ Roots' = Roots
  BY SameTask DEF IsTable, Edges, DataVertices, Candidates, Roots, Subtasks, Groups
<1>2. /\ \A e : Edge(e)' = Edge(e)
      /\ \A e, t : Shard(e, t)' = Shard(e, t)
      /\ \A d : Joins(d)' = Joins(d)
      /\ \A d : IsOptional(d)' = IsOptional(d)
  BY DEF Edge, Shard, Joins, IsOptional, Edges
<1> QED
  BY <1>1, <1>2

(* Sets of candidates are finite. *)
LEMMA CandidatesAreFinite ==
  ASSUME task \in Tasks, NEW s \in SUBSET Candidates
  PROVE  IsFiniteSet(s) /\ Cardinality(s) \in Nat
<1>1. IsFiniteSet(Candidates)
  BY DataVerticesAreNumbers, FS_AddElement DEF Candidates
<1> QED
  BY <1>1, FS_Subset, FS_CardinalityType

(* The shards that are loaded are those of a subtask. *)
LEMMA SubtaskLoaded ==
  ASSUME task \in Tasks, IInv, pc = "match"
  PROVE  subtask \in Subtasks
<1>1. /\ dep \in Nat /\ dep \in 1 .. Levels
      /\ node \in Groups(Subtasks, dep) /\ FirstOf(node) \in node /\ node \subseteq Subtasks
  BY PathFacts DEF IInv
<1>2. CASE finish[dep]
  BY <1>1, <1>2 DEF IInv, OnPath
<1>3. CASE ~finish[dep]
  <2>1. child[dep] \in Nat /\ child[dep] < Cardinality(Below) /\ subtask = FirstOf(Nth(Below, child[dep]))
    BY <1>1, <1>3 DEF IInv, OnPath
  <2>2. Nth(Below, child[dep]) \in Groups(Subtasks, dep + 1)
    BY <1>1, <2>1, NthBelow DEF Below
  <2>3. FirstOf(Nth(Below, child[dep])) \in Nth(Below, child[dep]) /\ Nth(Below, child[dep]) \subseteq Subtasks
    BY <2>2, FirstOfNode
  <2> QED
    BY <2>1, <2>3
<1> QED
  BY <1>2, <1>3

(* Where the walk goes, it stands at nodes of the tree. *)
LEMMA NodesAreLoaded ==
  ASSUME task \in Tasks, IInv', task' = task, pc' = "match"
  PROVE  node' \subseteq Subtasks /\ subtask' \in Subtasks
<1>1. (IInv /\ pc = "match" /\ task \in Tasks => subtask \in Subtasks /\ node \subseteq Subtasks)'
  BY SubtaskLoaded, PathFacts, PTL
<1> QED
  BY <1>1, SameTask

(* There are finitely many groups of the first level.                      *)
LEMMA RootsAreFinite ==
  ASSUME task \in Tasks
  PROVE  Cardinality(Roots) \in Nat
<1>1. Roots \in SUBSET SUBSET Subtasks
  BY NodeIsAClass DEF Roots, Groups, Subtasks
<1>2. IsFiniteSet(SUBSET Subtasks)
  BY TaskFacts, FS_SUBSET
<1> QED
  BY <1>1, <1>2, FS_Subset, FS_CardinalityType

(* A group of the first level is begun: no buffer changes.                 *)
LEMMA BeginRootTypes ==
  ASSUME task \in Tasks, IInv', TypeInv, BeginRoot
  PROVE  TypeInv'
<1>1. /\ task' = task /\ UNCHANGED <<block, root, resume, rslt, todo, empty, pivot, rows, rest, im, count, counter>>
      /\ root <= Cardinality(Roots) /\ pc' = "match"
  BY DEF BeginRoot, listVars, outVars
<1>2. node' \subseteq Subtasks /\ subtask' \in Subtasks
  BY <1>1, NodesAreLoaded
<1> QED
  BY <1>1, <1>2, SameTask, SameTaskParts DEF TypeInv

(* A candidate is taken from the buffer and matched.                       *)
LEMMA DescendTypes ==
  ASSUME task \in Tasks, IInv, IInv', TypeInv, Descend
  PROVE  TypeInv'
<1>1. /\ task' = task /\ UNCHANGED <<block, root, resume, empty, pivot, rows, rest, im, count, counter>>
      /\ pc = "match" /\ pc' = "match" /\ dep < Levels
  BY DEF Descend, listVars, outVars
<1>2. node' \subseteq Subtasks /\ subtask' \in Subtasks
  BY <1>1, NodesAreLoaded
<1>3. PICK v \in todo[dep] : /\ rslt' = [rslt EXCEPT ![Target(dep)] = v]
                             /\ todo' = [todo EXCEPT ![dep] = @ \ {v}]
  BY DEF Descend
<1>4. dep \in 1 .. Levels /\ v \in Candidates
  BY <1>3 DEF TypeInv, IInv
<1>5. rslt' \in [1 .. task.n -> {0} \cup Candidates]
  BY <1>3, <1>4 DEF TypeInv
<1>6. todo' \in [1 .. Levels -> SUBSET Candidates] /\ \A d \in 1 .. Levels : todo'[d] \subseteq todo[d]
  <2>1. todo \in [1 .. Levels -> SUBSET Candidates]
    BY DEF TypeInv
  <2> QED
    BY <1>3, <1>4, <2>1
<1>7. \A d \in 1 .. Levels : todo'[d] \subseteq im'[d]
  BY <1>1, <1>6 DEF TypeInv
<1> QED
  BY <1>1, <1>2, <1>5, <1>6, <1>7, SameTask, SameTaskParts DEF TypeInv

(* The buffer is replayed or left as it is. *)
LEMMA ReplayTypes ==
  ASSUME task \in Tasks, IInv, IInv', TypeInv,
         NextGroup \/ Refill \/ Leave \/ EndRoot
  PROVE  TypeInv'
<1>1. /\ task' = task /\ UNCHANGED <<block, resume, rslt, empty, pivot, rows, rest, im, count, counter>>
      /\ pc = "match"
      /\ todo' = todo \/ todo' = [todo EXCEPT ![dep] = im[dep]]
      /\ \/ pc' = "match" /\ root' = root
         \/ pc' = "root" /\ root' = root + 1 /\ node' = node
  BY DEF NextGroup, Refill, Leave, EndRoot, AllGroups, Exhausted, listVars, outVars
<1>2. node' \subseteq Subtasks /\ subtask' \in Subtasks
  <2>1. CASE pc' = "match"
    BY <1>1, <2>1, NodesAreLoaded
  <2>2. CASE EndRoot
    <3>1. subtask' = FirstOf(node) /\ FirstOf(node) \in node /\ node \subseteq Subtasks
      BY <1>1, <2>2, AllGroupsFacts, PathFacts DEF EndRoot
    <3> QED
      BY <2>2, <3>1 DEF EndRoot
  <2> QED
    BY <1>1, <2>1, <2>2 DEF NextGroup, Refill, Leave, EndRoot, Exhausted
<1>3. dep \in 1 .. Levels
  BY DEF IInv
<1>4. todo' \in [1 .. Levels -> SUBSET Candidates] /\ \A d \in 1 .. Levels : todo'[d] \subseteq im[d]
  <2>1. {todo, im} \subseteq [1 .. Levels -> SUBSET Candidates] /\ \A d \in 1 .. Levels : todo[d] \subseteq im[d]
    BY DEF TypeInv
  <2> QED
    BY <1>1, <1>3, <2>1
<1>5. root' \in 1 .. Cardinality(Roots) + 1 /\ (pc' = "match" => root' <= Cardinality(Roots))
  BY <1>1, RootsAreFinite DEF TypeInv
<1> QED
  BY <1>1, <1>2, <1>4, <1>5, SameTask, SameTaskParts DEF TypeInv

(* The next block starts as the first one did.                             *)
LEMMA EndBlockTypes ==
  ASSUME task \in Tasks, IInv, TypeInv, EndBlock
  PROVE  TypeInv'
<1>1. /\ task' = task /\ pc' # "match"
      /\ counter' = counter + count /\ count' = 0
      /\ node' = {} /\ subtask' = 0 /\ resume' = PerLevel(FALSE)
      /\ rslt' = PerVertex(0) /\ pivot' = PerLevel(0) /\ rows' = PerLevel({})
      /\ rest' = PerLevel({}) /\ im' = PerLevel({}) /\ todo' = PerLevel({}) /\ empty' = PerLevel({})
  BY DEF EndBlock
<1>2. block' \in 1 .. task.blocks /\ root' \in 1 .. Cardinality(Roots) + 1
  <2>1. \/ block' = block /\ root' = root
        \/ block # task.blocks /\ block' = block + 1 /\ root' = 1
    BY DEF EndBlock
  <2>2. task.blocks \in Nat /\ Cardinality(Roots) \in Nat
    BY TaskParts, RootsAreFinite
  <2> QED
    BY <2>1, <2>2 DEF TypeInv
<1>3. rslt' \in [1 .. task.n -> {0} \cup Candidates]
  BY <1>1 DEF PerVertex
<1>4. /\ resume' \in [1 .. Levels -> BOOLEAN] /\ \A d \in 1 .. Levels : ~resume'[d]
      /\ pivot' \in [1 .. Levels -> {0} \cup Edges]
      /\ {im', todo', empty'} \subseteq [1 .. Levels -> SUBSET Candidates]
      /\ {rest', rows'} \subseteq [1 .. Levels -> SUBSET DataVertices]
      /\ \A d \in 1 .. Levels : todo'[d] = {} /\ im'[d] = {} /\ empty'[d] = {}
  BY <1>1 DEF PerLevel
<1>5. \A d \in 1 .. Levels : Cardinality(empty'[d]) <= task.threshold
  <2>1. Cardinality({}) = 0 /\ task.threshold \in Nat
    BY TaskParts, FS_EmptySet
  <2>2. \A d \in 1 .. Levels : Cardinality(empty'[d]) = 0
    BY <1>4, <2>1
  <2> QED
    BY <2>1, <2>2
<1>6. counter' \in Nat
  BY <1>1 DEF TypeInv
<1>7. \A d \in 1 .. Levels :
        /\ todo'[d] \subseteq im'[d]
        /\ resume'[d] => Cardinality(im'[d]) <= task.threshold
        /\ empty'[d] \subseteq IF d = 1 THEN {} ELSE im'[d - 1]
        /\ IF IsOptional(d) THEN Cardinality(empty'[d]) <= task.threshold ELSE empty'[d] = {}
  BY <1>4, <1>5
<1> HIDE DEF PerLevel, PerVertex
<1>8. /\ block' \in 1 .. task'.blocks
      /\ root' \in 1 .. Cardinality(Roots') + 1
      /\ node' \subseteq Subtasks' /\ subtask' \in {0} \cup Subtasks'
      /\ {count', counter'} \subseteq Nat
  BY <1>1, <1>2, <1>6, SameTask, SameTaskParts
<1>9. /\ rslt' \in [1 .. task'.n -> {0} \cup Candidates']
      /\ resume' \in [1 .. Levels' -> BOOLEAN]
      /\ pivot' \in [1 .. Levels' -> {0} \cup Edges']
      /\ {im', todo', empty'} \subseteq [1 .. Levels' -> SUBSET Candidates']
      /\ {rest', rows'} \subseteq [1 .. Levels' -> SUBSET DataVertices']
  BY <1>1, <1>3, <1>4, SameTask, SameTaskParts
<1>10. \A d \in 1 .. Levels' :
        /\ todo'[d] \subseteq im'[d]
        /\ resume'[d] => Cardinality(im'[d]) <= task'.threshold
        /\ empty'[d] \subseteq IF d = 1 THEN {} ELSE im'[d - 1]
        /\ IF IsOptional(d)' THEN Cardinality(empty'[d]) <= task'.threshold ELSE empty'[d] = {}
  BY <1>1, <1>7, SameTask, SameTaskParts
<1> QED
  BY <1>1, <1>8, <1>9, <1>10 DEF TypeInv

(* Before the first block all buffers are empty.                           *)
LEMMA InitTypes ==
  ASSUME Init
  PROVE  TypeInv
<1>1. /\ task \in Tasks /\ block = 1 /\ root = 1 /\ pc = "root"
      /\ counter = 0 /\ count = 0
      /\ node = {} /\ subtask = 0 /\ resume = PerLevel(FALSE)
      /\ rslt = PerVertex(0) /\ pivot = PerLevel(0) /\ rows = PerLevel({})
      /\ rest = PerLevel({}) /\ im = PerLevel({}) /\ todo = PerLevel({}) /\ empty = PerLevel({})
  BY DEF Init
<1>2. block \in 1 .. task.blocks /\ root \in 1 .. Cardinality(Roots) + 1
  <2>1. task.blocks \in Nat \ {0}
    BY <1>1, TaskParts
  <2>2. Cardinality(Roots) \in Nat
    BY <1>1, RootsAreFinite
  <2> QED
    BY <1>1, <2>1, <2>2
<1>3. rslt \in [1 .. task.n -> {0} \cup Candidates]
  BY <1>1 DEF PerVertex
<1>4. /\ resume \in [1 .. Levels -> BOOLEAN] /\ \A d \in 1 .. Levels : ~resume[d]
      /\ pivot \in [1 .. Levels -> {0} \cup Edges]
      /\ {im, todo, empty} \subseteq [1 .. Levels -> SUBSET Candidates]
      /\ {rest, rows} \subseteq [1 .. Levels -> SUBSET DataVertices]
      /\ \A d \in 1 .. Levels : todo[d] = {} /\ im[d] = {} /\ empty[d] = {}
  BY <1>1 DEF PerLevel
<1>5. \A d \in 1 .. Levels : Cardinality(empty[d]) <= task.threshold
  <2>1. Cardinality({}) = 0 /\ task.threshold \in Nat
    BY <1>1, TaskParts, FS_EmptySet
  <2>2. \A d \in 1 .. Levels : Cardinality(empty[d]) = 0
    BY <1>4, <2>1
  <2> QED
    BY <2>1, <2>2
<1>6. \A d \in 1 .. Levels :
        /\ todo[d] \subseteq im[d]
        /\ resume[d] => Cardinality(im[d]) <= task.threshold
        /\ empty[d] \subseteq IF d = 1 THEN {} ELSE im[d - 1]
        /\ IF IsOptional(d) THEN Cardinality(empty[d]) <= task.threshold ELSE empty[d] = {}
  BY <1>4, <1>5
<1>7. /\ pc # "match" /\ node \subseteq Subtasks /\ subtask \in {0} \cup Subtasks
      /\ {count, counter} \subseteq Nat
  BY <1>1
<1> QED
  BY <1>2, <1>3, <1>4, <1>6, <1>7 DEF TypeInv

(* Flags are only cleared. *)
LEMMA ClearedParts ==
  ASSUME task \in Tasks, TypeInv, dep \in 1 .. Levels, NEW some
  PROVE  /\ Cleared(some) \in [1 .. Levels -> SUBSET Candidates]
         /\ \A d \in 1 .. Levels :
              /\ Cleared(some)[d] \subseteq empty[d]
              /\ IF IsOptional(d) THEN Cardinality(Cleared(some)[d]) <= task.threshold ELSE Cleared(some)[d] = {}
<1>1. empty \in [1 .. Levels -> SUBSET Candidates]
  BY DEF TypeInv
<1>2. /\ Cleared(some) \in [1 .. Levels -> SUBSET Candidates]
      /\ \A d \in 1 .. Levels : Cleared(some)[d] \subseteq empty[d]
  BY <1>1 DEF Cleared
<1>3. ASSUME NEW d \in 1 .. Levels, IsOptional(d) PROVE Cardinality(Cleared(some)[d]) <= task.threshold
  <2>1. Cardinality(empty[d]) <= task.threshold /\ task.threshold \in Nat
    BY <1>3, TaskParts DEF TypeInv
  <2>2. IsFiniteSet(empty[d]) /\ Cardinality(empty[d]) \in Nat
    BY <1>1, <1>3, CandidatesAreFinite
  <2>3. Cleared(some)[d] \in SUBSET empty[d]
    BY <1>2, <1>3
  <2>4. Cardinality(Cleared(some)[d]) <= Cardinality(empty[d]) /\ Cardinality(Cleared(some)[d]) \in Nat
    BY <2>2, <2>3, FS_Subset, FS_CardinalityType
  <2> QED
    BY <2>1, <2>2, <2>4
<1>4. ASSUME NEW d \in 1 .. Levels, ~IsOptional(d) PROVE Cleared(some)[d] = {}
  BY <1>2, <1>4 DEF TypeInv
<1> QED
  BY <1>2, <1>3, <1>4

(* A buffer is filled with what a kernel takes from a list. *)
LEMMA FillTypes ==
  ASSUME task \in Tasks, ~IsTable, TypeInv, IInv, IInv', pc = "match", dep < Levels,
         NEW list \in SUBSET DataVertices, NEW some, NEW more, TakenFrom(list, some, more),
         Fill(some, more), NEW q \in {0} \cup Edges, pivot' = [pivot EXCEPT ![dep] = q]
  PROVE  TypeInv'
<1> DEFINE new == WithNull(some, more)
<1>1. /\ task' = task /\ UNCHANGED <<block, root, pc, dep, rslt, rows, node, subtask, count, counter>>
      /\ im' = [im EXCEPT ![dep] = new]
      /\ rest' = [rest EXCEPT ![dep] = more]
      /\ empty' = Flagged(some, more)
      /\ todo' = [todo EXCEPT ![dep] = im'[dep]]
      /\ resume' = [resume EXCEPT ![dep] = more # {}]
  BY DEF Fill, treeVars, outVars
<1>2. dep \in 1 .. Levels /\ dep \in Nat /\ Levels \in Nat /\ Levels = task.n /\ dep + 1 \in 1 .. Levels
  BY TaskFacts DEF IInv, Levels
<1>3. /\ some \in SUBSET DataVertices /\ more \in SUBSET DataVertices
      /\ more # {} \/ IsOptional(dep + 1) => Cardinality(some) <= task.threshold
  BY <1>2 DEF TakenFrom
<1>4. new \in SUBSET Candidates
  BY <1>3 DEF WithNull, Candidates
<1>5. more # {} \/ IsOptional(dep + 1) => Cardinality(new) <= task.threshold
  <2>1. CASE IsNull(some, more)
    <3>1. more = {} /\ new = {Null}
      BY <2>1 DEF IsNull, WithNull
    <3>2. Cardinality({Null}) = 1 /\ task.threshold \in Nat \ {0}
      BY FS_Singleton, TaskParts
    <3> QED
      BY <3>1, <3>2
  <2>2. CASE ~IsNull(some, more)
    BY <1>3, <2>2 DEF WithNull
  <2> QED
    BY <2>1, <2>2
<1> HIDE DEF new
<1>6. /\ im \in [1 .. Levels -> SUBSET Candidates] /\ todo \in [1 .. Levels -> SUBSET Candidates]
      /\ rest \in [1 .. Levels -> SUBSET DataVertices] /\ resume \in [1 .. Levels -> BOOLEAN]
      /\ pivot \in [1 .. Levels -> {0} \cup Edges]
  BY DEF TypeInv
<1>7. /\ im' \in [1 .. Levels -> SUBSET Candidates] /\ todo' \in [1 .. Levels -> SUBSET Candidates]
      /\ rest' \in [1 .. Levels -> SUBSET DataVertices] /\ resume' \in [1 .. Levels -> BOOLEAN]
      /\ pivot' \in [1 .. Levels -> {0} \cup Edges]
  BY <1>1, <1>2, <1>3, <1>4, <1>6
<1>8. /\ im'[dep] = new /\ todo'[dep] = new /\ resume'[dep] = (more # {})
      /\ \A d \in 1 .. Levels : d # dep => im'[d] = im[d] /\ todo'[d] = todo[d] /\ resume'[d] = resume[d]
  BY <1>1, <1>2, <1>6
<1>9. /\ empty' \in [1 .. Levels -> SUBSET Candidates]
      /\ empty'[dep + 1] = IF IsOptional(dep + 1) THEN new ELSE {}
      /\ \A d \in 1 .. Levels : d # dep + 1 => empty'[d] = Cleared(some)[d]
  <2>1. /\ Cleared(some) \in [1 .. Levels -> SUBSET Candidates]
        /\ ~IsOptional(dep + 1) => Cleared(some)[dep + 1] = {}
    BY <1>2, ClearedParts
  <2>2. empty' = IF IsOptional(dep + 1) THEN [Cleared(some) EXCEPT ![dep + 1] = new] ELSE Cleared(some)
    BY <1>1 DEF Flagged, new
  <2> QED
    BY <1>2, <1>4, <2>1, <2>2
<1>10. ASSUME NEW d \in 1 .. Levels
       PROVE  /\ todo'[d] \subseteq im'[d]
              /\ resume'[d] => Cardinality(im'[d]) <= task.threshold
              /\ empty'[d] \subseteq IF d = 1 THEN {} ELSE im'[d - 1]
              /\ IF IsOptional(d) THEN Cardinality(empty'[d]) <= task.threshold ELSE empty'[d] = {}
  <2>1. /\ todo'[d] \subseteq im'[d]
        /\ resume'[d] => Cardinality(im'[d]) <= task.threshold
    BY <1>5, <1>8 DEF TypeInv
  <2>2. CASE d = dep + 1
    <3>1. d # 1 /\ im'[d - 1] = new
      BY <1>2, <1>8, <2>2
    <3> QED
      BY <1>5, <1>9, <2>1, <2>2, <3>1
  <2>3. CASE d # dep + 1
    <3>1. /\ empty'[d] \subseteq empty[d]
          /\ IF IsOptional(d) THEN Cardinality(empty'[d]) <= task.threshold ELSE empty'[d] = {}
      BY <1>2, <1>9, <2>3, ClearedParts
    <3>2. d # 1 => d - 1 \in 1 .. Levels /\ d - 1 # dep
      BY <1>2, <2>3
    <3>3. empty[d] \subseteq IF d = 1 THEN {} ELSE im'[d - 1]
      BY <1>8, <3>2 DEF TypeInv
    <3> QED
      BY <2>1, <3>1, <3>3
  <2> QED
    BY <2>2, <2>3
<1>11. \A d \in 1 .. Levels' :
        /\ todo'[d] \subseteq im'[d]
        /\ resume'[d] => Cardinality(im'[d]) <= task'.threshold
        /\ empty'[d] \subseteq IF d = 1 THEN {} ELSE im'[d - 1]
        /\ IF IsOptional(d)' THEN Cardinality(empty'[d]) <= task'.threshold ELSE empty'[d] = {}
  BY <1>1, <1>10, SameTask, SameTaskParts
<1>12. /\ im' \in [1 .. Levels' -> SUBSET Candidates'] /\ todo' \in [1 .. Levels' -> SUBSET Candidates']
       /\ rest' \in [1 .. Levels' -> SUBSET DataVertices'] /\ resume' \in [1 .. Levels' -> BOOLEAN]
       /\ pivot' \in [1 .. Levels' -> {0} \cup Edges'] /\ empty' \in [1 .. Levels' -> SUBSET Candidates']
  BY <1>1, <1>7, <1>9, SameTask, SameTaskParts
<1> QED
  BY <1>1, <1>11, <1>12, SameTask, SameTaskParts DEF TypeInv

(* The matches of the last vertex are counted.                             *)
LEMMA MatchLastTypes ==
  ASSUME task \in Tasks, ~IsTable, TypeInv, IInv, IInv', MatchLast
  PROVE  TypeInv'
<1> DEFINE w == Windows
           r == Initially(w, Pivot(w))
           new == WithNull(r.some, {})
<1>1. /\ pc = "match" /\ dep = Levels
      /\ task' = task /\ UNCHANGED <<block, root, pc, subtask, resume, todo, pivot, rows, rest, im, rslt, counter>>
      /\ empty' = Cleared(r.some)
      /\ count' = count + Cardinality(new)
  BY DEF MatchLast, AtLast, CountAndLeave, listVars
<1>2. dep \in 1 .. Levels /\ subtask \in Subtasks
  BY <1>1, SubtaskLoaded DEF IInv
<1>3. Windows[Pivot(Windows)].list \in SUBSET DataVertices
  <2>1. /\ DOMAIN w = Joins(dep) /\ \A e \in Joins(dep) : w[e].list \subseteq DataVertices
    BY <1>2, WindowsParts
  <2> HIDE DEF w
  <2>2. Pivot(w) \in Joins(dep)
    BY <1>2, <2>1, PivotParts
  <2> QED
    BY <2>1, <2>2 DEF w
<1>4. r.some \subseteq w[Pivot(w)].list
  BY <1>2, InitialTakes DEF Taken, TakenFrom
<1>5. new \in SUBSET Candidates
  BY <1>3, <1>4 DEF WithNull, Candidates
<1>6. count' \in Nat
  <2>1. Cardinality(new) \in Nat /\ count \in Nat
    BY <1>5, CandidatesAreFinite DEF TypeInv
  <2> QED
    BY <1>1, <2>1
<1>7. node' \subseteq Subtasks
  BY <1>1, NodesAreLoaded
<1> HIDE DEF new, r, w
<1>8. /\ empty' \in [1 .. Levels -> SUBSET Candidates]
      /\ \A d \in 1 .. Levels :
           /\ empty'[d] \subseteq empty[d]
           /\ IF IsOptional(d) THEN Cardinality(empty'[d]) <= task.threshold ELSE empty'[d] = {}
  BY <1>1, <1>2, ClearedParts
<1>9. \A d \in 1 .. Levels : empty'[d] \subseteq IF d = 1 THEN {} ELSE im[d - 1]
  BY <1>8 DEF TypeInv
<1> QED
  BY <1>1, <1>6, <1>7, <1>8, <1>9, SameTask, SameTaskParts DEF TypeInv

(* The steps of a leapfrog triejoin.                                       *)
LEMMA LFTJTypes ==
  ASSUME task \in Tasks, TypeInv, IInv, IInv', LFTJStep
  PROVE  TypeInv'
<1>1. ~IsTable
  BY DEF LFTJStep
<1>2. CASE Intersect
  <2>1. PICK w, p, r : /\ w = Windows /\ p = Pivot(w) /\ r = Initially(w, p)
                       /\ pivot' = [pivot EXCEPT ![dep] = p] /\ Fill(r.some, r.more)
    BY <1>2 DEF Intersect
  <2>2. pc = "match" /\ dep < Levels /\ dep \in 1 .. Levels /\ subtask \in Subtasks
    BY <1>2, SubtaskLoaded DEF Intersect, AtInitial, IInv
  <2>3. TakenFrom(w[p].list, r.some, r.more)
    BY <1>1, <2>1, <2>2, InitialTakes DEF Taken
  <2>4. /\ DOMAIN w = Joins(dep) /\ Joins(dep) \subseteq Edges
        /\ \A e \in Joins(dep) : w[e].list \subseteq DataVertices
    BY <2>1, <2>2, WindowsParts
  <2>5. p \in Joins(dep)
    BY <1>1, <2>1, <2>2, <2>4, PivotParts
  <2>6. w[p].list \in SUBSET DataVertices /\ p \in {0} \cup Edges
    BY <2>4, <2>5
  <2> HIDE <1>2
  <2> QED
    BY <1>1, <2>1, <2>2, <2>3, <2>6, FillTypes
<1>3. CASE Resume
  <2>1. PICK r : r = Again(arr[dep], pivot[dep]) /\ Fill(r.some, r.more)
    BY <1>3 DEF Resume
  <2>2. pc = "match" /\ dep < Levels /\ dep \in 1 .. Levels /\ pivot' = pivot
    BY <1>3 DEF Resume, AtResume, IInv
  <2>3. rest[dep] \in SUBSET DataVertices /\ pivot[dep] \in {0} \cup Edges
        /\ pivot' = [pivot EXCEPT ![dep] = pivot[dep]]
    BY <2>2 DEF TypeInv
  <2>4. TakenFrom(rest[dep], r.some, r.more)
    BY <2>1, <2>3, AgainTakes
  <2> HIDE <1>3
  <2> QED
    BY <1>1, <2>1, <2>2, <2>3, <2>4, FillTypes
<1>4. CASE MatchLast
  BY <1>1, <1>4, MatchLastTypes
<1> QED
  BY <1>2, <1>3, <1>4 DEF LFTJStep

(* A table join has no flags. *)
LEMMA TableHasNoFlags ==
  ASSUME task \in Tasks, IsTable, TypeInv
  PROVE  \A d \in 1 .. Levels : ~IsOptional(d) /\ empty[d] = {}
<1>1. \A e \in Edges : Edge(e).kind # "optional"
  BY EdgeParts
<1> QED
  BY <1>1 DEF IsOptional, TypeInv

(* A buffer is filled with destinations that match.                        *)
LEMMA FillFromTypes ==
  ASSUME task \in Tasks, IsTable, TypeInv, IInv, pc = "match", dep < Levels,
         NEW list \in SUBSET DataVertices, NEW more \in BOOLEAN, FillFrom(list, more),
         rslt' \in [1 .. task.n -> {0} \cup Candidates],
         rows' \in [1 .. Levels -> SUBSET DataVertices]
  PROVE  TypeInv'
<1> DEFINE new == Matching(Chunk(list))
<1>1. /\ task' = task /\ UNCHANGED <<block, root, pc, dep, pivot, empty, node, subtask, count, counter>>
      /\ im' = [im EXCEPT ![dep] = new]
      /\ rest' = [rest EXCEPT ![dep] = list \ Chunk(list)]
      /\ todo' = [todo EXCEPT ![dep] = im'[dep]]
      /\ resume' = [resume EXCEPT ![dep] = more]
  BY DEF FillFrom, treeVars, outVars
<1>2. dep \in 1 .. Levels
  BY DEF IInv
<1>3. new \in SUBSET Candidates /\ Cardinality(new) <= task.threshold
  <2>1. new \in SUBSET Chunk(list)
    BY DEF Matching
  <2> QED
    BY <2>1, ChunkFits DEF Candidates
<1> HIDE DEF new
<1>4. /\ im \in [1 .. Levels -> SUBSET Candidates] /\ todo \in [1 .. Levels -> SUBSET Candidates]
      /\ rest \in [1 .. Levels -> SUBSET DataVertices] /\ resume \in [1 .. Levels -> BOOLEAN]
  BY DEF TypeInv
<1>5. /\ im' \in [1 .. Levels -> SUBSET Candidates] /\ todo' \in [1 .. Levels -> SUBSET Candidates]
      /\ rest' \in [1 .. Levels -> SUBSET DataVertices] /\ resume' \in [1 .. Levels -> BOOLEAN]
  BY <1>1, <1>2, <1>3, <1>4
<1>6. /\ im'[dep] = new /\ todo'[dep] = new
      /\ \A d \in 1 .. Levels : d # dep => im'[d] = im[d] /\ todo'[d] = todo[d] /\ resume'[d] = resume[d]
  BY <1>1, <1>2, <1>4
<1>7. ASSUME NEW d \in 1 .. Levels
      PROVE  /\ todo'[d] \subseteq im'[d]
             /\ resume'[d] => Cardinality(im'[d]) <= task.threshold
             /\ ~IsOptional(d) /\ empty'[d] = {}
  BY <1>1, <1>3, <1>6, TableHasNoFlags DEF TypeInv
<1>8. \A d \in 1 .. Levels' :
        /\ todo'[d] \subseteq im'[d]
        /\ resume'[d] => Cardinality(im'[d]) <= task'.threshold
        /\ empty'[d] \subseteq IF d = 1 THEN {} ELSE im'[d - 1]
        /\ IF IsOptional(d)' THEN Cardinality(empty'[d]) <= task'.threshold ELSE empty'[d] = {}
  BY <1>1, <1>7, SameTask, SameTaskParts
<1>9. /\ im' \in [1 .. Levels' -> SUBSET Candidates'] /\ todo' \in [1 .. Levels' -> SUBSET Candidates']
      /\ rest' \in [1 .. Levels' -> SUBSET DataVertices'] /\ resume' \in [1 .. Levels' -> BOOLEAN]
      /\ rslt' \in [1 .. task'.n -> {0} \cup Candidates'] /\ rows' \in [1 .. Levels' -> SUBSET DataVertices']
  BY <1>1, <1>5, SameTask, SameTaskParts
<1> QED
  BY <1>1, <1>8, <1>9, SameTask, SameTaskParts DEF TypeInv

(* The sources of a shard, and their destinations. *)
LEMMA TableLists ==
  ASSUME task \in Tasks, IsTable, dep \in 1 .. Levels, subtask \in Subtasks
  PROVE  /\ dep \in Edges /\ Edge(dep).lo \in 1 .. task.n /\ Edge(dep).hi \in 1 .. task.n
         /\ Sources = {p[1] : p \in Shard(dep, subtask)} /\ Sources \in SUBSET DataVertices /\ Sources # {}
         /\ \A u : Destinations(u) = {v \in DataVertices : <<u, v>> \in Shard(dep, subtask)}
<1>1. dep \in Edges
  <2>1. task.edges \in Seq([lo : 1 .. task.n, hi : 1 .. task.n, kind : {"regular", "negative", "optional"},
                            data : SUBSET ((0 .. Null - 1) \X (0 .. Null - 1))])
    BY TasksAssumption DEF TasksAssumption
  <2> QED
    BY <2>1 DEF Levels, Edges
<1>2. Edge(dep).lo \in 1 .. task.n /\ Edge(dep).hi \in 1 .. task.n
  BY <1>1, EdgeParts
<1>3. Sources = {p[1] : p \in Shard(dep, subtask)} /\ Sources \in SUBSET DataVertices
  BY <1>1, ListParts DEF Sources
<1>4. Sources # {}
  <2>1. \A t \in DOMAIN task.subtasks : \A e \in DOMAIN task.edges : \E p \in task.edges[e].data :
          p[1] \in task.subtasks[t][task.edges[e].lo] /\ p[2] \in task.subtasks[t][task.edges[e].hi]
    BY TableAssumption DEF TableAssumption, IsTable
  <2>2. Shard(dep, subtask) # {}
    BY <1>1, <2>1 DEF Shard, Edge, Edges, Subtasks
  <2> QED
    BY <1>3, <2>2
<1>5. \A u : Destinations(u) = {v \in DataVertices : <<u, v>> \in Shard(dep, subtask)}
  BY <1>1, ListParts DEF Destinations
<1> QED
  BY <1>1, <1>2, <1>3, <1>4, <1>5

(* The next source is matched, and its destinations are read.              *)
LEMMA TakeSourceTypes ==
  ASSUME task \in Tasks, IsTable, TypeInv, IInv, pc = "match", dep < Levels, subtask \in Subtasks,
         NEW sources \in SUBSET DataVertices, sources # {}, TakeSource(sources)
  PROVE  TypeInv'
<1>1. dep \in 1 .. Levels
  BY DEF IInv
<1>2. Min(sources) \in sources /\ Destinations(Min(sources)) \in SUBSET DataVertices
      /\ Edge(dep).lo \in 1 .. task.n
  <2>1. sources \in SUBSET Nat
    BY DataVerticesAreNumbers
  <2> QED
    BY <1>1, <2>1, LeastIsMin, TableLists
<1>3. /\ rows' = [rows EXCEPT ![dep] = sources \ {Min(sources)}]
      /\ rslt' = [rslt EXCEPT ![Edge(dep).lo] = Min(sources)]
      /\ FillFrom(Destinations(Min(sources)), TRUE)
  BY DEF TakeSource
<1>4. rows \in [1 .. Levels -> SUBSET DataVertices] /\ rslt \in [1 .. task.n -> {0} \cup Candidates]
  BY DEF TypeInv
<1>5. rslt' \in [1 .. task.n -> {0} \cup Candidates]
  BY <1>2, <1>3, <1>4 DEF Candidates
<1>6. rows' \in [1 .. Levels -> SUBSET DataVertices]
  BY <1>1, <1>2, <1>3, <1>4
<1> QED
  BY <1>2, <1>3, <1>5, <1>6, FillFromTypes

(* There is no source: the buffer is empty.                                *)
LEMMA NoSourceTypes ==
  ASSUME task \in Tasks, IsTable, TypeInv, IInv, pc = "match", dep < Levels, NoSource
  PROVE  TypeInv'
<1>1. FillFrom({}, FALSE) /\ rslt' = rslt /\ rows' = rows
  BY DEF NoSource
<1>2. rows \in [1 .. Levels -> SUBSET DataVertices] /\ rslt \in [1 .. task.n -> {0} \cup Candidates]
  BY DEF TypeInv
<1> QED
  BY <1>1, <1>2, FillFromTypes

(* The matches of the last edge are counted.                               *)
LEMMA CountLastTypes ==
  ASSUME task \in Tasks, IsTable, TypeInv, IInv, IInv', CountLast
  PROVE  TypeInv'
<1> DEFINE sources == IF SourceJoins THEN {rslt[Edge(dep).lo]} ELSE Sources
           pairs == UNION {{<<u, v>> : v \in Matching(Destinations(u))} : u \in sources}
<1>1. /\ pc = "match" /\ dep = Levels
      /\ task' = task /\ UNCHANGED <<block, root, pc, subtask, resume, todo, pivot, rows, rest, im, empty, counter>>
      /\ rslt' = [rslt EXCEPT ![Edge(dep).lo] = Max(sources)]
      /\ count' = count + Cardinality(pairs)
  BY DEF CountLast, AtLast, CountAndLeave, listVars
<1>2. dep \in 1 .. Levels /\ subtask \in Subtasks
  BY <1>1, SubtaskLoaded DEF IInv
<1>3. /\ Edge(dep).lo \in 1 .. task.n /\ Sources \in SUBSET DataVertices /\ Sources # {}
      /\ \A u : Destinations(u) = {v \in DataVertices : <<u, v>> \in Shard(dep, subtask)}
  BY <1>2, TableLists
<1>4. rslt \in [1 .. task.n -> {0} \cup Candidates]
  BY DEF TypeInv
<1>5. sources \in SUBSET (0 .. Null) /\ sources # {} /\ sources \in SUBSET ({0} \cup Candidates)
  <2>1. {0} \cup Candidates \subseteq 0 .. Null
    BY DataVerticesAreNumbers DEF Candidates
  <2>2. rslt[Edge(dep).lo] \in {0} \cup Candidates
    BY <1>3, <1>4
  <2> QED
    BY <1>3, <2>1, <2>2 DEF Candidates
<1>6. Max(sources) \in sources
  <2> HIDE DEF sources
  <2> QED
    BY <1>5, NullAssumption, GreatestOf
<1>7. rslt' \in [1 .. task.n -> {0} \cup Candidates]
  BY <1>1, <1>3, <1>4, <1>5, <1>6
<1>8. count' \in Nat
  <2>1. pairs \in SUBSET ((0 .. Null) \X DataVertices)
    BY <1>3, <1>5 DEF Matching
  <2>2. IsFiniteSet(0 .. Null)
    BY NullAssumption, FS_Interval
  <2>3. IsFiniteSet((0 .. Null) \X DataVertices)
    BY <2>2, DataVerticesAreNumbers, FS_Product
  <2>4. Cardinality(pairs) \in Nat
    BY <2>1, <2>3, FS_Subset, FS_CardinalityType
  <2> QED
    BY <1>1, <2>4 DEF TypeInv
<1>9. node' \subseteq Subtasks
  BY <1>1, NodesAreLoaded
<1> QED
  BY <1>1, <1>7, <1>8, <1>9, SameTask, SameTaskParts DEF TypeInv

(* The steps of a table join.                                              *)
LEMMA TableTypes ==
  ASSUME task \in Tasks, TypeInv, IInv, IInv', TableStep
  PROVE  TypeInv'
<1>1. IsTable
  BY DEF TableStep
<1>2. rows \in [1 .. Levels -> SUBSET DataVertices] /\ rest \in [1 .. Levels -> SUBSET DataVertices]
      /\ rslt \in [1 .. task.n -> {0} \cup Candidates] /\ dep \in 1 .. Levels
  BY DEF TypeInv, IInv
<1>3. CASE JoinSource
  <2>1. /\ pc = "match" /\ dep < Levels /\ rslt' = rslt /\ rows' = rows
        /\ FillFrom(Destinations(rslt[Edge(dep).lo]), Cardinality(Destinations(rslt[Edge(dep).lo])) > task.threshold)
    BY <1>3 DEF JoinSource, AtInitial
  <2>2. Destinations(rslt[Edge(dep).lo]) \in SUBSET DataVertices
    BY <1>1, <1>2, <2>1, SubtaskLoaded, TableLists
  <2>3. PICK more : more = (Cardinality(Destinations(rslt[Edge(dep).lo])) > task.threshold)
    OBVIOUS
  <2>4. more \in BOOLEAN /\ FillFrom(Destinations(rslt[Edge(dep).lo]), more)
    BY <2>1, <2>3
  <2>5. /\ rslt' \in [1 .. task.n -> {0} \cup Candidates]
        /\ rows' \in [1 .. Levels -> SUBSET DataVertices]
    BY <1>2, <2>1
  <2> QED
    BY <1>1, <2>1, <2>2, <2>4, <2>5, FillFromTypes
<1>4. CASE FirstSource
  <2>1. pc = "match" /\ dep < Levels /\ subtask \in Subtasks
    BY <1>4, SubtaskLoaded DEF FirstSource, AtInitial
  <2>2. PICK sources : /\ sources = IF dep = 1 THEN Share(Sources) ELSE Sources
                       /\ IF sources = {} THEN NoSource ELSE TakeSource(sources)
    BY <1>4 DEF FirstSource
  <2>3. sources \in SUBSET DataVertices
    <3>1. Share(Sources) \subseteq Sources
      BY DEF Share
    <3> QED
      BY <1>1, <1>2, <2>1, <2>2, <3>1, TableLists
  <2> QED
    BY <1>1, <2>1, <2>2, <2>3, NoSourceTypes, TakeSourceTypes
<1>5. CASE MoreDestinations
  <2>1. /\ pc = "match" /\ dep < Levels /\ rslt' = rslt /\ rows' = rows /\ FillFrom(rest[dep], TRUE)
    BY <1>5 DEF MoreDestinations, AtResume
  <2>2. rest[dep] \in SUBSET DataVertices
    BY <1>2
  <2> QED
    BY <1>1, <1>2, <2>1, <2>2, FillFromTypes
<1>6. CASE NextSource
  <2>1. pc = "match" /\ dep < Levels /\ subtask \in Subtasks
    BY <1>6, SubtaskLoaded DEF NextSource, AtResume
  <2>2. NoSource \/ (rows[dep] # {} /\ TakeSource(rows[dep]))
    BY <1>6 DEF NextSource
  <2>3. rows[dep] \in SUBSET DataVertices
    BY <1>2
  <2> QED
    BY <1>1, <2>1, <2>2, <2>3, NoSourceTypes, TakeSourceTypes
<1>7. CASE CountLast
  BY <1>1, <1>7, CountLastTypes
<1> QED
  BY <1>3, <1>4, <1>5, <1>6, <1>7 DEF TableStep

(* Every step of a kernel preserves the types. *)
LEMMA TypesStep == WalkInv /\ TypeInv /\ [Next]_vars => TypeInv'
<1> SUFFICES ASSUME task \in Tasks, IInv, TypeInv, [Next]_vars PROVE TypeInv'
  BY DEF WalkInv
<1>1. IInv'
  BY NextStep DEF WalkInv
<1>2. CASE Walk
  BY <1>1, <1>2, BeginRootTypes, DescendTypes, ReplayTypes, EndBlockTypes DEF Walk
<1>3. CASE LFTJStep
  BY <1>1, <1>3, LFTJTypes
<1>4. CASE TableStep
  BY <1>1, <1>4, TableTypes
<1>5. CASE UNCHANGED vars
  <2>1. /\ task' = task
        /\ UNCHANGED <<block, root, pc, node, subtask, rslt, resume, pivot, im, todo, empty, rest, rows, count, counter>>
    BY <1>5 DEF vars, treeVars, listVars, outVars
  <2> QED
    BY <2>1, SameTask, SameTaskParts DEF TypeInv
<1> QED
  BY <1>2, <1>3, <1>4, <1>5 DEF Next

-----------------------------------------------------------------------------
(* Partial matches of the leapfrog triejoins.                              *)

(* Candidate v of level d agrees with the vertices before it, in its       *)
(* constraints if they are compared, and is in the range of every subtask  *)
(* below the node of that level.                                           *)
Fits(d, v) ==
  /\ \A e \in Edges : Edge(e).hi = d /\ ~(Edge(e).kind = "optional" /\ v = Null) =>
       (<<rslt[Edge(e).lo], v>> \in Edge(e).data) = (Edge(e).kind # "negative")
  /\ ConstraintsCompared(task) /\ v # Null => \A c \in task.apart[d] : v # rslt[c]
  /\ \A t \in NodeAt(d) : v \in task.subtasks[t][d] \cup {Null}

(* The lists of level d in the shards of its node. *)
WindowsAt(d) ==
  [e \in Joins(d) |->
     IF Edge(e).lo = d THEN Rows(Shard(e, FirstOf(NodeAt(d))))
     ELSE AdjList(Shard(e, FirstOf(NodeAt(d))), rslt[Edge(e).lo])]

(* The rest of a buffer that is not joined yet comes from the shortest of  *)
(* the lists the level was entered with.                                   *)
ListsKept(d) ==
  /\ arr[d] = WindowsAt(d)
  /\ pivot[d] = Pivot(arr[d])
  /\ rest[d] \subseteq arr[d][pivot[d]].list

(* The vertices that are matched fit, and so do all candidates of the      *)
(* buffers that are in use, those taken from them and put back included.   *)
MatchInv ==
  ~IsTable =>
    /\ DOMAIN arr = 1 .. Levels
    /\ pc = "match" => \A d \in 1 .. dep - 1 : Fits(d, rslt[d])
    /\ \A d \in 1 .. Levels :
         /\ ~finish[d] => \A v \in im[d] : Fits(d, v)
         /\ resume[d] => pc = "match" /\ d <= dep /\ d < Levels /\ ListsKept(d)

(* What fits a level depends on its node and on the vertices before it. *)
LEMMA FitsKept ==
  ASSUME task \in Tasks, task' = task, NEW d \in 1 .. task.n, NodeAt(d)' = NodeAt(d),
         \A c \in 1 .. d - 1 : rslt'[c] = rslt[c]
  PROVE  /\ \A v : Fits(d, v)' = Fits(d, v)
         /\ WindowsAt(d)' = WindowsAt(d)
<1>1. /\ task.apart[d] \subseteq 1 .. d - 1 /\ d \in Nat
      /\ \A e \in Edges : Edge(e).lo \in Nat \ {0} /\ Edge(e).hi \in Nat /\ Edge(e).lo < Edge(e).hi
  BY TaskParts, EdgeParts
<1>2. \A e \in Edges : Edge(e).hi = d => rslt'[Edge(e).lo] = rslt[Edge(e).lo]
  BY <1>1
<1>3. Edges' = Edges /\ Joins(d)' = Joins(d) /\ (\A e : Edge(e)' = Edge(e)) /\ \A e, t : Shard(e, t)' = Shard(e, t)
  BY SameTaskParts
<1>4. ASSUME NEW v PROVE Fits(d, v)' = Fits(d, v)
  <2>1. (\A e \in Edges' : Edge(e)'.hi = d /\ ~(Edge(e)'.kind = "optional" /\ v = Null) =>
           (<<rslt'[Edge(e)'.lo], v>> \in Edge(e)'.data) = (Edge(e)'.kind # "negative"))
        = (\A e \in Edges : Edge(e).hi = d /\ ~(Edge(e).kind = "optional" /\ v = Null) =>
             (<<rslt[Edge(e).lo], v>> \in Edge(e).data) = (Edge(e).kind # "negative"))
    BY <1>2, <1>3
  <2>2. (\A c \in task'.apart[d] : v # rslt'[c]) = (\A c \in task.apart[d] : v # rslt[c])
    BY <1>1
  <2>3. ConstraintsCompared(task)' = ConstraintsCompared(task)
    BY DEF ConstraintsCompared, PatternOf
  <2> QED
    BY <2>1, <2>2, <2>3 DEF Fits
<1>5. WindowsAt(d)' = WindowsAt(d)
  <2>1. \A e \in Joins(d) : Edge(e).lo # d => rslt'[Edge(e).lo] = rslt[Edge(e).lo]
    BY <1>2 DEF Joins
  <2> QED
    BY <1>3, <2>1 DEF WindowsAt, Rows, AdjList, FirstOf
<1> QED
  BY <1>4, <1>5

(* A vertex that the lists of a level agree on fits, *)
LEMMA CandidatesFit ==
  ASSUME task \in Tasks, ~IsTable, IInv, pc = "match", subtask = FirstOf(node),
         \A d \in 1 .. dep - 1 : Fits(d, rslt[d]),
         NEW w, w = Windows, NEW p, p = Pivot(w), NEW v \in w[p].list,
         OthersAgree(w, p, v), ConstraintsCompared(task) => Distinct(v)
  PROVE  Fits(dep, v)
<1>1. /\ dep \in 1 .. task.n /\ dep \in Nat /\ dep \in 1 .. Levels
      /\ subtask \in node /\ node \subseteq Subtasks /\ NodeAt(dep) = node
      /\ \A d \in 1 .. dep : subtask \in NodeAt(d)
  <2>1. \A d \in 1 .. dep : subtask \in NodeAt(d)
    BY PathFacts, NodeIsAClass
  <2> QED
    BY <2>1, PathFacts DEF IInv, Levels
<1>2. /\ DOMAIN w = Joins(dep) /\ Joins(dep) \subseteq Edges
      /\ \A e \in Joins(dep) : w[e].list \subseteq DataVertices
  BY <1>1, WindowsParts
<1>3. /\ p \in Joins(dep) /\ Edge(p).kind # "negative"
      /\ \A f \in Joins(dep) : Edge(f).kind # "negative" => Cardinality(w[p].list) <= Cardinality(w[f].list)
  BY <1>1, <1>2, PivotParts
<1>4. \A e \in Joins(dep) : w[e] = IF Edge(e).lo = dep THEN Rows(Shard(e, subtask))
                                   ELSE AdjList(Shard(e, subtask), rslt[Edge(e).lo])
  BY DEF Windows
<1>5. \A e \in Edges : /\ Edge(e).lo \in Nat \ {0} /\ Edge(e).hi \in Nat /\ Edge(e).lo < Edge(e).hi
                       /\ Edge(e).kind \in {"regular", "negative", "optional"}
                       /\ Edge(e).data \subseteq (0 .. Null - 1) \X (0 .. Null - 1)
  BY EdgeParts
<1>6. v \in task.subtasks[subtask][dep] /\ v \in DataVertices /\ v # Null
  <2>1. Edge(p).lo = dep \/ Edge(p).hi = dep
    BY <1>3 DEF Joins
  <2>2. p \in Edges /\ subtask \in Subtasks
    BY <1>1, <1>2, <1>3
  <2>3. /\ Rows(Shard(p, subtask)).list \subseteq task.subtasks[subtask][Edge(p).lo]
        /\ \A u : AdjList(Shard(p, subtask), u).list \subseteq task.subtasks[subtask][Edge(p).hi]
    BY <2>2, ListParts
  <2>4. v \in task.subtasks[subtask][dep]
    BY <1>3, <1>4, <2>1, <2>3
  <2> QED
    BY <1>2, <1>3, <2>4, DataVerticesAreNumbers
<1>7. ASSUME NEW e \in Joins(dep), Edge(e).kind # "negative" PROVE v \in w[e].list
  <2>1. CASE e = p
    BY <2>1
  <2>2. CASE e # p
    <3>1. LowerBound(w[e], v)
      BY <1>2, <1>7, <2>2 DEF OthersAgree
    <3>2. ASSUME w[e].list = {} PROVE FALSE
      <4>1. Cardinality(w[p].list) <= 0
        <5>1. Cardinality({}) = 0
          BY FS_EmptySet
        <5> QED
          BY <1>3, <1>7, <3>2, <5>1
      <4>2. IsFiniteSet(w[p].list) /\ Cardinality(w[p].list) \in Nat
        BY <1>2, <1>3, DataVerticesAreNumbers, FS_Subset, FS_CardinalityType
      <4>3. Cardinality(w[p].list) = 0
        BY <4>1, <4>2
      <4>4. w[p].list = {}
        BY <4>2, <4>3, FS_EmptySet
      <4> QED
        BY <4>4
    <3> QED
      BY <3>1, <3>2 DEF LowerBound
  <2> QED
    BY <2>1, <2>2
<1>8. ASSUME NEW e \in Edges, Edge(e).hi = dep
      PROVE  (<<rslt[Edge(e).lo], v>> \in Edge(e).data) = (Edge(e).kind # "negative")
  <2>1. e \in Joins(dep) /\ Edge(e).lo # dep /\ Edge(e).lo \in 1 .. dep - 1
    BY <1>1, <1>5, <1>8 DEF Joins
  <2>2. w[e].list = {x \in DataVertices : <<rslt[Edge(e).lo], x>> \in Shard(e, subtask)}
    BY <1>1, <1>4, <1>8, <2>1, ListParts
  <2>3. CASE Edge(e).kind # "negative"
    <3>1. <<rslt[Edge(e).lo], v>> \in Shard(e, subtask)
      BY <1>7, <2>1, <2>2, <2>3
    <3> QED
      BY <2>3, <3>1 DEF Shard
  <2>4. CASE Edge(e).kind = "negative"
    <3>1. v \notin w[e].list
      BY <1>2, <1>3, <2>1, <2>4 DEF OthersAgree
    <3>2. <<rslt[Edge(e).lo], v>> \notin Shard(e, subtask)
      BY <1>6, <2>2, <3>1
    <3>3. ASSUME <<rslt[Edge(e).lo], v>> \in Edge(e).data PROVE FALSE
      <4>1. rslt[Edge(e).lo] \in 0 .. Null - 1 /\ Null \in Nat
        BY <1>5, <3>3, NullAssumption
      <4>2. rslt[Edge(e).lo] # Null
        BY <4>1
      <4>3. Fits(Edge(e).lo, rslt[Edge(e).lo]) /\ subtask \in NodeAt(Edge(e).lo)
        BY <1>1, <2>1
      <4>4. rslt[Edge(e).lo] \in task.subtasks[subtask][Edge(e).lo]
        BY <4>2, <4>3 DEF Fits
      <4> QED
        BY <1>6, <1>8, <3>2, <3>3, <4>4 DEF Shard
    <3> QED
      BY <2>4, <3>3
  <2> QED
    BY <2>3, <2>4
<1>9. ASSUME NEW t \in node PROVE v \in task.subtasks[t][dep]
  <2>1. Level(p) <= dep
    BY <1>1, <1>2, <1>3, <1>5 DEF Level, Joins
  <2>2. t \in NodeOf(subtask, dep)
    BY <1>1, <1>9 DEF NodeAt
  <2>3. dep \in {Edge(p).lo, Edge(p).hi} /\ p \in Edges
    BY <1>2, <1>3 DEF Joins
  <2>4. task.subtasks[t][dep] = task.subtasks[subtask][dep]
    BY <2>1, <2>2, <2>3 DEF NodeOf, SameUpTo
  <2> QED
    BY <1>6, <2>4
<1> QED
  BY <1>1, <1>8, <1>9 DEF Fits, Distinct

(* and a null value fits an optional vertex: no other edge leads there. *)
LEMMA NullFits ==
  ASSUME task \in Tasks, NEW d, IsOptional(d)
  PROVE  Fits(d, Null)
<1>1. PICK o \in Edges : Edge(o).kind = "optional" /\ Edge(o).hi = d
  BY DEF IsOptional
<1>2. ASSUME NEW e \in Edges, Edge(e).hi = d PROVE Edge(e).kind = "optional"
  <2>1. Edge(e).hi \in Nat
    BY EdgeParts
  <2>2. Edge(e).kind # "optional" => Edge(e).hi < Edge(o).hi
    BY <1>1, OptionalAssumption DEF OptionalAssumption, Edges, Edge
  <2> QED
    BY <1>1, <1>2, <2>1, <2>2
<1> QED
  BY <1>2 DEF Fits

(* What the invariant says of the levels that are used. *)
LEMMA MatchParts ==
  ASSUME task \in Tasks, ~IsTable, IInv, MatchInv, pc = "match"
  PROVE  /\ Levels = task.n /\ dep \in 1 .. Levels /\ dep \in Nat /\ Levels \in Nat
         /\ \A d \in 1 .. dep - 1 : Fits(d, rslt[d])
         /\ \A d \in 1 .. Levels : ~finish[d] => d <= dep /\ \A v \in im[d] : Fits(d, v)
         /\ \A d \in 1 .. Levels : resume[d] => d <= dep /\ d < Levels /\ ListsKept(d)
         /\ DOMAIN arr = 1 .. Levels
<1>1. dep \in 1 .. Levels /\ Levels \in Nat /\ Levels = task.n /\ dep \in Nat
  BY TaskFacts DEF IInv, Levels
<1>2. \A d \in 1 .. Levels : ~finish[d] => d <= dep
  <2>1. \A d \in dep + 1 .. Levels : finish[d]
    BY DEF IInv, OnPath
  <2> QED
    BY <1>1, <2>1
<1> QED
  BY <1>1, <1>2 DEF MatchInv

(* A step of the walk within the first k levels: their nodes stay, and     *)
(* what is matched before level k, and their buffers and lists.            *)
LEMMA LevelsKept ==
  ASSUME task \in Tasks, ~IsTable, IInv, MatchInv, pc = "match", task' = task,
         NEW k \in 1 .. dep, \A d \in 1 .. k : NodeAt(d)' = NodeAt(d),
         \A c \in 1 .. k - 1 : rslt'[c] = rslt[c]
  PROVE  /\ \A d \in 1 .. k : \A v : Fits(d, v)' = Fits(d, v)
         /\ \A d \in 1 .. k - 1 : Fits(d, rslt[d])'
         /\ \A d \in 1 .. k : WindowsAt(d)' = WindowsAt(d)
<1>1. k \in Nat /\ \A d \in 1 .. k : d \in 1 .. task.n /\ \A c \in 1 .. d - 1 : c \in 1 .. k - 1
  BY MatchParts
<1>2. ASSUME NEW d \in 1 .. k
      PROVE  (\A v : Fits(d, v)' = Fits(d, v)) /\ WindowsAt(d)' = WindowsAt(d)
  BY <1>1, FitsKept
<1>3. \A d \in 1 .. k - 1 : Fits(d, rslt[d])'
  <2> SUFFICES ASSUME NEW d \in 1 .. k - 1 PROVE Fits(d, rslt[d])'
    OBVIOUS
  <2>1. d \in 1 .. k /\ d \in 1 .. dep - 1 /\ rslt'[d] = rslt[d]
    BY <1>1, MatchParts
  <2>2. PICK v : v = rslt[d]
    OBVIOUS
  <2>3. Fits(d, v)
    BY <2>1, <2>2, MatchParts
  <2>4. Fits(d, v)'
    BY <1>2, <2>1, <2>3
  <2> QED
    BY <2>1, <2>2, <2>4
<1> QED
  BY <1>2, <1>3

(* The same for the buffers and lists that do not change. *)
LEMMA BuffersKept ==
  ASSUME task \in Tasks, ~IsTable, IInv, MatchInv, pc = "match", task' = task,
         NEW k \in 1 .. dep, \A d \in 1 .. k : NodeAt(d)' = NodeAt(d),
         \A c \in 1 .. k - 1 : rslt'[c] = rslt[c],
         NEW d \in 1 .. k
  PROVE  /\ ~finish[d] /\ im'[d] = im[d] => \A v \in im'[d] : Fits(d, v)'
         /\ resume[d] /\ arr'[d] = arr[d] /\ pivot'[d] = pivot[d] /\ rest'[d] = rest[d] =>
              d < Levels /\ ListsKept(d)'
<1>1. (\A v : Fits(d, v)' = Fits(d, v)) /\ WindowsAt(d)' = WindowsAt(d) /\ d \in 1 .. Levels
  BY LevelsKept, MatchParts
<1>2. /\ ~finish[d] => \A v \in im[d] : Fits(d, v)
      /\ resume[d] => d < Levels /\ ListsKept(d)
  BY <1>1, MatchParts
<1>3. ASSUME resume[d], arr'[d] = arr[d], pivot'[d] = pivot[d], rest'[d] = rest[d]
      PROVE  ListsKept(d)'
  <2>1. \A w : Pivot(w)' = Pivot(w)
    BY DEF Pivot, Edge
  <2>2. Pivot(arr[d])' = Pivot(arr[d])
    BY <1>3, <2>1
  <2> QED
    BY <1>1, <1>2, <1>3, <2>2 DEF ListsKept
<1> QED
  BY <1>1, <1>2, <1>3

(* How the parts make up the invariant after a step within the tree. *)
LEMMA MatchedAgain ==
  ASSUME task' = task, NEW k \in 1 .. Levels, Levels \in Nat, dep' = k, DOMAIN arr' = 1 .. Levels,
         \A d \in 1 .. k - 1 : Fits(d, rslt[d])',
         \A d \in 1 .. k : /\ ~finish'[d] => \A v \in im'[d] : Fits(d, v)'
                           /\ resume'[d] => d < Levels /\ ListsKept(d)',
         \A d \in k + 1 .. Levels : finish'[d] /\ ~resume'[d],
         pc' = "match"
  PROVE  MatchInv'
<1>1. \A d \in 1 .. Levels : d \in 1 .. k \/ d \in k + 1 .. Levels
  OBVIOUS
<1>2. \A d \in 1 .. Levels : /\ ~finish'[d] => \A v \in im'[d] : Fits(d, v)'
                             /\ resume'[d] => d <= k /\ d < Levels /\ ListsKept(d)'
  BY <1>1
<1> QED
  BY <1>2, SameTask DEF MatchInv

(* One level down the nodes above stay. *)
LEMMA DescendKept ==
  ASSUME task \in Tasks, IInv, Descend
  PROVE  \A d \in 1 .. dep : NodeAt(d)' = NodeAt(d)
<1>1. /\ task' = task /\ pc = "match" /\ dep < Levels /\ ~finish[dep] /\ node' = Nth(Below, child[dep])
  BY DEF Descend
<1>2. dep \in Nat \ {0} /\ child[dep] \in Nat /\ child[dep] < Cardinality(Below) /\ dep \in 1 .. dep
  BY <1>1, PathFacts DEF IInv, OnPath
<1>3. node' \in Groups(Subtasks, dep + 1) /\ node' \subseteq node
  BY <1>1, <1>2, PathFacts, NthBelow DEF Below
<1>4. FirstOf(node') \in node
  BY <1>1, <1>3, FirstOfNode
<1> QED
  BY <1>1, <1>2, <1>4, PathKept

(* One level up, too. *)
LEMMA UpKept ==
  ASSUME task \in Tasks, IInv, pc = "match", task' = task, dep # 1, node' = Parent
  PROVE  dep - 1 \in 1 .. dep /\ \A d \in 1 .. dep - 1 : NodeAt(d)' = NodeAt(d)
<1>1. /\ dep \in Nat \ {0} /\ FirstOf(node) \in node /\ node \subseteq Subtasks
  BY PathFacts
<1>2. PICK k : k = dep - 1
  OBVIOUS
<1>3. k \in Nat \ {0} /\ k \in 1 .. dep
  BY <1>1, <1>2
<1>4. node' = NodeAt(k) /\ node' \in Groups(Subtasks, k)
  BY <1>1, <1>2, NodeOfIsANode DEF Parent, NodeAt
<1>5. FirstOf(node) \in NodeOf(FirstOf(node'), k)
  <2>1. FirstOf(node') \in node' /\ node' = NodeOf(FirstOf(node'), k)
    BY <1>4, FirstOfNode
  <2>2. FirstOf(node) \in NodeAt(k)
    BY <1>1, NodeIsAClass DEF NodeAt
  <2> QED
    BY <1>4, <2>1, <2>2
<1>6. \A d \in 1 .. k : NodeAt(d)' = NodeAt(d)
  BY <1>3, <1>5, PathKept
<1> QED
  BY <1>2, <1>3, <1>6

(* The levels that are left or not reached are as at the beginning. *)
LEMMA BeginRootMatch ==
  ASSUME task \in Tasks, ~IsTable, IInv, MatchInv, BeginRoot
  PROVE  MatchInv'
<1>1. /\ task' = task /\ dep' = dep /\ finish' = finish /\ resume' = resume /\ arr' = arr /\ pc = "root"
  BY DEF BeginRoot, listVars
<1>2. /\ dep = 1 /\ \A d \in 1 .. Levels : finish[d] /\ ~resume[d]
      /\ DOMAIN arr = 1 .. Levels
  BY <1>1 DEF IInv, OnPath, MatchInv
<1> QED
  BY <1>1, <1>2, SameTask DEF MatchInv

(* The vertex that is matched fits, since it comes from the buffer.        *)
LEMMA DescendMatch ==
  ASSUME task \in Tasks, ~IsTable, IInv, TypeInv, MatchInv, Descend
  PROVE  MatchInv'
<1>1. /\ task' = task /\ dep' = dep + 1 /\ UNCHANGED <<finish, resume, arr, pivot, rest, im>>
      /\ pc = "match" /\ pc' = "match" /\ dep < Levels /\ ~finish[dep]
  BY DEF Descend, listVars
<1>2. PICK v \in todo[dep] : rslt' = [rslt EXCEPT ![dep] = v]
  BY DEF Descend, Target
<1>3. /\ Levels = task.n /\ dep \in 1 .. Levels /\ dep \in Nat /\ Levels \in Nat
      /\ \A x \in im[dep] : Fits(dep, x)
      /\ \A d \in 1 .. Levels : ~finish[d] \/ resume[d] => d <= dep
      /\ DOMAIN arr = 1 .. Levels
  BY <1>1, MatchParts
<1>4. PICK k : k = dep
  OBVIOUS
<1>5. k \in 1 .. dep /\ k \in 1 .. Levels /\ k \in Nat /\ k + 1 \in 1 .. Levels
  BY <1>1, <1>3, <1>4
<1>6. Fits(k, v) /\ rslt'[k] = v /\ \A c \in 1 .. k - 1 : rslt'[c] = rslt[c]
  BY <1>2, <1>3, <1>4 DEF TypeInv
<1>7. \A d \in 1 .. k : NodeAt(d)' = NodeAt(d)
  BY <1>4, DescendKept
<1>8. /\ \A d \in 1 .. k : \A x : Fits(d, x)' = Fits(d, x)
      /\ \A d \in 1 .. k - 1 : Fits(d, rslt[d])'
  BY <1>1, <1>5, <1>6, <1>7, LevelsKept
<1>9. \A d \in 1 .. k + 1 - 1 : Fits(d, rslt[d])'
  <2>1. Fits(k, v)'
    BY <1>5, <1>6, <1>8
  <2>2. Fits(k, rslt[k])'
    BY <1>6, <2>1
  <2>3. \A d \in 1 .. k + 1 - 1 : d = k \/ d \in 1 .. k - 1
    BY <1>5
  <2> QED
    BY <1>8, <2>2, <2>3
<1>10. \A d \in 1 .. k : /\ ~finish'[d] => \A x \in im'[d] : Fits(d, x)'
                         /\ resume'[d] => d < Levels /\ ListsKept(d)'
  BY <1>1, <1>5, <1>6, <1>7, BuffersKept
<1>11. \A d \in k + 1 .. Levels : finish'[d] /\ ~resume'[d]
  BY <1>1, <1>3, <1>4, <1>5
<1>12. \A d \in 1 .. k + 1 : /\ ~finish'[d] => \A x \in im'[d] : Fits(d, x)'
                             /\ resume'[d] => d < Levels /\ ListsKept(d)'
  <2>1. \A d \in 1 .. k + 1 : d \in 1 .. k \/ d \in k + 1 .. Levels
    BY <1>5
  <2> QED
    BY <1>10, <1>11, <2>1
<1>13. \A d \in (k + 1) + 1 .. Levels : finish'[d] /\ ~resume'[d]
  BY <1>5, <1>11
<1> QED
  BY <1>1, <1>3, <1>4, <1>5, <1>9, <1>12, <1>13, MatchedAgain

(* The buffer is replayed, or will be filled again. *)
LEMMA SameLevelMatch ==
  ASSUME task \in Tasks, ~IsTable, IInv, MatchInv, NextGroup \/ Refill
  PROVE  MatchInv'
<1>1. /\ task' = task /\ UNCHANGED <<dep, node, rslt, resume, arr, pivot, rest, im>>
      /\ pc = "match" /\ pc' = "match"
      /\ finish' = finish \/ finish' = [finish EXCEPT ![dep] = TRUE]
  BY DEF NextGroup, Refill, AllGroups, Exhausted, listVars
<1>2. /\ dep \in 1 .. Levels /\ dep \in Nat /\ Levels \in Nat
      /\ \A d \in 1 .. Levels : ~finish[d] \/ resume[d] => d <= dep
      /\ DOMAIN arr = 1 .. Levels
  BY <1>1, MatchParts
<1>3. \A d \in 1 .. Levels : ~finish'[d] => ~finish[d]
  BY <1>1 DEF IInv
<1>4. PICK k : k = dep
  OBVIOUS
<1>5. k \in 1 .. dep /\ k \in 1 .. Levels /\ k \in Nat /\ dep' = k
  BY <1>1, <1>2, <1>4
<1>6. \A d \in 1 .. k : NodeAt(d)' = NodeAt(d)
  BY <1>1, SameTask DEF NodeAt, FirstOf
<1>7. \A d \in 1 .. k - 1 : Fits(d, rslt[d])'
  BY <1>1, <1>5, <1>6, LevelsKept
<1>8. \A d \in 1 .. k : /\ ~finish'[d] => \A x \in im'[d] : Fits(d, x)'
                        /\ resume'[d] => d < Levels /\ ListsKept(d)'
  <2>1. \A d \in 1 .. k : d \in 1 .. Levels
    BY <1>2, <1>5
  <2> QED
    BY <1>1, <1>3, <1>5, <1>6, <2>1, BuffersKept
<1>9. \A d \in k + 1 .. Levels : finish'[d] /\ ~resume'[d]
  <2>1. \A d \in k + 1 .. Levels : d \in 1 .. Levels /\ ~(d <= k)
    BY <1>5
  <2> QED
    BY <1>1, <1>2, <1>3, <1>4, <2>1
<1> QED
  BY <1>1, <1>2, <1>5, <1>7, <1>8, <1>9, MatchedAgain

(* Back to the level above. *)
LEMMA UpMatch ==
  ASSUME task \in Tasks, ~IsTable, IInv, MatchInv, pc = "match", pc' = "match", task' = task, dep # 1,
         node' = Parent, dep' = dep - 1, UNCHANGED <<rslt, resume, arr, pivot, rest, im>>, ~resume[dep],
         \A d \in 1 .. dep - 1 : finish'[d] = finish[d],
         \A d \in dep .. Levels : finish'[d]
  PROVE  MatchInv'
<1>1. /\ dep \in 1 .. Levels /\ dep \in Nat /\ Levels \in Nat
      /\ \A d \in 1 .. Levels : ~finish[d] \/ resume[d] => d <= dep
      /\ DOMAIN arr = 1 .. Levels
  BY MatchParts
<1>2. PICK k : k = dep - 1
  OBVIOUS
<1>3. k \in 1 .. dep /\ k \in 1 .. Levels /\ k \in Nat /\ dep' = k /\ dep = k + 1
  BY <1>1, <1>2
<1>4. \A d \in 1 .. k : NodeAt(d)' = NodeAt(d)
  BY <1>2, UpKept
<1>5. \A d \in 1 .. k - 1 : Fits(d, rslt[d])'
  BY <1>3, <1>4, LevelsKept
<1>6. \A d \in 1 .. k : /\ ~finish'[d] => \A x \in im'[d] : Fits(d, x)'
                        /\ resume'[d] => d < Levels /\ ListsKept(d)'
  <2>1. \A d \in 1 .. k : finish'[d] = finish[d]
    BY <1>2
  <2> QED
    BY <1>3, <1>4, <2>1, BuffersKept
<1>7. \A d \in k + 1 .. Levels : finish'[d] /\ ~resume'[d]
  <2>1. \A d \in k + 1 .. Levels : d \in 1 .. Levels /\ (d = dep \/ ~(d <= dep)) /\ d \in dep .. Levels
    BY <1>1, <1>3
  <2> QED
    BY <1>1, <2>1
<1> QED
  BY <1>1, <1>3, <1>5, <1>6, <1>7, MatchedAgain

(* A level is left when there is nothing more to join at it.               *)
LEMMA LeaveMatch ==
  ASSUME task \in Tasks, ~IsTable, IInv, MatchInv, Leave
  PROVE  MatchInv'
<1>1. /\ AllGroups /\ node' = Parent /\ dep' = dep - 1 /\ dep # 1 /\ ~resume[dep]
      /\ pc' = pc /\ UNCHANGED <<rslt, resume, arr, pivot, rest, im>>
  BY DEF Leave, AllGroups, listVars
<1>2. /\ pc = "match" /\ task' = task
      /\ \A d \in 1 .. dep - 1 : finish'[d] = finish[d]
      /\ \A d \in dep .. Levels : finish'[d]
  BY <1>1, AllGroupsFacts
<1> QED
  BY <1>1, <1>2, UpMatch

(* The last level has no buffer.                                           *)
LEMMA MatchLastMatch ==
  ASSUME task \in Tasks, ~IsTable, IInv, MatchInv, MatchLast
  PROVE  MatchInv'
<1>1. /\ pc = "match" /\ dep = Levels /\ task' = task /\ pc' = pc
      /\ node' = Parent /\ dep' = dep - 1 /\ finish' = finish
      /\ UNCHANGED <<rslt, resume, arr, pivot, rest, im>>
  BY DEF MatchLast, AtLast, CountAndLeave, listVars
<1>2. dep # 1 /\ dep \in 1 .. Levels /\ dep \in Nat
  BY <1>1, TaskFacts
<1>3. ~resume[dep] /\ \A d \in dep .. Levels : finish'[d]
  <2>1. resume[dep] => dep < Levels
    BY <1>1, <1>2, MatchParts
  <2>2. finish[dep] /\ \A d \in dep .. Levels : d = dep
    BY <1>1, <1>2 DEF IInv, OnPath
  <2> QED
    BY <1>1, <1>2, <2>1, <2>2
<1> QED
  BY <1>1, <1>2, <1>3, UpMatch

(* Nothing is in use when a group of the first level, or a block, is done. *)
LEMMA EndMatch ==
  ASSUME task \in Tasks, ~IsTable, IInv, MatchInv, EndRoot \/ EndBlock
  PROVE  MatchInv'
<1>1. CASE EndRoot
  <2>1. AllGroups /\ pc' = "root" /\ dep = 1 /\ ~resume[dep] /\ resume' = resume /\ arr' = arr
    BY <1>1 DEF EndRoot, AllGroups, listVars
  <2>2. /\ pc = "match" /\ task' = task
        /\ \A d \in 1 .. Levels : finish'[d]
    BY <2>1, AllGroupsFacts
  <2>3. DOMAIN arr = 1 .. Levels /\ \A d \in 1 .. Levels : ~resume[d]
    BY <2>1, <2>2, MatchParts
  <2> QED
    BY <2>1, <2>2, <2>3, SameTask DEF MatchInv
<1>2. CASE EndBlock
  <2>1. task' = task /\ pc' # "match" /\ finish' = PerLevel(TRUE) /\ resume' = PerLevel(FALSE) /\ arr' = PerLevel(<<>>)
    BY <1>2 DEF EndBlock
  <2>2. DOMAIN arr' = 1 .. Levels /\ \A d \in 1 .. Levels : finish'[d] /\ ~resume'[d]
    BY <2>1 DEF PerLevel
  <2> QED
    BY <2>1, <2>2, SameTask DEF MatchInv
<1> QED
  BY <1>1, <1>2

(* A buffer is filled with vertices that fit, and the rest is kept. *)
LEMMA FillMatch ==
  ASSUME task \in Tasks, ~IsTable, IInv, TypeInv, MatchInv, pc = "match", dep < Levels,
         NEW some, NEW more, Fill(some, more), \A v \in some : Fits(dep, v),
         DOMAIN arr' = 1 .. Levels,
         \A d \in 1 .. Levels : d # dep => arr'[d] = arr[d] /\ pivot'[d] = pivot[d],
         more # {} => /\ arr'[dep] = WindowsAt(dep) /\ pivot'[dep] = Pivot(arr'[dep])
                      /\ more \subseteq arr'[dep][pivot'[dep]].list
  PROVE  MatchInv'
<1>1. /\ task' = task /\ UNCHANGED <<pc, dep, node, rslt>>
      /\ im' = [im EXCEPT ![dep] = WithNull(some, more)]
      /\ rest' = [rest EXCEPT ![dep] = more]
      /\ resume' = [resume EXCEPT ![dep] = more # {}]
      /\ finish' = [finish EXCEPT ![dep] = FALSE]
  BY DEF Fill, treeVars
<1>2. /\ dep \in 1 .. Levels /\ dep \in Nat /\ Levels \in Nat
      /\ \A d \in 1 .. Levels : ~finish[d] \/ resume[d] => d <= dep
  BY MatchParts
<1>3. PICK k : k = dep
  OBVIOUS
<1>4. k \in 1 .. dep /\ k \in 1 .. Levels /\ k \in Nat /\ dep' = k
  BY <1>1, <1>2, <1>3
<1>5. /\ im'[k] = WithNull(some, more) /\ rest'[k] = more /\ resume'[k] = (more # {})
      /\ \A d \in 1 .. Levels : d # k => /\ im'[d] = im[d] /\ rest'[d] = rest[d]
                                         /\ resume'[d] = resume[d] /\ finish'[d] = finish[d]
  BY <1>1, <1>3, <1>4 DEF TypeInv, IInv
<1>6. \A d \in 1 .. k : NodeAt(d)' = NodeAt(d)
  BY <1>1, SameTask DEF NodeAt, FirstOf
<1>7. /\ \A d \in 1 .. k - 1 : Fits(d, rslt[d])'
      /\ \A v : Fits(k, v)' = Fits(k, v)
      /\ WindowsAt(k)' = WindowsAt(k)
  <2>1. \A c \in 1 .. k - 1 : rslt'[c] = rslt[c]
    BY <1>1
  <2>2. k \in 1 .. k
    BY <1>4
  <2> QED
    BY <1>1, <1>4, <1>6, <2>1, <2>2, LevelsKept
<1>8. ASSUME NEW v \in WithNull(some, more) PROVE Fits(k, v)
  <2>1. CASE v \in some
    BY <1>3, <2>1
  <2>2. CASE v \notin some
    <3>1. v = Null /\ IsOptional(dep)
      BY <1>8, <2>2 DEF WithNull, IsNull
    <3>2. Fits(dep, Null)
      BY <3>1, NullFits
    <3> QED
      BY <1>3, <3>1, <3>2
  <2> QED
    BY <2>1, <2>2
<1>9. \A v \in im'[k] : Fits(k, v)'
  BY <1>5, <1>7, <1>8
<1>10. resume'[k] => k < Levels /\ ListsKept(k)'
  <2> SUFFICES ASSUME resume'[k] PROVE ListsKept(k)'
    BY <1>3
  <2>1. more # {} /\ arr'[k] = WindowsAt(k)' /\ pivot'[k] = Pivot(arr'[k]) /\ rest'[k] \subseteq arr'[k][pivot'[k]].list
    BY <1>3, <1>5, <1>7
  <2>2. \A w : Pivot(w)' = Pivot(w)
    BY <1>1 DEF Pivot, Edge
  <2>3. Pivot(arr[k])' = Pivot(arr'[k])
    BY <2>2
  <2> QED
    BY <2>1, <2>3 DEF ListsKept
<1>11. ASSUME NEW d \in 1 .. k, d # k
       PROVE  /\ ~finish'[d] => \A x \in im'[d] : Fits(d, x)'
              /\ resume'[d] => d < Levels /\ ListsKept(d)'
  <2>1. d \in 1 .. Levels /\ \A c \in 1 .. k - 1 : rslt'[c] = rslt[c]
    BY <1>1, <1>2, <1>4
  <2> QED
    BY <1>1, <1>3, <1>4, <1>5, <1>6, <1>11, <2>1, BuffersKept
<1>12. \A d \in 1 .. k : /\ ~finish'[d] => \A x \in im'[d] : Fits(d, x)'
                         /\ resume'[d] => d < Levels /\ ListsKept(d)'
  BY <1>9, <1>10, <1>11
<1>13. \A d \in k + 1 .. Levels : finish'[d] /\ ~resume'[d]
  <2>1. \A d \in k + 1 .. Levels : d \in 1 .. Levels /\ d # k /\ ~(d <= k)
    BY <1>4
  <2> QED
    BY <1>2, <1>3, <1>5, <2>1
<1>14. pc' = "match"
  BY <1>1
<1> QED
  BY <1>1, <1>2, <1>4, <1>7, <1>12, <1>13, <1>14, MatchedAgain

(* The kernels fill buffers with vertices that fit. *)
LEMMA LFTJMatch ==
  ASSUME task \in Tasks, IInv, TypeInv, MatchInv, LFTJStep
  PROVE  MatchInv'
<1>1. ~IsTable
  BY DEF LFTJStep
<1>2. ASSUME pc = "match", dep < Levels, finish[dep]
      PROVE  /\ subtask = FirstOf(node) /\ subtask \in Subtasks /\ dep \in 1 .. Levels
             /\ \A d \in 1 .. dep - 1 : Fits(d, rslt[d])
             /\ DOMAIN arr = 1 .. Levels
             /\ Windows = WindowsAt(dep)
  <2>1. subtask = FirstOf(node) /\ NodeAt(dep) = node
    BY <1>2, PathFacts DEF IInv, OnPath
  <2>2. Windows = WindowsAt(dep)
    BY <2>1 DEF Windows, WindowsAt
  <2> QED
    BY <1>1, <1>2, <2>1, <2>2, SubtaskLoaded, MatchParts
<1>3. CASE Intersect
  <2>1. PICK w, p, r : /\ w = Windows /\ p = Pivot(w) /\ r = Initially(w, p)
                       /\ arr' = [arr EXCEPT ![dep] = w] /\ pivot' = [pivot EXCEPT ![dep] = p]
                       /\ Fill(r.some, r.more)
    BY <1>3 DEF Intersect
  <2>2. pc = "match" /\ dep < Levels /\ finish[dep]
    BY <1>3 DEF Intersect, AtInitial
  <2>3. Taken(w[p].list, w, p, r.some, r.more)
    BY <1>1, <1>2, <2>1, <2>2, InitialTakes
  <2>4. \A v \in r.some : /\ v \in w[p].list /\ OthersAgree(w, p, v)
                          /\ ConstraintsCompared(task) => Distinct(v)
    BY <2>3 DEF Taken, TakenFrom
  <2>5. \A v \in r.some : Fits(dep, v)
    BY <1>1, <1>2, <2>1, <2>2, <2>4, CandidatesFit
  <2>6. /\ DOMAIN arr' = 1 .. Levels /\ arr'[dep] = w /\ pivot'[dep] = p
        /\ \A d \in 1 .. Levels : d # dep => arr'[d] = arr[d] /\ pivot'[d] = pivot[d]
    BY <1>2, <2>1, <2>2 DEF TypeInv
  <2>7. arr'[dep] = WindowsAt(dep) /\ pivot'[dep] = Pivot(arr'[dep]) /\ r.more \subseteq arr'[dep][pivot'[dep]].list
    BY <1>2, <2>1, <2>2, <2>3, <2>6 DEF Taken, TakenFrom
  <2> HIDE <1>3
  <2> QED
    BY <1>1, <2>1, <2>2, <2>5, <2>6, <2>7, FillMatch
<1>4. CASE Resume
  <2>1. PICK r : r = Again(arr[dep], pivot[dep]) /\ Fill(r.some, r.more)
    BY <1>4 DEF Resume
  <2>2. pc = "match" /\ dep < Levels /\ finish[dep] /\ resume[dep] /\ arr' = arr /\ pivot' = pivot
    BY <1>4 DEF Resume, AtResume
  <2>3. ListsKept(dep) /\ rest[dep] \subseteq DataVertices
    BY <1>1, <1>2, <2>2, MatchParts DEF TypeInv
  <2>4. PICK w, p : w = arr[dep] /\ p = pivot[dep]
    OBVIOUS
  <2>5. w = Windows /\ p = Pivot(w) /\ rest[dep] \subseteq w[p].list
    BY <1>2, <2>2, <2>3, <2>4 DEF ListsKept
  <2>6. DOMAIN w \subseteq Edges
    BY <2>5 DEF Windows, Joins
  <2>7. r = Again(w, p)
    BY <2>1, <2>4
  <2>8. Taken(rest[dep], w, p, r.some, r.more)
    BY <1>1, <1>2, <2>2, <2>3, <2>6, <2>7, ResumeTakes
  <2>9. \A v \in r.some : /\ v \in w[p].list /\ OthersAgree(w, p, v)
                          /\ ConstraintsCompared(task) => Distinct(v)
    BY <2>5, <2>8 DEF Taken, TakenFrom
  <2>10. \A v \in r.some : Fits(dep, v)
    BY <1>1, <1>2, <2>2, <2>5, <2>9, CandidatesFit
  <2>11. arr'[dep] = WindowsAt(dep) /\ pivot'[dep] = Pivot(arr'[dep]) /\ r.more \subseteq arr'[dep][pivot'[dep]].list
    BY <1>2, <2>2, <2>4, <2>5, <2>8 DEF Taken, TakenFrom
  <2>12. DOMAIN arr' = 1 .. Levels /\ \A d \in 1 .. Levels : arr'[d] = arr[d] /\ pivot'[d] = pivot[d]
    BY <1>2, <2>2
  <2> HIDE <1>4
  <2> QED
    BY <1>1, <2>1, <2>2, <2>10, <2>11, <2>12, FillMatch
<1>5. CASE MatchLast
  BY <1>1, <1>5, MatchLastMatch
<1> QED
  BY <1>3, <1>4, <1>5 DEF LFTJStep

(* Before the first group nothing is in use.                               *)
LEMMA InitMatch ==
  ASSUME Init
  PROVE  MatchInv
<1>1. pc # "match" /\ finish = PerLevel(TRUE) /\ resume = PerLevel(FALSE) /\ arr = PerLevel(<<>>)
  BY DEF Init
<1>2. DOMAIN arr = 1 .. Levels /\ \A d \in 1 .. Levels : finish[d] /\ ~resume[d]
  BY <1>1 DEF PerLevel
<1> QED
  BY <1>1, <1>2 DEF MatchInv

(* No step changes the task. *)
LEMMA TaskIsFixed ==
  ASSUME [Next]_vars
  PROVE  task' = task
<1>1. CASE Walk
  BY <1>1 DEF Walk, BeginRoot, Descend, NextGroup, Refill, Leave, EndRoot, AllGroups, EndBlock
<1>2. CASE LFTJStep
  BY <1>2 DEF LFTJStep, Intersect, Resume, Fill, MatchLast, CountAndLeave
<1>3. CASE TableStep
  BY <1>3 DEF TableStep, JoinSource, FirstSource, MoreDestinations, NextSource, TakeSource, NoSource, FillFrom,
              CountLast, CountAndLeave
<1> QED
  BY <1>1, <1>2, <1>3 DEF Next, vars

(* Every step of a kernel preserves it. *)
LEMMA MatchStep == WalkInv /\ TypeInv /\ MatchInv /\ [Next]_vars => MatchInv'
<1> SUFFICES ASSUME task \in Tasks, IInv, TypeInv, MatchInv, [Next]_vars PROVE MatchInv'
  BY DEF WalkInv
<1>1. task' = task
  BY TaskIsFixed
<1>2. CASE IsTable
  BY <1>1, <1>2, SameTaskParts DEF MatchInv
<1>3. CASE ~IsTable
  <2>1. CASE Walk
    BY <1>3, <2>1, BeginRootMatch, DescendMatch, SameLevelMatch, LeaveMatch, EndMatch DEF Walk
  <2>2. CASE LFTJStep
    BY <2>2, LFTJMatch
  <2>3. CASE TableStep
    BY <1>3, <2>3 DEF TableStep
  <2>4. CASE UNCHANGED vars
    <3>1. /\ UNCHANGED <<dep, node, pc, rslt, im, finish, resume, arr, pivot, rest>>
      BY <2>4 DEF vars, treeVars, listVars
    <3>2. \A d : NodeAt(d)' = NodeAt(d)
      BY <1>1, <3>1, SameTask DEF NodeAt, FirstOf
    <3>3. \A d \in 1 .. Levels : WindowsAt(d)' = WindowsAt(d) /\ \A v : Fits(d, v)' = Fits(d, v)
      BY <1>1, <1>3, <3>1, <3>2, FitsKept DEF Levels
    <3>4. \A w : Pivot(w)' = Pivot(w)
      BY <1>1 DEF Pivot, Edge
    <3>5. \A d \in 1 .. Levels : ListsKept(d)' = ListsKept(d)
      BY <3>1, <3>3, <3>4 DEF ListsKept
    <3>6. dep \in 1 .. Levels /\ dep \in Nat /\ Levels \in Nat /\ \A d \in 1 .. dep - 1 : d \in 1 .. Levels
      BY TaskFacts DEF IInv
    <3>7. Levels' = Levels /\ IsTable' = IsTable
      BY <1>1, SameTask, SameTaskParts
    <3>8. (pc = "match" => \A d \in 1 .. dep - 1 : Fits(d, rslt[d])') /\ \A d \in 1 .. Levels : ~finish[d] => \A v \in im[d] : Fits(d, v)'
      BY <1>3, <3>1, <3>3, <3>6 DEF MatchInv
    <3> QED
      BY <1>3, <3>1, <3>5, <3>7, <3>8 DEF MatchInv
  <2> QED
    BY <2>1, <2>2, <2>3, <2>4 DEF Next
<1> QED
  BY <1>2, <1>3

-----------------------------------------------------------------------------
(* Partial matches of the table join.                                      *)

(* An earlier edge than d has vertex x as an end point. *)
JoinedBefore(d, x) == \E e \in 1 .. d - 1 : x \in {Edge(e).lo, Edge(e).hi}

(* The shard of edge d in the node of its level. *)
ShardAt(d) == Shard(d, FirstOf(NodeAt(d)))

(* The edge is matched with a data edge of its shard. *)
EdgeMatched(d) == <<rslt[Edge(d).lo], rslt[Edge(d).hi]>> \in ShardAt(d)

(* The buffer has destinations of the source at work, and only the match   *)
(* of the later vertex if there is one.                                    *)
BufferJoins(d) ==
  \A v \in im[d] : /\ <<rslt[Edge(d).lo], v>> \in ShardAt(d)
                   /\ JoinedBefore(d, Edge(d).hi) => v = rslt[Edge(d).hi]

(* What is not read yet, destinations and sources, is in the shard. *)
RestJoins(d) ==
  /\ \A v \in rest[d] : <<rslt[Edge(d).lo], v>> \in ShardAt(d)
  /\ ~JoinedBefore(d, Edge(d).lo) => rows[d] \subseteq Rows(ShardAt(d)).list

TableInv ==
  IsTable =>
    /\ pc = "match" => \A d \in 1 .. dep - 1 : EdgeMatched(d)
    /\ \A d \in 1 .. Levels :
         /\ ~finish[d] => BufferJoins(d)
         /\ resume[d] => pc = "match" /\ d <= dep /\ d < Levels /\ RestJoins(d)

(* What the invariant says of the levels that are used.                    *)
LEMMA TableParts ==
  ASSUME task \in Tasks, IsTable, IInv, TableInv, pc = "match"
  PROVE  /\ dep \in 1 .. Levels /\ dep \in Nat /\ Levels \in Nat
         /\ \A d \in 1 .. dep - 1 : EdgeMatched(d)
         /\ \A d \in 1 .. Levels : ~finish[d] => d <= dep /\ BufferJoins(d)
         /\ \A d \in 1 .. Levels : resume[d] => d <= dep /\ d < Levels /\ RestJoins(d)
<1>1. dep \in 1 .. Levels /\ Levels \in Nat /\ dep \in Nat
  BY TaskFacts DEF IInv
<1>2. \A d \in 1 .. Levels : ~finish[d] => d <= dep
  <2>1. \A d \in dep + 1 .. Levels : finish[d]
    BY DEF IInv, OnPath
  <2> QED
    BY <1>1, <2>1
<1> QED
  BY <1>1, <1>2 DEF TableInv

(* A level of a table join is an edge. *)
LEMMA LevelsAreEdges ==
  ASSUME task \in Tasks, IsTable, NEW d \in 1 .. Levels
  PROVE  /\ d \in Edges /\ d \in Nat /\ Edge(d).lo \in 1 .. task.n /\ Edge(d).hi \in 1 .. task.n
         /\ Edge(d).lo # Edge(d).hi
<1>1. d \in Edges
  <2>1. task.edges \in Seq([lo : 1 .. task.n, hi : 1 .. task.n, kind : {"regular", "negative", "optional"},
                            data : SUBSET ((0 .. Null - 1) \X (0 .. Null - 1))])
    BY TasksAssumption DEF TasksAssumption
  <2> QED
    BY <2>1 DEF Levels, Edges
<1>2. Edge(d).lo \in 1 .. task.n /\ Edge(d).hi \in 1 .. task.n /\ Edge(d).lo < Edge(d).hi
  BY <1>1, EdgeParts
<1> QED
  BY <1>1, <1>2

(* What is said of a level depends on its node and on the matches of its   *)
(* end points, the later one if it was matched before.                     *)
LEMMA EdgeKept ==
  ASSUME task' = task, NEW d, NodeAt(d)' = NodeAt(d), rslt'[Edge(d).lo] = rslt[Edge(d).lo],
         JoinedBefore(d, Edge(d).hi) => rslt'[Edge(d).hi] = rslt[Edge(d).hi]
  PROVE  /\ BufferJoins(d) /\ im'[d] = im[d] => BufferJoins(d)'
         /\ RestJoins(d) /\ rest'[d] = rest[d] /\ rows'[d] = rows[d] => RestJoins(d)'
         /\ EdgeMatched(d) /\ rslt'[Edge(d).hi] = rslt[Edge(d).hi] => EdgeMatched(d)'
         /\ ShardAt(d)' = ShardAt(d)
         /\ \A x : JoinedBefore(d, x)' = JoinedBefore(d, x)
<1>1. Edge(d)' = Edge(d)
  BY DEF Edge
<1>2. ShardAt(d)' = ShardAt(d)
  BY SameTaskParts DEF ShardAt, FirstOf
<1>3. \A x : JoinedBefore(d, x)' = JoinedBefore(d, x)
  BY DEF JoinedBefore, Edge
<1>4. BufferJoins(d) /\ im'[d] = im[d] => BufferJoins(d)'
  BY <1>1, <1>2, <1>3 DEF BufferJoins
<1>5. RestJoins(d) /\ rest'[d] = rest[d] /\ rows'[d] = rows[d] => RestJoins(d)'
  BY <1>1, <1>2, <1>3 DEF RestJoins, Rows
<1>6. EdgeMatched(d) /\ rslt'[Edge(d).hi] = rslt[Edge(d).hi] => EdgeMatched(d)'
  BY <1>1, <1>2 DEF EdgeMatched
<1> QED
  BY <1>2, <1>3, <1>4, <1>5, <1>6

(* A vertex is matched that is matched already, or that no earlier edge    *)
(* than k has: those edges stay as they are.                               *)
LEMMA EarlierKept ==
  ASSUME NEW k \in Nat, NEW x, NEW u, rslt' = [rslt EXCEPT ![x] = u], JoinedBefore(k, x) => u = rslt[x]
  PROVE  \A d \in 1 .. k - 1 : rslt'[Edge(d).lo] = rslt[Edge(d).lo] /\ rslt'[Edge(d).hi] = rslt[Edge(d).hi]
<1> SUFFICES ASSUME NEW d \in 1 .. k - 1, NEW y \in {Edge(d).lo, Edge(d).hi}
             PROVE  rslt'[y] = rslt[y]
  OBVIOUS
<1>1. CASE y = x
  <2>1. JoinedBefore(k, x)
    BY <1>1 DEF JoinedBefore
  <2> QED
    BY <1>1, <2>1
<1>2. CASE y # x
  BY <1>2
<1> QED
  BY <1>1, <1>2

(* The levels above level k of a step that leaves their matches and nodes. *)
LEMMA LevelsJoined ==
  ASSUME task \in Tasks, IsTable, IInv, TableInv, pc = "match", task' = task,
         NEW k \in 1 .. dep, \A d \in 1 .. k : NodeAt(d)' = NodeAt(d),
         \A d \in 1 .. k - 1 : rslt'[Edge(d).lo] = rslt[Edge(d).lo] /\ rslt'[Edge(d).hi] = rslt[Edge(d).hi],
         \A d \in 1 .. k - 1 : /\ im'[d] = im[d] /\ rest'[d] = rest[d] /\ rows'[d] = rows[d]
                               /\ finish'[d] = finish[d] /\ resume'[d] = resume[d]
  PROVE  \A d \in 1 .. k - 1 : /\ EdgeMatched(d)'
                               /\ ~finish'[d] => BufferJoins(d)'
                               /\ resume'[d] => d < Levels /\ RestJoins(d)'
<1> SUFFICES ASSUME NEW d \in 1 .. k - 1
             PROVE  /\ EdgeMatched(d)'
                    /\ ~finish'[d] => BufferJoins(d)'
                    /\ resume'[d] => d < Levels /\ RestJoins(d)'
  OBVIOUS
<1>1. d \in 1 .. k /\ d \in 1 .. dep - 1 /\ d \in 1 .. Levels
  BY TableParts
<1>2. /\ EdgeMatched(d) /\ (~finish[d] => BufferJoins(d)) /\ (resume[d] => d < Levels /\ RestJoins(d))
  BY <1>1, TableParts
<1>3. /\ BufferJoins(d) /\ im'[d] = im[d] => BufferJoins(d)'
      /\ RestJoins(d) /\ rest'[d] = rest[d] /\ rows'[d] = rows[d] => RestJoins(d)'
      /\ EdgeMatched(d) /\ rslt'[Edge(d).hi] = rslt[Edge(d).hi] => EdgeMatched(d)'
  BY <1>1, EdgeKept
<1> QED
  BY <1>2, <1>3

(* How the parts make up the invariant after a step within the tree.       *)
LEMMA JoinedAgain ==
  ASSUME task' = task, NEW k \in 1 .. Levels, Levels \in Nat, dep' = k, pc' = "match",
         \A d \in 1 .. k - 1 : /\ EdgeMatched(d)'
                               /\ ~finish'[d] => BufferJoins(d)'
                               /\ resume'[d] => d < Levels /\ RestJoins(d)',
         ~finish'[k] => BufferJoins(k)',
         resume'[k] => k < Levels /\ RestJoins(k)',
         \A d \in k + 1 .. Levels : finish'[d] /\ ~resume'[d]
  PROVE  TableInv'
<1>1. \A d \in 1 .. Levels : d \in 1 .. k - 1 \/ d = k \/ d \in k + 1 .. Levels
  OBVIOUS
<1>2. \A d \in 1 .. Levels : /\ ~finish'[d] => BufferJoins(d)'
                             /\ resume'[d] => d <= k /\ d < Levels /\ RestJoins(d)'
  BY <1>1
<1> QED
  BY <1>2, SameTask DEF TableInv

(* Nothing is in use at the first level before it is begun.                *)
LEMMA BeginRootJoins ==
  ASSUME task \in Tasks, IsTable, IInv, TableInv, BeginRoot
  PROVE  TableInv'
<1>1. /\ task' = task /\ dep' = dep /\ finish' = finish /\ resume' = resume /\ pc = "root"
  BY DEF BeginRoot
<1>2. dep = 1 /\ \A d \in 1 .. Levels : finish[d] /\ ~resume[d]
  BY <1>1 DEF IInv, OnPath, TableInv
<1> QED
  BY <1>1, <1>2, SameTask DEF TableInv

(* The destination is that of a data edge, and it changes no other edge.   *)
LEMMA DescendJoins ==
  ASSUME task \in Tasks, IsTable, IInv, TypeInv, TableInv, Descend
  PROVE  TableInv'
<1>1. /\ task' = task /\ dep' = dep + 1 /\ UNCHANGED <<finish, resume, rows, rest, im>>
      /\ pc = "match" /\ pc' = "match" /\ dep < Levels /\ ~finish[dep]
  BY DEF Descend, listVars
<1>2. PICK v \in todo[dep] : rslt' = [rslt EXCEPT ![Edge(dep).hi] = v]
  BY DEF Descend, Target
<1>3. /\ dep \in 1 .. Levels /\ dep \in Nat /\ Levels \in Nat /\ BufferJoins(dep)
      /\ \A d \in 1 .. Levels : ~finish[d] \/ resume[d] => d <= dep
  BY <1>1, TableParts
<1>4. PICK k : k = dep
  OBVIOUS
<1>5. k \in 1 .. dep /\ k \in 1 .. Levels /\ k \in Nat /\ k + 1 \in 1 .. Levels /\ k \in 1 .. k /\ k + 1 - 1 = k
  BY <1>1, <1>3, <1>4
<1>6. v \in im[k] /\ <<rslt[Edge(k).lo], v>> \in ShardAt(k) /\ (JoinedBefore(k, Edge(k).hi) => v = rslt[Edge(k).hi])
  <2>1. v \in im[k]
    BY <1>2, <1>4, <1>5 DEF TypeInv
  <2> QED
    BY <1>3, <1>4, <2>1 DEF BufferJoins
<1>7. rslt'[Edge(k).hi] = v /\ rslt'[Edge(k).lo] = rslt[Edge(k).lo]
  BY <1>2, <1>4, <1>5, LevelsAreEdges DEF TypeInv
<1>8. \A d \in 1 .. k - 1 : rslt'[Edge(d).lo] = rslt[Edge(d).lo] /\ rslt'[Edge(d).hi] = rslt[Edge(d).hi]
  <2>1. PICK x : x = Edge(k).hi
    OBVIOUS
  <2>2. rslt' = [rslt EXCEPT ![x] = v] /\ (JoinedBefore(k, x) => v = rslt[x])
    BY <1>2, <1>4, <1>6, <2>1
  <2> QED
    BY <1>5, <2>2, EarlierKept
<1>9. \A d \in 1 .. k : NodeAt(d)' = NodeAt(d)
  BY <1>4, DescendKept
<1>10. \A d \in 1 .. k - 1 : /\ EdgeMatched(d)'
                             /\ ~finish'[d] => BufferJoins(d)'
                             /\ resume'[d] => d < Levels /\ RestJoins(d)'
  BY <1>1, <1>5, <1>8, <1>9, LevelsJoined
<1>11. /\ BufferJoins(k) => BufferJoins(k)'
       /\ RestJoins(k) => RestJoins(k)'
       /\ ShardAt(k)' = ShardAt(k)
  BY <1>1, <1>5, <1>6, <1>7, <1>9, EdgeKept
<1>12. EdgeMatched(k)'
  <2>1. Edge(k)' = Edge(k)
    BY <1>1 DEF Edge
  <2> QED
    BY <1>6, <1>7, <1>11, <2>1 DEF EdgeMatched
<1>13. BufferJoins(k)' /\ (resume'[k] => k < Levels /\ RestJoins(k)')
  <2>1. resume[k] => RestJoins(k)
    BY <1>1, <1>5, TableParts
  <2> QED
    BY <1>1, <1>3, <1>4, <1>11, <2>1
<1>14. \A d \in 1 .. (k + 1) - 1 : /\ EdgeMatched(d)'
                                   /\ ~finish'[d] => BufferJoins(d)'
                                   /\ resume'[d] => d < Levels /\ RestJoins(d)'
  <2>1. \A d \in 1 .. (k + 1) - 1 : d = k \/ d \in 1 .. k - 1
    BY <1>5
  <2> QED
    BY <1>10, <1>12, <1>13, <2>1
<1>15. \A d \in k + 1 .. Levels : finish'[d] /\ ~resume'[d]
  <2>1. \A d \in k + 1 .. Levels : d \in 1 .. Levels /\ ~(d <= k)
    BY <1>5
  <2> QED
    BY <1>1, <1>3, <1>4, <2>1
<1>16. finish'[k + 1] /\ ~resume'[k + 1] /\ \A d \in (k + 1) + 1 .. Levels : finish'[d] /\ ~resume'[d]
  BY <1>3, <1>5, <1>15
<1> QED
  BY <1>1, <1>3, <1>4, <1>5, <1>14, <1>16, JoinedAgain

(* The buffer is replayed, or will be filled again.                        *)
LEMMA SameLevelJoins ==
  ASSUME task \in Tasks, IsTable, IInv, TableInv, NextGroup \/ Refill
  PROVE  TableInv'
<1>1. /\ task' = task /\ UNCHANGED <<dep, node, rslt, resume, rows, rest, im>>
      /\ pc = "match" /\ pc' = "match"
      /\ finish' = finish \/ finish' = [finish EXCEPT ![dep] = TRUE]
  BY DEF NextGroup, Refill, AllGroups, Exhausted, listVars
<1>2. /\ dep \in 1 .. Levels /\ dep \in Nat /\ Levels \in Nat
      /\ \A d \in 1 .. Levels : ~finish[d] => d <= dep /\ BufferJoins(d)
      /\ \A d \in 1 .. Levels : resume[d] => d <= dep /\ d < Levels /\ RestJoins(d)
  BY <1>1, TableParts
<1>3. /\ \A d \in 1 .. Levels : ~finish'[d] => ~finish[d]
      /\ \A d \in 1 .. dep - 1 : finish'[d] = finish[d]
  BY <1>1, <1>2 DEF IInv
<1>4. PICK k : k = dep
  OBVIOUS
<1>5. k \in 1 .. dep /\ k \in 1 .. Levels /\ k \in Nat /\ dep' = k
  BY <1>1, <1>2, <1>4
<1>6. \A d \in 1 .. k : NodeAt(d)' = NodeAt(d)
  BY <1>1, SameTask DEF NodeAt, FirstOf
<1>7. \A d \in 1 .. k - 1 : /\ EdgeMatched(d)'
                            /\ ~finish'[d] => BufferJoins(d)'
                            /\ resume'[d] => d < Levels /\ RestJoins(d)'
  BY <1>1, <1>3, <1>4, <1>5, <1>6, LevelsJoined
<1>8. /\ ~finish'[k] => BufferJoins(k)'
      /\ resume'[k] => k < Levels /\ RestJoins(k)'
  <2>1. NodeAt(k)' = NodeAt(k)
    BY <1>5, <1>6
  <2>2. (BufferJoins(k) => BufferJoins(k)') /\ (RestJoins(k) => RestJoins(k)')
    BY <1>1, <2>1, EdgeKept
  <2> QED
    BY <1>1, <1>2, <1>3, <1>5, <2>2
<1>9. \A d \in k + 1 .. Levels : finish'[d] /\ ~resume'[d]
  <2>1. \A d \in k + 1 .. Levels : d \in 1 .. Levels /\ ~(d <= k)
    BY <1>2, <1>5
  <2> QED
    BY <1>1, <1>2, <1>3, <1>4, <2>1
<1> QED
  BY <1>1, <1>2, <1>5, <1>7, <1>8, <1>9, JoinedAgain

(* Back to the level above; what was matched at the level that is left is  *)
(* not of the edges before it.                                             *)
LEMMA UpJoins ==
  ASSUME task \in Tasks, IsTable, IInv, TableInv, pc = "match", pc' = "match", task' = task, dep # 1,
         node' = Parent, dep' = dep - 1, UNCHANGED <<resume, rows, rest, im>>, ~resume[dep],
         \A d \in 1 .. dep - 1 : rslt'[Edge(d).lo] = rslt[Edge(d).lo] /\ rslt'[Edge(d).hi] = rslt[Edge(d).hi],
         \A d \in 1 .. dep - 1 : finish'[d] = finish[d],
         \A d \in dep .. Levels : finish'[d]
  PROVE  TableInv'
<1>1. /\ dep \in 1 .. Levels /\ dep \in Nat /\ Levels \in Nat
      /\ \A d \in 1 .. Levels : ~finish[d] => d <= dep /\ BufferJoins(d)
      /\ \A d \in 1 .. Levels : resume[d] => d <= dep /\ d < Levels /\ RestJoins(d)
  BY TableParts
<1>2. PICK k : k = dep - 1
  OBVIOUS
<1>3. /\ k \in 1 .. dep /\ k \in 1 .. Levels /\ k \in Nat /\ dep' = k /\ dep = k + 1 /\ k \in 1 .. k
      /\ \A d \in 1 .. k - 1 : d \in 1 .. dep - 1
      /\ k \in 1 .. dep - 1
  BY <1>1, <1>2
<1>4. \A d \in 1 .. k : NodeAt(d)' = NodeAt(d)
  BY <1>2, UpKept
<1>5. \A d \in 1 .. k - 1 : /\ EdgeMatched(d)'
                            /\ ~finish'[d] => BufferJoins(d)'
                            /\ resume'[d] => d < Levels /\ RestJoins(d)'
  BY <1>3, <1>4, LevelsJoined
<1>6. /\ ~finish'[k] => BufferJoins(k)'
      /\ resume'[k] => k < Levels /\ RestJoins(k)'
  <2>1. NodeAt(k)' = NodeAt(k) /\ rslt'[Edge(k).lo] = rslt[Edge(k).lo] /\ rslt'[Edge(k).hi] = rslt[Edge(k).hi]
        /\ finish'[k] = finish[k]
    BY <1>3, <1>4
  <2>2. (BufferJoins(k) => BufferJoins(k)') /\ (RestJoins(k) => RestJoins(k)')
    BY <2>1, EdgeKept
  <2> QED
    BY <1>1, <1>3, <2>1, <2>2
<1>7. \A d \in k + 1 .. Levels : finish'[d] /\ ~resume'[d]
  <2>1. \A d \in k + 1 .. Levels : d \in 1 .. Levels /\ (d = dep \/ ~(d <= dep)) /\ d \in dep .. Levels
    BY <1>1, <1>3
  <2> QED
    BY <1>1, <2>1
<1> QED
  BY <1>1, <1>3, <1>5, <1>6, <1>7, JoinedAgain

(* A level is left when there is nothing more to join at it.               *)
LEMMA LeaveJoins ==
  ASSUME task \in Tasks, IsTable, IInv, TableInv, Leave
  PROVE  TableInv'
<1>1. /\ AllGroups /\ node' = Parent /\ dep' = dep - 1 /\ dep # 1 /\ ~resume[dep]
      /\ pc' = pc /\ rslt' = rslt /\ UNCHANGED <<resume, rows, rest, im>>
  BY DEF Leave, AllGroups, listVars
<1>2. /\ pc = "match" /\ task' = task
      /\ \A d \in 1 .. dep - 1 : finish'[d] = finish[d]
      /\ \A d \in dep .. Levels : finish'[d]
  BY <1>1, AllGroupsFacts
<1> QED
  BY <1>1, <1>2, UpJoins

(* Nothing is in use when a group of the first level, or a block, is done. *)
LEMMA EndJoins ==
  ASSUME task \in Tasks, IsTable, IInv, TableInv, EndRoot \/ EndBlock
  PROVE  TableInv'
<1>1. CASE EndRoot
  <2>1. AllGroups /\ pc' = "root" /\ dep = 1 /\ ~resume[dep] /\ resume' = resume
    BY <1>1 DEF EndRoot, AllGroups
  <2>2. /\ pc = "match" /\ task' = task
        /\ \A d \in 1 .. Levels : finish'[d]
    BY <2>1, AllGroupsFacts
  <2>3. \A d \in 1 .. Levels : ~resume[d]
    BY <2>1, <2>2, TableParts
  <2> QED
    BY <2>1, <2>2, <2>3, SameTask DEF TableInv
<1>2. CASE EndBlock
  <2>1. task' = task /\ pc' # "match" /\ finish' = PerLevel(TRUE) /\ resume' = PerLevel(FALSE)
    BY <1>2 DEF EndBlock
  <2>2. \A d \in 1 .. Levels : finish'[d] /\ ~resume'[d]
    BY <2>1 DEF PerLevel
  <2> QED
    BY <2>1, <2>2, SameTask DEF TableInv
<1> QED
  BY <1>1, <1>2

(* A buffer is filled with destinations of the source. *)
LEMMA FillJoins ==
  ASSUME task \in Tasks, IsTable, IInv, TypeInv, TableInv, pc = "match", dep < Levels,
         NEW list, NEW more \in BOOLEAN, FillFrom(list, more),
         \A v \in list : <<rslt'[Edge(dep).lo], v>> \in ShardAt(dep),
         rslt'[Edge(dep).hi] = rslt[Edge(dep).hi],
         \A d \in 1 .. dep - 1 : rslt'[Edge(d).lo] = rslt[Edge(d).lo] /\ rslt'[Edge(d).hi] = rslt[Edge(d).hi],
         \A d \in 1 .. dep - 1 : rows'[d] = rows[d],
         more /\ ~JoinedBefore(dep, Edge(dep).lo) => rows'[dep] \subseteq Rows(ShardAt(dep)).list
  PROVE  TableInv'
<1>1. /\ task' = task /\ UNCHANGED <<pc, dep, node>>
      /\ im' = [im EXCEPT ![dep] = Matching(Chunk(list))]
      /\ rest' = [rest EXCEPT ![dep] = list \ Chunk(list)]
      /\ resume' = [resume EXCEPT ![dep] = more]
      /\ finish' = [finish EXCEPT ![dep] = FALSE]
  BY DEF FillFrom, treeVars
<1>2. /\ dep \in 1 .. Levels /\ dep \in Nat /\ Levels \in Nat
      /\ \A d \in 1 .. Levels : ~finish[d] \/ resume[d] => d <= dep
  BY TableParts
<1>3. PICK k : k = dep
  OBVIOUS
<1>4. k \in 1 .. dep /\ k \in 1 .. Levels /\ k \in Nat /\ dep' = k /\ k < Levels /\ k \in 1 .. k
  BY <1>1, <1>2, <1>3
<1>5. /\ im'[k] = Matching(Chunk(list)) /\ rest'[k] = list \ Chunk(list) /\ resume'[k] = more
      /\ \A d \in 1 .. Levels : d # k => /\ im'[d] = im[d] /\ rest'[d] = rest[d]
                                         /\ resume'[d] = resume[d] /\ finish'[d] = finish[d]
  BY <1>1, <1>3, <1>4 DEF TypeInv, IInv
<1>6. \A d \in 1 .. k : NodeAt(d)' = NodeAt(d)
  BY <1>1, SameTask DEF NodeAt, FirstOf
<1>7. /\ Edge(k)' = Edge(k) /\ ShardAt(k)' = ShardAt(k)
      /\ \A x : JoinedBefore(k, x)' = JoinedBefore(k, x)
  <2>1. Edge(k)' = Edge(k)
    BY <1>1 DEF Edge
  <2>2. ShardAt(k)' = ShardAt(k)
    BY <1>1, <1>4, <1>6, SameTaskParts DEF ShardAt, FirstOf
  <2>3. \A x : JoinedBefore(k, x)' = JoinedBefore(k, x)
    BY <1>1 DEF JoinedBefore, Edge
  <2> QED
    BY <2>1, <2>2, <2>3
<1>8. \A d \in 1 .. k - 1 : /\ EdgeMatched(d)'
                            /\ ~finish'[d] => BufferJoins(d)'
                            /\ resume'[d] => d < Levels /\ RestJoins(d)'
  <2>1. \A d \in 1 .. k - 1 : d \in 1 .. Levels /\ d # k
    BY <1>2, <1>4
  <2>2. \A d \in 1 .. k - 1 : /\ im'[d] = im[d] /\ rest'[d] = rest[d] /\ rows'[d] = rows[d]
                              /\ finish'[d] = finish[d] /\ resume'[d] = resume[d]
    BY <1>3, <1>5, <2>1
  <2>3. \A d \in 1 .. k - 1 : rslt'[Edge(d).lo] = rslt[Edge(d).lo] /\ rslt'[Edge(d).hi] = rslt[Edge(d).hi]
    BY <1>3
  <2> QED
    BY <1>1, <1>4, <1>6, <2>2, <2>3, LevelsJoined
<1>9. BufferJoins(k)'
  <2>1. \A v \in im'[k] : v \in list /\ (JoinedBefore(k, Edge(k).hi) => v = rslt[Edge(k).hi])
    BY <1>3, <1>5 DEF Matching, Chunk, DestJoins, IsJoinVertex, JoinedBefore
  <2>2. \A v \in im'[k] : <<rslt'[Edge(k).lo], v>> \in ShardAt(k)
    BY <1>3, <2>1
  <2>3. rslt'[Edge(k).hi] = rslt[Edge(k).hi]
    BY <1>3
  <2> QED
    BY <1>7, <2>1, <2>2, <2>3 DEF BufferJoins
<1>10. resume'[k] => RestJoins(k)'
  <2> SUFFICES ASSUME resume'[k] PROVE RestJoins(k)'
    OBVIOUS
  <2>1. \A v \in rest'[k] : <<rslt'[Edge(k).lo], v>> \in ShardAt(k)
    BY <1>3, <1>5
  <2>2. ~JoinedBefore(k, Edge(k).lo) => rows'[k] \subseteq Rows(ShardAt(k)).list
    BY <1>3, <1>5
  <2> QED
    BY <1>7, <2>1, <2>2 DEF RestJoins, Rows
<1>11. \A d \in k + 1 .. Levels : finish'[d] /\ ~resume'[d]
  <2>1. \A d \in k + 1 .. Levels : d \in 1 .. Levels /\ d # k /\ ~(d <= k)
    BY <1>4
  <2> QED
    BY <1>2, <1>3, <1>5, <2>1
<1>12. pc' = "match"
  BY <1>1
<1> QED
  BY <1>1, <1>2, <1>4, <1>8, <1>9, <1>10, <1>11, <1>12, JoinedAgain

(* Wherever buffers are filled the shards are those of the node. *)
LEMMA ShardsLoaded ==
  ASSUME task \in Tasks, IsTable, IInv, pc = "match", finish[dep]
  PROVE  /\ dep \in 1 .. Levels /\ dep \in Nat /\ Shard(dep, subtask) = ShardAt(dep)
         /\ Sources = Rows(ShardAt(dep)).list /\ Sources \in SUBSET DataVertices
         /\ \A u : Destinations(u) \in SUBSET DataVertices /\ \A v \in Destinations(u) : <<u, v>> \in ShardAt(dep)
         /\ SourceJoins = JoinedBefore(dep, Edge(dep).lo)
         /\ Edge(dep).lo \in 1 .. task.n /\ Edge(dep).hi # Edge(dep).lo
<1>1. dep \in 1 .. Levels /\ dep \in Nat /\ subtask \in Subtasks
  BY SubtaskLoaded, PathFacts DEF IInv
<1>2. subtask = FirstOf(node) /\ NodeAt(dep) = node
  BY PathFacts DEF IInv, OnPath
<1>3. Shard(dep, subtask) = ShardAt(dep)
  BY <1>2 DEF ShardAt
<1>4. /\ Sources \in SUBSET DataVertices
      /\ \A u : Destinations(u) = {v \in DataVertices : <<u, v>> \in Shard(dep, subtask)}
  BY <1>1, TableLists
<1>5. Sources = Rows(ShardAt(dep)).list
  BY <1>3 DEF Sources
<1>6. SourceJoins = JoinedBefore(dep, Edge(dep).lo)
  BY DEF SourceJoins, IsJoinVertex, JoinedBefore
<1> QED
  BY <1>1, <1>3, <1>4, <1>5, <1>6, LevelsAreEdges

(* With the next of the sources, which no earlier edge has. *)
LEMMA TakeSourceJoins ==
  ASSUME task \in Tasks, IsTable, IInv, TypeInv, TableInv, pc = "match", dep < Levels, finish[dep],
         ~SourceJoins, NEW sources \in SUBSET Sources, sources # {}, TakeSource(sources)
  PROVE  TableInv'
<1>1. /\ dep \in 1 .. Levels /\ dep \in Nat
      /\ Sources = Rows(ShardAt(dep)).list /\ Sources \in SUBSET DataVertices
      /\ ~JoinedBefore(dep, Edge(dep).lo)
      /\ Edge(dep).lo \in 1 .. task.n /\ Edge(dep).hi # Edge(dep).lo
  BY ShardsLoaded
<1>2. PICK u : u = Min(sources)
  OBVIOUS
<1>3. /\ rows' = [rows EXCEPT ![dep] = sources \ {u}]
      /\ rslt' = [rslt EXCEPT ![Edge(dep).lo] = u]
      /\ FillFrom(Destinations(u), TRUE)
  BY <1>2 DEF TakeSource
<1>4. rslt'[Edge(dep).lo] = u /\ rslt'[Edge(dep).hi] = rslt[Edge(dep).hi]
  BY <1>1, <1>3 DEF TypeInv
<1>5. \A d \in 1 .. dep - 1 : rslt'[Edge(d).lo] = rslt[Edge(d).lo] /\ rslt'[Edge(d).hi] = rslt[Edge(d).hi]
  <2>1. PICK x : x = Edge(dep).lo
    OBVIOUS
  <2>2. rslt' = [rslt EXCEPT ![x] = u] /\ (JoinedBefore(dep, x) => u = rslt[x])
    BY <1>1, <1>3, <2>1
  <2> QED
    BY <1>1, <2>2, EarlierKept
<1>6. \A v \in Destinations(u) : <<rslt'[Edge(dep).lo], v>> \in ShardAt(dep)
  BY <1>4, ShardsLoaded
<1>7. rows'[dep] \subseteq Rows(ShardAt(dep)).list /\ \A d \in 1 .. dep - 1 : rows'[d] = rows[d]
  BY <1>1, <1>3 DEF TypeInv
<1> QED
  BY <1>3, <1>4, <1>5, <1>6, <1>7, FillJoins

(* With no source there is nothing in the buffer.                          *)
LEMMA NoSourceJoins ==
  ASSUME task \in Tasks, IsTable, IInv, TypeInv, TableInv, pc = "match", dep < Levels, NoSource
  PROVE  TableInv'
<1>1. FillFrom({}, FALSE) /\ rslt' = rslt /\ rows' = rows
  BY DEF NoSource
<1>2. PICK list, more : list = {} /\ more = FALSE
  OBVIOUS
<1>3. more \in BOOLEAN /\ ~more /\ FillFrom(list, more) /\ \A v \in list : FALSE
  BY <1>1, <1>2
<1> QED
  BY <1>1, <1>3, FillJoins

(* The source of the last edge is matched anew only if no edge has it. *)
LEMMA CountLastJoins ==
  ASSUME task \in Tasks, IsTable, IInv, TypeInv, TableInv, CountLast
  PROVE  TableInv'
<1> DEFINE sources == IF SourceJoins THEN {rslt[Edge(dep).lo]} ELSE Sources
<1>1. /\ pc = "match" /\ dep = Levels /\ task' = task /\ pc' = pc
      /\ node' = Parent /\ dep' = dep - 1 /\ finish' = finish
      /\ UNCHANGED <<resume, rows, rest, im>>
      /\ rslt' = [rslt EXCEPT ![Edge(dep).lo] = Max(sources)]
  BY DEF CountLast, AtLast, CountAndLeave, listVars
<1>2. dep # 1 /\ dep \in 1 .. Levels /\ dep \in Nat
  BY <1>1, TaskFacts
<1>3. finish[dep] /\ ~resume[dep] /\ \A d \in dep .. Levels : finish'[d]
  <2>1. resume[dep] => dep < Levels
    BY <1>1, <1>2, TableParts
  <2>2. finish[dep] /\ \A d \in dep .. Levels : d = dep
    BY <1>1, <1>2 DEF IInv, OnPath
  <2> QED
    BY <1>1, <1>2, <2>1, <2>2
<1>4. ASSUME SourceJoins PROVE Max(sources) = rslt[Edge(dep).lo]
  <2>1. Edge(dep).lo \in 1 .. task.n
    BY <1>1, <1>3, ShardsLoaded
  <2>2. rslt[Edge(dep).lo] \in 0 .. Null /\ Null \in Nat
    BY <2>1, DataVerticesAreNumbers DEF TypeInv, Candidates
  <2>3. sources \in SUBSET (0 .. Null) /\ sources # {} /\ sources = {rslt[Edge(dep).lo]}
    BY <1>4, <2>2
  <2> HIDE DEF sources
  <2>4. Max(sources) \in sources
    BY <2>2, <2>3, GreatestOf
  <2> QED
    BY <2>3, <2>4
<1>5. \A d \in 1 .. dep - 1 : rslt'[Edge(d).lo] = rslt[Edge(d).lo] /\ rslt'[Edge(d).hi] = rslt[Edge(d).hi]
  <2>1. PICK x, u : x = Edge(dep).lo /\ u = Max(sources)
    OBVIOUS
  <2> HIDE DEF sources
  <2>2. rslt' = [rslt EXCEPT ![x] = u] /\ (JoinedBefore(dep, x) => u = rslt[x])
    BY <1>1, <1>3, <1>4, <2>1, ShardsLoaded
  <2> QED
    BY <1>2, <2>2, EarlierKept
<1> HIDE DEF sources
<1>6. \A d \in 1 .. dep - 1 : finish'[d] = finish[d]
  BY <1>1
<1> QED
  BY <1>1, <1>2, <1>3, <1>5, <1>6, UpJoins

(* The steps of a table join.                                              *)
LEMMA TableJoins ==
  ASSUME task \in Tasks, IInv, TypeInv, TableInv, TableStep
  PROVE  TableInv'
<1>1. IsTable
  BY DEF TableStep
<1>2. CASE JoinSource
  <2>1. /\ pc = "match" /\ dep < Levels /\ finish[dep] /\ rslt' = rslt /\ rows' = rows /\ SourceJoins
        /\ FillFrom(Destinations(rslt[Edge(dep).lo]), Cardinality(Destinations(rslt[Edge(dep).lo])) > task.threshold)
    BY <1>2 DEF JoinSource, AtInitial
  <2>2. PICK more : more = (Cardinality(Destinations(rslt[Edge(dep).lo])) > task.threshold)
    OBVIOUS
  <2>3. more \in BOOLEAN /\ FillFrom(Destinations(rslt[Edge(dep).lo]), more)
    BY <2>1, <2>2
  <2>4. /\ \A v \in Destinations(rslt[Edge(dep).lo]) : <<rslt[Edge(dep).lo], v>> \in ShardAt(dep)
        /\ JoinedBefore(dep, Edge(dep).lo)
    BY <1>1, <2>1, ShardsLoaded
  <2> QED
    BY <1>1, <2>1, <2>3, <2>4, FillJoins
<1>3. CASE FirstSource
  <2>1. pc = "match" /\ dep < Levels /\ finish[dep] /\ ~SourceJoins
    BY <1>3 DEF FirstSource, AtInitial
  <2>2. PICK sources : /\ sources = IF dep = 1 THEN Share(Sources) ELSE Sources
                       /\ IF sources = {} THEN NoSource ELSE TakeSource(sources)
    BY <1>3 DEF FirstSource
  <2>3. sources \in SUBSET Sources
    BY <2>2 DEF Share
  <2> QED
    BY <1>1, <2>1, <2>2, <2>3, NoSourceJoins, TakeSourceJoins
<1>4. CASE MoreDestinations
  <2>1. /\ pc = "match" /\ dep < Levels /\ finish[dep] /\ resume[dep]
        /\ rslt' = rslt /\ rows' = rows /\ FillFrom(rest[dep], TRUE)
    BY <1>4 DEF MoreDestinations, AtResume
  <2>2. dep \in 1 .. Levels /\ RestJoins(dep)
    BY <1>1, <2>1, TableParts
  <2> QED
    BY <1>1, <2>1, <2>2, FillJoins DEF RestJoins
<1>5. CASE NextSource
  <2>1. pc = "match" /\ dep < Levels /\ finish[dep] /\ resume[dep]
    BY <1>5 DEF NextSource, AtResume
  <2>2. NoSource \/ (~SourceJoins /\ rows[dep] # {} /\ TakeSource(rows[dep]))
    BY <1>5 DEF NextSource
  <2>3. dep \in 1 .. Levels /\ RestJoins(dep)
    BY <1>1, <2>1, TableParts
  <2>4. ~SourceJoins => rows[dep] \in SUBSET Sources
    BY <1>1, <2>1, <2>3, ShardsLoaded DEF RestJoins
  <2> QED
    BY <1>1, <2>1, <2>2, <2>4, NoSourceJoins, TakeSourceJoins
<1>6. CASE CountLast
  BY <1>1, <1>6, CountLastJoins
<1> QED
  BY <1>2, <1>3, <1>4, <1>5, <1>6 DEF TableStep

(* Before the first group nothing is in use.                               *)
LEMMA InitJoins ==
  ASSUME Init
  PROVE  TableInv
<1>1. pc # "match" /\ finish = PerLevel(TRUE) /\ resume = PerLevel(FALSE)
  BY DEF Init
<1>2. \A d \in 1 .. Levels : finish[d] /\ ~resume[d]
  BY <1>1 DEF PerLevel
<1> QED
  BY <1>1, <1>2 DEF TableInv

(* Every step of the table join preserves it. *)
LEMMA JoinsStep == WalkInv /\ TypeInv /\ TableInv /\ [Next]_vars => TableInv'
<1> SUFFICES ASSUME task \in Tasks, IInv, TypeInv, TableInv, [Next]_vars PROVE TableInv'
  BY DEF WalkInv
<1>1. task' = task
  BY TaskIsFixed
<1>2. CASE ~IsTable
  BY <1>1, <1>2, SameTaskParts DEF TableInv
<1>3. CASE IsTable
  <2>1. CASE Walk
    BY <1>3, <2>1, BeginRootJoins, DescendJoins, SameLevelJoins, LeaveJoins, EndJoins DEF Walk
  <2>2. CASE LFTJStep
    BY <1>3, <2>2 DEF LFTJStep
  <2>3. CASE TableStep
    BY <2>3, TableJoins
  <2>4. CASE UNCHANGED vars
    <3>1. UNCHANGED <<dep, node, pc, rslt, im, finish, resume, rows, rest>>
      BY <2>4 DEF vars, treeVars, listVars
    <3>2. \A d : NodeAt(d)' = NodeAt(d)
      BY <1>1, <3>1, SameTask DEF NodeAt, FirstOf
    <3>3. ASSUME NEW d
          PROVE  /\ BufferJoins(d) => BufferJoins(d)'
                 /\ RestJoins(d) => RestJoins(d)'
                 /\ EdgeMatched(d) => EdgeMatched(d)'
      BY <1>1, <3>1, <3>2, EdgeKept
    <3>4. Levels' = Levels /\ IsTable' = IsTable
      BY <1>1, SameTask, SameTaskParts
    <3> QED
      BY <1>3, <3>1, <3>3, <3>4 DEF TableInv
  <2> QED
    BY <2>1, <2>2, <2>3, <2>4 DEF Next
<1> QED
  BY <1>2, <1>3

(* What is matched above the node at work fits or joins: the partial match *)
(* is one of the query, in the shards of the node.                         *)
LEMMA MatchesArePartial ==
  ASSUME task \in Tasks, ConstraintsCompared(task), IInv, MatchInv, TableInv
  PROVE  PrefixIsPartialMatch
<1> SUFFICES ASSUME pc = "match"
             PROVE  IF IsTable
                    THEN \A e \in 1 .. dep - 1 : <<rslt[Edge(e).lo], rslt[Edge(e).hi]>> \in Shard(e, FirstOf(node))
                    ELSE /\ Agrees(rslt, dep - 1)
                         /\ \A v \in 1 .. dep - 1 : \A t \in node : rslt[v] \in task.subtasks[t][v] \cup {Null}
  BY DEF PrefixIsPartialMatch
<1>1. /\ dep \in Nat \ {0} /\ node \subseteq Subtasks /\ FirstOf(node) \in node
      /\ \A t \in node, d \in 1 .. dep : NodeOf(t, d) = NodeAt(d)
  BY PathFacts
<1>2. \A d \in 1 .. dep - 1, t \in node : t \in NodeAt(d)
  <2>1. \A d \in 1 .. dep - 1 : d \in 1 .. dep
    BY <1>1
  <2> QED
    BY <1>1, <2>1, NodeIsAClass
<1>3. CASE IsTable
  <2> SUFFICES ASSUME NEW e \in 1 .. dep - 1
               PROVE  <<rslt[Edge(e).lo], rslt[Edge(e).hi]>> \in Shard(e, FirstOf(node))
    BY <1>3
  <2>1. EdgeMatched(e)
    BY <1>3, TableParts
  <2>2. \A p : p \in Shard(e, FirstOf(NodeAt(e))) => p \in Shard(e, FirstOf(node))
    <3>1. e \in 1 .. Levels /\ e \in Nat
      BY <1>1, <1>3, TableParts
    <3>2. e \in Edges /\ Level(e) = e
      BY <1>3, <3>1, LevelsAreEdges DEF Level
    <3>3. FirstOf(node) \in NodeAt(e) /\ NodeAt(e) \in Groups(Subtasks, e)
      BY <1>1, <1>2, NodeOfIsANode DEF NodeAt
    <3>4. FirstOf(node) \in NodeOf(FirstOf(NodeAt(e)), e)
      BY <3>3, FirstOfNode
    <3>5. \A x \in {Edge(e).lo, Edge(e).hi} : task.subtasks[FirstOf(node)][x] = task.subtasks[FirstOf(NodeAt(e))][x]
      BY <3>1, <3>2, <3>4 DEF NodeOf, SameUpTo
    <3> QED
      BY <3>5 DEF Shard
  <2> QED
    BY <2>1, <2>2 DEF EdgeMatched, ShardAt
<1>4. CASE ~IsTable
  <2>1. \A d \in 1 .. dep - 1 : Fits(d, rslt[d])
    BY <1>4, MatchParts
  <2>2. \A e \in Edges : Edge(e).hi <= dep - 1 => Edge(e).hi \in 1 .. dep - 1
    BY <1>1, EdgeParts
  <2>3. Agrees(rslt, dep - 1)
    BY <2>1, <2>2 DEF Agrees, Fits
  <2>4. \A v \in 1 .. dep - 1 : \A t \in node : rslt[v] \in task.subtasks[t][v] \cup {Null}
    BY <1>2, <2>1 DEF Fits
  <2> QED
    BY <1>4, <2>3, <2>4
<1> QED
  BY <1>3, <1>4

-----------------------------------------------------------------------------
(* Theorems.                                                               *)

(* sched_tree_child, is_finish and dep always describe a path of the tree  *)
(* of subtasks to the node at work, and the list of shards is that of the  *)
(* node, or of the group the buffer is replayed for, in every kernel.      *)
THEOREM Invariance == Spec => []IInv
<1>1. WalkInv => IInv
  BY DEF WalkInv
<1> QED
  BY InitIInv, NextStep, <1>1, PTL DEF Spec

(* Wherever the kernel has come back to after replaying buffers, the shards *)
(* it holds are those of the node it stands at, for all levels so far.      *)
THEOREM ShardsAreOfTheNode == Spec => []ShardsOfTheNode
<1>1. WalkInv => ShardsOfTheNode
  <2> SUFFICES ASSUME task \in Tasks, IInv, pc = "match", finish[dep] \/ dep = Levels
               PROVE  node = NodeOf(subtask, dep) /\ SameUpTo(subtask, FirstOf(node), dep)
    BY DEF WalkInv, ShardsOfTheNode
  <2>1. subtask = FirstOf(node)
    BY DEF IInv, OnPath
  <2>2. node = NodeOf(FirstOf(node), dep)
    BY PathFacts, FirstOfNode
  <2>3. SameUpTo(subtask, FirstOf(node), dep)
    BY <2>1 DEF SameUpTo
  <2> QED
    BY <2>1, <2>2, <2>3
<1> QED
  BY InitIInv, NextStep, <1>1, PTL DEF Spec

(* Buffers, flags and positions stay in their types: a buffer that will be *)
(* filled again has no more than there is room for, there is a flag for    *)
(* each candidate before an optional vertex, and flags are only of         *)
(* candidates of the vertex before it.                                     *)
THEOREM TypeCorrect == Spec => []TypeOK
<1>1. Init => TypeInv
  BY InitTypes
<1>2. WalkInv /\ TypeInv => TypeOK
  BY TypesAreOK DEF WalkInv
<1> QED
  BY InitIInv, NextStep, TypesStep, <1>1, <1>2, PTL DEF Spec

(* A level is matched only after the buffers were filled for the partial   *)
(* match before it, and replaying a buffer for another group keeps it one  *)
(* of the query, in the ranges of every subtask below the node: for all    *)
(* tasks but those of an optional pattern with a constrained vertex that   *)
(* has a single list before the last one, whose constraint no kernel looks *)
(* at.                                                                     *)
THEOREM PrefixMatches == Spec => [](ConstraintsCompared(task) => PrefixIsPartialMatch)
<1>1. Init => TypeInv /\ MatchInv /\ TableInv
  BY InitTypes, InitMatch, InitJoins
<1>2. WalkInv /\ TypeInv /\ MatchInv /\ [Next]_vars => MatchInv'
  BY MatchStep
<1>3. WalkInv /\ MatchInv /\ TableInv => (ConstraintsCompared(task) => PrefixIsPartialMatch)
  BY MatchesArePartial DEF WalkInv
<1> QED
  BY InitIInv, NextStep, TypesStep, JoinsStep, <1>1, <1>2, <1>3, PTL DEF Spec
=============================================================================

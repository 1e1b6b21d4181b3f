--------------------------- MODULE KernelExecutor ---------------------------
(***************************************************************************)
(* kernel_executor: the kernel for the task, a leapfrog triejoin or the    *)
(* table join, run to its end by all of its blocks.                        *)
(***************************************************************************)
EXTENDS LFTJKernel, TableJoin

Next == Walk \/ LFTJStep \/ TableStep

Spec == Init /\ [][Next]_vars

(* The blocks of a kernel run to their end. *)
FairSpec == Spec /\ WF_vars(Next)

-----------------------------------------------------------------------------
(* Properties.                                                             *)

(* The variables have their types, and a buffer holds what it has room for. *)
TypeOK ==
  /\ block \in 1 .. task.blocks
  /\ root \in 1 .. Cardinality(Roots) + 1
  /\ pc \in {"root", "match", "done"}
  /\ dep \in 1 .. Levels
  /\ node \subseteq DOMAIN task.subtasks
  /\ subtask \in {0} \cup DOMAIN task.subtasks
  /\ \A v \in 1 .. task.n : rslt[v] \in {0, Null} \cup DataVertices
  /\ \A d \in 1 .. Levels :
       /\ child[d] \in Nat /\ finish[d] \in BOOLEAN /\ resume[d] \in BOOLEAN
       /\ pivot[d] \in {0} \cup Edges
       /\ todo[d] \subseteq im[d] /\ im[d] \subseteq DataVertices \cup {Null}
       /\ (rest[d] \cup rows[d]) \subseteq DataVertices
       /\ resume[d] => Cardinality(im[d]) <= task.threshold
       /\ empty[d] \subseteq IF d = 1 THEN {} ELSE im[d - 1]
       /\ ~IsTable /\ IsOptional(d) => Cardinality(empty[d]) <= task.threshold
  /\ {count, counter} \subseteq Nat

(* The node of level d that the one at work is below, and the nodes below  *)
(* that.                                                                   *)
NodeAt(d) == NodeOf(FirstOf(node), d)
GroupsAt(d) == Groups(NodeAt(d), d + 1)

(* sched_tree_child leads from the root to the node at work; the levels    *)
(* above it have vertices in their buffers, those below it are as they     *)
(* were before the first vertex was matched.  The shards are those of the  *)
(* node, or, where the buffer is full, of the group it is replayed for.    *)
OnPath ==
  /\ pc = "match" =>
       /\ node \in Groups(DOMAIN task.subtasks, dep)
       /\ \A d \in 1 .. dep - 1 :
            /\ ~finish[d]
            /\ child[d] < Cardinality(GroupsAt(d))
            /\ NodeAt(d + 1) = Nth(GroupsAt(d), child[d])
       /\ \A d \in dep + 1 .. Levels : finish[d] /\ child[d] = 0
       /\ dep = Levels => finish[dep]
       /\ finish[dep] => child[dep] = 0 /\ subtask = FirstOf(node)
       /\ ~finish[dep] => child[dep] < Cardinality(Below) /\ subtask = FirstOf(Nth(Below, child[dep]))
  /\ pc # "match" => dep = 1 /\ \A d \in 1 .. Levels : finish[d] /\ child[d] = 0

(* The inductive invariant of the walk, for any task of Tasks. *)
IInv ==
  /\ root \in Nat \ {0}
  /\ pc \in {"root", "match", "done"}
  /\ dep \in 1 .. Levels
  /\ child \in [1 .. Levels -> Nat]
  /\ finish \in [1 .. Levels -> BOOLEAN]
  /\ OnPath

Join == INSTANCE JoinCount WITH
  counter <- counter + count,
  ended <- pc = "done"

(* Whatever the division among blocks, the size of the buffers, the pivots *)
(* and the order in the buffers, the kernel counts every match of its      *)
(* subtasks once, none twice although buffers are replayed for groups that *)
(* have shards in common, and nothing else; with a null value for an       *)
(* optional vertex only if it has no candidate in any group.               *)
Implements == Join!Spec

(* Wherever the kernel has come back to after replaying buffers, the shards *)
(* it holds are those of the node it stands at, for all levels so far.      *)
ShardsOfTheNode ==
  pc = "match" /\ (finish[dep] \/ dep = Levels) =>
    /\ node = NodeOf(subtask, dep)
    /\ SameUpTo(subtask, FirstOf(node), dep)

(* A level is matched only after the buffers were filled for the partial   *)
(* match before it: that partial match is one of the query, in the ranges  *)
(* of every subtask below the node, for a table join edge by edge.         *)
PrefixIsPartialMatch ==
  pc = "match" =>
    IF IsTable
    THEN \A e \in 1 .. dep - 1 : <<rslt[Edge(e).lo], rslt[Edge(e).hi]>> \in Shard(e, FirstOf(node))
    ELSE /\ Agrees(rslt, dep - 1)
         /\ \A v \in 1 .. dep - 1 : \A t \in node : rslt[v] \in task.subtasks[t][v] \cup {Null}

(* The kernel ends. *)
Terminates == <>(pc = "done")

(* When the kernel ends its counter is the number of matches. *)
CountsMatches == pc = "done" => counter = Cardinality(Matches)
=============================================================================

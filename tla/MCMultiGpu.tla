----------------------------- MODULE MCMultiGpu -----------------------------
(***************************************************************************)
(* Instances of MultiGpu for TLC.                                          *)
(***************************************************************************)
EXTENDS MultiGpu

CONSTANTS s1, s2, s3

(* Three tasks: the first two share a shard, as neighbouring subtasks of   *)
(* the scheduling tree do, the last shard is wanted by the last task only. *)
ThreeTasks == <<<<s1, s2>>, <<s2, s1>>, <<s3>>>>

(* Two tasks that have no shard in common. *)
TwoTasks == <<<<s1, s2>>, <<s3>>>>

(* Powers of two: every set of tasks has a total of its own. *)
Powers == [t \in Tasks |-> 2 ^ t]
=============================================================================

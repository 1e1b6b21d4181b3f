----------------------------- MODULE TaskStream -----------------------------
(***************************************************************************)
(* What sched_plan_tree promises device_manager: the subtasks of a query   *)
(* (the leaves of the scheduling tree, in their order) are cut into kernel *)
(* tasks.  Every subtask goes into exactly one task, the shards of a task  *)
(* fit together on the device unless it has only one subtask, and the      *)
(* stream of tasks ends only when no subtask is left, unless the program   *)
(* gives up for lack of memory.                                            *)
(***************************************************************************)
EXTENDS Naturals, Sequences, FiniteSets, SequencesExt, FiniteSetsExt

CONSTANT Size       \* Size[s]: the bytes of shard s

VARIABLES
  capacity,   \* bytes of device memory for the shards of one task
  left,       \* the subtasks not yet given to a task, in order
  cut,        \* the subtasks of each task made so far
  status      \* "open", "ended" or "failed"

vars == <<capacity, left, cut, status>>

(* The shards of a sequence of subtasks, each counted once, and their size. *)
ShardsOf(subtasks) == UNION {ToSet(st) : st \in ToSet(subtasks)}
Weight(shards) == MapThenSumSet(LAMBDA s : Size[s], shards)

Init ==
  /\ capacity \in Nat
  /\ left \in Seq(Seq(DOMAIN Size))
  /\ cut = <<>>
  /\ status = "open"

(* The next n subtasks become one task. *)
Cut(n) ==
  /\ status = "open"
  /\ n = 1 \/ Weight(ShardsOf(SubSeq(left, 1, n))) < capacity
  /\ cut' = Append(cut, SubSeq(left, 1, n))
  /\ left' = SubSeq(left, n + 1, Len(left))
  /\ UNCHANGED <<capacity, status>>

End ==
  /\ status = "open"
  /\ left = <<>>
  /\ status' = "ended"
  /\ UNCHANGED <<capacity, left, cut>>

Fail ==
  /\ status = "open"
  /\ status' = "failed"
  /\ UNCHANGED <<capacity, left, cut>>

Next == (\E n \in 1 .. Len(left) : Cut(n)) \/ End \/ Fail

Spec == Init /\ [][Next]_vars
=============================================================================

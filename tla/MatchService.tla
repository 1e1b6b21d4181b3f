---------------------------- MODULE MatchService ----------------------------
(***************************************************************************)
(* What device_manager promises its caller, whatever number of GPUs, of    *)
(* streams and of loader threads it uses: the kernel tasks cut from the    *)
(* scheduling tree are each run exactly once, every run adds its counter   *)
(* to the total once, and the total is reported only when nothing is left. *)
(*                                                                         *)
(* The detailed modules MultiGpu and GpuPipeline implement it.             *)
(***************************************************************************)
EXTENDS Naturals

CONSTANTS
  Tasks,      \* the kernel tasks of one query
  Matches     \* Matches[t]: the embeddings the kernel of task t counts

VARIABLES
  pending,    \* tasks still in _task_queue
  running,    \* tasks a GPU has popped and not yet accounted for
  done,       \* tasks whose counter has been added to the total
  total,      \* total_counter
  status      \* "working", "reported" (the total was printed) or "failed"

vars == <<pending, running, done, total, status>>

Init ==
  /\ pending = Tasks
  /\ running = {}
  /\ done = {}
  /\ total = 0
  /\ status = "working"

(* A GPU takes a task off the queue. *)
Claim(t) ==
  /\ status = "working"
  /\ t \in pending
  /\ pending' = pending \ {t}
  /\ running' = running \cup {t}
  /\ UNCHANGED <<done, total, status>>

(* The counter of a finished kernel is added to the total. *)
Account(t) ==
  /\ status = "working"
  /\ t \in running
  /\ running' = running \ {t}
  /\ done' = done \cup {t}
  /\ total' = total + Matches[t]
  /\ UNCHANGED <<pending, status>>

(* The total is printed: nothing may be queued or running. *)
Report ==
  /\ status = "working"
  /\ pending = {} /\ running = {}
  /\ status' = "reported"
  /\ UNCHANGED <<pending, running, done, total>>

(* exit(1), a failed allocation, or the program left defined behaviour. *)
Fail ==
  /\ status # "failed"
  /\ status' = "failed"
  /\ UNCHANGED <<pending, running, done, total>>

Next == (\E t \in Tasks : Claim(t) \/ Account(t)) \/ Report \/ Fail

Spec == Init /\ [][Next]_vars
=============================================================================

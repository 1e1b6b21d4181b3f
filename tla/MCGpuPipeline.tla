--------------------------- MODULE MCGpuPipeline ----------------------------
(***************************************************************************)
(* Instances of GpuPipeline for TLC.  The host holds two shards: as many   *)
(* as the largest task of most plans, and no more.                         *)
(***************************************************************************)
EXTENDS GpuPipeline

CONSTANTS s1, s2, s3

(* Every way three tasks can want one or two shards each, in any order.    *)
AllPlans == [Tasks -> {s \in UNION {[1 .. n -> Shards] : n \in 1 .. 2} : IsInjective(s)}]

(* The second task wants more shards than the header has room for. *)
LongPlan == <<<<s1>>, <<s2, s3, s1>>, <<s3>>>>

Ordinary(plan, streaming, preloaded) ==
  [plan |-> plan, hasKernel |-> TRUE, streaming |-> streaming, preloaded |-> preloaded,
   tooBig |-> {}]

(* Both modes, from an empty cache and from one filled in advance; in some *)
(* queries a shard is too big, a task too long, or a kernel missing.       *)
Queries ==
  {Ordinary(p, FALSE, <<>>) : p \in AllPlans}
    \cup {Ordinary(p, TRUE, <<s2, s1>>) : p \in AllPlans}
    \cup {[Ordinary(p, b, <<>>) EXCEPT !.tooBig = {s3}] :
             b \in BOOLEAN, p \in {q \in AllPlans : Head(q[1]) = s2}}
    \cup {Ordinary(LongPlan, b, <<>>) : b \in BOOLEAN}
    \cup {[Ordinary([t \in Tasks |-> <<s1>>], b, <<>>) EXCEPT !.hasKernel = FALSE] :
             b \in BOOLEAN}

(* TLC evaluates what a constant stands for at every use, Queries once.    *)
AllConfigs == Queries

(* Neighbouring tasks share shards, as neighbouring leaves of the tree do; *)
(* a host that holds two shards cannot hold those of the first task.       *)
SlidingTasks ==
  {Ordinary(<<<<s1, s2, s3>>, <<s2, s3>>>>, FALSE, <<>>)}

Powers == [t \in Tasks |-> 2 ^ t]
=============================================================================

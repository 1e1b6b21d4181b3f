---------------------------- MODULE GpuPipeline -----------------------------
(***************************************************************************)
(* device_manager with one GPU: the host thread stages the shards of a     *)
(* kernel task and its header, launches the kernel and collects the        *)
(* counter.  Copies and kernels are only enqueued on CUDA streams; each    *)
(* stream runs its operations in order, at any later time, and a copy      *)
(* reads its source when it runs, not when it was enqueued.                *)
(*                                                                         *)
(* execute_match uses one stream and the whole device buffer.              *)
(* execute_match_with_double_buffering uses two streams and two halves of  *)
(* the buffer: while the kernel of one task runs in one half, the next     *)
(* task is staged into the other.                                          *)
(*                                                                         *)
(* The shards come from a host cache in pinned memory that evicts the      *)
(* least recently used shard when an allocation fails.  The code never     *)
(* calls lock() on the shards it is copying.                               *)
(*                                                                         *)
(* Abstracted: a shard takes one slot of host memory; the counter of a     *)
(* kernel that sees anything but its task's shards is taken to be zero.    *)
(***************************************************************************)
EXTENDS Naturals, Sequences, SequencesExt

CONSTANTS
  Shards,             \* the shards' unique ids
  NoShard,            \* uninitialised memory
  NumTasks,           \* the number of kernel tasks of the query
  Matches,            \* the counter the kernel of each task returns
  HostSlots,          \* shards that fit in host memory beside the header
  MaxNumShardPerIter, \* device_defines: bound on the shards of one task
  Configs             \* the queries and modes to consider

Tasks == 1 .. NumTasks
Slots == 1 .. HostSlots
Halves == {0, 1}

ASSUME NumTasksAssumption == NumTasks \in Nat
ASSUME NoShardAssumption == NoShard \notin Shards
ASSUME MatchesAssumption == Matches \in [Tasks -> Nat]
ASSUME LimitsAssumption == HostSlots \in Nat /\ MaxNumShardPerIter \in Nat

(* A configuration: the total_sleaf_ptrs of each task; whether             *)
(* kernel_executor has a kernel for the kind of the pattern;               *)
(* GPU_STREAMING_FLAG; in_memory_mode, that is, the cache at start, oldest *)
(* first; and the shards that do not fit even when the cache is empty.     *)
ASSUME ConfigsAssumption ==
  \A c \in Configs :
    /\ c.plan \in [Tasks -> Seq(Shards)]
    /\ {c.hasKernel, c.streaming} \subseteq BOOLEAN
    /\ c.preloaded \in Seq(Shards) /\ IsInjective(c.preloaded)
    /\ Len(c.preloaded) <= HostSlots
    /\ c.tooBig \subseteq Shards

VARIABLES
  cfg,        \* the configuration, fixed for the query
  pc,         \* where the host thread is
  head,       \* the front of _task_queue
  task,       \* the task being staged, or staged and not launched; 0 if none
  pos,        \* the next shard of that task
  half,       \* the half of the device buffer (and the stream) it goes to
  inflight,   \* the task whose kernel was launched, 0 if none
  merged,     \* merged_subtask_counter
  done, total,
  status,     \* "working", "reported" or "failed"
  slotOf,     \* container: the slot of every valid entity, 0 if not valid
  mem,        \* what each slot of host memory holds
  lru,        \* the free list of the LRU policy, oldest first
  header,     \* the task described by the host header buffer, 0 if none
  stream,     \* stream[h]: the operations enqueued and not yet run
  dev         \* dev[h]: header, shards and counter in that half

hostVars   == <<pc, head, task, pos, half, inflight, status>>
cacheVars  == <<slotOf, mem, lru>>
queryVars  == <<cfg, done, total>>
deviceVars == <<stream, dev, merged>>
vars == <<hostVars, queryVars, cacheVars, header, deviceVars>>

TaskShards == cfg.plan
DoubleBuffering == cfg.streaming

Places == 1 .. MaxNumShardPerIter

Operations ==
  [kind : {"shard"}, shard : Shards, slot : Slots, at : Places]
    \cup [kind : {"header", "counter"}] \cup [kind : {"kernel"}, task : Tasks]

TypeOK ==
  /\ pc \in {"pop", "header", "stage", "staged", "launch", "collect", "sync", "gone"}
  /\ head \in 1 .. NumTasks + 1
  /\ task \in 0 .. NumTasks
  /\ pos \in Nat \ {0}
  /\ half \in Halves
  /\ inflight \in 0 .. NumTasks
  /\ merged \in Nat
  /\ done \subseteq Tasks
  /\ total \in Nat
  /\ cfg \in Configs
  /\ status \in {"working", "reported", "failed"}
  /\ slotOf \in [Shards -> 0 .. HostSlots]
  /\ mem \in [Slots -> Shards \cup {NoShard}]
  /\ lru \in Seq(Shards)
  /\ header \in 0 .. NumTasks
  /\ stream \in [Halves -> Seq(Operations)]
  /\ dev \in [Halves -> [task : 0 .. NumTasks,
                         data : [Places -> Shards \cup {NoShard}],
                         counter : Nat]]

Init ==
  /\ cfg \in Configs
  /\ pc = "pop"
  /\ head = 1
  /\ task = 0
  /\ pos = 1
  /\ half = 0
  /\ inflight = 0
  /\ merged = 0
  /\ done = {}
  /\ total = 0
  /\ status = "working"
  /\ slotOf = [s \in Shards |->
                 IF Contains(cfg.preloaded, s)
                 THEN CHOOSE i \in DOMAIN cfg.preloaded : cfg.preloaded[i] = s ELSE 0]
  /\ mem = [u \in Slots |-> IF u <= Len(cfg.preloaded) THEN cfg.preloaded[u] ELSE NoShard]
  /\ lru = cfg.preloaded
  /\ header = 0
  /\ stream = [h \in Halves |-> <<>>]
  /\ dev = [h \in Halves |->
              [task |-> 0, data |-> [i \in Places |-> NoShard], counter |-> 0]]

-----------------------------------------------------------------------------
(* The host thread.                                                        *)

Enqueue(h, op) == stream' = [stream EXCEPT ![h] = Append(@, op)]

Idle(h) == stream[h] = <<>>

PopTask ==
  /\ pc = "pop"
  /\ head <= NumTasks
  /\ head' = head + 1
  /\ task' = head
  /\ pos' = 1
  /\ pc' = "header"
  /\ UNCHANGED <<half, inflight, status, queryVars, cacheVars, header, deviceVars>>

(* With a kernel in flight its counter is collected, else the loop ends. *)
PopNothing ==
  /\ pc = "pop"
  /\ head > NumTasks
  /\ pc' = IF inflight # 0 THEN "collect" ELSE "gone"
  /\ UNCHANGED <<head, task, pos, half, inflight, status, queryVars, cacheVars,
                 header, deviceVars>>

(* The one header buffer of the GPU is rewritten in place. *)
MakeHeader ==
  /\ pc = "header"
  /\ status = "working"
  /\ IF Len(TaskShards[task]) >= MaxNumShardPerIter
     THEN status' = "failed" /\ UNCHANGED <<pc, header>>
     ELSE header' = task /\ pc' = "stage" /\ UNCHANGED status
  /\ UNCHANGED <<head, task, pos, half, inflight, queryVars, cacheVars, deviceVars>>

Wanted == TaskShards[task][pos]

Staging ==
  /\ pc = "stage"
  /\ status = "working"
  /\ pos <= Len(TaskShards[task])

(* The slots malloc_shard_buffer may return for shard s. *)
Allocatable(s) ==
  IF s \in cfg.tooBig THEN {} ELSE {u \in Slots : \A r \in Shards : slotOf[r] # u}

(* Mutant: move_back does not remove the old list node. *)
StageShardTwice ==
  /\ Staging
  /\ slotOf[Wanted] # 0
  /\ lru' = Append(lru, Wanted)
  /\ Enqueue(half, [kind |-> "shard", shard |-> Wanted, slot |-> slotOf[Wanted], at |-> pos])
  /\ pos' = pos + 1
  /\ UNCHANGED <<pc, head, task, half, inflight, status, queryVars, slotOf, mem,
                 header, dev, merged>>

(* The shard is in the cache: get() makes it the most recently used one    *)
(* and its copy to the device is enqueued.                                 *)
StageShard ==
  /\ Staging
  /\ slotOf[Wanted] # 0
  /\ \E i \in DOMAIN lru :
       /\ lru[i] = Wanted
       /\ lru' = Append(RemoveAt(lru, i), Wanted)
  /\ Enqueue(half, [kind |-> "shard", shard |-> Wanted, slot |-> slotOf[Wanted], at |-> pos])
  /\ pos' = pos + 1
  /\ UNCHANGED <<pc, head, task, half, inflight, status, queryVars, slotOf, mem,
                 header, dev, merged>>

(* The shard is not in the cache and an allocation succeeds: the grid file *)
(* is read into the new slot and the cache entry added.                    *)
LoadShard ==
  /\ Staging
  /\ slotOf[Wanted] = 0
  /\ \E u \in Allocatable(Wanted) :
       /\ mem' = [mem EXCEPT ![u] = Wanted]
       /\ slotOf' = [slotOf EXCEPT ![Wanted] = u]
  /\ lru' = Append(lru, Wanted)
  /\ UNCHANGED <<hostVars, queryVars, header, deviceVars>>

(* Mutant: the most recently used shard is given up. *)
EvictShardNewest ==
  /\ Staging
  /\ slotOf[Wanted] = 0
  /\ Allocatable(Wanted) = {}
  /\ lru # <<>>
  /\ slotOf' = [slotOf EXCEPT ![Last(lru)] = 0]
  /\ lru' = Front(lru)
  /\ UNCHANGED <<hostVars, queryVars, mem, header, deviceVars>>

(* Mutant: the loop goes round without giving anything up. *)
EvictShardNothing ==
  /\ Staging
  /\ slotOf[Wanted] = 0
  /\ Allocatable(Wanted) = {}
  /\ lru # <<>>
  /\ UNCHANGED vars

(* The allocation fails: the least recently used shard is given up and the *)
(* allocation tried again.                                                 *)
EvictShard ==
  /\ Staging
  /\ slotOf[Wanted] = 0
  /\ Allocatable(Wanted) = {}
  /\ lru # <<>>
  /\ slotOf' = [slotOf EXCEPT ![Head(lru)] = 0]
  /\ lru' = Tail(lru)
  /\ UNCHANGED <<hostVars, queryVars, mem, header, deviceVars>>

(* Nothing is left to evict: the null pointer goes to the grid file. *)
AllocationFails ==
  /\ Staging
  /\ slotOf[Wanted] = 0
  /\ Allocatable(Wanted) = {}
  /\ lru = <<>>
  /\ status' = "failed"
  /\ UNCHANGED <<pc, head, task, pos, half, inflight, queryVars, cacheVars,
                 header, deviceVars>>

(* Mutant: the header is enqueued on the other stream. *)
EnqueueHeaderOther ==
  /\ pc = "stage"
  /\ pos > Len(TaskShards[task])
  /\ Enqueue(1 - half, [kind |-> "header"])
  /\ pc' = IF inflight # 0 THEN "collect" ELSE "staged"
  /\ UNCHANGED <<head, task, pos, half, inflight, status, queryVars, cacheVars,
                 header, dev, merged>>

(* _kernel_H2D: the header, with the device addresses of the shards. *)
EnqueueHeader ==
  /\ pc = "stage"
  /\ pos > Len(TaskShards[task])
  /\ Enqueue(half, [kind |-> "header"])
  /\ pc' = IF inflight # 0 THEN "collect" ELSE "staged"
  /\ UNCHANGED <<head, task, pos, half, inflight, status, queryVars, cacheVars,
                 header, dev, merged>>

(* Mutant: the launch is left to the order of the stream. *)
SynchronizeCopiesNot ==
  /\ pc = "staged"
  /\ pc' = "launch"
  /\ UNCHANGED <<head, task, pos, half, inflight, status, queryVars, cacheVars,
                 header, deviceVars>>

(* Nothing is running: the copies are waited for before the first launch. *)
SynchronizeCopies ==
  /\ pc = "staged"
  /\ Idle(half)
  /\ pc' = "launch"
  /\ UNCHANGED <<head, task, pos, half, inflight, status, queryVars, cacheVars,
                 header, deviceVars>>

(* The half the launched kernel works on. *)
LaunchedHalf == IF DoubleBuffering THEN 1 - half ELSE half

(* LFTJ_kernel_invoker. *)
Launch ==
  /\ pc = "launch"
  /\ cfg.hasKernel
  /\ Enqueue(half, [kind |-> "kernel", task |-> task])
  /\ merged' = 0
  /\ inflight' = task
  /\ task' = 0
  /\ half' = IF DoubleBuffering THEN 1 - half ELSE half
  /\ pc' = IF DoubleBuffering THEN "pop" ELSE "collect"
  /\ UNCHANGED <<head, pos, status, queryVars, cacheVars, header, dev>>

(* The pattern mixes kinds of edges no kernel was written for: exit(1). *)
NoKernel ==
  /\ pc = "launch"
  /\ status = "working"
  /\ ~cfg.hasKernel
  /\ status' = "failed"
  /\ UNCHANGED <<pc, head, task, pos, half, inflight, queryVars, cacheVars,
                 header, deviceVars>>

(* _kernel_D2H: execute_match waits for the kernel before it. *)
EnqueueCounter ==
  /\ pc = "collect"
  /\ DoubleBuffering \/ Idle(half)
  /\ Enqueue(LaunchedHalf, [kind |-> "counter"])
  /\ pc' = "sync"
  /\ UNCHANGED <<head, task, pos, half, inflight, status, queryVars, cacheVars,
                 header, dev, merged>>

(* Mutant: the counter is read without waiting for its copy. *)
AccountEarly ==
  /\ pc = "sync"
  /\ total' = total + merged
  /\ done' = done \cup {inflight}
  /\ inflight' = 0
  /\ pc' = IF task # 0 THEN "launch" ELSE IF DoubleBuffering THEN "gone" ELSE "pop"
  /\ UNCHANGED <<head, task, pos, half, status, cfg, cacheVars, header,
                 deviceVars>>

(* All streams in use are synchronised, then the counter is added. *)
Account ==
  /\ pc = "sync"
  /\ \A h \in Halves : Idle(h)
  /\ total' = total + merged
  /\ done' = done \cup {inflight}
  /\ inflight' = 0
  /\ pc' = IF task # 0 THEN "launch" ELSE IF DoubleBuffering THEN "gone" ELSE "pop"
  /\ UNCHANGED <<head, task, pos, half, status, cfg, cacheVars, header,
                 deviceVars>>

Report ==
  /\ pc = "gone"
  /\ status = "working"
  /\ status' = "reported"
  /\ UNCHANGED <<pc, head, task, pos, half, inflight, queryVars, cacheVars,
                 header, deviceVars>>

Host ==
  \/ PopTask \/ PopNothing \/ MakeHeader \/ StageShard \/ LoadShard \/ EvictShard
  \/ AllocationFails \/ EnqueueHeader \/ SynchronizeCopies \/ Launch \/ NoKernel
  \/ EnqueueCounter \/ Account \/ Report

-----------------------------------------------------------------------------
(* The streams: the operation at the head of stream h is carried out.      *)

Run(h, kind) ==
  /\ stream[h] # <<>>
  /\ Head(stream[h]).kind = kind
  /\ stream' = [stream EXCEPT ![h] = Tail(@)]
  /\ UNCHANGED <<hostVars, queryVars, cacheVars, header>>

CopyShard(h) ==
  /\ Run(h, "shard")
  /\ LET op == Head(stream[h])
     IN  dev' = [dev EXCEPT ![h].data[op.at] = mem[op.slot]]
  /\ UNCHANGED merged

CopyHeader(h) ==
  /\ Run(h, "header")
  /\ dev' = [dev EXCEPT ![h].task = header, ![h].counter = 0]
  /\ UNCHANGED merged

(* The device half h holds the header and all the shards of task t. *)
Holds(h, t) ==
  /\ t \in Tasks
  /\ dev[h].task = t
  /\ \A i \in 1 .. Len(TaskShards[t]) : dev[h].data[i] = TaskShards[t][i]

RunKernel(h) ==
  /\ Run(h, "kernel")
  /\ dev' = [dev EXCEPT ![h].counter =
               IF Holds(h, dev[h].task) THEN Matches[dev[h].task] ELSE 0]
  /\ UNCHANGED merged

CopyCounter(h) ==
  /\ Run(h, "counter")
  /\ merged' = dev[h].counter
  /\ UNCHANGED dev

Stream(h) == CopyShard(h) \/ CopyHeader(h) \/ RunKernel(h) \/ CopyCounter(h)

Next == Host \/ \E h \in Halves : Stream(h)

Spec == Init /\ [][Next]_vars

(* The host thread is scheduled and the GPU makes progress on each stream. *)
FairSpec == Spec /\ WF_vars(Host) /\ \A h \in Halves : WF_vars(Stream(h))

-----------------------------------------------------------------------------
(* The inductive invariant.                                                *)

(* The program counter tells what the host has at hand: the task that is   *)
(* staged, the newest one popped, and the one in its kernel.  The loop     *)
(* with one stream never has both.  What was popped and is not at hand was *)
(* accounted for.                                                          *)
AtHand ==
  /\ task # 0 => head = task + 1
  /\ inflight # 0 => inflight < head /\ inflight # task
  /\ pc \in {"pop", "gone"} => task = 0
  /\ pc \in {"header", "stage", "staged", "launch"} => task # 0
  /\ pc \in {"staged", "launch", "gone"} => inflight = 0
  /\ pc \in {"collect", "sync"} => inflight # 0
  /\ ~DoubleBuffering /\ inflight # 0 => task = 0 /\ pc \in {"collect", "sync"}
  /\ task = 0 /\ pc \in {"collect", "sync", "gone"} /\ (DoubleBuffering \/ pc = "gone")
       => head > NumTasks
  /\ done = (1 .. head - 1) \ {task, inflight}

(* The host stages the shards of its task in order; only a task with a     *)
(* table in the header gets that far.  When it gives up it does so for     *)
(* good.                                                                   *)
StagingOrder ==
  /\ pc = "header" => pos = 1
  /\ task # 0 /\ pc # "header" =>
       Len(TaskShards[task]) < MaxNumShardPerIter /\ pos <= Len(TaskShards[task]) + 1
  /\ task # 0 /\ pc \notin {"header", "stage"} => pos = Len(TaskShards[task]) + 1
  /\ task # 0 /\ pc \in {"stage", "staged", "collect", "sync"} => header = task
  /\ status = "failed" => \/ pc = "header"
                          \/ pc = "stage" /\ pos <= Len(TaskShards[task])
                          \/ pc = "launch" /\ ~cfg.hasKernel
  /\ status = "reported" => pc = "gone"

KernelOf(t) == [kind |-> "kernel", task |-> t]
CounterCopy == [kind |-> "counter"]

(* The half of the launched kernel has its stream to itself: the kernel,   *)
(* then the copy of its counter.  All other operations are copies to the   *)
(* half that is being staged, of the shards before pos, and the header's.  *)
StreamOrder ==
  /\ inflight # 0 =>
       stream[LaunchedHalf] \in IF pc = "sync"
                                THEN {<<KernelOf(inflight), CounterCopy>>, <<CounterCopy>>, <<>>}
                                ELSE {<<KernelOf(inflight)>>, <<>>}
  /\ \A h \in Halves : inflight = 0 \/ h # LaunchedHalf => \A i \in DOMAIN stream[h] :
       /\ h = half /\ task # 0
       /\ \/ /\ stream[h][i].kind = "shard"
             /\ pc \in {"stage", "staged", "collect", "sync"}
             /\ stream[h][i].at < pos
             /\ stream[h][i].shard = TaskShards[task][stream[h][i].at]
          \/ /\ stream[h][i].kind = "header"
             /\ pc \in {"staged", "collect", "sync"}

-----------------------------------------------------------------------------
(* Properties.                                                             *)

(* When the host memory holds the shards of one task, a slot is never      *)
(* given to another shard while a copy from it is pending, although        *)
(* nothing locks it: the shards being copied are the most recently used.   *)
PendingCopiesIntact ==
  \A h \in Halves : \A i \in DOMAIN stream[h] :
    LET op == stream[h][i]
    IN  op.kind = "shard" => mem[op.slot] = op.shard

(* A kernel that is about to run finds the header and every shard of the   *)
(* task it was launched for in its half of the device buffer, whatever is  *)
(* being staged into the other half.                                       *)
KernelSeesItsTask ==
  \A h \in Halves :
    stream[h] # <<>> /\ Head(stream[h]).kind = "kernel" => Holds(h, Head(stream[h]).task)

(* The single header buffer serves both halves.  It is rewritten only when *)
(* no stream still has to read the previous header from it.                *)
HeaderReadBeforeRewritten ==
  [][header' # header =>
       \A h \in Halves : \A i \in DOMAIN stream[h] : stream[h][i].kind # "header"]_vars

(* Across loads, hits and evictions the two records of what is cached      *)
(* agree: the free list names every valid entity once, and no two share a  *)
(* slot.                                                                   *)
CacheConsistent ==
  /\ IsInjective(lru)
  /\ \A s \in Shards : slotOf[s] # 0 <=> Contains(lru, s)
  /\ \A s \in Shards : slotOf[s] # 0 => mem[slotOf[s]] = s
  /\ \A r, s \in Shards : slotOf[r] = slotOf[s] /\ slotOf[r] # 0 => r = s

(* What holds in every reachable state, however large the tasks are. *)
IInv == TypeOK /\ CacheConsistent /\ AtHand /\ StagingOrder /\ StreamOrder

(* The host memory holds the shards of every task that is staged at all. *)
TasksFitHost ==
  \A c \in Configs : \A t \in Tasks :
    Len(c.plan[t]) < MaxNumShardPerIter => Len(c.plan[t]) <= HostSlots

(* The first n shards of the task. *)
FirstShards(n) == {TaskShards[task][i] : i \in {j \in 1 .. n : j <= Len(TaskShards[task])}}

(* Nothing is used after a shard of the task that was staged but other     *)
(* such shards, and the next one, if it was just loaded.                   *)
StagedIsRecent ==
  pc = "stage" =>
    \A a, b \in DOMAIN lru :
      a < b /\ lru[a] \in FirstShards(pos - 1) => lru[b] \in FirstShards(pos)

(* The next shard is one for which no allocation will ever succeed. *)
Hopeless == pos <= Len(TaskShards[task]) /\ slotOf[Wanted] = 0 /\ Wanted \in cfg.tooBig

(* So the shards that were staged are not evicted before the task is       *)
(* complete, and the slots their copies read from stay theirs.             *)
StagedIsCached ==
  pc = "stage" =>
    \/ Hopeless
    \/ /\ \A i \in 1 .. pos - 1 : slotOf[TaskShards[task][i]] # 0
       /\ \A k \in DOMAIN stream[half] :
            stream[half][k].kind = "shard" => slotOf[stream[half][k].shard] = stream[half][k].slot

(* Every shard of the task that was staged, and its header, has reached    *)
(* the device or is on its way.                                            *)
StagedArrives ==
  /\ task # 0 /\ pc \in {"stage", "staged", "collect", "sync"} =>
       \A i \in 1 .. pos - 1 :
         \/ dev[half].data[i] = TaskShards[task][i]
         \/ \E k \in DOMAIN stream[half] :
              stream[half][k].kind = "shard" /\ stream[half][k].at = i
  /\ task # 0 /\ pc \in {"staged", "collect", "sync"} =>
       dev[half].task = task \/ \E k \in DOMAIN stream[half] : stream[half][k].kind = "header"

(* From the launch on the half holds the task of its kernel; the counter   *)
(* is on its way to the host.                                              *)
LaunchedHolds ==
  /\ pc = "launch" => Holds(half, task)
  /\ inflight # 0 =>
       /\ Holds(LaunchedHalf, inflight)
       /\ \/ Contains(stream[LaunchedHalf], KernelOf(inflight))
          \/ dev[LaunchedHalf].counter = Matches[inflight]
       /\ pc = "sync" => \/ Contains(stream[LaunchedHalf], CounterCopy)
                         \/ merged = Matches[inflight]

(* What holds when the host memory holds the shards of a task. *)
DataInv ==
  TasksFitHost => /\ PendingCopiesIntact /\ StagedIsRecent /\ StagedIsCached
                  /\ StagedArrives /\ LaunchedHolds

(* The query ends. *)
Terminates == <>(status \in {"reported", "failed"})

Service == INSTANCE MatchService
  WITH pending <- head .. NumTasks,
       running <- {task, inflight} \ {0}

(* With its streams and its evicting cache, one GPU implements the service *)
(* of one queue: every counter added to the total is that of a kernel that *)
(* saw its own task's data, once.                                          *)
Implements == Service!Spec
=============================================================================

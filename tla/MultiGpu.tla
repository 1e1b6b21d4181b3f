------------------------------ MODULE MultiGpu ------------------------------
(***************************************************************************)
(* device_manager with more than one GPU: one OpenMP worker per GPU pops   *)
(* kernel tasks from _task_queue, while a detached loader thread fills the *)
(* host shard cache.  A worker that misses a shard waits on _cv until the  *)
(* single flag _ready is set.  Both execute_match and                      *)
(* execute_match_with_double_buffering are modelled: the second pops and   *)
(* stages its next task while the kernel of the previous one is in flight. *)
(*                                                                         *)
(* The cache has two halves, as in lru_cache_controller: the `valid` bit   *)
(* of an entity and the LRU policy's own map of keys to list nodes.        *)
(* Neither is protected by a lock.  When two threads are inside the LRU    *)
(* policy together the C++ program has a data race; from then on it may at *)
(* any step fail in a way the source does not determine (UndefinedStep).   *)
(*                                                                         *)
(* Abstracted: sizes (every shard takes one unit of host memory), the      *)
(* streams of a GPU (module GpuPipeline) and the kernels.                  *)
(***************************************************************************)
EXTENDS Naturals, Sequences, FiniteSetsExt

CONSTANTS
  Gpus,               \* the device ids 0 .. _num_gpus - 1
  Shards,             \* the shards' unique ids
  NumTasks,           \* the number of kernel tasks of the query
  TaskShards,         \* total_sleaf_ptrs of each task
  Matches,            \* the counter the kernel of each task returns
  Preloaded,          \* the shards in_memory_mode put in the cache at start
  HostUnits,          \* shards that fit in host memory beside the headers
  MaxNumShardPerIter, \* device_defines: bound on the shards of one task
  DoubleBuffering     \* GPU_STREAMING_FLAG

Tasks == 1 .. NumTasks

ASSUME NumTasksAssumption == NumTasks \in Nat
ASSUME TaskShardsAssumption == TaskShards \in [Tasks -> Seq(Shards)]
ASSUME MatchesAssumption == Matches \in [Tasks -> Nat]
ASSUME PreloadedAssumption == Preloaded \subseteq Shards
ASSUME LimitAssumption == HostUnits \in Nat /\ MaxNumShardPerIter \in Nat
ASSUME ModeAssumption == DoubleBuffering \in BOOLEAN
ASSUME GpusAssumption == Gpus # {}

VARIABLES
  phase,      \* where the main thread is, or how the process ended
  listed,     \* _shard_list: what the loader will load, in order
  listTask,   \* _make_shard_list: the task being listed
  listPos,    \* _make_shard_list: the shard of that task
  head,       \* the front of _task_queue (NumTasks + 1 when it is empty)
  pc,         \* pc[g]: where the worker of GPU g is
  task,       \* task[g]: the task GPU g is staging or has staged, 0 if none
  pos,        \* pos[g]: the next shard of task[g] to stage
  inflight,   \* inflight[g]: the task whose kernel was launched, 0 if none
  done,       \* tasks whose counter was added
  total,      \* total_counter
  ldPc,       \* where the loader thread is
  idx,        \* the loader's position in listed
  used,       \* host memory taken by shards
  loaded,     \* shards whose bytes are completely in host memory
  valid,      \* entities of the cache whose valid bit is set
  registered, \* keys of the LRU policy's map that own a list node
  phantom,    \* keys operator[] inserted in that map with a null node
  ready,      \* _ready
  raced       \* two threads have been inside the LRU policy together

cacheVars  == <<valid, registered, phantom>>
loaderVars == <<ldPc, idx, used, loaded>>
gpuVars    == <<pc, task, pos, inflight>>
countVars  == <<done, total>>
listVars   == <<listed, listTask, listPos>>
vars == <<phase, listVars, head, gpuVars, countVars, loaderVars,
          cacheVars, ready, raced>>

Elems(s) == {s[i] : i \in 1 .. Len(s)}

TypeOK ==
  /\ phase \in {"listing", "running", "reported", "cleaned", "exited", "undefined"}
  /\ listed \in Seq(Shards)
  /\ listTask \in 1 .. NumTasks + 1
  /\ listPos \in Nat /\ listPos >= 1
  /\ head \in 1 .. NumTasks + 1
  /\ pc \in [Gpus -> {"pop", "header", "test", "wait", "asleep", "get", "moving",
                      "launch", "account", "gone"}]
  /\ task \in [Gpus -> Tasks \cup {0}]
  /\ pos \in [Gpus -> Nat] /\ \A g \in Gpus : pos[g] >= 1
  /\ inflight \in [Gpus -> Tasks \cup {0}]
  /\ done \subseteq Tasks
  /\ total \in Nat
  /\ ldPc \in {"test", "load", "publish", "register", "registering", "signal", "done"}
  /\ idx \in Nat /\ idx >= 1
  /\ used \in Nat
  /\ loaded \subseteq Shards
  /\ valid \subseteq Shards
  /\ registered \subseteq Shards
  /\ phantom \subseteq Shards
  /\ ready \in BOOLEAN
  /\ raced \in BOOLEAN

(* The constructor gives _ready no value: it is what was in the memory.    *)
Init ==
  /\ phase = "listing"
  /\ listed = <<>>
  /\ listTask = 1
  /\ listPos = 1
  /\ head = 1
  /\ pc = [g \in Gpus |-> "pop"]
  /\ task = [g \in Gpus |-> 0]
  /\ pos = [g \in Gpus |-> 1]
  /\ inflight = [g \in Gpus |-> 0]
  /\ done = {}
  /\ total = 0
  /\ ldPc = "test"
  /\ idx = 1
  /\ used = 0
  /\ loaded = Preloaded
  /\ valid = Preloaded
  /\ registered = Preloaded
  /\ phantom = {}
  /\ ready \in BOOLEAN
  /\ raced = FALSE

-----------------------------------------------------------------------------
(* The main thread before the parallel region: _make_shard_list.           *)

(* A shard joins the list unless _checker has seen it. *)
ListShard ==
  /\ phase = "listing"
  /\ listTask <= NumTasks
  /\ listPos <= Len(TaskShards[listTask])
  /\ LET s == TaskShards[listTask][listPos]
     IN  listed' = IF s \in Elems(listed) THEN listed ELSE Append(listed, s)
  /\ listPos' = listPos + 1
  /\ UNCHANGED <<phase, listTask, head, gpuVars, countVars, loaderVars, cacheVars, ready, raced>>

ListNextTask ==
  /\ phase = "listing"
  /\ listTask <= NumTasks
  /\ listPos > Len(TaskShards[listTask])
  /\ listTask' = listTask + 1
  /\ listPos' = 1
  /\ UNCHANGED <<phase, listed, head, gpuVars, countVars, loaderVars, cacheVars, ready, raced>>

(* The loader is started and detached, the parallel region begins. *)
StartThreads ==
  /\ phase = "listing"
  /\ listTask > NumTasks
  /\ phase' = "running"
  /\ UNCHANGED <<listVars, head, gpuVars, countVars, loaderVars, cacheVars, ready, raced>>

-----------------------------------------------------------------------------
(* The worker of GPU g.                                                    *)

(* Mutant: the front of the queue is read and not popped. *)
PopTaskTwice(g) ==
  /\ phase = "running"
  /\ pc[g] = "pop"
  /\ head <= NumTasks
  /\ task' = [task EXCEPT ![g] = head]
  /\ pos' = [pos EXCEPT ![g] = 1]
  /\ pc' = [pc EXCEPT ![g] = "header"]
  /\ UNCHANGED <<phase, listVars, head, inflight, countVars, loaderVars, cacheVars, ready, raced>>

(* pop_queue_front under _queue_mutex. *)
PopTask(g) ==
  /\ phase = "running"
  /\ pc[g] = "pop"
  /\ head <= NumTasks
  /\ head' = head + 1
  /\ task' = [task EXCEPT ![g] = head]
  /\ pos' = [pos EXCEPT ![g] = 1]
  /\ pc' = [pc EXCEPT ![g] = "header"]
  /\ UNCHANGED <<phase, listVars, inflight, countVars, loaderVars, cacheVars, ready, raced>>

(* Mutant: the worker leaves its launched kernel behind. *)
PopNothingLeaves(g) ==
  /\ phase = "running"
  /\ pc[g] = "pop"
  /\ head > NumTasks
  /\ pc' = [pc EXCEPT ![g] = "gone"]
  /\ UNCHANGED <<phase, listVars, head, task, pos, inflight, countVars,
                 loaderVars, cacheVars, ready, raced>>

(* A worker that finds the queue empty still collects its launched kernel. *)
PopNothing(g) ==
  /\ phase = "running"
  /\ pc[g] = "pop"
  /\ head > NumTasks
  /\ pc' = [pc EXCEPT ![g] = IF inflight[g] # 0 THEN "account" ELSE "gone"]
  /\ UNCHANGED <<phase, listVars, head, task, pos, inflight, countVars,
                 loaderVars, cacheVars, ready, raced>>

(* _make_header_buffer ends the process when the task has too many shards. *)
MakeHeader(g) ==
  /\ phase = "running"
  /\ pc[g] = "header"
  /\ IF Len(TaskShards[task[g]]) >= MaxNumShardPerIter
     THEN phase' = "exited" /\ UNCHANGED pc
     ELSE pc' = [pc EXCEPT ![g] = "test"] /\ UNCHANGED phase
  /\ UNCHANGED <<listVars, head, task, pos, inflight, countVars,
                 loaderVars, cacheVars, ready, raced>>

(* The shard GPU g has to stage next. *)
Wanted(g) == TaskShards[task[g]][pos[g]]

MoreToStage(g) == pos[g] <= Len(TaskShards[task[g]])

(* The condition of the while loop around the wait, read without the lock. *)
TestShard(g) ==
  /\ phase = "running"
  /\ pc[g] = "test"
  /\ MoreToStage(g)
  /\ pc' = [pc EXCEPT ![g] = IF Wanted(g) \in valid THEN "get" ELSE "wait"]
  /\ UNCHANGED <<phase, listVars, head, task, pos, inflight, countVars,
                 loaderVars, cacheVars, ready, raced>>

(* Mutant: "if" for "while", the shard is not tested again. *)
ConsumeReadyTrusting(g) ==
  /\ phase = "running"
  /\ pc[g] = "wait"
  /\ ready
  /\ ready' = FALSE
  /\ pc' = [pc EXCEPT ![g] = "get"]
  /\ UNCHANGED <<phase, listVars, head, task, pos, inflight, countVars,
                 loaderVars, cacheVars, raced>>

(* Mutant: the flag is taken for the worker's own shard. *)
ConsumeReadyMovesOn(g) ==
  /\ phase = "running"
  /\ pc[g] = "wait"
  /\ ready
  /\ ready' = FALSE
  /\ pos' = [pos EXCEPT ![g] = @ + 1]
  /\ pc' = [pc EXCEPT ![g] = "test"]
  /\ UNCHANGED <<phase, listVars, head, task, inflight, countVars,
                 loaderVars, cacheVars, raced>>

(* Under _load_mutex: the predicate of the wait holds, the flag is reset   *)
(* and the loop tests its shard again.                                     *)
ConsumeReady(g) ==
  /\ phase = "running"
  /\ pc[g] = "wait"
  /\ ready
  /\ ready' = FALSE
  /\ pc' = [pc EXCEPT ![g] = "test"]
  /\ UNCHANGED <<phase, listVars, head, task, pos, inflight, countVars,
                 loaderVars, cacheVars, raced>>

(* Under _load_mutex: the predicate is false, the worker sleeps on _cv. *)
FallAsleep(g) ==
  /\ phase = "running"
  /\ pc[g] = "wait"
  /\ ~ready
  /\ pc' = [pc EXCEPT ![g] = "asleep"]
  /\ UNCHANGED <<phase, listVars, head, task, pos, inflight, countVars,
                 loaderVars, cacheVars, ready, raced>>

(* A condition variable may wake its waiter for no reason. *)
SpuriousWakeup(g) ==
  /\ phase = "running"
  /\ pc[g] = "asleep"
  /\ pc' = [pc EXCEPT ![g] = "wait"]
  /\ UNCHANGED <<phase, listVars, head, task, pos, inflight, countVars,
                 loaderVars, cacheVars, ready, raced>>

(* The threads that are between the first and the last access of an LRU    *)
(* policy operation: move_back on a worker, add on the loader.             *)
SomeoneInLru == ldPc = "registering" \/ \E h \in Gpus : pc[h] = "moving"

(* get(): move_back looks its key up with operator[], which inserts a null *)
(* node for a key that is not there.                                       *)
BeginGet(g) ==
  /\ phase = "running"
  /\ pc[g] = "get"
  /\ phantom' = IF Wanted(g) \in registered THEN phantom ELSE phantom \cup {Wanted(g)}
  /\ raced' = (raced \/ SomeoneInLru)
  /\ pc' = [pc EXCEPT ![g] = "moving"]
  /\ UNCHANGED <<phase, listVars, head, task, pos, inflight, countVars,
                 loaderVars, valid, registered, ready>>

(* remove_node and emplace_back, then the copy of the shard is enqueued.   *)
(* A null node is dereferenced by remove_node.                             *)
EndGet(g) ==
  /\ phase = "running"
  /\ pc[g] = "moving"
  /\ IF Wanted(g) \in phantom
     THEN phase' = "undefined" /\ UNCHANGED <<pc, pos>>
     ELSE /\ pos' = [pos EXCEPT ![g] = @ + 1]
          /\ pc' = [pc EXCEPT ![g] = "test"]
          /\ UNCHANGED phase
  /\ UNCHANGED <<listVars, head, task, inflight, countVars,
                 loaderVars, cacheVars, ready, raced>>

(* All shards of the task are enqueued.  With a kernel in flight the       *)
(* worker now waits for both streams, otherwise it launches this task.     *)
FinishStaging(g) ==
  /\ phase = "running"
  /\ pc[g] = "test"
  /\ ~MoreToStage(g)
  /\ pc' = [pc EXCEPT ![g] = IF inflight[g] # 0 THEN "account" ELSE "launch"]
  /\ UNCHANGED <<phase, listVars, head, task, pos, inflight, countVars,
                 loaderVars, cacheVars, ready, raced>>

(* LFTJ_kernel_invoker.  When double buffering the next task is popped     *)
(* while the kernel runs.                                                  *)
Launch(g) ==
  /\ phase = "running"
  /\ pc[g] = "launch"
  /\ inflight' = [inflight EXCEPT ![g] = task[g]]
  /\ task' = [task EXCEPT ![g] = 0]
  /\ pc' = [pc EXCEPT ![g] = IF DoubleBuffering THEN "pop" ELSE "account"]
  /\ UNCHANGED <<phase, listVars, head, pos, countVars,
                 loaderVars, cacheVars, ready, raced>>

(* After the stream is synchronised: the omp atomic addition.  A double    *)
(* buffering worker leaves its loop when the last pop found nothing.       *)
Account(g) ==
  /\ phase = "running"
  /\ pc[g] = "account"
  /\ total' = total + Matches[inflight[g]]
  /\ done' = done \cup {inflight[g]}
  /\ inflight' = [inflight EXCEPT ![g] = 0]
  /\ pc' = [pc EXCEPT ![g] = IF task[g] # 0 THEN "launch"
                             ELSE IF DoubleBuffering THEN "gone" ELSE "pop"]
  /\ UNCHANGED <<phase, listVars, head, task, pos,
                 loaderVars, cacheVars, ready, raced>>

-----------------------------------------------------------------------------
(* The detached loader thread: _graph_load_func.  It outlives the parallel *)
(* region, and goes on after _cleanup until the process ends.              *)

LoaderRuns == phase \in {"running", "reported", "cleaned"}

(* The shard the loader is working on. *)
Loading == listed[idx]

(* What the loader touches after _cleanup has been deleted. *)
PhaseOnTouch == IF phase = "cleaned" THEN "undefined" ELSE phase

LoaderTest ==
  /\ LoaderRuns
  /\ ldPc = "test"
  /\ idx <= Len(listed)
  /\ phase' = PhaseOnTouch
  /\ IF Loading \in valid
     THEN idx' = idx + 1 /\ UNCHANGED ldPc
     ELSE ldPc' = "load" /\ UNCHANGED idx
  /\ UNCHANGED <<listVars, head, gpuVars, countVars, used, loaded,
                 cacheVars, ready, raced>>

LoaderReturns ==
  /\ LoaderRuns
  /\ ldPc = "test"
  /\ idx > Len(listed)
  /\ ldPc' = "done"
  /\ UNCHANGED <<phase, listVars, head, gpuVars, countVars, idx, used, loaded,
                 cacheVars, ready, raced>>

(* _allocate_shard_buffer_with_evcit_for_multi exits the process when the  *)
(* host buffer is full; otherwise the shard is read from the grid file.    *)
LoaderLoad ==
  /\ LoaderRuns
  /\ ldPc = "load"
  /\ IF used < HostUnits
     THEN /\ used' = used + 1
          /\ loaded' = loaded \cup {Loading}
          /\ ldPc' = "publish"
          /\ phase' = PhaseOnTouch
     ELSE phase' = "exited" /\ UNCHANGED <<used, loaded, ldPc>>
  /\ UNCHANGED <<listVars, head, gpuVars, countVars, idx,
                 cacheVars, ready, raced>>

(* add(): the entity's value, then its valid bit ... *)
LoaderPublish ==
  /\ LoaderRuns
  /\ ldPc = "publish"
  /\ valid' = valid \cup {Loading}
  /\ phase' = PhaseOnTouch
  /\ ldPc' = "register"
  /\ UNCHANGED <<listVars, head, gpuVars, countVars, idx, used, loaded,
                 registered, phantom, ready, raced>>

(* ... and only then the LRU policy's add(): a list node ... *)
LoaderBeginRegister ==
  /\ LoaderRuns
  /\ ldPc = "register"
  /\ phase' = PhaseOnTouch
  /\ ldPc' = "registering"
  /\ raced' = (raced \/ SomeoneInLru)
  /\ UNCHANGED <<listVars, head, gpuVars, countVars, idx, used, loaded,
                 cacheVars, ready>>

(* ... and its entry in the map; emplace keeps an entry that is there. *)
LoaderEndRegister ==
  /\ LoaderRuns
  /\ ldPc = "registering"
  /\ phase' = PhaseOnTouch
  /\ ldPc' = "signal"
  /\ registered' = IF Loading \in phantom THEN registered ELSE registered \cup {Loading}
  /\ UNCHANGED <<listVars, head, gpuVars, countVars, idx, used, loaded,
                 valid, phantom, ready, raced>>

(* Mutant: the flag is set and nobody is woken. *)
LoaderSignalSilent ==
  /\ LoaderRuns
  /\ ldPc = "signal"
  /\ ready' = TRUE
  /\ idx' = idx + 1
  /\ phase' = PhaseOnTouch
  /\ ldPc' = "test"
  /\ UNCHANGED <<listVars, head, gpuVars, countVars,
                 used, loaded, cacheVars, raced>>

(* Under _load_mutex: set the flag and wake one sleeper, if there is one. *)
LoaderSignal ==
  /\ LoaderRuns
  /\ ldPc = "signal"
  /\ ready' = TRUE
  /\ \/ \E g \in Gpus : pc[g] = "asleep" /\ pc' = [pc EXCEPT ![g] = "wait"]
     \/ (\A g \in Gpus : pc[g] # "asleep") /\ UNCHANGED pc
  /\ idx' = idx + 1
  /\ phase' = PhaseOnTouch
  /\ ldPc' = "test"
  /\ UNCHANGED <<listVars, head, task, pos, inflight, countVars,
                 used, loaded, cacheVars, raced>>

-----------------------------------------------------------------------------
(* The main thread after the parallel region, and undefined behaviour.     *)

(* Mutant: the parallel region has no barrier ("nowait"). *)
ReportEarly ==
  /\ phase = "running"
  /\ \E g \in Gpus : pc[g] = "gone"
  /\ phase' = "reported"
  /\ UNCHANGED <<listVars, head, gpuVars, countVars, loaderVars, cacheVars, ready, raced>>

(* The barrier of the parallel region, then the total is printed. *)
Report ==
  /\ phase = "running"
  /\ \A g \in Gpus : pc[g] = "gone"
  /\ phase' = "reported"
  /\ UNCHANGED <<listVars, head, gpuVars, countVars, loaderVars, cacheVars, ready, raced>>

(* ~device_manager: the cache is emptied and deleted. *)
Cleanup ==
  /\ phase = "reported"
  /\ phase' = "cleaned"
  /\ valid' = {}
  /\ registered' = {}
  /\ phantom' = {}
  /\ UNCHANGED <<listVars, head, gpuVars, countVars, loaderVars, ready, raced>>

UndefinedStep ==
  /\ raced
  /\ LoaderRuns
  /\ phase' = "undefined"
  /\ UNCHANGED <<listVars, head, gpuVars, countVars, loaderVars, cacheVars, ready, raced>>

Main == ListShard \/ ListNextTask \/ StartThreads \/ Report \/ Cleanup

Worker(g) ==
  \/ PopTask(g) \/ PopNothing(g) \/ MakeHeader(g) \/ TestShard(g) \/ ConsumeReady(g)
  \/ FallAsleep(g) \/ BeginGet(g) \/ EndGet(g) \/ FinishStaging(g) \/ Launch(g) \/ Account(g)

Loader ==
  \/ LoaderTest \/ LoaderReturns \/ LoaderLoad \/ LoaderPublish
  \/ LoaderBeginRegister \/ LoaderEndRegister \/ LoaderSignal

Next ==
  \/ Main
  \/ Loader
  \/ \E g \in Gpus : Worker(g) \/ SpuriousWakeup(g)
  \/ UndefinedStep

Spec == Init /\ [][Next]_vars

(* Every thread that can run does: the threads are scheduled by the        *)
(* operating system, and neither mutex is held for long.                   *)
Fairness == WF_vars(Main) /\ WF_vars(Loader) /\ \A g \in Gpus : WF_vars(Worker(g))

FairSpec == Spec /\ Fairness

-----------------------------------------------------------------------------
(* The invariant the proofs rest on, in named parts.                       *)

(* What the position of a worker says about the tasks it has. *)
WorkerTasks ==
  \A g \in Gpus :
    /\ pc[g] = "pop" => task[g] = 0
    /\ pc[g] \in {"header", "test", "wait", "asleep", "get", "moving", "launch"} => task[g] # 0
    /\ pc[g] = "launch" => inflight[g] = 0
    /\ pc[g] = "account" => /\ inflight[g] # 0
                            /\ task[g] = 0 /\ DoubleBuffering => head > NumTasks
    /\ pc[g] = "gone" => task[g] = 0 /\ inflight[g] = 0 /\ head > NumTasks

(* A popped task is in one place: one worker stages it, or one worker has  *)
(* launched it, or its counter was added.                                  *)
OnePlace ==
  /\ \A g \in Gpus :
       /\ task[g] # 0 =>
            /\ task[g] < head /\ task[g] \notin done /\ task[g] # inflight[g]
            /\ \A h \in Gpus \ {g} : task[g] # task[h] /\ task[g] # inflight[h]
       /\ inflight[g] # 0 =>
            /\ inflight[g] < head /\ inflight[g] \notin done
            /\ \A h \in Gpus \ {g} : inflight[g] # inflight[h]
  /\ \A t \in done : t < head
  /\ \A t \in Tasks : t < head => t \in done \/ \E g \in Gpus : t = task[g] \/ t = inflight[g]

(* The list of the loader has no shard twice and none no task wants. *)
ListedOnce ==
  /\ \A i, j \in 1 .. Len(listed) : listed[i] = listed[j] => i = j
  /\ \A i \in 1 .. Len(listed) : \E t \in Tasks : listed[i] \in Elems(TaskShards[t])

LoaderPosition ==
  /\ idx <= Len(listed) + 1
  /\ ldPc \notin {"test", "done"} => idx <= Len(listed)
  /\ ldPc = "done" => idx > Len(listed)
  /\ phase = "listing" => idx = 1 /\ ldPc = "test"
  /\ ldPc \in {"publish", "register", "registering", "signal"} => Loading \in loaded

(* What is in the LRU policy is in memory and was there at start or is     *)
(* behind the loader.                                                      *)
BehindLoader ==
  /\ registered \subseteq loaded
  /\ \A s \in registered \ Preloaded :
       \E j \in 1 .. Len(listed) : listed[j] = s /\ (j < idx \/ (j = idx /\ ldPc = "signal"))

(* The part of a task a worker has got from the cache. *)
Staged ==
  /\ \A g \in Gpus :
       /\ pc[g] \in {"wait", "asleep", "get", "moving"} => MoreToStage(g)
       /\ pc[g] = "moving" => Wanted(g) \in registered \cup phantom
       /\ pc[g] = "launch" => ~MoreToStage(g)
       /\ pc[g] = "account" /\ task[g] # 0 => ~MoreToStage(g)
       /\ task[g] # 0 => \A i \in 1 .. Len(TaskShards[task[g]]) :
                           i < pos[g] => TaskShards[task[g]][i] \in registered
       /\ inflight[g] # 0 => Elems(TaskShards[inflight[g]]) \subseteq registered
  /\ \A t \in done : Elems(TaskShards[t]) \subseteq registered

(* A valid entity is in the LRU policy's map, unless the loader is about   *)
(* to put it there; a worker gets only what it found valid.                *)
ValidKnown ==
  /\ \A s \in valid \ (registered \cup phantom) :
       ldPc \in {"register", "registering"} /\ s = Loading
  /\ phase \in {"listing", "running"} =>
       \A g \in Gpus : pc[g] \in {"get", "moving"} => Wanted(g) \in valid

(* After the report all workers have left and, unless shards were there at *)
(* start, the loader has registered its last shard.                        *)
AfterReport ==
  phase \in {"reported", "cleaned"} =>
    /\ \A g \in Gpus : pc[g] = "gone"
    /\ Preloaded = {} => \/ ldPc = "done"
                         \/ ldPc = "test" /\ idx > Len(listed)
                         \/ ldPc = "signal" /\ idx >= Len(listed)

(* The sum of the counters of tasks T. *)
SumOfCounters(T) == MapThenSumSet(LAMBDA t : Matches[t], T)

(* The total is the sum of the counters of the tasks that are done. *)
TotalOfDone == total = SumOfCounters(done)

(* The inductive invariant. *)
IInv ==
  /\ TypeOK
  /\ WorkerTasks
  /\ OnePlace
  /\ ListedOnce
  /\ LoaderPosition
  /\ BehindLoader
  /\ phase \in {"listing", "running"} => Staged
  /\ ValidKnown
  /\ AfterReport
  /\ TotalOfDone

-----------------------------------------------------------------------------
(* Properties.                                                             *)

(* Whatever the order in which the threads run, a kernel is launched, and  *)
(* the task staged behind a running kernel is complete, only when every    *)
(* shard of the task is in host memory: the wait loop of                   *)
(* _make_data_buffer_with_H2D never lets a worker past a missing shard,    *)
(* although one flag serves the shards of all workers.                     *)
KernelHasItsShards ==
  phase = "running" => \A g \in Gpus :
    /\ inflight[g] # 0 => Elems(TaskShards[inflight[g]]) \subseteq loaded
    /\ pc[g] = "launch" => Elems(TaskShards[task[g]]) \subseteq loaded

(* get() on a key without a list node, which makes the LRU policy          *)
(* dereference null, happens only in the window add() leaves between the   *)
(* valid bit and the policy's own entry of the shard being loaded.         *)
NullNodeOnlyWhileRegistering ==
  [][\A s \in phantom' \ phantom :
       ldPc \in {"register", "registering"} /\ s = Loading]_vars

(* The loader is detached and never joined.  Still, once ~device_manager   *)
(* has deleted the cache the loader does not touch the cache again: every  *)
(* shard it was to load belongs to a task some worker finished.            *)
NoCacheAccessAfterCleanup ==
  phase = "cleaned" => \/ ldPc \in {"signal", "done"}
                       \/ ldPc = "test" /\ idx > Len(listed)

(* When the total is printed it is the sum of the counters of all tasks,   *)
(* whichever worker added which of them, and when.                         *)
TotalIsComplete ==
  phase \in {"reported", "cleaned"} => total = SumOfCounters(Tasks)

(* The query ends: no worker waits for ever for a shard. *)
Terminates == <>(phase \in {"cleaned", "exited", "undefined"})

(* Two workers wait for the loader at the same time. *)
TwoWait == \E g, h \in Gpus : g # h /\ {pc[g], pc[h]} \subseteq {"wait", "asleep"}

(* One flag serves all workers, and that is the only way to wait for ever: *)
(* as long as no two workers wait for the loader at the same time the      *)
(* query ends, however many tasks they share.                              *)
EndsUnlessTwoWait == []~TwoWait => Terminates

(* The tasks a GPU holds: being staged, staged, or in its kernel. *)
Held == {t \in Tasks : \E g \in Gpus : t = task[g] \/ t = inflight[g]}

Service == INSTANCE MatchService
  WITH pending <- head .. NumTasks,
       running <- Held,
       status  <- IF phase \in {"exited", "undefined"} THEN "failed"
                  ELSE IF phase \in {"reported", "cleaned"} THEN "reported"
                  ELSE "working"

(* With all its workers, both loops implement the service of one queue:    *)
(* every task is run once, by one GPU, and its counter is added once, and  *)
(* the total is printed when all are in.                                   *)
Implements == Service!Spec
=============================================================================

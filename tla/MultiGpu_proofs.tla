--------------------------- MODULE MultiGpu_proofs --------------------------
(***************************************************************************)
(* Theorems about MultiGpu, for any number of GPUs, tasks and shards, with *)
(* and without double buffering.                                           *)
(***************************************************************************)
EXTENDS MultiGpu, SetLemmas, FiniteSetTheorems, TLAPS

(* The sum of the counters of a set of tasks grows by the counter of each  *)
(* task that is added to it.                                               *)
LEMMA TotalFacts ==
  /\ SumOfCounters({}) = 0
  /\ \A S \in SUBSET Tasks : \A t \in Tasks \ S :
       SumOfCounters(S \cup {t}) = SumOfCounters(S) + Matches[t]
<1>1. IsFiniteSet(Tasks)
  BY NumTasksAssumption, FS_Interval DEF Tasks
<1>2. \A t \in Tasks : Matches[t] \in Nat
  BY MatchesAssumption
<1>3. \A S : SumOfCounters(S) = SumOver(Matches, S)
  BY DEF SumOfCounters, SumOver
<1>4. /\ SumOver(Matches, {}) = 0
      /\ \A S \in SUBSET Tasks : \A t \in Tasks \ S :
           SumOver(Matches, S \cup {t}) = SumOver(Matches, S) + Matches[t]
  BY <1>1, <1>2, SumOfSet
<1> QED
  BY <1>3, <1>4

(* IInv holds initially. *)
LEMMA InitIInv == Init => IInv
<1> SUFFICES ASSUME Init PROVE IInv
  OBVIOUS
<1> USE NumTasksAssumption, PreloadedAssumption
<1>1. TypeOK
  <2>1. /\ pc \in [Gpus -> {"pop", "header", "test", "wait", "asleep", "get", "moving",
                           "launch", "account", "gone"}]
        /\ task \in [Gpus -> Tasks \cup {0}]
        /\ inflight \in [Gpus -> Tasks \cup {0}]
        /\ pos \in [Gpus -> Nat] /\ \A g \in Gpus : pos[g] >= 1
    BY DEF Init
  <2>2. listed \in Seq(Shards) /\ done \subseteq Tasks
    BY DEF Init
  <2>3. listTask \in 1 .. NumTasks + 1 /\ head \in 1 .. NumTasks + 1
    BY DEF Init
  <2>4. /\ phase = "listing" /\ ldPc = "test" /\ listPos = 1 /\ idx = 1 /\ used = 0 /\ total = 0
        /\ loaded \subseteq Shards /\ valid \subseteq Shards
        /\ registered \subseteq Shards /\ phantom \subseteq Shards
        /\ ready \in BOOLEAN /\ raced \in BOOLEAN
    BY DEF Init
  <2> QED
    BY <2>1, <2>2, <2>3, <2>4 DEF TypeOK
<1>2. WorkerTasks /\ OnePlace
  BY DEF Init, WorkerTasks, OnePlace, Tasks
<1>3. ListedOnce /\ LoaderPosition
  BY DEF Init, ListedOnce, LoaderPosition, Loading
<1>4. BehindLoader /\ Staged /\ ValidKnown /\ AfterReport
  BY DEF Init, BehindLoader, Staged, ValidKnown, AfterReport, MoreToStage, Wanted, Elems
<1>5. TotalOfDone
  BY TotalFacts DEF Init, TotalOfDone
<1> QED
  BY <1>1, <1>2, <1>3, <1>4, <1>5 DEF IInv

(* No step leaves the types. *)
LEMMA TypeStep == IInv /\ [Next]_vars => TypeOK'
<1> SUFFICES ASSUME IInv, TypeOK, LoaderPosition, WorkerTasks, [Next]_vars PROVE TypeOK'
  BY DEF IInv
<1> USE NumTasksAssumption
<1>1. CASE UNCHANGED vars
  BY <1>1 DEF TypeOK, vars, listVars, gpuVars, countVars, loaderVars, cacheVars
<1> USE DEF TypeOK, listVars, gpuVars, countVars, loaderVars, cacheVars
<1>2. CASE ListShard
  <2>1. TaskShards[listTask][listPos] \in Shards
    BY <1>2, TaskShardsAssumption DEF ListShard, Tasks
  <2>2. listed' \in Seq(Shards)
    BY <1>2, <2>1 DEF ListShard
  <2> QED
    BY <1>2, <2>2 DEF ListShard
<1>3. CASE ListNextTask
  BY <1>3 DEF ListNextTask
<1>4. CASE StartThreads \/ Report \/ UndefinedStep \/ Cleanup
  BY <1>4 DEF StartThreads, Report, UndefinedStep, Cleanup
<1>5. ldPc \notin {"test", "done"} => Loading \in Shards
  BY DEF LoaderPosition, Loading
<1>6. CASE Loader
  <2>1. CASE LoaderTest
    BY <2>1 DEF LoaderTest, PhaseOnTouch
  <2>2. CASE LoaderLoad
    BY <2>2, <1>5, LimitAssumption DEF LoaderLoad, PhaseOnTouch
  <2>3. CASE LoaderPublish
    BY <2>3, <1>5 DEF LoaderPublish, PhaseOnTouch
  <2>4. CASE LoaderBeginRegister
    BY <2>4 DEF LoaderBeginRegister, PhaseOnTouch, SomeoneInLru
  <2>5. CASE LoaderEndRegister
    BY <2>5, <1>5 DEF LoaderEndRegister, PhaseOnTouch
  <2>6. CASE LoaderSignal
    <3>1. /\ pc' \in [Gpus -> {"pop", "header", "test", "wait", "asleep", "get", "moving",
                             "launch", "account", "gone"}]
          /\ idx' \in Nat /\ idx' >= 1
      BY <2>6, SMTT(30) DEF LoaderSignal
    <3> QED
      BY <2>6, <3>1 DEF LoaderSignal, PhaseOnTouch
  <2>7. CASE LoaderReturns
    BY <2>7 DEF LoaderReturns
  <2> QED
    BY <1>6, <2>1, <2>2, <2>3, <2>4, <2>5, <2>6, <2>7 DEF Loader
<1>7. ASSUME NEW g \in Gpus, Worker(g) \/ SpuriousWakeup(g) PROVE TypeOK'
  <2>1. CASE PopTask(g)
    <3>1. head \in Tasks /\ head + 1 \in 1 .. NumTasks + 1
      BY <2>1 DEF PopTask, Tasks
    <3> QED
      BY <2>1, <3>1 DEF PopTask
  <2>2. CASE PopNothing(g) \/ MakeHeader(g) \/ TestShard(g)
    BY <2>2 DEF PopNothing, MakeHeader, TestShard
  <2>3. CASE ConsumeReady(g) \/ FallAsleep(g) \/ SpuriousWakeup(g)
    BY <2>3 DEF ConsumeReady, FallAsleep, SpuriousWakeup
  <2>4. CASE EndGet(g)
    <3>1. CASE Wanted(g) \in phantom
      BY <2>4, <3>1 DEF EndGet
    <3>2. CASE Wanted(g) \notin phantom
      <4>1. pos' = [pos EXCEPT ![g] = pos[g] + 1] /\ pos[g] + 1 \in Nat /\ pos[g] + 1 >= 1
        BY <2>4, <3>2 DEF EndGet
      <4>2. pos' \in [Gpus -> Nat] /\ \A h \in Gpus : pos'[h] >= 1
        BY <4>1
      <4> QED
        BY <2>4, <3>2, <4>2 DEF EndGet
    <3> QED
      BY <3>1, <3>2
  <2>8. CASE FinishStaging(g)
    BY <2>8 DEF FinishStaging
  <2>5. CASE Launch(g)
    BY <2>5 DEF Launch
  <2>6. CASE BeginGet(g)
    <3>1. Wanted(g) \in Shards
      BY <2>6, TaskShardsAssumption DEF IInv, BeginGet, Wanted, WorkerTasks, Staged, MoreToStage
    <3> QED
      BY <2>6, <3>1 DEF BeginGet, SomeoneInLru
  <2>7. CASE Account(g)
    <3>1. Matches[inflight[g]] \in Nat /\ inflight[g] \in Tasks
      BY <2>7, MatchesAssumption DEF Account, WorkerTasks, Tasks
    <3>2. total' \in Nat /\ done' \subseteq Tasks
      BY <2>7, <3>1 DEF Account
    <3> QED
      BY <2>7, <3>2 DEF Account
  <2> QED
    BY <1>7, <2>1, <2>2, <2>3, <2>4, <2>5, <2>6, <2>7, <2>8 DEF Worker
<1> QED
  BY <1>1, <1>2, <1>3, <1>4, <1>6, <1>7 DEF Next, Main

(* Steps of the main thread and of the loader touch no task of a worker:   *)
(* LoaderSignal moves a sleeping worker back to its wait, nothing else.    *)
LEMMA OthersKeepTasks ==
  ASSUME TypeOK, Main \/ Loader \/ UndefinedStep
  PROVE  /\ UNCHANGED <<head, task, pos, inflight, countVars>>
         /\ \A g \in Gpus : pc'[g] # pc[g] => pc[g] = "asleep" /\ pc'[g] = "wait"
<1> USE DEF TypeOK, gpuVars, countVars
<1>1. CASE Main \/ UndefinedStep
  BY <1>1 DEF Main, ListShard, ListNextTask, StartThreads, Report, Cleanup, UndefinedStep
<1>2. CASE LoaderSignal
  BY <1>2 DEF LoaderSignal
<1>3. CASE Loader /\ ~LoaderSignal
  BY <1>3 DEF Loader, LoaderTest, LoaderReturns, LoaderLoad, LoaderPublish,
              LoaderBeginRegister, LoaderEndRegister
<1> QED
  BY <1>1, <1>2, <1>3

(* Every step keeps the tasks of a worker in line with its position. *)
LEMMA WorkerTasksStep == IInv /\ [Next]_vars => WorkerTasks'
<1> SUFFICES ASSUME TypeOK, WorkerTasks, [Next]_vars PROVE WorkerTasks'
  BY DEF IInv
<1> USE NumTasksAssumption DEF WorkerTasks
<1>1. CASE UNCHANGED vars
  BY <1>1 DEF vars, gpuVars
<1>2. CASE Main \/ Loader \/ UndefinedStep
  BY <1>2, OthersKeepTasks
<1>3. ASSUME NEW g \in Gpus, Worker(g) \/ SpuriousWakeup(g) PROVE WorkerTasks'
  <2> USE DEF TypeOK
  <2>1. CASE PopTask(g)
    <3>1. task' = [task EXCEPT ![g] = head] /\ head # 0
      BY <2>1 DEF PopTask
    <3> QED
      BY <2>1, <3>1 DEF PopTask
  <2>2. CASE PopNothing(g) \/ MakeHeader(g) \/ TestShard(g)
    BY <2>2 DEF PopNothing, MakeHeader, TestShard
  <2>3. CASE ConsumeReady(g) \/ FallAsleep(g) \/ SpuriousWakeup(g)
    BY <2>3 DEF ConsumeReady, FallAsleep, SpuriousWakeup
  <2>4. CASE BeginGet(g) \/ EndGet(g) \/ FinishStaging(g)
    BY <2>4 DEF BeginGet, EndGet, FinishStaging
  <2>5. CASE Launch(g)
    BY <2>5 DEF Launch
  <2>6. CASE Account(g)
    BY <2>6 DEF Account
  <2> QED
    BY <1>3, <2>1, <2>2, <2>3, <2>4, <2>5, <2>6 DEF Worker
<1> QED
  BY <1>1, <1>2, <1>3 DEF Next

(* No step gives a popped task to a second worker, and none loses it. *)
LEMMA OnePlaceStep == IInv /\ [Next]_vars => OnePlace'
<1> SUFFICES ASSUME TypeOK, WorkerTasks, OnePlace, [Next]_vars PROVE OnePlace'
  BY DEF IInv
<1> USE NumTasksAssumption DEF OnePlace
<1>1. CASE UNCHANGED vars
  BY <1>1 DEF vars, gpuVars, countVars
<1>2. CASE Main \/ Loader \/ UndefinedStep
  BY <1>2, OthersKeepTasks DEF countVars
<1>3. ASSUME NEW g \in Gpus, Worker(g) \/ SpuriousWakeup(g) PROVE OnePlace'
  <2> USE DEF TypeOK
  <2>1. CASE PopTask(g)
    BY <2>1 DEF PopTask, WorkerTasks, countVars, Tasks
  <2>2. CASE PopNothing(g) \/ MakeHeader(g) \/ TestShard(g)
    BY <2>2 DEF PopNothing, MakeHeader, TestShard, countVars
  <2>3. CASE ConsumeReady(g) \/ FallAsleep(g) \/ SpuriousWakeup(g)
    BY <2>3 DEF ConsumeReady, FallAsleep, SpuriousWakeup, countVars
  <2>4. CASE BeginGet(g) \/ EndGet(g) \/ FinishStaging(g)
    BY <2>4 DEF BeginGet, EndGet, FinishStaging, countVars
  <2>5. CASE Launch(g)
    BY <2>5 DEF Launch, WorkerTasks, countVars
  <2>6. CASE Account(g)
    BY <2>6 DEF Account, WorkerTasks
  <2> QED
    BY <1>3, <2>1, <2>2, <2>3, <2>4, <2>5, <2>6 DEF Worker
<1> QED
  BY <1>1, <1>2, <1>3 DEF Next

(* Steps of the workers touch neither the list nor the loader. *)
LEMMA WorkersKeepLoader ==
  ASSUME NEW g \in Gpus, Worker(g) \/ SpuriousWakeup(g)
  PROVE  /\ UNCHANGED <<listVars, loaderVars, valid, registered>>
         /\ phase = "running" /\ phase' \in {"running", "exited", "undefined"}
BY DEF Worker, SpuriousWakeup, PopTask, PopNothing, MakeHeader, TestShard, ConsumeReady,
       FallAsleep, BeginGet, EndGet, FinishStaging, Launch, Account, loaderVars, cacheVars, listVars

(* The loader's list stays without repetitions. *)
LEMMA ListedOnceStep == IInv /\ [Next]_vars => ListedOnce'
<1> SUFFICES ASSUME TypeOK, ListedOnce, [Next]_vars PROVE ListedOnce'
  BY DEF IInv
<1> USE NumTasksAssumption DEF ListedOnce
<1>1. CASE UNCHANGED listed
  BY <1>1
<1>2. CASE ListShard
  <2> DEFINE s == TaskShards[listTask][listPos]
  <2>1. s \in Shards /\ listTask \in Tasks /\ s \in Elems(TaskShards[listTask])
    BY <1>2, TaskShardsAssumption DEF ListShard, TypeOK, Tasks, Elems
  <2>2. CASE s \in Elems(listed)
    BY <1>2, <2>2 DEF ListShard
  <2>3. CASE s \notin Elems(listed)
    <3>1. /\ listed' = Append(listed, s)
          /\ listed \in Seq(Shards)
      BY <1>2, <2>3 DEF ListShard, TypeOK
    <3>2. /\ Len(listed') = Len(listed) + 1 /\ listed'[Len(listed) + 1] = s
          /\ \A i \in 1 .. Len(listed) : listed'[i] = listed[i] /\ listed[i] # s
      BY <3>1, <2>1, <2>3 DEF Elems
    <3> HIDE DEF s
    <3> QED
      BY <3>1, <3>2, <2>1
  <2> QED
    BY <2>2, <2>3
<1> QED
  <2>1. ASSUME Next, ~ListShard PROVE UNCHANGED listed
    BY <2>1, WorkersKeepLoader
    DEF Next, Main, Loader, ListNextTask, StartThreads, Report, Cleanup, LoaderTest,
        LoaderReturns, LoaderLoad, LoaderPublish, LoaderBeginRegister, LoaderEndRegister,
        LoaderSignal, UndefinedStep, listVars
  <2> QED
    BY <1>1, <1>2, <2>1 DEF vars, listVars

(* The loader stays within its list, on a shard it has read. *)
LEMMA LoaderPositionStep == IInv /\ [Next]_vars => LoaderPosition'
<1> SUFFICES ASSUME TypeOK, LoaderPosition, ListedOnce, [Next]_vars PROVE LoaderPosition'
  BY DEF IInv
<1> USE NumTasksAssumption DEF LoaderPosition, Loading
<1>1. CASE UNCHANGED vars
  BY <1>1 DEF vars, listVars, loaderVars
<1>2. CASE ListShard
  <2>1. \E s : listed' = listed \/ listed' = Append(listed, s)
    BY <1>2 DEF ListShard
  <2>2. Len(listed') >= Len(listed) /\ Len(listed) \in Nat /\ Len(listed') \in Nat
    BY <2>1 DEF TypeOK
  <2> QED
    BY <1>2, <2>2 DEF ListShard, TypeOK, loaderVars
<1>3. CASE ListNextTask \/ StartThreads \/ Report \/ Cleanup \/ UndefinedStep
  BY <1>3 DEF ListNextTask, StartThreads, Report, Cleanup, UndefinedStep, loaderVars, listVars,
              LoaderRuns
<1>4. CASE Loader
  <2> USE DEF TypeOK, LoaderRuns, PhaseOnTouch, listVars
  <2>1. CASE LoaderTest
    BY <2>1 DEF LoaderTest
  <2>2. CASE LoaderReturns
    BY <2>2 DEF LoaderReturns
  <2>3. CASE LoaderLoad
    BY <2>3 DEF LoaderLoad
  <2>4. CASE LoaderPublish \/ LoaderBeginRegister \/ LoaderEndRegister
    BY <2>4 DEF LoaderPublish, LoaderBeginRegister, LoaderEndRegister
  <2>5. CASE LoaderSignal
    BY <2>5 DEF LoaderSignal
  <2> QED
    BY <1>4, <2>1, <2>2, <2>3, <2>4, <2>5 DEF Loader
<1>5. ASSUME NEW g \in Gpus, Worker(g) \/ SpuriousWakeup(g) PROVE LoaderPosition'
  BY <1>5, WorkersKeepLoader DEF listVars, loaderVars
<1> QED
  BY <1>1, <1>2, <1>3, <1>4, <1>5 DEF Next, Main

(* Only the loader registers shards, and only the one it is at. *)
LEMMA BehindLoaderStep == IInv /\ [Next]_vars => BehindLoader'
<1> SUFFICES ASSUME TypeOK, LoaderPosition, BehindLoader, [Next]_vars PROVE BehindLoader'
  BY DEF IInv
<1> USE NumTasksAssumption DEF BehindLoader
<1>1. CASE UNCHANGED vars
  BY <1>1 DEF vars, listVars, loaderVars, cacheVars
<1>2. CASE ListShard
  <2>1. \E s : listed' = listed \/ listed' = Append(listed, s)
    BY <1>2 DEF ListShard
  <2>2. /\ Len(listed') >= Len(listed) /\ Len(listed) \in Nat /\ Len(listed') \in Nat
        /\ \A i \in 1 .. Len(listed) : listed'[i] = listed[i]
    BY <2>1 DEF TypeOK
  <2> QED
    BY <1>2, <2>2 DEF ListShard, TypeOK, loaderVars, cacheVars
<1>3. CASE ListNextTask \/ StartThreads \/ Report \/ Cleanup \/ UndefinedStep
  BY <1>3 DEF ListNextTask, StartThreads, Report, Cleanup, UndefinedStep, loaderVars,
              listVars, cacheVars
<1>4. CASE Loader
  <2> USE DEF TypeOK, listVars, cacheVars, LoaderPosition, Loading
  <2>1. CASE LoaderTest
    BY <2>1 DEF LoaderTest
  <2>2. CASE LoaderReturns
    BY <2>2 DEF LoaderReturns
  <2>3. CASE LoaderLoad
    BY <2>3 DEF LoaderLoad
  <2>4. CASE LoaderPublish \/ LoaderBeginRegister
    BY <2>4, SMTT(30) DEF LoaderPublish, LoaderBeginRegister
  <2>5. CASE LoaderEndRegister
    BY <2>5 DEF LoaderEndRegister
  <2>6. CASE LoaderSignal
    BY <2>6 DEF LoaderSignal
  <2> QED
    BY <1>4, <2>1, <2>2, <2>3, <2>4, <2>5, <2>6 DEF Loader
<1>5. ASSUME NEW g \in Gpus, Worker(g) \/ SpuriousWakeup(g) PROVE BehindLoader'
  BY <1>5, WorkersKeepLoader DEF listVars, loaderVars
<1> QED
  BY <1>1, <1>2, <1>3, <1>4, <1>5 DEF Next, Main

(* While the workers run, nothing leaves the LRU policy. *)
LEMMA RegisteredGrows ==
  ASSUME Next, phase' \in {"listing", "running"}
  PROVE  phase \in {"listing", "running"} /\ registered \subseteq registered' /\ phantom \subseteq phantom'
<1> USE DEF cacheVars, LoaderRuns, PhaseOnTouch
<1>1. CASE Main \/ UndefinedStep
  BY <1>1 DEF Main, ListShard, ListNextTask, StartThreads, Report, Cleanup, UndefinedStep
<1>2. CASE Loader
  BY <1>2 DEF Loader, LoaderTest, LoaderReturns, LoaderLoad, LoaderPublish,
              LoaderBeginRegister, LoaderEndRegister, LoaderSignal
<1>3. ASSUME NEW g \in Gpus, Worker(g) \/ SpuriousWakeup(g)
      PROVE  phase \in {"listing", "running"} /\ registered \subseteq registered' /\ phantom \subseteq phantom'
  BY <1>3 DEF Worker, SpuriousWakeup, PopTask, PopNothing, MakeHeader, TestShard,
     ConsumeReady, FallAsleep, BeginGet, EndGet, FinishStaging, Launch, Account
<1> QED
  BY <1>1, <1>2, <1>3 DEF Next

(* While the workers run, what they have staged stays in the cache: the    *)
(* loader only adds, so a shard once tested and got is there for good.     *)
LEMMA StagedStep ==
  ASSUME IInv, [Next]_vars, phase' \in {"listing", "running"}
  PROVE  Staged'
<1>0. TypeOK /\ WorkerTasks
  BY DEF IInv
<1> USE NumTasksAssumption DEF Staged, MoreToStage, Wanted, Elems
<1>1. CASE UNCHANGED vars
  BY <1>1 DEF IInv, vars, gpuVars, countVars, cacheVars
<1>2. ASSUME Next PROVE Staged'
  <2>1. Staged /\ registered \subseteq registered' /\ phantom \subseteq phantom'
    BY <1>2, RegisteredGrows DEF IInv
  <2>2. CASE Main \/ Loader \/ UndefinedStep
    BY <2>1, <2>2, <1>0, OthersKeepTasks DEF countVars
  <2>3. ASSUME NEW g \in Gpus, Worker(g) \/ SpuriousWakeup(g) PROVE Staged'
    <3> USE <1>0, <2>1 DEF TypeOK
    <3>1. CASE PopTask(g)
      BY <3>1 DEF PopTask, WorkerTasks, countVars
    <3>2. CASE PopNothing(g) \/ MakeHeader(g) \/ TestShard(g)
      BY <3>2 DEF PopNothing, MakeHeader, TestShard, countVars, WorkerTasks
    <3>3. CASE ConsumeReady(g) \/ FallAsleep(g) \/ SpuriousWakeup(g)
      <4>1. /\ \/ pc[g] = "wait" /\ pc' = [pc EXCEPT ![g] = "test"]
               \/ pc[g] = "wait" /\ pc' = [pc EXCEPT ![g] = "asleep"]
               \/ pc[g] = "asleep" /\ pc' = [pc EXCEPT ![g] = "wait"]
            /\ UNCHANGED <<task, pos, inflight, done>>
        BY <3>3 DEF ConsumeReady, FallAsleep, SpuriousWakeup, countVars
      <4> QED
        BY <4>1
    <3>4. CASE BeginGet(g)
      BY <3>4 DEF BeginGet, countVars
    <3>5. CASE EndGet(g)
      <4>1. /\ Wanted(g) \in registered
            /\ pos' = [pos EXCEPT ![g] = pos[g] + 1] /\ pc' = [pc EXCEPT ![g] = "test"]
            /\ UNCHANGED <<task, inflight, done, registered, phantom>>
        BY <3>5 DEF EndGet, countVars, cacheVars
      <4>2. task[g] # 0 => \A i \in 1 .. Len(TaskShards[task[g]]) :
                             i < pos[g] + 1 => TaskShards[task[g]][i] \in registered
        <5> SUFFICES ASSUME task[g] # 0, NEW i \in 1 .. Len(TaskShards[task[g]]), i < pos[g] + 1
                     PROVE  TaskShards[task[g]][i] \in registered
          OBVIOUS
        <5>1. CASE i < pos[g]
          BY <5>1
        <5>2. CASE i = pos[g]
          BY <5>2, <4>1
        <5>3. task[g] \in Tasks /\ Len(TaskShards[task[g]]) \in Nat
          BY TaskShardsAssumption
        <5>4. i \in Nat /\ pos[g] \in Nat
          BY <5>3
        <5> QED
          BY <5>1, <5>2, <5>4
      <4> QED
        BY <4>1, <4>2
    <3>6. CASE FinishStaging(g)
      <4>1. /\ pc[g] = "test" /\ ~MoreToStage(g)
            /\ pc' = [pc EXCEPT ![g] = IF inflight[g] # 0 THEN "account" ELSE "launch"]
            /\ UNCHANGED <<task, pos, inflight, done>>
        BY <3>6 DEF FinishStaging, countVars
      <4>2. \A h \in Gpus : (MoreToStage(h)' <=> MoreToStage(h)) /\ Wanted(h)' = Wanted(h)
        BY <4>1 DEF MoreToStage, Wanted
      <4>3. ASSUME NEW h \in Gpus
            PROVE  /\ pc'[h] \in {"wait", "asleep", "get", "moving"} => MoreToStage(h)
                   /\ pc'[h] = "moving" => Wanted(h) \in registered \cup phantom
                   /\ pc'[h] = "launch" => ~MoreToStage(h)
                   /\ pc'[h] = "account" /\ task[h] # 0 => ~MoreToStage(h)
        <5>1. h # g => pc'[h] = pc[h]
          BY <4>1
        <5>2. h = g => pc'[h] \in {"account", "launch"}
          BY <4>1
        <5> HIDE <1>0 DEF MoreToStage, Wanted
        <5> QED
          BY <4>1, <5>1, <5>2
      <4> HIDE DEF MoreToStage, Wanted
      <4> QED
        BY <4>1, <4>2, <4>3
    <3>7. CASE Launch(g)
      BY <3>7 DEF Launch, WorkerTasks, countVars
    <3>8. CASE Account(g)
      BY <3>8 DEF Account, WorkerTasks
    <3> QED
      BY <2>3, <3>1, <3>2, <3>3, <3>4, <3>5, <3>6, <3>7, <3>8 DEF Worker
  <2> QED
    BY <1>2, <2>2, <2>3 DEF Next
<1> QED
  BY <1>1, <1>2

(* The valid bit runs ahead of the LRU policy by one shard at most. *)
LEMMA ValidKnownStep == IInv /\ [Next]_vars => ValidKnown'
<1> SUFFICES ASSUME TypeOK, LoaderPosition, ValidKnown, [Next]_vars PROVE ValidKnown'
  BY DEF IInv
<1> USE NumTasksAssumption DEF ValidKnown, Wanted, Loading
<1>1. CASE UNCHANGED vars
  BY <1>1 DEF vars, listVars, loaderVars, cacheVars, gpuVars
<1>2. CASE ListShard
  <2>1. phase = "listing" /\ phase' = "listing" /\ UNCHANGED <<valid, registered, phantom, ldPc, idx>>
    BY <1>2 DEF ListShard, loaderVars, cacheVars
  <2>2. ldPc \in {"register", "registering"} => UNCHANGED listed
    BY <2>1 DEF LoaderPosition
  <2>3. UNCHANGED <<pc, task, pos>>
    BY <1>2 DEF ListShard, gpuVars
  <2> QED
    BY <2>1, <2>2, <2>3
<1>3. CASE ListNextTask \/ Report \/ Cleanup \/ UndefinedStep
  BY <1>3 DEF ListNextTask, Report, Cleanup, UndefinedStep, loaderVars, listVars, cacheVars,
              gpuVars
<1>4. CASE StartThreads
  BY <1>4 DEF StartThreads, loaderVars, listVars, cacheVars, gpuVars
<1>5. CASE Loader
  <2> USE DEF TypeOK, listVars, cacheVars, gpuVars, LoaderPosition, LoaderRuns, PhaseOnTouch
  <2>1. CASE LoaderTest
    BY <2>1 DEF LoaderTest
  <2>2. CASE LoaderReturns \/ LoaderLoad \/ LoaderPublish
    BY <2>2 DEF LoaderReturns, LoaderLoad, LoaderPublish
  <2>3. CASE LoaderBeginRegister \/ LoaderEndRegister
    BY <2>3 DEF LoaderBeginRegister, LoaderEndRegister
  <2>4. CASE LoaderSignal
    BY <2>4 DEF LoaderSignal
  <2> QED
    BY <1>5, <2>1, <2>2, <2>3, <2>4 DEF Loader
<1>6. ASSUME NEW g \in Gpus, Worker(g) \/ SpuriousWakeup(g) PROVE ValidKnown'
  <2>0. UNCHANGED <<listed, ldPc, idx, valid, registered>> /\ phase = "running"
    BY <1>6, WorkersKeepLoader DEF listVars, loaderVars
  <2>1. \A s \in valid' \ (registered' \cup phantom') :
          ldPc' \in {"register", "registering"} /\ s = Loading'
    <3>1. phantom \subseteq phantom'
      BY <1>6 DEF Worker, SpuriousWakeup, PopTask, PopNothing, MakeHeader, TestShard,
         ConsumeReady, FallAsleep, BeginGet, EndGet, FinishStaging, Launch, Account, cacheVars
    <3> QED
      BY <2>0, <3>1
  <2>2. \A h \in Gpus : pc'[h] \in {"get", "moving"} => Wanted(h)' \in valid'
    <3> USE <2>0 DEF TypeOK
    <3>1. CASE PopTask(g)
      BY <3>1 DEF PopTask
    <3>2. CASE PopNothing(g) \/ MakeHeader(g) \/ TestShard(g)
      BY <3>2 DEF PopNothing, MakeHeader, TestShard
    <3>3. CASE ConsumeReady(g) \/ FallAsleep(g) \/ SpuriousWakeup(g)
      BY <3>3 DEF ConsumeReady, FallAsleep, SpuriousWakeup
    <3>4. CASE BeginGet(g) \/ EndGet(g)
      BY <3>4 DEF BeginGet, EndGet
    <3>5. CASE FinishStaging(g) \/ Launch(g) \/ Account(g)
      BY <3>5 DEF FinishStaging, Launch, Account
    <3> QED
      BY <1>6, <3>1, <3>2, <3>3, <3>4, <3>5 DEF Worker
  <2> QED
    BY <2>1, <2>2
<1> QED
  BY <1>1, <1>2, <1>3, <1>4, <1>5, <1>6 DEF Next, Main

(* The last worker to leave has done the last task, so every listed shard  *)
(* is registered, which puts the loader behind its last registration.      *)
LEMMA AfterReportStep == IInv /\ [Next]_vars => AfterReport'
<1> SUFFICES ASSUME IInv, [Next]_vars PROVE AfterReport'
  OBVIOUS
<1>0. TypeOK /\ LoaderPosition /\ AfterReport
  BY DEF IInv
<1> USE NumTasksAssumption DEF AfterReport
<1>1. CASE UNCHANGED vars
  BY <1>0, <1>1 DEF vars, gpuVars, loaderVars, listVars
<1>2. CASE Report
  <2>1. \A t \in Tasks : t \in done
    BY <1>0, <1>2, GpusAssumption DEF Report, IInv, WorkerTasks, OnePlace, TypeOK, Tasks
  <2>2. \A i \in 1 .. Len(listed) : listed[i] \in registered
    BY <1>2, <2>1 DEF Report, IInv, Staged, ListedOnce
  <2>3. ASSUME Preloaded = {}, idx <= Len(listed) PROVE ldPc = "signal" /\ idx >= Len(listed)
    <3>1. \A i \in 1 .. Len(listed) :
            \E j \in 1 .. Len(listed) : listed[j] = listed[i] /\ (j < idx \/ (j = idx /\ ldPc = "signal"))
      BY <2>2, <2>3 DEF IInv, BehindLoader
    <3>2. \A i \in 1 .. Len(listed) : i < idx \/ (i = idx /\ ldPc = "signal")
      BY <3>1 DEF IInv, ListedOnce
    <3>3. idx \in Nat /\ idx >= 1 /\ Len(listed) \in Nat
      BY <1>0 DEF TypeOK
    <3> QED
      BY <2>3, <3>2, <3>3
  <2>4. Preloaded = {} =>
          \/ ldPc = "done"
          \/ ldPc = "test" /\ idx > Len(listed)
          \/ ldPc = "signal" /\ idx >= Len(listed)
    <3>1. idx \in Nat /\ Len(listed) \in Nat
      BY <1>0 DEF TypeOK
    <3> QED
      BY <1>0, <2>3, <3>1 DEF LoaderPosition
  <2> QED
    BY <1>2, <2>4 DEF Report, gpuVars, loaderVars, listVars
<1>3. CASE Loader
  BY <1>0, <1>3 DEF Loader, LoaderTest, LoaderReturns, LoaderLoad, LoaderPublish,
     LoaderBeginRegister, LoaderEndRegister, LoaderSignal, TypeOK, LoaderPosition, gpuVars,
     listVars, LoaderRuns, PhaseOnTouch
<1>4. CASE Cleanup
  BY <1>0, <1>4 DEF Cleanup, gpuVars, loaderVars, listVars
<1>5. CASE ListShard \/ ListNextTask \/ StartThreads \/ UndefinedStep
  BY <1>5 DEF ListShard, ListNextTask, StartThreads, UndefinedStep
<1>6. ASSUME NEW g \in Gpus, Worker(g) \/ SpuriousWakeup(g) PROVE AfterReport'
  BY <1>6, WorkersKeepLoader
<1> QED
  BY <1>1, <1>2, <1>3, <1>4, <1>5, <1>6 DEF Next, Main

(* A counter is added with the task it belongs to, which was not done yet. *)
LEMMA TotalStep == IInv /\ [Next]_vars => TotalOfDone'
<1> SUFFICES ASSUME IInv, [Next]_vars PROVE TotalOfDone'
  OBVIOUS
<1>0. TypeOK /\ WorkerTasks /\ OnePlace /\ TotalOfDone
  BY DEF IInv
<1>1. CASE UNCHANGED <<done, total>>
  BY <1>0, <1>1 DEF TotalOfDone
<1>2. ASSUME NEW g \in Gpus, Account(g) PROVE TotalOfDone'
  <2>1. /\ inflight[g] \in Tasks \ done /\ done \in SUBSET Tasks
        /\ total' = total + Matches[inflight[g]] /\ done' = done \cup {inflight[g]}
    BY <1>0, <1>2 DEF Account, TypeOK, WorkerTasks, OnePlace
  <2> QED
    BY <1>0, <2>1, TotalFacts DEF TotalOfDone
<1>3. CASE Main \/ Loader \/ UndefinedStep
  BY <1>0, <1>1, <1>3, OthersKeepTasks DEF countVars
<1>4. ASSUME NEW g \in Gpus, Worker(g) \/ SpuriousWakeup(g), ~Account(g) PROVE TotalOfDone'
  <2>1. UNCHANGED countVars
    BY <1>4 DEF Worker, SpuriousWakeup, PopTask, PopNothing, MakeHeader, TestShard,
       ConsumeReady, FallAsleep, BeginGet, EndGet, FinishStaging, Launch, countVars
  <2> QED
    BY <1>1, <2>1 DEF countVars
<1> QED
  BY <1>1, <1>2, <1>3, <1>4 DEF Next, vars, countVars

-----------------------------------------------------------------------------
(* The inductive invariant. *)
THEOREM Invariance == Spec => []IInv
<1>1. IInv /\ [Next]_vars => IInv'
  BY TypeStep, WorkerTasksStep, OnePlaceStep, ListedOnceStep, LoaderPositionStep,
     BehindLoaderStep, StagedStep, ValidKnownStep, AfterReportStep, TotalStep DEF IInv
<1> QED
  BY InitIInv, <1>1, PTL DEF Spec

(* No worker ever launches a kernel, or has one in flight, with a shard of *)
(* its task missing from host memory.                                      *)
THEOREM KernelsHaveTheirShards == Spec => []KernelHasItsShards
<1>1. IInv => KernelHasItsShards
  <2> SUFFICES ASSUME IInv, phase = "running", NEW g \in Gpus
               PROVE  /\ inflight[g] # 0 => Elems(TaskShards[inflight[g]]) \subseteq loaded
                      /\ pc[g] = "launch" => Elems(TaskShards[task[g]]) \subseteq loaded
    BY DEF KernelHasItsShards
  <2>1. Staged /\ registered \subseteq loaded
    BY DEF IInv, BehindLoader
  <2>2. ASSUME pc[g] = "launch" PROVE Elems(TaskShards[task[g]]) \subseteq loaded
    <3>1. task[g] \in Tasks /\ pos[g] \in Nat /\ pos[g] > Len(TaskShards[task[g]])
      BY <2>1, <2>2, TaskShardsAssumption DEF IInv, TypeOK, WorkerTasks, Staged, MoreToStage
    <3>2. ASSUME NEW i \in 1 .. Len(TaskShards[task[g]]) PROVE TaskShards[task[g]][i] \in registered
      <4>1. task[g] # 0 /\ Len(TaskShards[task[g]]) \in Nat
        BY <3>1, TaskShardsAssumption, NumTasksAssumption DEF Tasks
      <4>2. i < pos[g]
        BY <3>1, <4>1
      <4> QED
        BY <2>1, <4>1, <4>2 DEF Staged
    <3> QED
      BY <2>1, <3>2 DEF Elems
  <2> QED
    BY <2>1, <2>2 DEF Staged
<1> QED
  BY <1>1, Invariance, PTL

(* The total that is printed is the sum over all tasks: the report comes   *)
(* after the end of all workers, and then no task is in flight, or left.   *)
THEOREM TotalsAreComplete == Spec => []TotalIsComplete
<1>1. ASSUME IInv, phase \in {"reported", "cleaned"} PROVE done = Tasks
  <2>1. TypeOK /\ WorkerTasks /\ OnePlace /\ \A g \in Gpus : pc[g] = "gone"
    BY <1>1 DEF IInv, AfterReport
  <2>2. head > NumTasks /\ \A g \in Gpus : task[g] = 0 /\ inflight[g] = 0
    BY <2>1, GpusAssumption DEF WorkerTasks
  <2>3. ASSUME NEW t \in Tasks PROVE t \in done
    <3>1. t # 0 /\ t < head
      BY <2>1, <2>2, NumTasksAssumption DEF TypeOK, Tasks
    <3> QED
      BY <2>1, <2>2, <3>1 DEF OnePlace
  <2> QED
    BY <2>1, <2>3 DEF TypeOK
<1>2. IInv => TotalIsComplete
  BY <1>1 DEF IInv, TotalOfDone, TotalIsComplete
<1> QED
  BY <1>2, Invariance, PTL

(* A get() that meets a null node does so in the window of add(). *)
THEOREM NullNodes == Spec => NullNodeOnlyWhileRegistering
<1>1. IInv /\ [Next]_vars =>
        [\A s \in phantom' \ phantom : ldPc \in {"register", "registering"} /\ s = Loading]_vars
  <2> SUFFICES ASSUME IInv, Next, NEW s \in phantom', s \notin phantom
               PROVE  ldPc \in {"register", "registering"} /\ s = Loading
    OBVIOUS
  <2>1. ASSUME NEW g \in Gpus, BeginGet(g) PROVE ldPc \in {"register", "registering"} /\ s = Loading
    BY <2>1 DEF BeginGet, IInv, ValidKnown
  <2>2. CASE Main \/ Loader \/ UndefinedStep
    BY <2>2 DEF Main, ListShard, ListNextTask, StartThreads, Report, Cleanup, UndefinedStep,
       Loader, LoaderTest, LoaderReturns, LoaderLoad, LoaderPublish, LoaderBeginRegister,
       LoaderEndRegister, LoaderSignal, cacheVars
  <2>3. ASSUME NEW g \in Gpus, Worker(g) \/ SpuriousWakeup(g), ~BeginGet(g) PROVE FALSE
    BY <2>3 DEF Worker, SpuriousWakeup, PopTask, PopNothing, MakeHeader, TestShard,
       ConsumeReady, FallAsleep, EndGet, FinishStaging, Launch, Account, cacheVars
  <2> QED
    BY <2>1, <2>2, <2>3 DEF Next
<1> QED
  BY <1>1, Invariance, PTL DEF Spec, NullNodeOnlyWhileRegistering

(* Without in-memory mode the detached loader is through with the cache    *)
(* when ~device_manager deletes it, although nothing joins it.             *)
THEOREM LoaderIsThrough ==
  ASSUME Preloaded = {}
  PROVE  Spec => []NoCacheAccessAfterCleanup
<1>1. IInv => NoCacheAccessAfterCleanup
  BY DEF IInv, AfterReport, NoCacheAccessAfterCleanup
<1> QED
  BY <1>1, Invariance, PTL

-----------------------------------------------------------------------------
(* Refinement of MatchService.                                             *)

(* The queue is full and nothing runs in the abstract initial state too. *)
LEMMA ServiceInit == Init => Service!Init
BY NumTasksAssumption DEF Init, Service!Init, Held, Tasks

(* PopTask is a Claim, Account an Account, Report a Report, an exit or     *)
(* undefined behaviour a Fail; every other step is a stutter.              *)
LEMMA ServiceStep == IInv /\ [Next]_vars => [Service!Next]_(Service!vars)
<1> SUFFICES ASSUME IInv, [Next]_vars PROVE [Service!Next]_(Service!vars)
  OBVIOUS
<1>0. TypeOK /\ WorkerTasks /\ OnePlace
  BY DEF IInv
<1> USE NumTasksAssumption
<1> DEFINE st == IF phase \in {"exited", "undefined"} THEN "failed"
                 ELSE IF phase \in {"reported", "cleaned"} THEN "reported"
                 ELSE "working"
<1>1. CASE UNCHANGED <<head, task, inflight, done, total>> /\ (st' = st \/ (st # "failed" /\ st' = "failed"))
  <2>1. UNCHANGED <<head .. NumTasks, Held, done, total>>
    BY <1>1 DEF Held
  <2> QED
    BY <1>1, <2>1 DEF Service!Next, Service!Fail, Service!vars
<1>2. CASE UNCHANGED vars
  BY <1>1, <1>2 DEF vars, gpuVars, countVars
<1>3. CASE Report
  <2>1. head .. NumTasks = {} /\ Held = {}
    BY <1>0, <1>3, GpusAssumption DEF Report, WorkerTasks, Held, TypeOK, Tasks
  <2>2. UNCHANGED <<head .. NumTasks, Held, done, total>>
    BY <1>3 DEF Report, Held, gpuVars, countVars
  <2>3. st = "working" /\ st' = "reported"
    BY <1>3 DEF Report
  <2> QED
    BY <2>1, <2>2, <2>3 DEF Service!Next, Service!Report
<1>4. CASE (Main /\ ~Report) \/ Loader \/ UndefinedStep
  <2>1. UNCHANGED <<head, task, inflight, done, total>>
    BY <1>0, <1>4, OthersKeepTasks DEF countVars
  <2>2. st' = st \/ (st # "failed" /\ st' = "failed")
    BY <1>4 DEF Main, ListShard, ListNextTask, StartThreads, Cleanup, UndefinedStep, Loader,
       LoaderTest, LoaderReturns, LoaderLoad, LoaderPublish, LoaderBeginRegister,
       LoaderEndRegister, LoaderSignal, LoaderRuns, PhaseOnTouch
  <2> QED
    BY <1>1, <2>1, <2>2
<1>5. ASSUME NEW g \in Gpus, PopTask(g) PROVE Service!Claim(head)
  <2>1. head \in head .. NumTasks /\ head \in Tasks /\ head # 0
        /\ (head .. NumTasks)' = (head .. NumTasks) \ {head}
    BY <1>0, <1>5 DEF PopTask, TypeOK, Tasks
  <2>2. Held' = Held \cup {head}
    <3>1. task' = [task EXCEPT ![g] = head] /\ task[g] = 0 /\ inflight' = inflight
      BY <1>0, <1>5 DEF PopTask, WorkerTasks
    <3> QED
      BY <1>0, <2>1, <3>1 DEF Held, TypeOK, Tasks
  <2>3. st = "working" /\ st' = "working" /\ UNCHANGED <<done, total>>
    BY <1>5 DEF PopTask, countVars
  <2> QED
    BY <2>1, <2>2, <2>3 DEF Service!Claim
<1>6. ASSUME NEW g \in Gpus, Account(g) PROVE Service!Account(inflight[g])
  <2>1. inflight[g] \in Held
    BY <1>0, <1>6 DEF Account, Held, TypeOK, WorkerTasks
  <2>2. Held' = Held \ {inflight[g]}
    BY <1>0, <1>6, <2>1 DEF Account, Held, TypeOK, WorkerTasks, OnePlace, Tasks
  <2>3. st = "working" /\ st' = "working" /\ UNCHANGED (head .. NumTasks)
    BY <1>6 DEF Account
  <2>4. done' = done \cup {inflight[g]} /\ total' = total + Matches[inflight[g]]
    BY <1>6 DEF Account
  <2> QED
    BY <2>1, <2>2, <2>3, <2>4 DEF Service!Account
<1>7. ASSUME NEW g \in Gpus, Launch(g) PROVE [Service!Next]_(Service!vars)
  <2>1. Held' = Held
    BY <1>0, <1>7 DEF Launch, Held, TypeOK, WorkerTasks
  <2>2. st = "working" /\ st' = "working" /\ UNCHANGED <<head .. NumTasks, done, total>>
    BY <1>7 DEF Launch, countVars
  <2> QED
    BY <2>1, <2>2 DEF Service!vars
<1>8. ASSUME NEW g \in Gpus, Worker(g) \/ SpuriousWakeup(g), ~PopTask(g), ~Account(g), ~Launch(g)
      PROVE  [Service!Next]_(Service!vars)
  <2>1. UNCHANGED <<head, task, inflight, done, total>>
    BY <1>8 DEF Worker, SpuriousWakeup, PopNothing, MakeHeader, TestShard, ConsumeReady,
       FallAsleep, BeginGet, EndGet, FinishStaging, countVars
  <2>2. st' = st \/ (st # "failed" /\ st' = "failed")
    BY <1>8, WorkersKeepLoader
  <2> QED
    BY <1>1, <2>1, <2>2
<1>9. inflight \in [Gpus -> Tasks \cup {0}] /\ head \in 1 .. NumTasks + 1
  BY <1>0 DEF TypeOK
<1> QED
  <2>1. ASSUME NEW g \in Gpus, PopTask(g) PROVE Service!Next
    <3>1. head \in Tasks
      BY <2>1, <1>9 DEF PopTask, Tasks
    <3> QED
      BY <2>1, <1>5, <3>1 DEF Service!Next
  <2>2. ASSUME NEW g \in Gpus, Account(g) PROVE Service!Next
    <3>1. inflight[g] \in Tasks
      BY <2>2, <1>0, <1>9 DEF Account, WorkerTasks
    <3> QED
      BY <2>2, <1>6, <3>1 DEF Service!Next
  <2> QED
    BY <2>1, <2>2, <1>2, <1>3, <1>4, <1>7, <1>8 DEF Next, Main

(* Any number of workers on one queue, with their kernels in flight while  *)
(* they stage, are one service that runs every task once and reports a     *)
(* complete total.                                                         *)
THEOREM Refinement == Spec => Implements
<1>1. Spec => Service!Init /\ [][Service!Next]_(Service!vars)
  BY ServiceInit, ServiceStep, Invariance, PTL DEF Spec
<1> QED
  BY <1>1 DEF Implements, Service!Spec
=============================================================================

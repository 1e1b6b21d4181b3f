------------------------- MODULE GpuPipeline_proofs --------------------------
(***************************************************************************)
(* Theorems about GpuPipeline, for any number of tasks, shards and host    *)
(* slots, any configurations, and both loops.                              *)
(***************************************************************************)
EXTENDS GpuPipeline, SequenceLemmas, FiniteSetTheorems, TLAPS

-----------------------------------------------------------------------------
(* The inductive invariant.                                                *)

(* The configuration has its types. *)
LEMMA ConfigTypes ==
  ASSUME cfg \in Configs
  PROVE  /\ cfg.plan \in [Tasks -> Seq(Shards)] /\ cfg.tooBig \subseteq Shards
         /\ cfg.hasKernel \in BOOLEAN /\ cfg.streaming \in BOOLEAN
BY ConfigsAssumption

(* The cache at start is consistent. *)
LEMMA InitCache ==
  ASSUME Init
  PROVE  CacheConsistent /\ slotOf \in [Shards -> 0 .. HostSlots]
<1> DEFINE p == cfg.preloaded
<1>1. p \in Seq(Shards) /\ IsInjective(p) /\ Len(p) <= HostSlots /\ Len(p) \in Nat
  BY ConfigsAssumption DEF Init
<1>2. ASSUME NEW s \in Shards
      PROVE  /\ Contains(p, s) => slotOf[s] \in 1 .. Len(p) /\ p[slotOf[s]] = s
             /\ ~Contains(p, s) => slotOf[s] = 0
  <2>1. slotOf[s] = IF Contains(p, s) THEN CHOOSE i \in DOMAIN p : p[i] = s ELSE 0
    BY DEF Init
  <2>2. CASE Contains(p, s)
    <3>1. \E i \in DOMAIN p : p[i] = s
      BY <1>1, <2>2 DEF Contains
    <3>2. slotOf[s] \in DOMAIN p /\ p[slotOf[s]] = s
      BY <2>1, <2>2, <3>1
    <3> QED
      BY <1>1, <2>2, <3>2
  <2> QED
    BY <2>1, <2>2
<1>3. lru = p /\ \A u \in Slots : u <= Len(p) => mem[u] = p[u]
  BY DEF Init
<1> HIDE DEF p
<1>4. slotOf \in [Shards -> 0 .. HostSlots]
  <2>1. DOMAIN slotOf = Shards /\ slotOf = [s \in Shards |-> slotOf[s]]
    BY DEF Init
  <2>2. \A s \in Shards : slotOf[s] \in 0 .. HostSlots
    BY <1>1, <1>2, LimitsAssumption
  <2> QED
    BY <2>1, <2>2
<1>5. \A s \in Shards : slotOf[s] # 0 => mem[slotOf[s]] = s
  BY <1>1, <1>2, <1>3, LimitsAssumption DEF Slots
<1> QED
  BY <1>1, <1>2, <1>3, <1>4, <1>5 DEF CacheConsistent

(* IInv holds initially. *)
LEMMA InitIInv == Init => IInv
<1> SUFFICES ASSUME Init PROVE IInv
  OBVIOUS
<1> USE NumTasksAssumption, LimitsAssumption, InitCache
<1>1. TypeOK
  <2>1. /\ cfg \in Configs
        /\ cfg.preloaded \in Seq(Shards) /\ Len(cfg.preloaded) <= HostSlots
    BY ConfigsAssumption DEF Init
  <2>2. lru \in Seq(Shards) /\ mem \in [Slots -> Shards \cup {NoShard}]
    BY <2>1 DEF Init, Slots
  <2>3. /\ stream \in [Halves -> Seq(Operations)]
        /\ dev \in [Halves -> [task : 0 .. NumTasks, data : [Places -> Shards \cup {NoShard}],
                               counter : Nat]]
    BY DEF Init
  <2>4. /\ pc = "pop" /\ head = 1 /\ task = 0 /\ pos = 1 /\ half \in Halves /\ inflight = 0
        /\ merged = 0 /\ done = {} /\ total = 0 /\ status = "working" /\ header = 0
    BY DEF Init, Halves
  <2> QED
    BY <2>1, <2>2, <2>3, <2>4 DEF TypeOK
<1>2. AtHand /\ StagingOrder /\ StreamOrder
  BY DEF Init, AtHand, StagingOrder, StreamOrder
<1> QED
  BY <1>1, <1>2 DEF IInv

(* While a shard is wanted, it is one. *)
LEMMA WantedIsAShard ==
  ASSUME TypeOK, AtHand, Staging
  PROVE  Wanted \in Shards /\ task \in Tasks /\ pos \in 1 .. Len(TaskShards[task])
<1>1. task \in Tasks
  BY NumTasksAssumption DEF TypeOK, AtHand, Staging, Tasks
<1>2. TaskShards[task] \in Seq(Shards)
  BY <1>1, ConfigTypes DEF TypeOK, TaskShards
<1>3. pos \in 1 .. Len(TaskShards[task])
  BY <1>2 DEF TypeOK, Staging
<1> QED
  BY <1>1, <1>2, <1>3 DEF Wanted

(* A stream takes an operation at its end and runs the one at its head. *)
LEMMA EnqueueStream ==
  ASSUME TypeOK, NEW h \in Halves, NEW op \in Operations, Enqueue(h, op)
  PROVE  /\ stream' \in [Halves -> Seq(Operations)]
         /\ stream'[h] = Append(stream[h], op)
         /\ Len(stream[h]) \in Nat /\ Len(stream'[h]) = Len(stream[h]) + 1
         /\ \A i \in 1 .. Len(stream[h]) : stream'[h][i] = stream[h][i]
         /\ stream'[h][Len(stream[h]) + 1] = op
         /\ \A k \in Halves : k # h => stream'[k] = stream[k]
<1>1. stream[h] \in Seq(Operations)
  BY DEF TypeOK
<1>2. stream' = [stream EXCEPT ![h] = Append(stream[h], op)]
  BY DEF Enqueue
<1>3. Append(stream[h], op) \in Seq(Operations)
  BY <1>1
<1>4. stream' \in [Halves -> Seq(Operations)] /\ stream'[h] = Append(stream[h], op)
      /\ \A k \in Halves : k # h => stream'[k] = stream[k]
  BY <1>2, <1>3 DEF TypeOK
<1> QED
  BY <1>1, <1>4

(* The operation at the head of a stream leaves it; the others move up. *)
LEMMA RunStream ==
  ASSUME TypeOK, NEW h \in Halves, NEW kind, Run(h, kind)
  PROVE  /\ stream' \in [Halves -> Seq(Operations)]
         /\ Len(stream[h]) \in Nat \ {0} /\ Len(stream'[h]) = Len(stream[h]) - 1
         /\ Head(stream[h]) = stream[h][1] /\ Head(stream[h]) \in Operations
         /\ stream[h][1].kind = kind
         /\ stream'[h] = Tail(stream[h])
         /\ \A i \in 1 .. Len(stream[h]) - 1 : stream'[h][i] = stream[h][i + 1]
         /\ \A k \in Halves : k # h => stream'[k] = stream[k]
<1>1. stream[h] \in Seq(Operations) /\ stream[h] # <<>>
  BY DEF TypeOK, Run
<1>2. stream' = [stream EXCEPT ![h] = Tail(stream[h])]
  BY DEF Run
<1>3. /\ Tail(stream[h]) \in Seq(Operations) /\ Len(Tail(stream[h])) = Len(stream[h]) - 1
      /\ Head(stream[h]) \in Operations
      /\ \A i \in 1 .. Len(Tail(stream[h])) : Tail(stream[h])[i] = stream[h][i + 1]
  BY <1>1, HeadTailProperties
<1>4. stream' \in [Halves -> Seq(Operations)] /\ stream'[h] = Tail(stream[h])
      /\ \A k \in Halves : k # h => stream'[k] = stream[k]
  BY <1>2, <1>3 DEF TypeOK
<1>5. Head(stream[h]) = stream[h][1] /\ Len(stream[h]) \in Nat \ {0}
  BY <1>1
<1>6. stream[h][1].kind = kind
  BY <1>5 DEF Run
<1> QED
  BY <1>3, <1>4, <1>5, <1>6

(* get() moves the shard to the end of the free list. *)
LEMMA StageShardCache ==
  ASSUME TypeOK, AtHand, CacheConsistent, StageShard
  PROVE  /\ lru' \in Seq(Shards) /\ UNCHANGED <<slotOf, mem>> /\ CacheConsistent'
         /\ Len(lru') = Len(lru) /\ Len(lru) \in Nat
         /\ \E i \in 1 .. Len(lru) :
              /\ lru[i] = Wanted
              /\ \A j \in 1 .. Len(lru) :
                   lru'[j] = IF j < i THEN lru[j] ELSE IF j < Len(lru) THEN lru[j + 1] ELSE Wanted
<1>1. lru \in Seq(Shards) /\ DOMAIN lru = 1 .. Len(lru) /\ Len(lru) \in Nat
  BY DEF TypeOK
<1>2. PICK i \in 1 .. Len(lru) : lru[i] = Wanted /\ lru' = Append(RemoveAt(lru, i), lru[i])
  BY <1>1, SMTT(30) DEF StageShard
<1>3. /\ lru' \in Seq(Shards) /\ Len(lru') = Len(lru)
      /\ \A j \in 1 .. Len(lru) :
           lru'[j] = IF j < i THEN lru[j] ELSE IF j < Len(lru) THEN lru[j + 1] ELSE lru[i]
  BY <1>1, <1>2, MoveToBack
<1>4. UNCHANGED <<slotOf, mem>>
  BY DEF StageShard
<1>5. IsInjective(lru')
  <2>1. DOMAIN lru' = 1 .. Len(lru)
    BY <1>3
  <2>2. \A a, b \in 1 .. Len(lru) : lru[a] = lru[b] => a = b
    BY <1>1 DEF CacheConsistent, IsInjective
  <2> DEFINE from(j) == IF j < i THEN j ELSE IF j < Len(lru) THEN j + 1 ELSE i
  <2>3. \A j \in 1 .. Len(lru) : from(j) \in 1 .. Len(lru) /\ lru'[j] = lru[from(j)]
    BY <1>1, <1>3
  <2>4. \A a, b \in 1 .. Len(lru) : from(a) = from(b) => a = b
    BY <1>1
  <2> HIDE DEF from
  <2>5. \A a, b \in 1 .. Len(lru) : lru'[a] = lru'[b] => a = b
    BY <2>2, <2>3, <2>4
  <2> QED
    BY <2>1, <2>5 DEF IsInjective
<1>6. \A s \in Shards : Contains(lru', s) <=> Contains(lru, s)
  <2>1. ASSUME NEW s \in Shards, NEW j \in 1 .. Len(lru), lru'[j] = s
        PROVE  \E k \in 1 .. Len(lru) : lru[k] = s
    BY <1>1, <1>3, <2>1
  <2>2. ASSUME NEW s \in Shards, NEW j \in 1 .. Len(lru), lru[j] = s
        PROVE  \E k \in 1 .. Len(lru) : lru'[k] = s
    <3>1. CASE j < i
      BY <1>1, <1>3, <2>2, <3>1
    <3>2. CASE j = i
      <4>1. lru'[Len(lru)] = lru[i]
        BY <1>1, <1>3
      <4> QED
        BY <1>1, <2>2, <3>2, <4>1
    <3>3. CASE j > i
      <4>1. lru'[j - 1] = lru[(j - 1) + 1] /\ (j - 1) + 1 = j /\ j - 1 \in 1 .. Len(lru)
        BY <1>1, <1>3, <3>3
      <4> QED
        BY <2>2, <4>1
    <3> QED
      BY <1>1, <3>1, <3>2, <3>3
  <2> QED
    BY <1>3, <2>1, <2>2 DEF Contains
<1>7. CacheConsistent'
  BY <1>4, <1>5, <1>6 DEF CacheConsistent
<1> QED
  BY <1>1, <1>2, <1>3, <1>4, <1>7

(* A shard that is loaded takes a free slot and the end of the free list. *)
LEMMA LoadShardCache ==
  ASSUME TypeOK, AtHand, CacheConsistent, LoadShard
  PROVE  /\ slotOf' \in [Shards -> 0 .. HostSlots]
         /\ mem' \in [Slots -> Shards \cup {NoShard}]
         /\ lru' = Append(lru, Wanted) /\ lru' \in Seq(Shards)
         /\ slotOf'[Wanted] \in Slots /\ Wanted \in Shards /\ slotOf[Wanted] = 0
         /\ \A s \in Shards : slotOf[s] # slotOf'[Wanted] /\ (s # Wanted => slotOf'[s] = slotOf[s])
         /\ \A u \in Slots : u # slotOf'[Wanted] => mem'[u] = mem[u]
         /\ mem'[slotOf'[Wanted]] = Wanted /\ Wanted \notin cfg.tooBig
         /\ CacheConsistent'
<1>1. Wanted \in Shards
  BY WantedIsAShard DEF LoadShard
<1>2. PICK u \in Allocatable(Wanted) :
        mem' = [mem EXCEPT ![u] = Wanted] /\ slotOf' = [slotOf EXCEPT ![Wanted] = u]
  BY DEF LoadShard
<1>3. u \in Slots /\ (\A r \in Shards : slotOf[r] # u) /\ Wanted \notin cfg.tooBig
  BY <1>2 DEF Allocatable
<1>4. lru' = Append(lru, Wanted) /\ slotOf[Wanted] = 0
  BY DEF LoadShard
<1>5. /\ lru \in Seq(Shards) /\ Len(lru) \in Nat /\ lru' \in Seq(Shards) /\ Len(lru') = Len(lru) + 1
      /\ lru'[Len(lru) + 1] = Wanted /\ \A i \in 1 .. Len(lru) : lru'[i] = lru[i]
  BY <1>1, <1>4 DEF TypeOK
<1>6. u \in 1 .. HostSlots /\ u # 0
  BY <1>3, LimitsAssumption DEF Slots
<1>7. /\ slotOf' \in [Shards -> 0 .. HostSlots] /\ slotOf'[Wanted] = u
      /\ \A s \in Shards : s # Wanted => slotOf'[s] = slotOf[s]
  BY <1>1, <1>2, <1>6, LimitsAssumption DEF TypeOK
<1>8. /\ mem' \in [Slots -> Shards \cup {NoShard}] /\ mem'[u] = Wanted
      /\ \A v \in Slots : v # u => mem'[v] = mem[v]
  BY <1>1, <1>2, <1>3 DEF TypeOK
<1>9. CacheConsistent'
  <2>1. \A i \in 1 .. Len(lru) : lru[i] # Wanted
    BY <1>1, <1>4 DEF CacheConsistent, Contains
  <2>2. IsInjective(lru')
    <3>1. \A a, b \in 1 .. Len(lru) : lru[a] = lru[b] => a = b
      BY <1>5 DEF CacheConsistent, IsInjective
    <3> QED
      BY <1>5, <2>1, <3>1 DEF IsInjective
  <2>3. \A s \in Shards : Contains(lru', s) <=> s = Wanted \/ Contains(lru, s)
    BY <1>5, <2>1 DEF Contains
  <2>4. \A s \in Shards : slotOf'[s] # 0 <=> Contains(lru', s)
    BY <1>6, <1>7, <2>3 DEF CacheConsistent
  <2>5. \A s \in Shards : slotOf'[s] # 0 => mem'[slotOf'[s]] = s
    <3> SUFFICES ASSUME NEW s \in Shards, slotOf'[s] # 0 PROVE mem'[slotOf'[s]] = s
      OBVIOUS
    <3>1. CASE s = Wanted
      BY <1>7, <1>8, <3>1
    <3>2. CASE s # Wanted
      <4>1. slotOf'[s] = slotOf[s] /\ slotOf[s] \in Slots /\ slotOf[s] # u
        BY <1>3, <1>7, <3>2, LimitsAssumption DEF TypeOK, Slots
      <4> QED
        BY <1>8, <4>1 DEF CacheConsistent
    <3> QED
      BY <3>1, <3>2
  <2>6. \A r, s \in Shards : slotOf'[r] = slotOf'[s] /\ slotOf'[r] # 0 => r = s
    BY <1>3, <1>7 DEF CacheConsistent
  <2> QED
    BY <2>2, <2>4, <2>5, <2>6 DEF CacheConsistent
<1> QED
  BY <1>1, <1>3, <1>4, <1>5, <1>7, <1>8, <1>9

(* An eviction takes the first of the free list. *)
LEMMA EvictShardCache ==
  ASSUME TypeOK, CacheConsistent, EvictShard
  PROVE  /\ slotOf' \in [Shards -> 0 .. HostSlots]
         /\ lru' \in Seq(Shards) /\ Len(lru) \in Nat \ {0} /\ Len(lru') = Len(lru) - 1
         /\ \A i \in 1 .. Len(lru) - 1 : lru'[i] = lru[i + 1]
         /\ lru[1] \in Shards /\ slotOf'[lru[1]] = 0
         /\ \A s \in Shards : s # lru[1] => slotOf'[s] = slotOf[s]
         /\ UNCHANGED mem
         /\ CacheConsistent'
<1>1. lru \in Seq(Shards) /\ lru # <<>> /\ Len(lru) \in Nat \ {0}
  BY DEF TypeOK, EvictShard
<1>2. /\ lru' \in Seq(Shards) /\ Len(lru') = Len(lru) - 1
      /\ \A i \in 1 .. Len(lru) - 1 : lru'[i] = lru[i + 1]
  BY <1>1, HeadTailProperties DEF EvictShard
<1>3. Head(lru) = lru[1] /\ lru[1] \in Shards
  BY <1>1
<1>4. UNCHANGED mem /\ slotOf' = [slotOf EXCEPT ![lru[1]] = 0]
  BY <1>3 DEF EvictShard
<1>5. /\ slotOf' \in [Shards -> 0 .. HostSlots] /\ slotOf'[lru[1]] = 0
      /\ \A s \in Shards : s # lru[1] => slotOf'[s] = slotOf[s]
  BY <1>3, <1>4, LimitsAssumption DEF TypeOK
<1>6. \A a, b \in 1 .. Len(lru) : lru[a] = lru[b] => a = b
  BY <1>1 DEF CacheConsistent, IsInjective
<1>7. IsInjective(lru')
  BY <1>1, <1>2, <1>6 DEF IsInjective
<1>8. \A s \in Shards : Contains(lru', s) <=> s # lru[1] /\ Contains(lru, s)
  <2> SUFFICES ASSUME NEW s \in Shards
               PROVE  Contains(lru', s) <=> s # lru[1] /\ Contains(lru, s)
    OBVIOUS
  <2>1. ASSUME NEW i \in 1 .. Len(lru'), lru'[i] = s PROVE s # lru[1] /\ Contains(lru, s)
    <3>1. i + 1 \in 1 .. Len(lru) /\ lru[i + 1] = s /\ i + 1 # 1 /\ 1 \in 1 .. Len(lru)
      BY <1>1, <1>2, <2>1
    <3> QED
      BY <1>6, <3>1 DEF Contains
  <2>2. ASSUME s # lru[1], NEW i \in 1 .. Len(lru), lru[i] = s PROVE Contains(lru', s)
    <3>1. i - 1 \in 1 .. Len(lru') /\ lru'[i - 1] = lru[(i - 1) + 1] /\ (i - 1) + 1 = i
      BY <1>1, <1>2, <2>2
    <3> QED
      BY <2>2, <3>1 DEF Contains
  <2> QED
    BY <2>1, <2>2 DEF Contains
<1>9. CacheConsistent'
  BY <1>4, <1>5, <1>7, <1>8 DEF CacheConsistent
<1> QED
  BY <1>1, <1>2, <1>3, <1>4, <1>5, <1>9

(* What a stream is given are operations. *)
LEMMA StageShardStream ==
  ASSUME TypeOK, AtHand, StagingOrder, StageShard
  PROVE  LET op == [kind |-> "shard", shard |-> Wanted, slot |-> slotOf[Wanted], at |-> pos]
         IN  op \in Operations /\ Enqueue(half, op)
<1>1. Wanted \in Shards /\ pos \in 1 .. Len(TaskShards[task]) /\ task # 0
      /\ Len(TaskShards[task]) \in Nat
  <2>1. Wanted \in Shards /\ task \in Tasks /\ pos \in 1 .. Len(TaskShards[task])
    BY WantedIsAShard DEF StageShard
  <2> QED
    BY <2>1 DEF Tasks, TypeOK, TaskShards
<1>2. pos \in Places
  <2>1. Len(TaskShards[task]) < MaxNumShardPerIter
    BY <1>1 DEF StagingOrder, StageShard, Staging
  <2> QED
    BY <1>1, <2>1, LimitsAssumption DEF Places
<1>3. slotOf[Wanted] \in Slots
  BY <1>1, LimitsAssumption DEF TypeOK, StageShard, Slots
<1> QED
  BY <1>1, <1>2, <1>3 DEF StageShard, Operations

(* No step leaves the types. *)
LEMMA TypeStep == IInv /\ [Next]_vars => TypeOK'
<1> SUFFICES ASSUME IInv, TypeOK, AtHand, StagingOrder, CacheConsistent, [Next]_vars
             PROVE  TypeOK'
  BY DEF IInv
<1> USE NumTasksAssumption, LimitsAssumption
<1>h. half \in Halves /\ 1 - half \in Halves /\ LaunchedHalf \in Halves
  BY DEF TypeOK, Halves, LaunchedHalf
<1>1. CASE UNCHANGED vars
  BY <1>1 DEF TypeOK, vars, hostVars, queryVars, cacheVars, deviceVars
<1>2. CASE PopTask \/ PopNothing \/ SynchronizeCopies \/ Report \/ NoKernel \/ AllocationFails
  <2>1. CASE PopTask
    BY <2>1 DEF TypeOK, PopTask, queryVars, cacheVars, deviceVars
  <2>2. CASE PopNothing
    BY <2>2 DEF TypeOK, PopNothing, queryVars, cacheVars, deviceVars
  <2>3. CASE SynchronizeCopies
    BY <2>3 DEF TypeOK, SynchronizeCopies, queryVars, cacheVars, deviceVars
  <2>4. CASE Report
    BY <2>4 DEF TypeOK, Report, queryVars, cacheVars, deviceVars
  <2>5. CASE NoKernel
    BY <2>5 DEF TypeOK, NoKernel, queryVars, cacheVars, deviceVars
  <2>6. CASE AllocationFails
    BY <2>6 DEF TypeOK, AllocationFails, queryVars, cacheVars, deviceVars
  <2> QED
    BY <1>2, <2>1, <2>2, <2>3, <2>4, <2>5, <2>6
<1>3. CASE MakeHeader
  BY <1>3 DEF TypeOK, MakeHeader, queryVars, cacheVars, deviceVars
<1>4. CASE StageShard
  <2>1. stream' \in [Halves -> Seq(Operations)]
    BY <1>h, <1>4, StageShardStream, EnqueueStream
  <2>2. lru' \in Seq(Shards)
    BY <1>4, StageShardCache
  <2> QED
    BY <1>4, <2>1, <2>2 DEF TypeOK, StageShard, queryVars
<1>5. CASE LoadShard
  <2>1. /\ lru' \in Seq(Shards) /\ slotOf' \in [Shards -> 0 .. HostSlots]
        /\ mem' \in [Slots -> Shards \cup {NoShard}]
    BY <1>5, LoadShardCache
  <2> QED
    BY <1>5, <2>1 DEF TypeOK, LoadShard, hostVars, queryVars, deviceVars
<1>6. CASE EvictShard
  <2>1. lru' \in Seq(Shards) /\ slotOf' \in [Shards -> 0 .. HostSlots]
    BY <1>6, EvictShardCache
  <2> QED
    BY <1>6, <2>1 DEF TypeOK, EvictShard, hostVars, queryVars, deviceVars
<1>7. CASE EnqueueHeader
  <2>1. [kind |-> "header"] \in Operations
    BY DEF Operations
  <2>2. stream' \in [Halves -> Seq(Operations)]
    BY <1>h, <1>7, <2>1, EnqueueStream DEF EnqueueHeader
  <2> QED
    BY <1>7, <2>2 DEF TypeOK, EnqueueHeader, queryVars, cacheVars
<1>8. CASE EnqueueCounter
  <2>1. [kind |-> "counter"] \in Operations
    BY DEF Operations
  <2>2. stream' \in [Halves -> Seq(Operations)]
    BY <1>h, <1>8, <2>1, EnqueueStream DEF EnqueueCounter
  <2> QED
    BY <1>8, <2>2 DEF TypeOK, EnqueueCounter, queryVars, cacheVars
<1>9. CASE Launch
  <2>1. [kind |-> "kernel", task |-> task] \in Operations
    BY <1>9 DEF Operations, TypeOK, AtHand, Launch, Tasks
  <2>2. stream' \in [Halves -> Seq(Operations)]
    BY <1>h, <1>9, <2>1, EnqueueStream DEF Launch
  <2>3. half' \in Halves
    BY <1>h, <1>9 DEF Launch
  <2>4. pc' \in {"pop", "collect"} /\ merged' = 0 /\ task' = 0 /\ inflight' = task
    BY <1>9 DEF Launch
  <2>5. UNCHANGED <<head, pos, status, queryVars, cacheVars, header, dev>>
    BY <1>9 DEF Launch
  <2> QED
    BY <2>2, <2>3, <2>4, <2>5 DEF TypeOK, queryVars, cacheVars
<1>10. CASE Account
  <2>1. inflight \in Tasks
    BY <1>10 DEF Account, AtHand, TypeOK, Tasks
  <2> QED
    BY <1>10, <2>1 DEF TypeOK, Account, cacheVars, deviceVars
<1>11. ASSUME NEW h \in Halves, Stream(h) PROVE TypeOK'
  <2>1. PICK kind \in {"shard", "header", "kernel", "counter"} : Run(h, kind)
    BY <1>11 DEF Stream, CopyShard, CopyHeader, RunKernel, CopyCounter
  <2>2. stream' \in [Halves -> Seq(Operations)] /\ Head(stream[h]) \in Operations
    BY <2>1, RunStream
  <2>3. UNCHANGED <<hostVars, queryVars, cacheVars, header>>
    BY <2>1 DEF Run
  <2>4. dev[h] \in [task : 0 .. NumTasks, data : [Places -> Shards \cup {NoShard}], counter : Nat]
    BY DEF TypeOK
  <2>5. dev' \in [Halves -> [task : 0 .. NumTasks, data : [Places -> Shards \cup {NoShard}],
                             counter : Nat]] /\ merged' \in Nat
    <3>1. CASE CopyShard(h)
      <4> DEFINE op == Head(stream[h])
      <4>1. op.at \in Places /\ op.slot \in Slots
        BY <2>2, <3>1 DEF CopyShard, Run, Operations
      <4>2. mem[op.slot] \in Shards \cup {NoShard}
        BY <4>1 DEF TypeOK
      <4>3. dev' = [dev EXCEPT ![h].data[op.at] = mem[op.slot]]
        BY <3>1 DEF CopyShard
      <4> HIDE DEF op
      <4>4. dev' = [dev EXCEPT ![h] = [dev[h] EXCEPT !.data = [dev[h].data EXCEPT ![op.at] = mem[op.slot]]]]
        BY <4>3
      <4>5. [dev[h].data EXCEPT ![op.at] = mem[op.slot]] \in [Places -> Shards \cup {NoShard}]
        BY <2>4, <4>1, <4>2
      <4>6. [dev[h] EXCEPT !.data = [dev[h].data EXCEPT ![op.at] = mem[op.slot]]]
              \in [task : 0 .. NumTasks, data : [Places -> Shards \cup {NoShard}], counter : Nat]
        BY <2>4, <4>5
      <4> QED
        BY <3>1, <4>4, <4>6 DEF TypeOK, CopyShard
    <3>2. CASE CopyHeader(h)
      BY <2>4, <3>2 DEF TypeOK, CopyHeader
    <3>3. CASE RunKernel(h)
      <4>1. (IF Holds(h, dev[h].task) THEN Matches[dev[h].task] ELSE 0) \in Nat
        BY MatchesAssumption DEF Holds
      <4> QED
        BY <2>4, <3>3, <4>1 DEF TypeOK, RunKernel
    <3>4. CASE CopyCounter(h)
      BY <2>4, <3>4 DEF TypeOK, CopyCounter
    <3> QED
      BY <1>11, <3>1, <3>2, <3>3, <3>4 DEF Stream
  <2> QED
    BY <2>2, <2>3, <2>5 DEF TypeOK, hostVars, queryVars, cacheVars
<1> QED
  BY <1>1, <1>2, <1>3, <1>4, <1>5, <1>6, <1>7, <1>8, <1>9, <1>10, <1>11 DEF Next, Host

(* The streams leave the host thread and the cache alone. *)
LEMMA StreamsKeepHost ==
  ASSUME NEW h \in Halves, Stream(h)
  PROVE  UNCHANGED <<hostVars, queryVars, cacheVars, header>>
BY DEF Stream, CopyShard, CopyHeader, RunKernel, CopyCounter, Run

(* Steps that leave the cache alone. *)
LEMMA CacheStep == IInv /\ [Next]_vars => CacheConsistent'
<1> SUFFICES ASSUME TypeOK, AtHand, CacheConsistent, [Next]_vars PROVE CacheConsistent'
  BY DEF IInv
<1>1. CASE UNCHANGED cacheVars
  BY <1>1 DEF CacheConsistent, cacheVars
<1>2. CASE UNCHANGED vars
  BY <1>1, <1>2 DEF vars
<1>3. CASE Host
  <2>1. CASE StageShard \/ LoadShard \/ EvictShard
    BY <2>1, StageShardCache, LoadShardCache, EvictShardCache
  <2>2. CASE ~(StageShard \/ LoadShard \/ EvictShard)
    BY <1>1, <1>3, <2>2 DEF Host, PopTask, PopNothing, MakeHeader, AllocationFails, EnqueueHeader,
       SynchronizeCopies, Launch, NoKernel, EnqueueCounter, Account, Report
  <2> QED
    BY <2>1, <2>2
<1>4. ASSUME NEW h \in Halves, Stream(h) PROVE CacheConsistent'
  BY <1>1, <1>4, StreamsKeepHost
<1> QED
  BY <1>2, <1>3, <1>4 DEF Next

(* The bookkeeping of the loop over the tasks. *)
LEMMA AtHandStep == IInv /\ [Next]_vars => AtHand'
<1> SUFFICES ASSUME TypeOK, AtHand, [Next]_vars PROVE AtHand'
  BY DEF IInv
<1> USE NumTasksAssumption
<1>t. /\ head \in 1 .. NumTasks + 1 /\ task \in 0 .. NumTasks /\ inflight \in 0 .. NumTasks
      /\ cfg.streaming \in BOOLEAN
  BY ConfigTypes DEF TypeOK
<1>1. CASE UNCHANGED <<head, task, inflight, pc, done, cfg>>
  BY <1>1 DEF AtHand, DoubleBuffering
<1>2. CASE UNCHANGED vars
  BY <1>1, <1>2 DEF vars, hostVars, queryVars
<1>3. CASE PopTask
  BY <1>t, <1>3 DEF AtHand, PopTask, DoubleBuffering, queryVars
<1>4. CASE PopNothing
  BY <1>t, <1>4 DEF AtHand, PopNothing, DoubleBuffering, queryVars
<1>5. CASE MakeHeader \/ StageShard \/ LoadShard \/ EvictShard
  <2>1. UNCHANGED <<head, task, inflight, done, cfg>>
        /\ (pc' = pc \/ (pc = "header" /\ pc' = "stage"))
    BY <1>5 DEF MakeHeader, StageShard, LoadShard, EvictShard, queryVars, hostVars
  <2> QED
    BY <1>t, <2>1 DEF AtHand, DoubleBuffering
<1>6. CASE AllocationFails \/ NoKernel \/ Report
  BY <1>1, <1>6 DEF AllocationFails, NoKernel, Report, queryVars
<1>7. CASE EnqueueHeader
  BY <1>t, <1>7 DEF AtHand, EnqueueHeader, DoubleBuffering, queryVars
<1>8. CASE SynchronizeCopies
  BY <1>t, <1>8 DEF AtHand, SynchronizeCopies, DoubleBuffering, queryVars
<1>9. CASE Launch
  BY <1>t, <1>9 DEF AtHand, Launch, DoubleBuffering, queryVars
<1>10. CASE EnqueueCounter
  BY <1>t, <1>10 DEF AtHand, EnqueueCounter, DoubleBuffering, queryVars
<1>11. CASE Account
  BY <1>t, <1>11 DEF AtHand, Account, DoubleBuffering
<1>12. ASSUME NEW h \in Halves, Stream(h) PROVE AtHand'
  BY <1>1, <1>12, StreamsKeepHost DEF hostVars, queryVars
<1> QED
  BY <1>2, <1>3, <1>4, <1>5, <1>6, <1>7, <1>8, <1>9, <1>10, <1>11, <1>12 DEF Next, Host

(* The bookkeeping of the loop over the shards of a task. *)
LEMMA StagingOrderStep == IInv /\ [Next]_vars => StagingOrder'
<1> SUFFICES ASSUME TypeOK, AtHand, StagingOrder, [Next]_vars PROVE StagingOrder'
  BY DEF IInv
<1>t. /\ pos \in Nat \ {0} /\ task \in 0 .. NumTasks /\ cfg.streaming \in BOOLEAN
      /\ cfg.plan \in [Tasks -> Seq(Shards)]
  BY ConfigTypes DEF TypeOK
<1>l. task # 0 => Len(TaskShards[task]) \in Nat
  BY <1>t, NumTasksAssumption DEF Tasks, TaskShards
<1>1. CASE UNCHANGED <<pc, task, pos, header, status, cfg>>
  BY <1>1 DEF StagingOrder, TaskShards
<1>2. CASE UNCHANGED vars
  BY <1>1, <1>2 DEF vars, hostVars, queryVars
<1>3. CASE PopTask
  BY <1>t, <1>3 DEF StagingOrder, PopTask, queryVars
<1>4. CASE PopNothing
  BY <1>t, <1>4 DEF StagingOrder, PopNothing, AtHand, queryVars, TaskShards
<1>5. CASE MakeHeader
  <2>1. CASE Len(TaskShards[task]) >= MaxNumShardPerIter
    <3>1. status' = "failed" /\ pc' = "header" /\ UNCHANGED <<header, task, pos, cfg>> /\ pos = 1
      BY <1>5, <2>1 DEF MakeHeader, StagingOrder, queryVars
    <3> QED
      BY <3>1 DEF StagingOrder
  <2>2. CASE ~(Len(TaskShards[task]) >= MaxNumShardPerIter)
    <3>1. /\ status' = "working" /\ pc' = "stage" /\ header' = task /\ UNCHANGED <<task, pos, cfg>>
          /\ pos = 1 /\ task # 0
      BY <1>5, <2>2 DEF MakeHeader, StagingOrder, AtHand, queryVars
    <3> QED
      BY <1>l, <2>2, <3>1, LimitsAssumption DEF StagingOrder, TaskShards
  <2> QED
    BY <2>1, <2>2
<1>6. CASE StageShard
  <2>1. /\ UNCHANGED <<pc, task, header, status, cfg>> /\ pos' = pos + 1 /\ status = "working"
        /\ pc = "stage" /\ pos <= Len(TaskShards[task])
    BY <1>6 DEF StageShard, Staging, queryVars
  <2> QED
    BY <1>t, <1>l, <2>1 DEF StagingOrder, AtHand, TaskShards
<1>7. CASE LoadShard \/ EvictShard
  BY <1>1, <1>7 DEF LoadShard, EvictShard, hostVars, queryVars
<1>8. CASE AllocationFails
  BY <1>t, <1>8 DEF StagingOrder, AllocationFails, Staging, queryVars, TaskShards
<1>9. CASE NoKernel
  BY <1>t, <1>9 DEF StagingOrder, NoKernel, queryVars, TaskShards
<1>10. CASE Report
  BY <1>t, <1>10 DEF StagingOrder, Report, AtHand, queryVars
<1>11. CASE EnqueueHeader
  <2>1. /\ UNCHANGED <<task, pos, header, status, cfg>> /\ pc = "stage" /\ pos > Len(TaskShards[task])
        /\ pc' \in {"collect", "staged"}
    BY <1>11 DEF EnqueueHeader, queryVars
  <2> QED
    BY <1>t, <1>l, <2>1 DEF StagingOrder, AtHand, TaskShards
<1>12. CASE SynchronizeCopies
  BY <1>t, <1>12 DEF StagingOrder, SynchronizeCopies, queryVars, TaskShards
<1>13. CASE Launch
  <2>1. UNCHANGED <<pos, header, status, cfg>> /\ task' = 0 /\ pc' \in {"pop", "collect"} /\ pc = "launch"
        /\ cfg.hasKernel
    BY <1>13 DEF Launch, queryVars
  <2> QED
    BY <2>1 DEF StagingOrder
<1>14. CASE EnqueueCounter
  BY <1>t, <1>14 DEF StagingOrder, EnqueueCounter, queryVars, TaskShards
<1>15. CASE Account
  <2>1. /\ UNCHANGED <<task, pos, header, status, cfg>> /\ pc = "sync" /\ pc' \in {"launch", "gone", "pop"}
        /\ (pc' = "launch" <=> task # 0)
    BY <1>15 DEF Account
  <2> QED
    BY <2>1 DEF StagingOrder, TaskShards
<1>16. ASSUME NEW h \in Halves, Stream(h) PROVE StagingOrder'
  BY <1>1, <1>16, StreamsKeepHost DEF hostVars, queryVars
<1> QED
  BY <1>2, <1>3, <1>4, <1>5, <1>6, <1>7, <1>8, <1>9, <1>10, <1>11, <1>12, <1>13, <1>14, <1>15, <1>16
  DEF Next, Host

(* Only the task that is staged has copies pending, and a launched kernel  *)
(* never shares its stream with them.                                      *)
LEMMA Quiet ==
  ASSUME TypeOK, AtHand, StreamOrder, NEW h \in Halves,
         inflight = 0 \/ h # LaunchedHalf,
         \/ task = 0 \/ pc \in {"header", "launch"} \/ h # half
  PROVE  stream[h] = <<>>
<1>1. stream[h] \in Seq(Operations)
  BY DEF TypeOK
<1>2. ASSUME NEW i \in DOMAIN stream[h] PROVE FALSE
  BY DEF StreamOrder
<1>3. Len(stream[h]) \in Nat /\ DOMAIN stream[h] = 1 .. Len(stream[h])
  BY <1>1
<1>4. Len(stream[h]) # 0 => 1 \in DOMAIN stream[h]
  BY <1>3
<1>5. Len(stream[h]) = 0
  BY <1>2, <1>4
<1> QED
  BY <1>1, <1>5

(* While a task is staged the launched kernel works on the other half. *)
LEMMA OtherHalf ==
  ASSUME TypeOK, AtHand, task # 0
  PROVE  /\ half \in Halves /\ 1 - half \in Halves /\ half # 1 - half
         /\ inflight = 0 \/ (DoubleBuffering /\ LaunchedHalf = 1 - half)
BY DEF TypeOK, AtHand, Halves, LaunchedHalf, DoubleBuffering

(* The steps of a stream keep the order of the operations. *)
LEMMA StreamOrderRun ==
  ASSUME TypeOK, AtHand, StreamOrder, NEW h \in Halves, Stream(h)
  PROVE  StreamOrder'
<1>1. PICK kind \in {"shard", "header", "kernel", "counter"} : Run(h, kind)
  BY DEF Stream, CopyShard, CopyHeader, RunKernel, CopyCounter
<1>2. UNCHANGED <<pc, task, pos, half, inflight, cfg, LaunchedHalf>>
  BY <1>1 DEF Run, hostVars, queryVars, LaunchedHalf, DoubleBuffering
<1>3. /\ Len(stream[h]) \in Nat \ {0} /\ Len(stream'[h]) = Len(stream[h]) - 1
      /\ \A i \in 1 .. Len(stream[h]) - 1 : stream'[h][i] = stream[h][i + 1]
      /\ stream'[h] = Tail(stream[h])
      /\ \A k \in Halves : k # h => stream'[k] = stream[k]
      /\ stream' \in [Halves -> Seq(Operations)]
  BY <1>1, RunStream
<1>4. inflight # 0 =>
        stream'[LaunchedHalf] \in IF pc = "sync"
                                  THEN {<<KernelOf(inflight), CounterCopy>>, <<CounterCopy>>, <<>>}
                                  ELSE {<<KernelOf(inflight)>>, <<>>}
  <2>1. CASE inflight # 0 /\ h = LaunchedHalf
    <3>1. stream[h] \in IF pc = "sync"
                        THEN {<<KernelOf(inflight), CounterCopy>>, <<CounterCopy>>, <<>>}
                        ELSE {<<KernelOf(inflight)>>, <<>>}
      BY <2>1 DEF StreamOrder
    <3>2. stream[h] # <<>>
      BY <1>3
    <3>3. CASE stream[h] = <<KernelOf(inflight), CounterCopy>> /\ pc = "sync"
      <4>1. Tail(stream[h]) = <<CounterCopy>>
        BY <3>3
      <4> QED
        BY <1>3, <2>1, <3>3, <4>1
    <3>4. CASE stream[h] = <<CounterCopy>> \/ stream[h] = <<KernelOf(inflight)>>
      <4>1. Len(stream[h]) = 1 /\ stream[h] \in Seq(Operations)
        BY <3>4 DEF TypeOK
      <4>2. stream'[h] = <<>>
        BY <1>3, <4>1
      <4> QED
        BY <2>1, <4>2
    <3> QED
      BY <3>1, <3>2, <3>3, <3>4
  <2>2. CASE inflight # 0 /\ h # LaunchedHalf
    <3>1. LaunchedHalf \in Halves
      BY DEF TypeOK, LaunchedHalf, Halves
    <3> QED
      BY <1>3, <2>2, <3>1 DEF StreamOrder
  <2> QED
    BY <2>1, <2>2
<1>5. ASSUME NEW k \in Halves, inflight = 0 \/ k # LaunchedHalf, NEW i \in DOMAIN stream'[k]
      PROVE  /\ k = half /\ task # 0
             /\ \/ /\ stream'[k][i].kind = "shard"
                   /\ pc \in {"stage", "staged", "collect", "sync"}
                   /\ stream'[k][i].at < pos
                   /\ stream'[k][i].shard = TaskShards[task][stream'[k][i].at]
                \/ /\ stream'[k][i].kind = "header"
                   /\ pc \in {"staged", "collect", "sync"}
  <2>1. stream[k] \in Seq(Operations) /\ stream'[k] \in Seq(Operations)
    BY <1>3 DEF TypeOK
  <2>2. PICK j \in DOMAIN stream[k] : stream'[k][i] = stream[k][j]
    <3>1. CASE k = h
      <4>1. i \in 1 .. Len(stream[h]) - 1 /\ stream'[h][i] = stream[h][i + 1]
            /\ i + 1 \in DOMAIN stream[h]
        BY <1>3, <2>1, <3>1
      <4> QED
        BY <3>1, <4>1
    <3>2. CASE k # h
      BY <1>3, <3>2
    <3> QED
      BY <3>1, <3>2
  <2> QED
    BY <1>5, <2>2 DEF StreamOrder
<1> QED
  BY <1>2, <1>4, <1>5 DEF StreamOrder, TaskShards, KernelOf

(* Every step keeps the order of the operations. *)
LEMMA StreamOrderStep == IInv /\ [Next]_vars => StreamOrder'
<1> SUFFICES ASSUME TypeOK, AtHand, StagingOrder, StreamOrder, [Next]_vars PROVE StreamOrder'
  BY DEF IInv
<1>h. half \in Halves /\ 1 - half \in Halves /\ LaunchedHalf \in Halves
      /\ cfg.streaming \in BOOLEAN /\ stream \in [Halves -> Seq(Operations)]
  BY ConfigTypes DEF TypeOK, Halves, LaunchedHalf
<1>1. CASE UNCHANGED <<pc, task, pos, half, inflight, cfg, stream>>
  BY <1>1 DEF StreamOrder, TaskShards, KernelOf, LaunchedHalf, DoubleBuffering
<1>2. CASE UNCHANGED vars
  BY <1>1, <1>2 DEF vars, hostVars, queryVars, deviceVars
<1>3. CASE PopTask \/ PopNothing
  <2>1. /\ UNCHANGED <<half, inflight, cfg, stream, LaunchedHalf>> /\ task = 0
        /\ pc # "sync" /\ pc' # "sync"
    BY <1>3 DEF PopTask, PopNothing, AtHand, queryVars, deviceVars, LaunchedHalf, DoubleBuffering
  <2>2. \A h \in Halves : inflight = 0 \/ h # LaunchedHalf => stream[h] = <<>>
    BY <2>1, Quiet
  <2> QED
    BY <2>1, <2>2 DEF StreamOrder, KernelOf
<1>4. CASE MakeHeader
  <2>1. /\ UNCHANGED <<half, inflight, cfg, stream, LaunchedHalf>> /\ pc = "header" /\ pc' # "sync"
    BY <1>4 DEF MakeHeader, queryVars, deviceVars, LaunchedHalf, DoubleBuffering
  <2>2. \A h \in Halves : inflight = 0 \/ h # LaunchedHalf => stream[h] = <<>>
    BY <2>1, Quiet
  <2> QED
    BY <2>1, <2>2 DEF StreamOrder, KernelOf
<1>5. CASE StageShard
  <2> DEFINE op == [kind |-> "shard", shard |-> Wanted, slot |-> slotOf[Wanted], at |-> pos]
  <2>1. op \in Operations /\ Enqueue(half, op) /\ task # 0
    BY <1>5, StageShardStream DEF AtHand, StageShard, Staging
  <2>2. /\ op.kind = "shard" /\ op.at = pos /\ op.shard = TaskShards[task][pos]
    BY DEF Wanted
  <2> HIDE DEF op
  <2>3. /\ stream'[half] = Append(stream[half], op) /\ stream'[half][Len(stream[half]) + 1] = op
        /\ Len(stream[half]) \in Nat /\ Len(stream'[half]) = Len(stream[half]) + 1
        /\ \A i \in 1 .. Len(stream[half]) : stream'[half][i] = stream[half][i]
        /\ \A k \in Halves : k # half => stream'[k] = stream[k]
        /\ stream' \in [Halves -> Seq(Operations)]
    BY <1>h, <2>1, EnqueueStream
  <2>4. /\ UNCHANGED <<pc, task, half, inflight, cfg, LaunchedHalf, TaskShards>> /\ pos' = pos + 1
        /\ pc = "stage" /\ pos \in Nat
    BY <1>5 DEF StageShard, Staging, queryVars, LaunchedHalf, DoubleBuffering, TypeOK, TaskShards
  <2>5. inflight = 0 \/ LaunchedHalf # half
    BY <2>1, OtherHalf
  <2>6. inflight # 0 => stream'[LaunchedHalf] = stream[LaunchedHalf]
    BY <1>h, <2>3, <2>5
  <2>7. ASSUME NEW i \in DOMAIN stream'[half]
        PROVE  /\ stream'[half][i].kind = "shard"
               /\ stream'[half][i].at < pos + 1
               /\ stream'[half][i].shard = TaskShards[task][stream'[half][i].at]
    <3>1. stream'[half] \in Seq(Operations) /\ stream[half] \in Seq(Operations)
      BY <1>h, <2>3
    <3>2. CASE i = Len(stream[half]) + 1
      BY <2>2, <2>3, <2>4, <3>2
    <3>3. CASE i # Len(stream[half]) + 1
      <4>1. i \in DOMAIN stream[half] /\ stream'[half][i] = stream[half][i]
        BY <2>3, <3>1, <3>3
      <4>2. stream[half][i].at < pos /\ stream[half][i].kind = "shard"
            /\ stream[half][i].shard = TaskShards[task][stream[half][i].at]
        BY <1>h, <2>4, <2>5, <4>1 DEF StreamOrder
      <4>3. stream[half][i] \in Operations
        BY <3>1, <4>1
      <4>4. stream[half][i].at \in Nat
        BY <4>2, <4>3 DEF Operations, Places
      <4> QED
        BY <2>4, <4>1, <4>2, <4>4
    <3> QED
      BY <3>2, <3>3
  <2>8. ASSUME NEW k \in Halves, k # half, inflight = 0 \/ k # LaunchedHalf
        PROVE  stream'[k] = <<>>
    BY <2>3, <2>8, Quiet
  <2> QED
    BY <2>1, <2>4, <2>6, <2>7, <2>8 DEF StreamOrder, KernelOf
<1>6. CASE LoadShard \/ EvictShard \/ AllocationFails \/ NoKernel \/ Report
  <2>1. CASE Report
    <3>1. UNCHANGED <<pc, task, pos, half, inflight, cfg, stream>>
      BY <2>1 DEF Report, queryVars, deviceVars
    <3> QED
      BY <1>1, <3>1
  <2>2. CASE ~Report
    BY <1>1, <1>6, <2>2 DEF LoadShard, EvictShard, AllocationFails, NoKernel, hostVars, queryVars, deviceVars
  <2> QED
    BY <2>1, <2>2
<1>7. CASE EnqueueHeader
  <2> DEFINE op == [kind |-> "header"]
  <2>1. op \in Operations /\ Enqueue(half, op) /\ task # 0 /\ op.kind = "header"
    BY <1>7 DEF AtHand, EnqueueHeader, Operations
  <2> HIDE DEF op
  <2>3. /\ stream'[half] = Append(stream[half], op) /\ stream'[half][Len(stream[half]) + 1] = op
        /\ Len(stream[half]) \in Nat /\ Len(stream'[half]) = Len(stream[half]) + 1
        /\ \A i \in 1 .. Len(stream[half]) : stream'[half][i] = stream[half][i]
        /\ \A k \in Halves : k # half => stream'[k] = stream[k]
        /\ stream' \in [Halves -> Seq(Operations)]
    BY <1>h, <2>1, EnqueueStream
  <2>4. /\ UNCHANGED <<task, pos, half, inflight, cfg, LaunchedHalf, TaskShards>> /\ pc = "stage"
        /\ pc' \in {"collect", "staged"}
    BY <1>7 DEF EnqueueHeader, queryVars, LaunchedHalf, DoubleBuffering, TaskShards
  <2>5. inflight = 0 \/ LaunchedHalf # half
    BY <2>1, OtherHalf
  <2>6. inflight # 0 => stream'[LaunchedHalf] = stream[LaunchedHalf]
    BY <1>h, <2>3, <2>5
  <2>7. ASSUME NEW i \in DOMAIN stream'[half]
        PROVE  \/ /\ stream'[half][i].kind = "shard"
                  /\ stream'[half][i].at < pos
                  /\ stream'[half][i].shard = TaskShards[task][stream'[half][i].at]
               \/ stream'[half][i].kind = "header"
    <3>1. stream'[half] \in Seq(Operations) /\ stream[half] \in Seq(Operations)
      BY <1>h, <2>3
    <3>2. CASE i = Len(stream[half]) + 1
      BY <2>1, <2>3, <3>2
    <3>3. CASE i # Len(stream[half]) + 1
      <4>1. i \in DOMAIN stream[half] /\ stream'[half][i] = stream[half][i]
        BY <2>3, <3>1, <3>3
      <4> QED
        BY <1>h, <2>4, <2>5, <4>1 DEF StreamOrder
    <3> QED
      BY <3>2, <3>3
  <2>8. ASSUME NEW k \in Halves, k # half, inflight = 0 \/ k # LaunchedHalf
        PROVE  stream'[k] = <<>>
    BY <2>3, <2>8, Quiet
  <2> QED
    BY <2>1, <2>4, <2>6, <2>7, <2>8 DEF StreamOrder, KernelOf
<1>8. CASE SynchronizeCopies
  <2>1. /\ UNCHANGED <<task, pos, half, inflight, cfg, stream>> /\ pc' = "launch" /\ inflight = 0
        /\ stream[half] = <<>>
    BY <1>8 DEF SynchronizeCopies, AtHand, Idle, queryVars, deviceVars
  <2>2. \A h \in Halves : stream[h] = <<>>
    BY <2>1, Quiet
  <2> QED
    BY <2>1, <2>2 DEF StreamOrder
<1>9. CASE Launch
  <2> DEFINE op == KernelOf(task)
  <2>1. op \in Operations /\ Enqueue(half, op) /\ pc = "launch" /\ inflight = 0 /\ task # 0
    BY <1>9 DEF AtHand, TypeOK, Launch, Operations, Tasks, KernelOf
  <2> HIDE DEF op
  <2>2. \A h \in Halves : stream[h] = <<>>
    BY <2>1, Quiet
  <2>3. stream'[half] = Append(stream[half], op) /\ \A k \in Halves : k # half => stream'[k] = stream[k]
    BY <1>h, <2>1, EnqueueStream
  <2>4. stream'[half] = <<op>>
    BY <1>h, <2>2, <2>3
  <2>5. inflight' = task /\ LaunchedHalf' = half /\ pc' # "sync"
    BY <1>9, <1>h DEF Launch, LaunchedHalf, DoubleBuffering, queryVars, Halves
  <2>6. \A k \in Halves : k # LaunchedHalf' => stream'[k] = <<>>
    BY <2>2, <2>3, <2>5
  <2>7. stream'[LaunchedHalf'] = <<KernelOf(inflight')>>
    BY <2>4, <2>5 DEF op
  <2>8. \A k \in Halves : inflight' = 0 \/ k # LaunchedHalf' => DOMAIN stream'[k] = {}
    BY <2>1, <2>5, <2>6
  <2>9. pc' # "sync"
    BY <2>5
  <2> QED
    BY <2>7, <2>8, <2>9 DEF StreamOrder, KernelOf
<1>10. CASE EnqueueCounter
  <2>1. CounterCopy \in Operations /\ Enqueue(LaunchedHalf, CounterCopy) /\ inflight # 0 /\ pc = "collect"
    BY <1>10 DEF AtHand, EnqueueCounter, Operations, CounterCopy
  <2>2. stream'[LaunchedHalf] = Append(stream[LaunchedHalf], CounterCopy)
        /\ \A k \in Halves : k # LaunchedHalf => stream'[k] = stream[k]
    BY <1>h, <2>1, EnqueueStream
  <2>3. UNCHANGED <<task, pos, half, inflight, cfg, LaunchedHalf, TaskShards>> /\ pc' = "sync"
    BY <1>10 DEF EnqueueCounter, queryVars, LaunchedHalf, DoubleBuffering, TaskShards
  <2>4. stream[LaunchedHalf] \in {<<KernelOf(inflight)>>, <<>>}
    BY <2>1 DEF StreamOrder
  <2> DEFINE K == KernelOf(inflight)
             C == CounterCopy
  <2> HIDE DEF K, C
  <2>a. Append(<<K>>, C) = <<K, C>> /\ Append(<<>>, C) = <<C>>
    <3> DEFINE s == Append(<<K>>, C)
               t == <<K, C>>
    <3>1. s \in Seq({K, C}) /\ t \in Seq({K, C}) /\ Len(s) = Len(t) /\ Len(t) = 2
          /\ s[1] = t[1] /\ s[2] = t[2]
      OBVIOUS
    <3> HIDE DEF s, t
    <3>2. \A i \in 1 .. Len(s) : s[i] = t[i]
      BY <3>1
    <3>3. s = t
      BY <3>1, <3>2, SeqEqual
    <3> QED
      BY <3>3 DEF s, t
  <2>5. stream'[LaunchedHalf] \in {<<K, C>>, <<C>>}
    BY <2>2, <2>4, <2>a DEF K, C
  <2> QED
    BY <2>1, <2>2, <2>3, <2>5, ZenonT(60) DEF StreamOrder, KernelOf, K, C
<1>11. CASE Account
  <2>1. /\ \A h \in Halves : stream'[h] = <<>>
        /\ inflight' = 0
    BY <1>11 DEF Account, Idle, deviceVars
  <2> QED
    BY <2>1 DEF StreamOrder
<1>12. ASSUME NEW h \in Halves, Stream(h) PROVE StreamOrder'
  BY <1>12, StreamOrderRun
<1> QED
  BY <1>2, <1>3, <1>4, <1>5, <1>6, <1>7, <1>8, <1>9, <1>10, <1>11, <1>12 DEF Next, Host

(* The invariant holds in every reachable state, for any number of tasks,  *)
(* shards and slots, however large the tasks are.                          *)
THEOREM Invariance == Spec => []IInv
<1>1. IInv /\ [Next]_vars => IInv'
  BY TypeStep, CacheStep, AtHandStep, StagingOrderStep, StreamOrderStep DEF IInv
<1> QED
  BY InitIInv, <1>1, PTL DEF Spec

(* The free list and the container agree about what is cached, and no two  *)
(* shards share a slot, whatever is loaded, used and evicted.              *)
THEOREM CacheStaysConsistent == Spec => []CacheConsistent
<1>1. IInv => CacheConsistent
  BY DEF IInv
<1> QED
  BY <1>1, Invariance, PTL

(* The header buffer is rewritten only when no copy from it is pending. *)
THEOREM HeaderIsRead == Spec => HeaderReadBeforeRewritten
<1>1. IInv /\ [Next]_vars =>
        [header' # header => \A h \in Halves : \A i \in DOMAIN stream[h] : stream[h][i].kind # "header"]_vars
  <2> SUFFICES ASSUME IInv, [Next]_vars, header' # header,
                      NEW h \in Halves, NEW i \in DOMAIN stream[h], stream[h][i].kind = "header"
               PROVE  FALSE
    OBVIOUS
  <2>1. MakeHeader
    BY StreamsKeepHost DEF Next, Host, vars, PopTask, PopNothing, StageShard, LoadShard, EvictShard,
       AllocationFails, EnqueueHeader, SynchronizeCopies, Launch, NoKernel, EnqueueCounter, Account, Report
  <2>2. TypeOK /\ AtHand /\ StreamOrder /\ pc = "header"
    BY <2>1 DEF IInv, MakeHeader
  <2>3. inflight # 0 /\ h = LaunchedHalf
    BY <2>2 DEF StreamOrder
  <2>4. stream[h] \in {<<KernelOf(inflight)>>, <<>>}
    BY <2>2, <2>3 DEF StreamOrder
  <2>5. stream[h] = <<KernelOf(inflight)>> /\ i = 1
    BY <2>4
  <2> QED
    BY <2>5 DEF KernelOf
<1> QED
  BY <1>1, Invariance, PTL DEF Spec, HeaderReadBeforeRewritten

-----------------------------------------------------------------------------
(* The data on the device, when the host memory holds the shards of a task. *)

(* Copies are pending for the half that is staged only. *)
LEMMA CopiesInHalf ==
  ASSUME TypeOK, AtHand, StreamOrder, NEW h \in Halves, NEW i \in DOMAIN stream[h],
         stream[h][i].kind \in {"shard", "header"}
  PROVE  /\ h = half /\ task # 0 /\ (inflight = 0 \/ h # LaunchedHalf)
         /\ stream[h][i].kind = "shard" =>
              /\ pc \in {"stage", "staged", "collect", "sync"}
              /\ stream[h][i].at < pos
              /\ stream[h][i].shard = TaskShards[task][stream[h][i].at]
         /\ stream[h][i].kind = "header" => pc \in {"staged", "collect", "sync"}
<1>1. inflight = 0 \/ h # LaunchedHalf
  <2> SUFFICES ASSUME inflight # 0, h = LaunchedHalf PROVE FALSE
    OBVIOUS
  <2>1. \/ stream[h] = <<KernelOf(inflight), CounterCopy>>
        \/ stream[h] = <<CounterCopy>>
        \/ stream[h] = <<KernelOf(inflight)>>
        \/ stream[h] = <<>>
    BY DEF StreamOrder
  <2>2. stream[h][i] = KernelOf(inflight) \/ stream[h][i] = CounterCopy
    BY <2>1
  <2> QED
    BY <2>2 DEF KernelOf, CounterCopy
<1> QED
  BY <1>1 DEF StreamOrder

(* The host may stage its n-th shard. *)
LEMMA FirstShardsGrow ==
  ASSUME TypeOK, AtHand, Staging
  PROVE  /\ FirstShards(pos) = FirstShards(pos - 1) \cup {Wanted}
         /\ FirstShards(pos - 1) = {TaskShards[task][i] : i \in 1 .. pos - 1}
<1>1. pos \in 1 .. Len(TaskShards[task]) /\ Len(TaskShards[task]) \in Nat
  <2>1. task \in Tasks /\ pos \in 1 .. Len(TaskShards[task])
    BY WantedIsAShard
  <2> QED
    BY <2>1, ConfigTypes DEF TypeOK, TaskShards
<1>2. {j \in 1 .. pos : j <= Len(TaskShards[task])} = 1 .. pos
      /\ {j \in 1 .. pos - 1 : j <= Len(TaskShards[task])} = 1 .. pos - 1
      /\ 1 .. pos = (1 .. pos - 1) \cup {pos}
  BY <1>1
<1> QED
  BY <1>2 DEF FirstShards, Wanted

(* The shard that is evicted is none that was staged for the task: if it   *)
(* were, every slot would be taken by such a shard, more than the task     *)
(* has.                                                                    *)
LEMMA EvictedIsNotStaged ==
  ASSUME TasksFitHost, TypeOK, AtHand, StagingOrder, CacheConsistent,
         StagedIsRecent, StagedIsCached, EvictShard, Wanted \notin cfg.tooBig
  PROVE  lru[1] \notin FirstShards(pos - 1)
<1> SUFFICES ASSUME lru[1] \in FirstShards(pos - 1) PROVE FALSE
  OBVIOUS
<1>1. /\ Staging /\ pc = "stage" /\ Wanted \in Shards /\ slotOf[Wanted] = 0
      /\ Allocatable(Wanted) = {} /\ task \in Tasks /\ pos \in 1 .. Len(TaskShards[task])
  BY WantedIsAShard DEF EvictShard, Staging
<1>2. FirstShards(pos) = FirstShards(pos - 1) \cup {Wanted}
      /\ FirstShards(pos - 1) = {TaskShards[task][i] : i \in 1 .. pos - 1}
  BY <1>1, FirstShardsGrow
<1>3. TaskShards[task] \in Seq(Shards)
  BY <1>1, ConfigTypes DEF TypeOK, TaskShards
<1>4. Len(TaskShards[task]) \in Nat /\ Len(TaskShards[task]) <= HostSlots /\ HostSlots \in Nat
  <2>1. Len(TaskShards[task]) < MaxNumShardPerIter /\ task # 0
    BY <1>1 DEF StagingOrder, AtHand
  <2>2. Len(cfg.plan[task]) <= HostSlots
    BY <1>1, <2>1 DEF TasksFitHost, TypeOK, TaskShards
  <2> QED
    BY <1>3, <2>2, LimitsAssumption DEF TaskShards
<1>5. lru \in Seq(Shards) /\ Len(lru) \in Nat \ {0}
  BY EvictShardCache DEF TypeOK
<1>6. \A u \in Slots : \E i \in 1 .. pos - 1 : slotOf[TaskShards[task][i]] = u
  <2> SUFFICES ASSUME NEW u \in Slots PROVE \E i \in 1 .. pos - 1 : slotOf[TaskShards[task][i]] = u
    OBVIOUS
  <2>1. PICK r \in Shards : slotOf[r] = u
    BY <1>1 DEF Allocatable
  <2>2. slotOf[r] # 0
    BY <2>1, LimitsAssumption DEF Slots
  <2>3. PICK b \in 1 .. Len(lru) : lru[b] = r
    BY <2>2 DEF CacheConsistent, Contains
  <2>4. lru[b] \in FirstShards(pos)
    <3>1. CASE b = 1
      BY <1>2, <3>1
    <3>2. CASE b # 1
      <4>1. 1 \in DOMAIN lru /\ b \in DOMAIN lru /\ 1 < b
        BY <1>5, <3>2
      <4> QED
        BY <1>1, <4>1 DEF StagedIsRecent
    <3> QED
      BY <3>1, <3>2
  <2>5. r # Wanted
    BY <1>1, <2>2
  <2> QED
    BY <1>2, <2>1, <2>3, <2>4, <2>5
<1> DEFINE f == [i \in 1 .. pos - 1 |-> slotOf[TaskShards[task][i]]]
<1>7. f \in Surjection(1 .. pos - 1, Slots)
  <2>1. ASSUME NEW i \in 1 .. pos - 1 PROVE slotOf[TaskShards[task][i]] \in Slots
    <3>1. TaskShards[task][i] \in Shards
      BY <1>1, <1>3
    <3>2. slotOf[TaskShards[task][i]] # 0
      BY <1>1 DEF StagedIsCached, Hopeless
    <3> QED
      BY <3>1, <3>2, LimitsAssumption DEF TypeOK, Slots
  <2>2. f \in [1 .. pos - 1 -> Slots]
    BY <2>1
  <2>3. \A u \in Slots : \E i \in 1 .. pos - 1 : f[i] = u
    BY <1>6
  <2> HIDE DEF f
  <2> QED
    BY <2>2, <2>3 DEF Surjection
<1>8. IsFiniteSet(1 .. pos - 1) /\ Cardinality(1 .. pos - 1) = pos - 1
      /\ Cardinality(Slots) = HostSlots
  <2>1. pos - 1 \in Int /\ HostSlots \in Int /\ 1 \in Int
    BY <1>1, <1>4
  <2>2. Cardinality(1 .. pos - 1) = IF 1 > pos - 1 THEN 0 ELSE (pos - 1) - 1 + 1
    BY <2>1, FS_Interval
  <2>3. Cardinality(Slots) = IF 1 > HostSlots THEN 0 ELSE HostSlots - 1 + 1
    BY <2>1, FS_Interval DEF Slots
  <2> QED
    BY <1>1, <1>4, <2>1, <2>2, <2>3, FS_Interval
<1> HIDE DEF f
<1>9. Cardinality(Slots) <= Cardinality(1 .. pos - 1)
  BY <1>7, <1>8, FS_Surjection
<1> QED
  BY <1>1, <1>4, <1>8, <1>9

(* Host steps that neither touch the cache nor stage a shard.              *)
LEMMA OtherHostSteps ==
  ASSUME Host, ~StageShard, ~LoadShard, ~EvictShard
  PROVE  /\ UNCHANGED <<cacheVars, dev, cfg>>
         /\ pc' = "stage" => \/ pc = "stage" /\ UNCHANGED <<task, pos, half, stream>>
                             \/ MakeHeader /\ pc = "header" /\ UNCHANGED <<task, pos, half, stream>>
BY DEF Host, PopTask, PopNothing, MakeHeader, AllocationFails, Staging, EnqueueHeader,
   SynchronizeCopies, Launch, NoKernel, EnqueueCounter, Account, Report, queryVars, deviceVars

(* No copy that is pending loses the contents of its slot. *)
LEMMA PendingStep ==
  ASSUME IInv, PendingCopiesIntact, StagedIsCached, [Next]_vars
  PROVE  PendingCopiesIntact'
<1>i. TypeOK /\ AtHand /\ StagingOrder /\ StreamOrder /\ CacheConsistent
  BY DEF IInv
<1>h. half \in Halves /\ LaunchedHalf \in Halves /\ stream \in [Halves -> Seq(Operations)]
  BY <1>i DEF TypeOK, Halves, LaunchedHalf
<1>1. CASE UNCHANGED <<stream, mem>>
  BY <1>1 DEF PendingCopiesIntact
<1>2. ASSUME NEW h \in Halves, NEW op \in Operations, Enqueue(h, op), UNCHANGED mem,
             op.kind = "shard" => mem[op.slot] = op.shard
      PROVE  PendingCopiesIntact'
  <2> SUFFICES ASSUME NEW k \in Halves, NEW i \in DOMAIN stream'[k], stream'[k][i].kind = "shard"
               PROVE  mem[stream'[k][i].slot] = stream'[k][i].shard
    BY <1>2 DEF PendingCopiesIntact
  <2>1. stream[k] \in Seq(Operations) /\ stream'[k] \in Seq(Operations)
    BY <1>i, <1>2, EnqueueStream DEF TypeOK
  <2>2. CASE k = h /\ i = Len(stream[h]) + 1
    BY <1>i, <1>2, <2>2, EnqueueStream
  <2>3. CASE ~(k = h /\ i = Len(stream[h]) + 1)
    <3>1. i \in DOMAIN stream[k] /\ stream'[k][i] = stream[k][i]
      BY <1>i, <1>2, <2>1, <2>3, EnqueueStream
    <3> QED
      BY <3>1 DEF PendingCopiesIntact
  <2> QED
    BY <2>2, <2>3
<1>3. CASE StageShard
  <2> DEFINE op == [kind |-> "shard", shard |-> Wanted, slot |-> slotOf[Wanted], at |-> pos]
  <2>1. op \in Operations /\ Enqueue(half, op)
    BY <1>i, <1>3, StageShardStream
  <2>2. mem[op.slot] = op.shard /\ UNCHANGED mem
    BY <1>i, <1>3, WantedIsAShard DEF StageShard, CacheConsistent
  <2> HIDE DEF op
  <2> QED
    BY <1>h, <1>2, <2>1, <2>2
<1>4. CASE LoadShard
  <2> SUFFICES ASSUME NEW h \in Halves, NEW i \in DOMAIN stream[h], stream[h][i].kind = "shard"
               PROVE  mem'[stream[h][i].slot] = stream[h][i].shard
    BY <1>4 DEF PendingCopiesIntact, LoadShard, deviceVars
  <2>1. h = half
    BY <1>i, CopiesInHalf
  <2>2. slotOf[stream[h][i].shard] = stream[h][i].slot
    BY <1>i, <1>4, <2>1, LoadShardCache DEF LoadShard, Staging, StagedIsCached, Hopeless
  <2>3. stream[h][i] \in Operations
    BY <1>h
  <2>4. stream[h][i].shard \in Shards /\ stream[h][i].slot \in Slots
    BY <2>3 DEF Operations
  <2>5. stream[h][i].slot # slotOf'[Wanted]
    BY <1>i, <1>4, <2>2, <2>4, LoadShardCache
  <2> QED
    BY <1>i, <1>4, <2>4, <2>5, LoadShardCache DEF PendingCopiesIntact
<1>5. CASE EvictShard
  BY <1>1, <1>5 DEF EvictShard, deviceVars
<1>6. CASE EnqueueHeader \/ EnqueueCounter \/ Launch
  <2>1. CASE EnqueueHeader
    BY <1>h, <1>2, <2>1 DEF EnqueueHeader, Operations, cacheVars
  <2>2. CASE EnqueueCounter
    BY <1>h, <1>2, <2>2 DEF EnqueueCounter, Operations, cacheVars
  <2>3. CASE Launch
    <3>1. [kind |-> "kernel", task |-> task] \in Operations
      BY <1>i, <2>3 DEF TypeOK, AtHand, Launch, Operations, Tasks
    <3> QED
      BY <1>h, <1>2, <2>3, <3>1 DEF Launch, cacheVars
  <2> QED
    BY <1>6, <2>1, <2>2, <2>3
<1>7. CASE Host /\ ~(StageShard \/ LoadShard \/ EvictShard \/ EnqueueHeader \/ EnqueueCounter \/ Launch)
  <2>1. UNCHANGED <<stream, mem>>
    BY <1>7 DEF Host, PopTask, PopNothing, MakeHeader, AllocationFails, SynchronizeCopies,
       NoKernel, Account, Report, cacheVars, deviceVars
  <2> QED
    BY <1>1, <2>1
<1>8. ASSUME NEW h \in Halves, Stream(h) PROVE PendingCopiesIntact'
  <2>1. PICK kind \in {"shard", "header", "kernel", "counter"} : Run(h, kind)
    BY <1>8 DEF Stream, CopyShard, CopyHeader, RunKernel, CopyCounter
  <2> SUFFICES ASSUME NEW k \in Halves, NEW i \in DOMAIN stream'[k], stream'[k][i].kind = "shard"
               PROVE  mem[stream'[k][i].slot] = stream'[k][i].shard
    BY <1>8, StreamsKeepHost DEF PendingCopiesIntact, cacheVars
  <2>2. PICK j \in DOMAIN stream[k] : stream'[k][i] = stream[k][j]
    <3>1. stream[k] \in Seq(Operations) /\ stream'[k] \in Seq(Operations)
      BY <1>i, <2>1, RunStream DEF TypeOK
    <3>2. CASE k = h
      <4>1. i + 1 \in DOMAIN stream[k] /\ stream'[k][i] = stream[k][i + 1]
        BY <1>i, <2>1, <3>1, <3>2, RunStream
      <4> QED
        BY <4>1
    <3>3. CASE k # h
      BY <1>i, <2>1, <3>3, RunStream
    <3> QED
      BY <3>2, <3>3
  <2> QED
    BY <2>2 DEF PendingCopiesIntact
<1>9. CASE UNCHANGED vars
  BY <1>1, <1>9 DEF vars, cacheVars, deviceVars
<1> QED
  BY <1>3, <1>4, <1>5, <1>6, <1>7, <1>8, <1>9 DEF Next

(* The shards staged for the task stay the most recently used ones. *)
LEMMA RecentStep ==
  ASSUME IInv, StagedIsRecent, [Next]_vars
  PROVE  StagedIsRecent'
<1>i. TypeOK /\ AtHand /\ StagingOrder /\ CacheConsistent
  BY DEF IInv
<1> SUFFICES ASSUME pc' = "stage", NEW a \in DOMAIN lru', NEW b \in DOMAIN lru', a < b,
                    lru'[a] \in FirstShards(pos - 1)'
             PROVE  lru'[b] \in FirstShards(pos)'
  BY DEF StagedIsRecent
<1>l. lru \in Seq(Shards) /\ Len(lru) \in Nat /\ DOMAIN lru = 1 .. Len(lru) /\ pos \in Nat \ {0}
  BY <1>i DEF TypeOK
<1>1. CASE UNCHANGED <<pc, task, pos, cfg, lru>>
  BY <1>1 DEF StagedIsRecent, FirstShards, TaskShards
<1>2. CASE UNCHANGED vars
  BY <1>1, <1>2 DEF vars, hostVars, queryVars, cacheVars
<1>3. CASE StageShard
  <2>1. Staging /\ pc = "stage" /\ UNCHANGED <<task, cfg>> /\ pos' = pos + 1
    BY <1>3 DEF StageShard, Staging, queryVars
  <2>2. FirstShards(pos) = FirstShards(pos - 1) \cup {Wanted}
    BY <1>i, <2>1, FirstShardsGrow
  <2>3. FirstShards(pos - 1)' = FirstShards(pos) /\ FirstShards(pos) \subseteq FirstShards(pos)'
    <3>1. pos' - 1 = pos /\ TaskShards' = TaskShards
      BY <1>l, <2>1 DEF TaskShards
    <3>2. 1 .. pos \subseteq 1 .. pos'
      BY <1>l, <2>1
    <3> QED
      BY <2>1, <3>1, <3>2 DEF FirstShards
  <2>4. PICK i \in 1 .. Len(lru) :
          /\ lru[i] = Wanted
          /\ \A j \in 1 .. Len(lru) :
               lru'[j] = IF j < i THEN lru[j] ELSE IF j < Len(lru) THEN lru[j + 1] ELSE Wanted
    BY <1>i, <1>3, StageShardCache
  <2>5. lru' \in Seq(Shards) /\ Len(lru') = Len(lru) /\ IsInjective(lru')
    BY <1>i, <1>3, StageShardCache DEF CacheConsistent
  <2>6. DOMAIN lru' = 1 .. Len(lru)
    BY <2>5
  <2>7. CASE b = Len(lru)
    <3>1. lru'[b] = Wanted
      BY <1>l, <2>4, <2>7
    <3> QED
      BY <2>2, <2>3, <3>1
  <2>8. CASE b # Len(lru)
    <3> DEFINE from(j) == IF j < i THEN j ELSE j + 1
    <3>1. /\ a \in 1 .. Len(lru) - 1 /\ b \in 1 .. Len(lru) - 1
          /\ lru'[a] = lru[from(a)] /\ lru'[b] = lru[from(b)]
          /\ from(a) \in DOMAIN lru /\ from(b) \in DOMAIN lru /\ from(a) < from(b)
      BY <1>l, <2>4, <2>6, <2>8
    <3>2. lru'[a] # Wanted
      <4>1. lru'[Len(lru)] = Wanted /\ Len(lru) \in DOMAIN lru' /\ a # Len(lru)
        BY <1>l, <2>4, <2>6, <3>1
      <4> QED
        BY <2>5, <4>1 DEF IsInjective
    <3> HIDE DEF from
    <3>3. lru[from(a)] \in FirstShards(pos - 1)
      BY <2>2, <2>3, <3>1, <3>2
    <3>4. lru[from(b)] \in FirstShards(pos)
      BY <2>1, <3>1, <3>3 DEF StagedIsRecent
    <3> QED
      BY <2>3, <3>1, <3>4
  <2> QED
    BY <2>7, <2>8
<1>4. CASE LoadShard
  <2>1. Staging /\ pc = "stage" /\ UNCHANGED <<task, pos, cfg>>
    BY <1>4 DEF LoadShard, Staging, hostVars, queryVars
  <2>2. FirstShards(pos)' = FirstShards(pos) /\ FirstShards(pos - 1)' = FirstShards(pos - 1)
    BY <2>1 DEF FirstShards, TaskShards
  <2>3. FirstShards(pos) = FirstShards(pos - 1) \cup {Wanted}
    BY <1>i, <2>1, FirstShardsGrow
  <2>4. lru' = Append(lru, Wanted) /\ Wanted \in Shards
    BY <1>i, <1>4, LoadShardCache
  <2>5. /\ DOMAIN lru' = 1 .. Len(lru) + 1 /\ lru'[Len(lru) + 1] = Wanted
        /\ \A i \in 1 .. Len(lru) : lru'[i] = lru[i]
    BY <1>l, <2>4
  <2>6. CASE b = Len(lru) + 1
    BY <2>2, <2>3, <2>5, <2>6
  <2>7. CASE b # Len(lru) + 1
    <3>1. a \in DOMAIN lru /\ b \in DOMAIN lru /\ lru'[a] = lru[a] /\ lru'[b] = lru[b]
      BY <1>l, <2>5, <2>7
    <3> QED
      BY <2>1, <2>2, <3>1 DEF StagedIsRecent
  <2> QED
    BY <2>6, <2>7
<1>5. CASE EvictShard
  <2>1. pc = "stage" /\ UNCHANGED <<task, pos, cfg>>
    BY <1>5 DEF EvictShard, Staging, hostVars, queryVars
  <2>2. FirstShards(pos)' = FirstShards(pos) /\ FirstShards(pos - 1)' = FirstShards(pos - 1)
    BY <2>1 DEF FirstShards, TaskShards
  <2>3. lru' \in Seq(Shards) /\ Len(lru') = Len(lru) - 1
        /\ \A i \in 1 .. Len(lru) - 1 : lru'[i] = lru[i + 1]
    BY <1>i, <1>5, EvictShardCache
  <2>4. a + 1 \in DOMAIN lru /\ b + 1 \in DOMAIN lru /\ a + 1 < b + 1
        /\ lru'[a] = lru[a + 1] /\ lru'[b] = lru[b + 1]
    BY <1>l, <2>3
  <2> QED
    BY <2>1, <2>2, <2>4 DEF StagedIsRecent
<1>6. CASE Host /\ ~StageShard /\ ~LoadShard /\ ~EvictShard
  <2>1. CASE pc = "stage"
    BY <1>1, <1>6, <2>1, OtherHostSteps DEF cacheVars
  <2>2. CASE pc # "stage"
    <3>1. pos' = 1
      BY <1>i, <1>6, <2>2, OtherHostSteps DEF StagingOrder
    <3>2. 1 .. pos' - 1 = {}
      BY <3>1
    <3>3. FirstShards(pos - 1)' = {}
      BY <3>2 DEF FirstShards
    <3> QED
      BY <3>3
  <2> QED
    BY <2>1, <2>2
<1>7. ASSUME NEW h \in Halves, Stream(h) PROVE lru'[b] \in FirstShards(pos)'
  BY <1>1, <1>7, StreamsKeepHost DEF hostVars, queryVars, cacheVars
<1> QED
  BY <1>2, <1>3, <1>4, <1>5, <1>6, <1>7 DEF Next

(* The shards staged for the task stay in the slots their copies read,     *)
(* unless the next one will never fit.                                     *)
LEMMA CachedStep ==
  ASSUME TasksFitHost, IInv, StagedIsRecent, StagedIsCached, [Next]_vars
  PROVE  StagedIsCached'
<1>i. TypeOK /\ AtHand /\ StagingOrder /\ StreamOrder /\ CacheConsistent
  BY DEF IInv
<1>h. half \in Halves /\ pos \in Nat \ {0} /\ stream \in [Halves -> Seq(Operations)]
  BY <1>i DEF TypeOK
<1> SUFFICES ASSUME pc' = "stage" PROVE StagedIsCached'
  BY DEF StagedIsCached
<1>1. CASE UNCHANGED <<pc, task, pos, half, cfg, slotOf>> /\ stream'[half] = stream[half]
  BY <1>1 DEF StagedIsCached, Hopeless, Wanted, TaskShards
<1>2. CASE UNCHANGED vars
  BY <1>1, <1>2 DEF vars, hostVars, queryVars, cacheVars, deviceVars
<1>3. CASE StageShard
  <2> DEFINE op == [kind |-> "shard", shard |-> Wanted, slot |-> slotOf[Wanted], at |-> pos]
  <2>1. op \in Operations /\ Enqueue(half, op)
    BY <1>i, <1>3, StageShardStream
  <2>2. op.shard = Wanted /\ op.slot = slotOf[Wanted]
    OBVIOUS
  <2> HIDE DEF op
  <2>3. /\ stream'[half][Len(stream[half]) + 1] = op
        /\ Len(stream[half]) \in Nat /\ Len(stream'[half]) = Len(stream[half]) + 1
        /\ \A i \in 1 .. Len(stream[half]) : stream'[half][i] = stream[half][i]
        /\ stream' \in [Halves -> Seq(Operations)]
    BY <1>i, <1>h, <2>1, EnqueueStream
  <2>4. /\ pc = "stage" /\ UNCHANGED <<task, half, cfg, slotOf, TaskShards>> /\ pos' = pos + 1
        /\ slotOf[Wanted] # 0
    BY <1>3 DEF StageShard, Staging, queryVars, TaskShards
  <2>5. \A i \in 1 .. pos' - 1 : slotOf[TaskShards[task][i]] # 0
    <3>1. \A i \in 1 .. pos - 1 : slotOf[TaskShards[task][i]] # 0
      BY <2>4 DEF StagedIsCached, Hopeless
    <3>2. slotOf[TaskShards[task][pos]] # 0
      BY <2>4 DEF Wanted
    <3> QED
      BY <1>h, <2>4, <3>1, <3>2
  <2>6. ASSUME NEW k \in DOMAIN stream'[half], stream'[half][k].kind = "shard"
        PROVE  slotOf[stream'[half][k].shard] = stream'[half][k].slot
    <3>1. CASE k = Len(stream[half]) + 1
      BY <2>2, <2>3, <3>1
    <3>2. CASE k # Len(stream[half]) + 1
      <4>1. stream[half] \in Seq(Operations) /\ stream'[half] \in Seq(Operations)
        BY <1>h, <2>3
      <4>2. k \in DOMAIN stream[half] /\ stream'[half][k] = stream[half][k]
        BY <2>3, <3>2, <4>1, SMTT(30)
      <4> QED
        BY <2>4, <2>6, <4>2 DEF StagedIsCached, Hopeless
    <3> QED
      BY <3>1, <3>2
  <2> QED
    BY <2>4, <2>5, <2>6 DEF StagedIsCached
<1>4. CASE LoadShard
  <2>1. /\ pc = "stage" /\ UNCHANGED <<task, pos, half, cfg, stream, TaskShards>> /\ Staging
        /\ Wanted \notin cfg.tooBig
    BY <1>i, <1>4, LoadShardCache DEF LoadShard, Staging, hostVars, queryVars, deviceVars, TaskShards
  <2>2. /\ \A i \in 1 .. pos - 1 : slotOf[TaskShards[task][i]] # 0
        /\ \A k \in DOMAIN stream[half] :
             stream[half][k].kind = "shard" => slotOf[stream[half][k].shard] = stream[half][k].slot
    BY <2>1 DEF StagedIsCached, Hopeless
  <2>3. slotOf[Wanted] = 0 /\ Wanted \in Shards
        /\ \A s \in Shards : s # Wanted => slotOf'[s] = slotOf[s]
    BY <1>i, <1>4, LoadShardCache
  <2>4. ASSUME NEW i \in 1 .. pos - 1 PROVE slotOf'[TaskShards[task][i]] # 0
    <3>1. TaskShards[task][i] \in Shards
      <4>1. task \in Tasks /\ pos \in 1 .. Len(TaskShards[task])
        BY <1>i, <2>1, WantedIsAShard
      <4> QED
        BY <1>i, <4>1, ConfigTypes DEF TypeOK, TaskShards
    <3> QED
      BY <2>2, <2>3, <3>1
  <2>5. ASSUME NEW k \in DOMAIN stream[half], stream[half][k].kind = "shard"
        PROVE  slotOf'[stream[half][k].shard] = stream[half][k].slot
    <3>1. stream[half][k] \in Operations
      BY <1>h
    <3>2. stream[half][k].shard \in Shards /\ stream[half][k].slot \in Slots
      BY <2>5, <3>1 DEF Operations
    <3>3. stream[half][k].shard # Wanted
      BY <2>2, <2>3, <2>5, <3>2, LimitsAssumption DEF Slots
    <3> QED
      BY <2>2, <2>3, <2>5, <3>2, <3>3
  <2> QED
    BY <2>1, <2>4, <2>5 DEF StagedIsCached
<1>5. CASE EvictShard
  <2>1. /\ pc = "stage" /\ UNCHANGED <<task, pos, half, cfg, stream, TaskShards>> /\ Staging
        /\ slotOf[Wanted] = 0 /\ pos <= Len(TaskShards[task])
    BY <1>5 DEF EvictShard, Staging, hostVars, queryVars, deviceVars, TaskShards
  <2>2. /\ \A s \in Shards : s # lru[1] => slotOf'[s] = slotOf[s]
        /\ slotOf'[lru[1]] = 0 /\ lru[1] \in Shards /\ Wanted \in Shards
    BY <1>i, <1>5, <2>1, EvictShardCache, WantedIsAShard
  <2>3. CASE Wanted \in cfg.tooBig
    <3>1. slotOf'[Wanted] = 0 /\ Wanted' = Wanted
      BY <2>1, <2>2 DEF Wanted
    <3> QED
      BY <2>1, <2>3, <3>1 DEF StagedIsCached, Hopeless
  <2>4. CASE Wanted \notin cfg.tooBig
    <3>1. /\ \A i \in 1 .. pos - 1 : slotOf[TaskShards[task][i]] # 0
          /\ \A k \in DOMAIN stream[half] :
               stream[half][k].kind = "shard" => slotOf[stream[half][k].shard] = stream[half][k].slot
      BY <2>1, <2>4 DEF StagedIsCached, Hopeless
    <3>2. FirstShards(pos - 1) = {TaskShards[task][i] : i \in 1 .. pos - 1}
      BY <1>i, <2>1, FirstShardsGrow
    <3>3. \A i \in 1 .. pos - 1 : TaskShards[task][i] # lru[1]
      BY <1>i, <1>5, <2>4, <3>2, EvictedIsNotStaged
    <3>4. \A i \in 1 .. pos - 1 : TaskShards[task][i] \in Shards
      <4>1. task \in Tasks /\ pos \in 1 .. Len(TaskShards[task])
        BY <1>i, <2>1, WantedIsAShard
      <4> QED
        BY <1>i, <4>1, ConfigTypes DEF TypeOK, TaskShards
    <3>5. \A i \in 1 .. pos - 1 : slotOf'[TaskShards[task][i]] # 0
      BY <2>2, <3>1, <3>3, <3>4
    <3>6. ASSUME NEW k \in DOMAIN stream[half], stream[half][k].kind = "shard"
          PROVE  slotOf'[stream[half][k].shard] = stream[half][k].slot
      <4>1. stream[half][k] \in Operations
        BY <1>h
      <4>2. stream[half][k].shard \in Shards /\ stream[half][k].at \in Nat /\ stream[half][k].at # 0
        BY <3>6, <4>1 DEF Operations, Places
      <4>3. stream[half][k].at < pos /\ stream[half][k].shard = TaskShards[task][stream[half][k].at]
        BY <1>i, <1>h, <3>6, CopiesInHalf
      <4>4. stream[half][k].at \in 1 .. pos - 1
        BY <1>h, <4>2, <4>3
      <4>5. stream[half][k].shard # lru[1]
        BY <3>3, <4>3, <4>4
      <4> QED
        BY <2>2, <3>1, <3>6, <4>2, <4>5
    <3> QED
      BY <2>1, <3>5, <3>6 DEF StagedIsCached
  <2> QED
    BY <2>3, <2>4
<1>6. CASE Host /\ ~StageShard /\ ~LoadShard /\ ~EvictShard
  <2>1. CASE pc = "stage"
    BY <1>1, <1>6, <2>1, OtherHostSteps DEF cacheVars
  <2>2. CASE pc # "stage"
    <3>1. MakeHeader /\ pc = "header" /\ UNCHANGED <<task, pos, half, stream, cfg, slotOf>> /\ pos = 1
      BY <1>i, <1>6, <2>2, OtherHostSteps DEF StagingOrder, cacheVars
    <3>2. task # 0
      BY <1>i, <3>1 DEF AtHand
    <3>3. stream[half] = <<>>
      BY <1>i, <1>h, <3>1, <3>2, OtherHalf, Quiet
    <3>4. 1 .. pos' - 1 = {} /\ DOMAIN stream'[half'] = {}
      BY <3>1, <3>3
    <3> QED
      BY <3>4 DEF StagedIsCached
  <2> QED
    BY <2>1, <2>2
<1>7. ASSUME NEW h \in Halves, Stream(h) PROVE StagedIsCached'
  <2>1. UNCHANGED <<pc, task, pos, half, cfg, slotOf>>
    BY <1>7, StreamsKeepHost DEF hostVars, queryVars, cacheVars
  <2>2. CASE h # half
    <3>1. stream'[half] = stream[half]
      BY <1>i, <1>h, <1>7, <2>2, RunStream DEF Stream, CopyShard, CopyHeader, RunKernel, CopyCounter
    <3> QED
      BY <1>1, <2>1, <3>1
  <2>3. CASE h = half
    <3>1. /\ stream'[half] \in Seq(Operations) /\ Len(stream[half]) \in Nat
          /\ Len(stream'[half]) = Len(stream[half]) - 1
          /\ \A i \in 1 .. Len(stream[half]) - 1 : stream'[half][i] = stream[half][i + 1]
      BY <1>i, <1>h, <1>7, <2>3, RunStream DEF Stream, CopyShard, CopyHeader, RunKernel, CopyCounter
    <3>a. /\ DOMAIN stream[half] = 1 .. Len(stream[half])
          /\ DOMAIN stream'[half] = 1 .. Len(stream[half]) - 1
      BY <1>h, <3>1
    <3>2. \A k \in DOMAIN stream'[half] :
            k + 1 \in DOMAIN stream[half] /\ stream'[half][k] = stream[half][k + 1]
      BY <3>1, <3>a
    <3> QED
      BY <2>1, <3>2 DEF StagedIsCached, Hopeless, Wanted, TaskShards
  <2> QED
    BY <2>2, <2>3
<1> QED
  BY <1>2, <1>3, <1>4, <1>5, <1>6, <1>7 DEF Next

(* An operation that is enqueued is pending, and so is what was pending. *)
LEMMA StillPending ==
  ASSUME TypeOK, NEW h \in Halves, NEW op \in Operations, Enqueue(h, op),
         NEW k \in Halves, NEW i \in DOMAIN stream[k]
  PROVE  i \in DOMAIN stream'[k] /\ stream'[k][i] = stream[k][i]
<1>1. stream[k] \in Seq(Operations) /\ stream'[k] \in Seq(Operations)
  BY EnqueueStream DEF TypeOK
<1>2. CASE k = h
  BY <1>1, <1>2, EnqueueStream, SMTT(30)
<1>3. CASE k # h
  BY <1>3, EnqueueStream
<1> QED
  BY <1>2, <1>3

(* What a stream does not run stays pending. *)
LEMMA NotRunYet ==
  ASSUME TypeOK, NEW h \in Halves, NEW kind, Run(h, kind),
         NEW k \in Halves, NEW i \in DOMAIN stream[k], k # h \/ stream[k][i] # stream[h][1]
  PROVE  \E j \in DOMAIN stream'[k] : stream'[k][j] = stream[k][i]
<1>1. stream[k] \in Seq(Operations) /\ stream'[k] \in Seq(Operations)
  BY RunStream, SMTT(30) DEF TypeOK
<1>2. CASE k = h
  <2>1. i # 1 /\ i \in 1 .. Len(stream[h])
    BY <1>1, <1>2
  <2>2. i - 1 \in 1 .. Len(stream[h]) - 1 /\ Len(stream'[h]) = Len(stream[h]) - 1
    BY <1>1, <1>2, <2>1, RunStream
  <2>3. stream'[h][i - 1] = stream[h][(i - 1) + 1] /\ (i - 1) + 1 = i
    BY <2>1, <2>2, RunStream
  <2> QED
    BY <1>1, <1>2, <2>2, <2>3
<1>3. CASE k # h
  BY <1>3, RunStream
<1> QED
  BY <1>2, <1>3

(* The copies for the staged task run, or stay pending. *)
LEMMA ArrivesRun ==
  ASSUME IInv, PendingCopiesIntact, StagedArrives, NEW h \in Halves, Stream(h)
  PROVE  StagedArrives'
<1>i. TypeOK /\ AtHand /\ StagingOrder /\ StreamOrder
  BY DEF IInv
<1>h. half \in Halves /\ pos \in Nat \ {0} /\ stream \in [Halves -> Seq(Operations)]
      /\ dev \in [Halves -> [task : 0 .. NumTasks, data : [Places -> Shards \cup {NoShard}],
                             counter : Nat]]
  BY <1>i DEF TypeOK
<1>u. UNCHANGED <<pc, task, pos, half, cfg, mem, header, TaskShards>>
  BY StreamsKeepHost DEF hostVars, queryVars, cacheVars, TaskShards
<1>k. PICK kind \in {"shard", "header", "kernel", "counter"} : Run(h, kind)
  BY DEF Stream, CopyShard, CopyHeader, RunKernel, CopyCounter
<1>1. stream[h] \in Seq(Operations) /\ 1 \in DOMAIN stream[h] /\ Head(stream[h]) = stream[h][1]
      /\ stream[h][1] \in Operations
  BY <1>i, <1>k, RunStream DEF TypeOK
<1>2. CASE dev'[half] = dev[half] /\ h # half
  <2>1. stream'[half] = stream[half]
    BY <1>i, <1>h, <1>2, <1>k, RunStream
  <2> QED
    BY <1>u, <1>2, <2>1 DEF StagedArrives
<1>3. CASE CopyShard(h)
  <2> DEFINE op == stream[h][1]
  <2>1. op.kind = "shard" /\ dev' = [dev EXCEPT ![h].data[op.at] = mem[op.slot]]
    BY <1>1, <1>3 DEF CopyShard, Run
  <2>2. h = half /\ op.shard = TaskShards[task][op.at]
    BY <1>i, <1>1, <2>1, CopiesInHalf
  <2>3. mem[op.slot] = op.shard
    BY <1>1, <2>1 DEF PendingCopiesIntact
  <2>4. op.at \in Places
    BY <1>1, <2>1 DEF Operations
  <2>5. /\ dev'[half].data[op.at] = TaskShards[task][op.at]
        /\ \A i : i # op.at => dev'[half].data[i] = dev[half].data[i]
        /\ dev'[half].task = dev[half].task
    BY <1>h, <2>1, <2>2, <2>3, <2>4
  <2>6. ASSUME task # 0, pc \in {"stage", "staged", "collect", "sync"}, NEW i \in 1 .. pos - 1
        PROVE  \/ dev'[half].data[i] = TaskShards[task][i]
               \/ \E k \in DOMAIN stream'[half] : stream'[half][k].kind = "shard" /\ stream'[half][k].at = i
    <3>1. CASE i = op.at
      BY <2>5, <3>1
    <3>2. CASE i # op.at /\ dev[half].data[i] = TaskShards[task][i]
      BY <2>5, <3>2
    <3>3. CASE i # op.at /\ dev[half].data[i] # TaskShards[task][i]
      <4>1. PICK k \in DOMAIN stream[half] : stream[half][k].kind = "shard" /\ stream[half][k].at = i
        BY <2>6, <3>3 DEF StagedArrives
      <4>2. stream[half][k] # op
        BY <3>3, <4>1
      <4>3. \E j \in DOMAIN stream'[half] : stream'[half][j] = stream[half][k]
        BY <1>i, <1>k, <2>2, <4>2, NotRunYet
      <4> QED
        BY <4>1, <4>3
    <3> QED
      BY <3>1, <3>2, <3>3
  <2>7. ASSUME task # 0, pc \in {"staged", "collect", "sync"}
        PROVE  dev'[half].task = task \/ \E k \in DOMAIN stream'[half] : stream'[half][k].kind = "header"
    <3>1. CASE dev[half].task = task
      BY <2>5, <3>1
    <3>2. CASE dev[half].task # task
      <4>1. PICK k \in DOMAIN stream[half] : stream[half][k].kind = "header"
        BY <2>7, <3>2 DEF StagedArrives
      <4>2. stream[half][k] # op
        BY <2>1, <4>1
      <4>3. \E j \in DOMAIN stream'[half] : stream'[half][j] = stream[half][k]
        BY <1>i, <1>k, <2>2, <4>2, NotRunYet
      <4> QED
        BY <4>1, <4>3
    <3> QED
      BY <3>1, <3>2
  <2> QED
    BY <1>u, <2>6, <2>7 DEF StagedArrives
<1>4. CASE CopyHeader(h)
  <2>1. stream[h][1].kind = "header" /\ dev' = [dev EXCEPT ![h].task = header, ![h].counter = 0]
    BY <1>1, <1>4 DEF CopyHeader, Run
  <2>2. h = half /\ task # 0 /\ pc \in {"staged", "collect", "sync"}
    BY <1>i, <1>1, <2>1, CopiesInHalf
  <2>3. dev'[half].task = task /\ dev'[half].data = dev[half].data
    BY <1>i, <1>h, <2>1, <2>2 DEF StagingOrder
  <2>4. ASSUME NEW i \in 1 .. pos - 1
        PROVE  \/ dev'[half].data[i] = TaskShards[task][i]
               \/ \E k \in DOMAIN stream'[half] : stream'[half][k].kind = "shard" /\ stream'[half][k].at = i
    <3>1. CASE dev[half].data[i] = TaskShards[task][i]
      BY <2>3, <3>1
    <3>2. CASE dev[half].data[i] # TaskShards[task][i]
      <4>1. PICK k \in DOMAIN stream[half] : stream[half][k].kind = "shard" /\ stream[half][k].at = i
        BY <2>2, <3>2 DEF StagedArrives
      <4>2. stream[half][k] # stream[h][1]
        BY <2>1, <4>1
      <4>3. \E j \in DOMAIN stream'[half] : stream'[half][j] = stream[half][k]
        BY <1>i, <1>k, <2>2, <4>2, NotRunYet
      <4> QED
        BY <4>1, <4>3
    <3> QED
      BY <3>1, <3>2
  <2> QED
    BY <1>u, <2>3, <2>4 DEF StagedArrives
<1>5. CASE RunKernel(h) \/ CopyCounter(h)
  <2>1. stream[h][1].kind \in {"kernel", "counter"}
    BY <1>1, <1>5 DEF RunKernel, CopyCounter, Run
  <2>2. CASE task # 0
    <3>1. inflight = 0 \/ LaunchedHalf # half
      BY <1>i, <2>2, OtherHalf
    <3>2. h # half
      BY <1>i, <1>h, <1>1, <2>1, <3>1 DEF StreamOrder
    <3>3. dev'[half] = dev[half]
      <4>1. CASE RunKernel(h)
        BY <1>h, <3>2, <4>1 DEF RunKernel
      <4>2. CASE CopyCounter(h)
        BY <4>2 DEF CopyCounter
      <4> QED
        BY <1>5, <4>1, <4>2
    <3> QED
      BY <1>2, <3>2, <3>3
  <2>3. CASE task = 0
    BY <1>u, <2>3 DEF StagedArrives
  <2> QED
    BY <2>2, <2>3
<1> QED
  BY <1>3, <1>4, <1>5 DEF Stream

(* Every step keeps the shards of the staged task arriving. *)
LEMMA ArrivesStep ==
  ASSUME IInv, PendingCopiesIntact, StagedArrives, [Next]_vars
  PROVE  StagedArrives'
<1>i. TypeOK /\ AtHand /\ StagingOrder /\ StreamOrder
  BY DEF IInv
<1>h. half \in Halves /\ LaunchedHalf \in Halves /\ pos \in Nat \ {0}
      /\ stream \in [Halves -> Seq(Operations)]
  BY <1>i DEF TypeOK, LaunchedHalf, Halves
<1>1. CASE UNCHANGED <<pc, task, pos, half, cfg, stream, dev>>
  BY <1>1 DEF StagedArrives, TaskShards
<1>2. CASE UNCHANGED vars
  BY <1>1, <1>2 DEF vars, hostVars, queryVars, deviceVars
<1>3. CASE PopTask \/ PopNothing \/ Launch
  <2>1. task' = 0 \/ pc' = "header"
    BY <1>i, <1>3 DEF PopTask, PopNothing, Launch, AtHand
  <2> QED
    BY <2>1 DEF StagedArrives
<1>4. CASE MakeHeader
  <2>1. UNCHANGED <<task, pos, half, cfg, stream, dev>> /\ pos = 1 /\ pc' \in {"header", "stage"}
    BY <1>i, <1>4 DEF MakeHeader, StagingOrder, queryVars, deviceVars
  <2>2. 1 .. pos' - 1 = {}
    BY <2>1
  <2> QED
    BY <2>1, <2>2 DEF StagedArrives
<1>5. CASE StageShard
  <2> DEFINE op == [kind |-> "shard", shard |-> Wanted, slot |-> slotOf[Wanted], at |-> pos]
  <2>1. op \in Operations /\ Enqueue(half, op) /\ task # 0
    BY <1>i, <1>5, StageShardStream DEF AtHand, StageShard, Staging
  <2>2. op.kind = "shard" /\ op.at = pos
    OBVIOUS
  <2> HIDE DEF op
  <2>3. stream'[half] \in Seq(Operations) /\ Len(stream'[half]) = Len(stream[half]) + 1
        /\ Len(stream[half]) \in Nat /\ stream'[half][Len(stream[half]) + 1] = op
    BY <1>i, <1>h, <2>1, EnqueueStream
  <2>4. Len(stream[half]) + 1 \in DOMAIN stream'[half]
    BY <2>3
  <2>5. /\ UNCHANGED <<pc, task, half, dev, TaskShards>> /\ pos' = pos + 1 /\ pc = "stage"
    BY <1>5 DEF StageShard, Staging, queryVars, TaskShards
  <2>6. ASSUME NEW i \in 1 .. pos' - 1
        PROVE  \/ dev[half].data[i] = TaskShards[task][i]
               \/ \E k \in DOMAIN stream'[half] : stream'[half][k].kind = "shard" /\ stream'[half][k].at = i
    <3>1. CASE i = pos
      BY <2>2, <2>3, <2>4, <3>1
    <3>2. CASE i # pos
      <4>1. i \in 1 .. pos - 1
        BY <1>h, <2>5, <3>2
      <4> QED
        BY <1>i, <1>h, <2>1, <2>5, <4>1, StillPending DEF StagedArrives
    <3> QED
      BY <3>1, <3>2
  <2> QED
    BY <2>5, <2>6 DEF StagedArrives
<1>6. CASE EnqueueHeader
  <2> DEFINE op == [kind |-> "header"]
  <2>1. op \in Operations /\ Enqueue(half, op) /\ task # 0 /\ op.kind = "header"
    BY <1>i, <1>6 DEF AtHand, EnqueueHeader, Operations
  <2> HIDE DEF op
  <2>2. stream'[half] \in Seq(Operations) /\ Len(stream'[half]) = Len(stream[half]) + 1
        /\ Len(stream[half]) \in Nat /\ stream'[half][Len(stream[half]) + 1] = op
    BY <1>i, <1>h, <2>1, EnqueueStream
  <2>3. Len(stream[half]) + 1 \in DOMAIN stream'[half]
    BY <2>2
  <2>4. UNCHANGED <<task, pos, half, dev, TaskShards>> /\ pc = "stage"
    BY <1>6 DEF EnqueueHeader, queryVars, TaskShards
  <2>5. ASSUME NEW i \in 1 .. pos - 1, dev[half].data[i] # TaskShards[task][i]
        PROVE  \E k \in DOMAIN stream'[half] : stream'[half][k].kind = "shard" /\ stream'[half][k].at = i
    <3>1. PICK k \in DOMAIN stream[half] : stream[half][k].kind = "shard" /\ stream[half][k].at = i
      BY <2>1, <2>4, <2>5 DEF StagedArrives
    <3>2. k \in DOMAIN stream'[half] /\ stream'[half][k] = stream[half][k]
      BY <1>i, <1>h, <2>1, StillPending
    <3> QED
      BY <3>1, <3>2
  <2>6. \E k \in DOMAIN stream'[half] : stream'[half][k].kind = "header"
    BY <2>1, <2>2, <2>3
  <2> QED
    BY <2>4, <2>5, <2>6 DEF StagedArrives
<1>7. CASE EnqueueCounter
  <2>1. CounterCopy \in Operations /\ Enqueue(LaunchedHalf, CounterCopy) /\ inflight # 0 /\ pc = "collect"
    BY <1>i, <1>7 DEF AtHand, EnqueueCounter, Operations, CounterCopy
  <2>2. UNCHANGED <<task, pos, half, dev, TaskShards>>
    BY <1>7 DEF EnqueueCounter, queryVars, TaskShards
  <2>3. CASE task # 0
    <3>1. LaunchedHalf # half
      BY <1>i, <2>1, <2>3, OtherHalf
    <3>2. stream'[half] = stream[half]
      BY <1>i, <1>h, <2>1, <3>1, EnqueueStream
    <3> QED
      BY <2>1, <2>2, <3>2 DEF StagedArrives
  <2>4. CASE task = 0
    BY <2>2, <2>4 DEF StagedArrives
  <2> QED
    BY <2>3, <2>4
<1>8. CASE SynchronizeCopies \/ Account
  <2>1. pc' \in {"launch", "gone", "pop"}
    BY <1>8 DEF SynchronizeCopies, Account
  <2> QED
    BY <2>1 DEF StagedArrives
<1>9. CASE LoadShard \/ EvictShard \/ AllocationFails
  BY <1>1, <1>9 DEF LoadShard, EvictShard, AllocationFails, hostVars, queryVars, deviceVars
<1>10. CASE NoKernel \/ Report
  BY <1>1, <1>10 DEF NoKernel, Report, hostVars, queryVars, deviceVars
<1>11. ASSUME NEW h \in Halves, Stream(h) PROVE StagedArrives'
  BY <1>11, ArrivesRun
<1> QED
  BY <1>2, <1>3, <1>4, <1>5, <1>6, <1>7, <1>8, <1>9, <1>10, <1>11 DEF Next, Host

(* With its stream idle, the half that was staged holds its task. *)
LEMMA IdleHolds ==
  ASSUME IInv, StagedArrives, task # 0, pc \in {"staged", "sync"}, Idle(half)
  PROVE  Holds(half, task)
<1>i. TypeOK /\ AtHand /\ StagingOrder
  BY DEF IInv
<1>1. half \in Halves /\ task \in Tasks /\ cfg.plan \in [Tasks -> Seq(Shards)]
  BY <1>i, ConfigTypes DEF TypeOK, Tasks
<1>2. Len(TaskShards[task]) \in Nat /\ pos = Len(TaskShards[task]) + 1
  BY <1>i, <1>1 DEF StagingOrder, TaskShards
<1>3. 1 .. pos - 1 = 1 .. Len(TaskShards[task])
  BY <1>2
<1>4. DOMAIN stream[half] = {}
  BY DEF Idle
<1> QED
  BY <1>1, <1>3, <1>4 DEF StagedArrives, Holds

(* What does not touch the half of the launched kernel leaves it its task. *)
LEMMA LaunchedKept ==
  ASSUME LaunchedHolds, UNCHANGED <<cfg, half, inflight, merged>>,
         inflight # 0 => /\ stream'[LaunchedHalf] = stream[LaunchedHalf]
                         /\ dev'[LaunchedHalf] = dev[LaunchedHalf],
         pc' # "launch", pc' = "sync" => pc = "sync"
  PROVE  LaunchedHolds'
<1>1. LaunchedHalf' = LaunchedHalf /\ TaskShards' = TaskShards
  BY DEF LaunchedHalf, DoubleBuffering, TaskShards
<1>2. CASE inflight = 0
  BY <1>2 DEF LaunchedHolds
<1>3. CASE inflight # 0
  <2>1. Holds(LaunchedHalf, inflight)'
    BY <1>1, <1>3 DEF LaunchedHolds, Holds
  <2>2. \/ Contains(stream[LaunchedHalf], KernelOf(inflight))'
        \/ (dev[LaunchedHalf].counter = Matches[inflight])'
    BY <1>1, <1>3 DEF LaunchedHolds, KernelOf
  <2>3. pc' = "sync" => \/ Contains(stream[LaunchedHalf], CounterCopy)'
                        \/ (merged = Matches[inflight])'
    BY <1>1, <1>3 DEF LaunchedHolds, CounterCopy
  <2> QED
    BY <2>1, <2>2, <2>3 DEF LaunchedHolds
<1> QED
  BY <1>2, <1>3

(* Kernels and copies of counters run only in the half of the launched     *)
(* kernel.                                                                 *)
LEMMA LaunchedRuns ==
  ASSUME TypeOK, AtHand, StreamOrder, NEW h \in Halves, Len(stream[h]) \in Nat \ {0},
         stream[h][1].kind \in {"kernel", "counter"}
  PROVE  /\ inflight # 0 /\ h = LaunchedHalf /\ pc # "launch"
         /\ stream[h][1].kind = "kernel" => stream[h][1] = KernelOf(inflight)
         /\ stream[h][1].kind = "counter" => stream[h] = <<CounterCopy>> /\ pc = "sync"
<1>1. 1 \in DOMAIN stream[h]
  BY DEF TypeOK
<1>2. inflight # 0 /\ h = LaunchedHalf
  BY <1>1 DEF StreamOrder
<1>3. pc # "launch"
  BY <1>2 DEF AtHand
<1>4. CASE pc = "sync"
  <2>1. stream[h] \in {<<KernelOf(inflight), CounterCopy>>, <<CounterCopy>>, <<>>}
    BY <1>2, <1>4 DEF StreamOrder
  <2>2. stream[h] # <<>>
    OBVIOUS
  <2> QED
    BY <1>2, <1>3, <1>4, <2>1, <2>2 DEF KernelOf, CounterCopy
<1>5. CASE pc # "sync"
  <2>1. stream[h] \in {<<KernelOf(inflight)>>, <<>>}
    BY <1>2, <1>5 DEF StreamOrder
  <2>2. stream[h] # <<>>
    OBVIOUS
  <2> QED
    BY <1>2, <1>3, <1>5, <2>1, <2>2 DEF KernelOf
<1> QED
  BY <1>4, <1>5

(* The operations of the streams leave the launched kernel its task, and   *)
(* bring its counter to the host.                                          *)
LEMMA LaunchedRun ==
  ASSUME IInv, LaunchedHolds, NEW h \in Halves, Stream(h)
  PROVE  LaunchedHolds'
<1>i. TypeOK /\ AtHand /\ StreamOrder
  BY DEF IInv
<1>h. half \in Halves /\ LaunchedHalf \in Halves /\ inflight \in 0 .. NumTasks /\ merged \in Nat
      /\ dev \in [Halves -> [task : 0 .. NumTasks, data : [Places -> Shards \cup {NoShard}],
                             counter : Nat]]
  BY <1>i DEF TypeOK, LaunchedHalf, Halves
<1>u. /\ UNCHANGED <<pc, half, cfg, inflight, task, TaskShards>>
      /\ LaunchedHalf' = LaunchedHalf
  BY StreamsKeepHost DEF hostVars, queryVars, TaskShards, LaunchedHalf, DoubleBuffering
<1>k. PICK kind \in {"shard", "header", "kernel", "counter"} : Run(h, kind)
  BY DEF Stream, CopyShard, CopyHeader, RunKernel, CopyCounter
<1>1. stream[h] \in Seq(Operations) /\ 1 \in DOMAIN stream[h] /\ Head(stream[h]) = stream[h][1]
      /\ stream[h][1] \in Operations /\ Len(stream[h]) \in Nat \ {0}
  BY <1>i, <1>k, RunStream DEF TypeOK
<1>2. CASE CopyShard(h) \/ CopyHeader(h)
  <2>1. stream[h][1].kind \in {"shard", "header"}
    BY <1>1, <1>2 DEF CopyShard, CopyHeader, Run
  <2>2. h = half /\ task # 0 /\ (inflight = 0 \/ h # LaunchedHalf)
    BY <1>i, <1>1, <2>1, CopiesInHalf
  <2>3. inflight # 0 => stream'[LaunchedHalf] = stream[LaunchedHalf]
    BY <1>i, <1>h, <1>k, <2>2, RunStream
  <2>4. inflight # 0 => dev'[LaunchedHalf] = dev[LaunchedHalf]
    <3>1. CASE CopyShard(h)
      BY <1>h, <2>2, <3>1 DEF CopyShard
    <3>2. CASE CopyHeader(h)
      BY <1>h, <2>2, <3>2 DEF CopyHeader
    <3> QED
      BY <1>2, <3>1, <3>2
  <2>5. merged' = merged /\ pc # "launch"
    <3>1. merged' = merged
      BY <1>2 DEF CopyShard, CopyHeader
    <3>2. stream[h][1].kind = "shard" => pc # "launch"
      BY <1>i, <1>1, <2>1, CopiesInHalf
    <3>3. stream[h][1].kind = "header" => pc # "launch"
      BY <1>i, <1>1, <2>1, CopiesInHalf
    <3> QED
      BY <2>1, <3>1, <3>2, <3>3
  <2> QED
    BY <1>u, <2>3, <2>4, <2>5, LaunchedKept
<1>3. CASE RunKernel(h)
  <2>1. stream[h][1].kind = "kernel"
    BY <1>1, <1>3 DEF RunKernel, Run
  <2>2. inflight # 0 /\ h = LaunchedHalf /\ pc # "launch" /\ stream[h][1] = KernelOf(inflight)
    BY <1>i, <1>1, <2>1, LaunchedRuns
  <2>3. Holds(h, inflight)
    BY <2>2 DEF LaunchedHolds
  <2>4. dev[h].task = inflight
    BY <2>3 DEF Holds
  <2>5. dev' = [dev EXCEPT ![h].counter = Matches[inflight]]
    BY <1>3, <2>3, <2>4 DEF RunKernel
  <2>6. /\ dev'[h].task = dev[h].task /\ dev'[h].data = dev[h].data
        /\ dev'[h].counter = Matches[inflight]
    BY <1>h, <2>5
  <2>7. Holds(LaunchedHalf, inflight)'
    BY <1>u, <2>2, <2>3, <2>6 DEF Holds
  <2>8. ASSUME pc = "sync", Contains(stream[h], CounterCopy) PROVE Contains(stream'[h], CounterCopy)
    <3>1. PICK i \in 1 .. Len(stream[h]) : stream[h][i] = CounterCopy
      BY <2>8 DEF Contains
    <3>2. stream[h][i] # stream[h][1]
      <4>1. CounterCopy.kind # stream[h][1].kind
        BY <2>1 DEF CounterCopy
      <4> QED
        BY <3>1, <4>1
    <3>3. i \in DOMAIN stream[h]
      BY <1>1
    <3>4. PICK j \in DOMAIN stream'[h] : stream'[h][j] = stream[h][i]
      BY <1>i, <1>k, <3>2, <3>3, NotRunYet
    <3>5. DOMAIN stream'[h] = 1 .. Len(stream'[h])
      BY <1>i, <1>k, RunStream
    <3> QED
      BY <3>1, <3>4, <3>5 DEF Contains
  <2>9. merged' = merged
    BY <1>3 DEF RunKernel
  <2>10. /\ pc' # "launch"
         /\ (dev[LaunchedHalf].counter = Matches[inflight])'
         /\ pc' = "sync" => \/ Contains(stream[LaunchedHalf], CounterCopy)'
                            \/ (merged = Matches[inflight])'
    <3>1. pc = "sync" => Contains(stream[h], CounterCopy) \/ merged = Matches[inflight]
      BY <2>2 DEF LaunchedHolds
    <3> QED
      BY <1>u, <2>2, <2>6, <2>8, <2>9, <3>1 DEF CounterCopy
  <2> QED
    BY <2>7, <2>10 DEF LaunchedHolds
<1>4. CASE CopyCounter(h)
  <2>1. stream[h][1].kind = "counter"
    BY <1>1, <1>4 DEF CopyCounter, Run
  <2>2. inflight # 0 /\ h = LaunchedHalf /\ pc # "launch" /\ stream[h] = <<CounterCopy>>
    BY <1>i, <1>1, <2>1, LaunchedRuns
  <2>3. ~ Contains(stream[h], KernelOf(inflight))
    BY <2>2 DEF Contains, KernelOf, CounterCopy
  <2>4. dev[h].counter = Matches[inflight] /\ Holds(h, inflight)
    BY <2>2, <2>3 DEF LaunchedHolds
  <2>5. merged' = Matches[inflight] /\ dev' = dev
    BY <1>4, <2>4 DEF CopyCounter
  <2>6. Holds(LaunchedHalf, inflight)'
    BY <1>u, <2>2, <2>4, <2>5 DEF Holds
  <2>7. /\ pc' # "launch" /\ (merged = Matches[inflight])'
        /\ (dev[LaunchedHalf].counter = Matches[inflight])'
    BY <1>u, <2>2, <2>4, <2>5
  <2> QED
    BY <2>6, <2>7 DEF LaunchedHolds
<1> QED
  BY <1>2, <1>3, <1>4 DEF Stream

(* Every step keeps the launched kernel's task in its half. *)
LEMMA LaunchedStep ==
  ASSUME IInv, StagedArrives, LaunchedHolds, [Next]_vars
  PROVE  LaunchedHolds'
<1>i. TypeOK /\ AtHand /\ StagingOrder /\ StreamOrder
  BY DEF IInv
<1>h. half \in Halves /\ LaunchedHalf \in Halves /\ task \in 0 .. NumTasks
  BY <1>i DEF TypeOK, LaunchedHalf, Halves
<1>1. CASE UNCHANGED <<pc, cfg, half, task, inflight, stream, dev, merged>>
  BY <1>1 DEF LaunchedHolds, LaunchedHalf, DoubleBuffering, Holds, TaskShards, KernelOf, CounterCopy
<1>2. CASE UNCHANGED vars
  BY <1>1, <1>2 DEF vars, hostVars, queryVars, deviceVars
<1>3. CASE \/ PopTask \/ PopNothing \/ MakeHeader \/ LoadShard \/ EvictShard
           \/ AllocationFails \/ Report
  <2>1. UNCHANGED <<cfg, half, inflight, merged, stream, dev>>
    BY <1>3 DEF PopTask, PopNothing, MakeHeader, LoadShard, EvictShard, AllocationFails, Report,
       hostVars, queryVars, deviceVars
  <2>2. pc' # "launch" /\ pc' # "sync"
    BY <1>3 DEF PopTask, PopNothing, MakeHeader, LoadShard, EvictShard, AllocationFails, Report,
       Staging, hostVars
  <2> QED
    BY <2>1, <2>2, LaunchedKept
<1>4. CASE StageShard \/ EnqueueHeader
  <2>1. UNCHANGED <<cfg, half, inflight, merged, dev>> /\ task # 0 /\ pc' # "launch" /\ pc' # "sync"
    BY <1>i, <1>4 DEF StageShard, EnqueueHeader, Staging, queryVars, AtHand
  <2>2. inflight # 0 => LaunchedHalf # half
    BY <1>i, <2>1, OtherHalf
  <2>3. PICK op : Enqueue(half, op)
    BY <1>4 DEF StageShard, EnqueueHeader
  <2>4. inflight # 0 => stream'[LaunchedHalf] = stream[LaunchedHalf]
    BY <1>i, <1>h, <2>2, <2>3 DEF Enqueue, TypeOK
  <2> QED
    BY <2>1, <2>4, LaunchedKept
<1>5. CASE NoKernel
  BY <1>1, <1>5 DEF NoKernel, queryVars, deviceVars
<1>6. CASE SynchronizeCopies \/ Account
  <2>1. /\ UNCHANGED <<cfg, half, task, dev, TaskShards>> /\ inflight' = 0
    BY <1>i, <1>6 DEF SynchronizeCopies, Account, AtHand, queryVars, deviceVars, TaskShards
  <2>2. CASE pc' # "launch"
    BY <2>1, <2>2 DEF LaunchedHolds
  <2>3. CASE pc' = "launch"
    <3>1. task # 0 /\ pc \in {"staged", "sync"} /\ Idle(half)
      BY <1>i, <1>h, <1>6, <2>3 DEF SynchronizeCopies, Account, AtHand
    <3>2. Holds(half, task)
      BY <3>1, IdleHolds
    <3>3. Holds(half, task)'
      BY <2>1, <3>2 DEF Holds
    <3> QED
      BY <2>1, <3>3 DEF LaunchedHolds
  <2> QED
    BY <2>2, <2>3
<1>7. CASE Launch
  <2>1. /\ inflight' = task /\ pc' # "launch" /\ pc' # "sync" /\ Holds(half, task)
        /\ Enqueue(half, KernelOf(task)) /\ UNCHANGED <<dev, cfg, TaskShards>>
    BY <1>7 DEF Launch, LaunchedHolds, KernelOf, queryVars, TaskShards
  <2>2. LaunchedHalf' = half
    BY <1>h, <1>7 DEF Launch, LaunchedHalf, DoubleBuffering, queryVars, Halves
  <2>3. Holds(LaunchedHalf, inflight)'
    BY <2>1, <2>2 DEF Holds
  <2>4. KernelOf(task) \in Operations
    BY <2>1 DEF Holds, KernelOf, Operations
  <2>5. Len(stream'[half]) \in Nat \ {0} /\ stream'[half][Len(stream'[half])] = KernelOf(task)
    <3> HIDE DEF KernelOf
    <3> QED
      BY <1>i, <1>h, <2>1, <2>4, EnqueueStream
  <2>6. Contains(stream'[half], KernelOf(task))
    BY <2>5 DEF Contains
  <2>7. Contains(stream[LaunchedHalf], KernelOf(inflight))'
    BY <2>1, <2>2, <2>6 DEF KernelOf
  <2> QED
    BY <2>1, <2>3, <2>7 DEF LaunchedHolds
<1>8. CASE EnqueueCounter
  <2>1. /\ inflight # 0 /\ pc' = "sync" /\ UNCHANGED <<half, inflight, dev, cfg, TaskShards>>
        /\ Enqueue(LaunchedHalf, CounterCopy) /\ CounterCopy \in Operations
    BY <1>i, <1>8 DEF EnqueueCounter, AtHand, CounterCopy, Operations, queryVars, TaskShards
  <2>2. LaunchedHalf' = LaunchedHalf
    BY <2>1 DEF LaunchedHalf, DoubleBuffering
  <2>3. Holds(LaunchedHalf, inflight)'
    BY <2>1, <2>2 DEF LaunchedHolds, Holds
  <2>4. /\ Len(stream[LaunchedHalf]) \in Nat
        /\ Len(stream'[LaunchedHalf]) = Len(stream[LaunchedHalf]) + 1
        /\ \A i \in 1 .. Len(stream[LaunchedHalf]) : stream'[LaunchedHalf][i] = stream[LaunchedHalf][i]
        /\ stream'[LaunchedHalf][Len(stream[LaunchedHalf]) + 1] = CounterCopy
    <3> HIDE DEF CounterCopy
    <3> QED
      BY <1>i, <1>h, <2>1, EnqueueStream
  <2>5. Contains(stream'[LaunchedHalf], CounterCopy)
    BY <2>4 DEF Contains
  <2>6. Contains(stream[LaunchedHalf], KernelOf(inflight))
          => Contains(stream'[LaunchedHalf], KernelOf(inflight))
    BY <2>4 DEF Contains
  <2>7. \/ Contains(stream[LaunchedHalf], KernelOf(inflight))'
        \/ (dev[LaunchedHalf].counter = Matches[inflight])'
    BY <2>1, <2>2, <2>6 DEF LaunchedHolds, KernelOf
  <2>8. Contains(stream[LaunchedHalf], CounterCopy)'
    BY <2>2, <2>5 DEF CounterCopy
  <2> QED
    BY <2>1, <2>3, <2>7, <2>8 DEF LaunchedHolds
<1>9. ASSUME NEW h \in Halves, Stream(h) PROVE LaunchedHolds'
  BY <1>9, LaunchedRun
<1> QED
  BY <1>2, <1>3, <1>4, <1>5, <1>6, <1>7, <1>8, <1>9 DEF Next, Host

(* What no copy, no shard and no kernel was asked for holds at the start. *)
LEMMA InitData == Init => DataInv
<1> SUFFICES ASSUME Init PROVE DataInv
  OBVIOUS
<1>1. \A h \in Halves : stream[h] = <<>> /\ DOMAIN stream[h] = {}
  BY DEF Init
<1>2. PendingCopiesIntact
  BY <1>1 DEF PendingCopiesIntact
<1>3. StagedIsRecent /\ StagedIsCached /\ StagedArrives /\ LaunchedHolds
  BY DEF Init, StagedIsRecent, StagedIsCached, StagedArrives, LaunchedHolds
<1> QED
  BY <1>2, <1>3 DEF DataInv

(* What the copies and the kernels work on is what the host meant them to  *)
(* work on, in both modes, whatever the cache evicts meanwhile: the        *)
(* property the queries rest on that stage without locking anything.       *)
THEOREM DataInvariance == Spec => []DataInv
<1>1. IInv /\ DataInv /\ [Next]_vars => DataInv'
  <2> SUFFICES ASSUME IInv, DataInv, [Next]_vars, TasksFitHost' PROVE DataInv'
    BY DEF DataInv
  <2>1. TasksFitHost
    BY DEF TasksFitHost
  <2>2. PendingCopiesIntact /\ StagedIsRecent /\ StagedIsCached /\ StagedArrives /\ LaunchedHolds
    BY <2>1 DEF DataInv
  <2>3. PendingCopiesIntact'
    BY <2>2, PendingStep
  <2>4. StagedIsRecent'
    BY <2>2, RecentStep
  <2>5. StagedIsCached'
    BY <2>1, <2>2, CachedStep
  <2>6. StagedArrives'
    BY <2>2, ArrivesStep
  <2>7. LaunchedHolds'
    BY <2>2, LaunchedStep
  <2> QED
    BY <2>3, <2>4, <2>5, <2>6, <2>7 DEF DataInv
<1> QED
  BY <1>1, InitData, Invariance, PTL DEF Spec

(* The eviction of the cache never overtakes a copy: although              *)
(* device_manager locks no shard, no slot of host memory is refilled while *)
(* a stream still has to read it, as long as the memory holds the shards   *)
(* of one task.                                                            *)
THEOREM CopiesStayIntact ==
  ASSUME TasksFitHost
  PROVE  Spec => []PendingCopiesIntact
<1>1. DataInv => PendingCopiesIntact
  BY DEF DataInv
<1> QED
  BY <1>1, DataInvariance, PTL

(* The kernel launched by LFTJ_kernel_invoker finds the header and the     *)
(* shards of its own task, also while the next one is staged beside it.    *)
THEOREM KernelsSeeTheirTasks ==
  ASSUME TasksFitHost
  PROVE  Spec => []KernelSeesItsTask
<1>1. IInv /\ DataInv => KernelSeesItsTask
  <2> SUFFICES ASSUME IInv, DataInv, NEW h \in Halves,
                      stream[h] # <<>>, Head(stream[h]).kind = "kernel"
               PROVE  Holds(h, Head(stream[h]).task)
    BY DEF KernelSeesItsTask
  <2>1. TypeOK /\ AtHand /\ StreamOrder /\ LaunchedHolds
    BY DEF IInv, DataInv
  <2>2. stream[h] \in Seq(Operations)
    BY <2>1 DEF TypeOK
  <2>3. Len(stream[h]) \in Nat \ {0} /\ Head(stream[h]) = stream[h][1]
    BY <2>2
  <2>4. inflight # 0 /\ h = LaunchedHalf /\ stream[h][1] = KernelOf(inflight)
    BY <2>1, <2>3, LaunchedRuns
  <2>5. Holds(h, inflight)
    BY <2>1, <2>4 DEF LaunchedHolds
  <2> QED
    BY <2>3, <2>4, <2>5 DEF KernelOf
<1> QED
  BY <1>1, Invariance, DataInvariance, PTL

(* The state is of its declared types in every reachable state. *)
THEOREM TypeCorrect == Spec => []TypeOK
<1>1. IInv => TypeOK
  BY DEF IInv
<1> QED
  BY <1>1, Invariance, PTL

-----------------------------------------------------------------------------
(* One GPU implements the service.                                         *)

(* At the start every task is pending. *)
LEMMA ServiceInit == Init => Service!Init
<1> SUFFICES ASSUME Init PROVE Service!Init
  OBVIOUS
<1>1. head .. NumTasks = Tasks /\ {task, inflight} \ {0} = {}
  BY DEF Init, Tasks
<1> QED
  BY <1>1 DEF Init, Service!Init

(* Popping a task claims it, collecting its counter accounts for it, and   *)
(* the streams and the staging are not seen from outside.                  *)
LEMMA ServiceStep ==
  ASSUME TasksFitHost, IInv, DataInv, [Next]_vars
  PROVE  [Service!Next]_(Service!vars)
<1>i. TypeOK /\ AtHand /\ StagingOrder /\ StreamOrder /\ LaunchedHolds
  BY DEF IInv, DataInv
<1>h. /\ head \in 1 .. NumTasks + 1 /\ task \in 0 .. NumTasks /\ inflight \in 0 .. NumTasks
      /\ half \in Halves /\ LaunchedHalf \in Halves /\ NumTasks \in Nat
  BY <1>i, NumTasksAssumption DEF TypeOK, LaunchedHalf, Halves
<1> DEFINE atHand == {task, inflight} \ {0}
<1>1. CASE UNCHANGED <<head .. NumTasks, atHand, done, total>>
           /\ (status' = status \/ (status # "failed" /\ status' = "failed"))
  BY <1>1 DEF Service!Next, Service!Fail, Service!vars
<1>2. CASE UNCHANGED vars
  BY <1>1, <1>2 DEF vars, hostVars, queryVars
<1>3. CASE PopTask
  <2>1. status = "working" /\ task = 0
    BY <1>i, <1>3 DEF PopTask, TypeOK, StagingOrder, AtHand
  <2>2. head \in Tasks /\ head # 0 /\ head \in head .. NumTasks
        /\ (head .. NumTasks)' = (head .. NumTasks) \ {head}
    BY <1>h, <1>3 DEF PopTask, Tasks
  <2>3. atHand' = atHand \cup {head}
    BY <1>3, <2>1, <2>2 DEF PopTask
  <2>4. status' = status /\ UNCHANGED <<done, total>>
    BY <1>3 DEF PopTask, queryVars
  <2>5. Service!Claim(head)
    BY <2>1, <2>2, <2>3, <2>4 DEF Service!Claim
  <2> QED
    BY <2>2, <2>5 DEF Service!Next
<1>4. CASE Account
  <2>1. status = "working" /\ inflight # 0 /\ inflight # task
    BY <1>i, <1>4 DEF Account, TypeOK, StagingOrder, AtHand
  <2>2. inflight \in Tasks /\ inflight \in atHand /\ atHand' = atHand \ {inflight}
    BY <1>h, <1>4, <2>1 DEF Account, Tasks
  <2>3. merged = Matches[inflight]
    <3>1. Len(stream[LaunchedHalf]) = 0
      BY <1>h, <1>4 DEF Account, Idle
    <3>2. ~ Contains(stream[LaunchedHalf], CounterCopy)
      BY <3>1 DEF Contains
    <3> QED
      BY <1>i, <1>4, <2>1, <3>2 DEF Account, LaunchedHolds
  <2>4. /\ done' = done \cup {inflight} /\ total' = total + Matches[inflight]
        /\ status' = status /\ UNCHANGED (head .. NumTasks)
    BY <1>4, <2>3 DEF Account
  <2>5. Service!Account(inflight)
    BY <2>1, <2>2, <2>4 DEF Service!Account
  <2> QED
    BY <2>2, <2>5 DEF Service!Next
<1>5. CASE Report
  <2>1. head .. NumTasks = {} /\ atHand = {}
    BY <1>i, <1>h, <1>5 DEF Report, AtHand
  <2>2. Service!Report
    <3>1. UNCHANGED <<head .. NumTasks, atHand, done, total>>
      BY <1>5 DEF Report, queryVars
    <3> QED
      BY <1>5, <2>1, <3>1 DEF Report, Service!Report
  <2> QED
    BY <2>2 DEF Service!Next
<1>6. CASE Launch
  <2>1. atHand' = atHand
    BY <1>i, <1>6 DEF Launch, AtHand
  <2> QED
    BY <1>1, <1>6, <2>1 DEF Launch, queryVars
<1>7. CASE \/ PopNothing \/ MakeHeader \/ StageShard \/ LoadShard \/ EvictShard
           \/ AllocationFails
  <2>1. UNCHANGED <<head, task, inflight, done, total>>
    BY <1>7 DEF PopNothing, MakeHeader, StageShard, LoadShard, EvictShard, AllocationFails,
       hostVars, queryVars
  <2>2. status' = status \/ (status # "failed" /\ status' = "failed")
    BY <1>7 DEF PopNothing, MakeHeader, StageShard, LoadShard, EvictShard, AllocationFails,
       Staging, hostVars
  <2> QED
    BY <1>1, <2>1, <2>2
<1>8. CASE EnqueueHeader \/ SynchronizeCopies \/ NoKernel \/ EnqueueCounter
  <2>1. UNCHANGED <<head, task, inflight, done, total>>
    BY <1>8 DEF EnqueueHeader, SynchronizeCopies, NoKernel, EnqueueCounter, queryVars
  <2>2. status' = status \/ (status # "failed" /\ status' = "failed")
    BY <1>8 DEF EnqueueHeader, SynchronizeCopies, NoKernel, EnqueueCounter
  <2> QED
    BY <1>1, <2>1, <2>2
<1>9. ASSUME NEW h \in Halves, Stream(h) PROVE [Service!Next]_(Service!vars)
  BY <1>1, <1>9, StreamsKeepHost DEF hostVars, queryVars
<1> QED
  BY <1>2, <1>3, <1>4, <1>5, <1>6, <1>7, <1>8, <1>9 DEF Next, Host

(* With streams that run late, one pinned header, two halves of the device *)
(* buffer and a cache that evicts, one GPU still counts every task once,   *)
(* with the counter of its own data, and reports a complete total.         *)
THEOREM Refinement ==
  ASSUME TasksFitHost
  PROVE  Spec => Implements
<1>1. IInv /\ DataInv /\ [Next]_vars => [Service!Next]_(Service!vars)
  BY ServiceStep
<1>2. Spec => Service!Init /\ [][Service!Next]_(Service!vars)
  BY <1>1, ServiceInit, Invariance, DataInvariance, PTL DEF Spec
<1> QED
  BY <1>2 DEF Implements, Service!Spec
=============================================================================

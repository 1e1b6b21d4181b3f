# cuMatch in TLA+

cuMatch finds all embeddings of a small query graph in a data graph with one or several GPUs. The
data graph lies on disk in the LGF grid format: for every label a grid of *shards*, each an
adjacency list between two ranges of vertices. A query is cut into *subtasks* (one shard for each
query edge), subtasks are packed into *kernel tasks* that fit in device memory, and the shards of a
task are moved disk -> host cache -> device before a kernel joins them.

This directory holds specifications of the parts of the matcher where orders, limits and links
matter, the TLC runs that check them on small instances, and TLAPS proofs of what holds for every
size: inductive invariants for all the components but the scheduler, and that the two device managers,
the planner and the cache implement their abstract specifications.
Line numbers refer to `src/`. The build defines `NDEBUG` (`CMakeLists.txt:5,23`), so an assertion
of the source is never a guard of an action here; where one is violated it is a finding. The one
exception is `LgfScheduler`: there the assertions are what the program has to say of queries that
it does not support, and the model ends at the first that fails.

## 1. The system

| component | state | operations | talks to |
|---|---|---|---|
| `subgraph_matcher`, `main` | configuration | build all parts, run, destroy | everything, straight-line |
| `simple_parser` | - | JSON query to arrays, each text checked against what was understood | `query_graph` |
| `query_graph` | vertex and edge classes (regular, negative, optional, prefix/postfix) | classify | scheduler, kernels |
| `matching_order_builder` | the order | identity of the query file | scheduler |
| `lgf_scheduler` | order of vertices and edges, a stack of ranges per vertex, tree under construction | two ways to order, recursive search over the shards of the grids | `sched_plan_tree`, kernels |
| `sched_plan_tree` | tracking stack, pending group, cache of the task | `pop_grid_group`, `pop_single_kernel_task`, rebuild of the kernel's tree | `device_manager` |
| `device_manager` | task queue, host cache, header buffers, device buffers, loader thread, `_cv`/`_ready` | `execute_match`, `..._with_double_buffering`, loader, cleanup | all below |
| `lru_cache_controller`, `lru_cache_policy`, `pooling_list` | valid bits, key map, two linked lists on one node pool | add, evict, get, lock, unlock | `device_manager` |
| `kernel_executor` | - | choose and launch a kernel | kernels |
| LFTJ kernels (6), table join kernel, `kernel_aux_tools` | per block: tree position, adjacency chunks, counters | leapfrog join | device memory |
| grid file stream, buddy allocator | files, host memory | only libraries in the repository | `device_manager` |
| `labeled_gridgen`, `csv_relabeler` | - | preprocessing | files |

### What is hard here

* **Threads** (`device_manager.cu:178-258, 788-811`): one OpenMP worker per GPU, a detached loader
  that nobody joins, one condition variable with one flag for all workers, and a cache without a
  lock that all of them use.
* **Streams** (`device_manager.cu:289-430, 658-771`): copies and kernels are enqueued and run
  later; the host goes on to rewrite the header buffer and to evict and overwrite shards.
* **The search for subtasks** (`lgf_scheduler.cpp:394-606`): a recursion with a stack of ranges for
  each query vertex, four kinds of shards for a query edge, and a different test for each kind of edge.
* **Cutting the tree into tasks** (`sched_plan_tree.cpp:48-365`): a preorder scan that is stopped and
  resumed at places that depend on sizes; the kernel's tree is rebuilt for every piece.
* **Linked lists by direct pointers** (`lru_cache_policy.h`, `list_base.h`).
* **The kernels** (`LFTJ_kernel_*.cu`): a walk over a tree of subtasks that is interleaved with a
  depth-first search, with bounded buffers, resumption, buffers replayed for several subtasks, and
  null values that may be given only after the last of them.

PROJECT.json lists each hazard with its line and the properties that watch it.

### What makes each part correct

* `device_manager`: every task is run once by one GPU, on its own task's complete data; its counter
  is added once; the total is printed when nothing is left; the query ends.
* `sched_plan_tree`: every leaf of the scheduling tree goes into exactly one task, in order; a task
  fits on the device; the tree given to the kernel has exactly one full path for every subtask.
* cache: unlocked shards are given up in the order of their last use; lists and map always agree.
* `lgf_scheduler`: every way to serve a match of the query by shards is one subtask, once, and
  the tree has no dead ends; what was preloaded suffices for it.
* kernels: the counter is the number of matches in the shards of the task, whatever the number of
  blocks and the size of the buffers.

## 2. Modules

| module | what it is |
|---|---|
| `MatchService` | abstract: a queue of tasks, each run once and accounted once, then the total is reported |
| `MultiGpu` | `device_manager` with several GPUs: workers, loader, condition variable, unprotected cache, cleanup. Implements `MatchService` |
| `GpuPipeline` | `device_manager` with one GPU: staging, streams, double buffering, eviction. Implements `MatchService` |
| `TaskStream` | abstract: a sequence of subtasks is cut, in order, into tasks that fit |
| `SchedPlanTree` | `sched_plan_tree` and the planning loop. Implements `TaskStream` |
| `LruPolicy` | abstract: an LRU queue of the unlocked keys |
| `LruCache` | `lru_cache_controller`, `lru_cache_policy` and the pointers of `pooling_list`. Implements `LruPolicy` |
| `JoinCount` | abstract: every match of a task is counted once, then the kernel ends |
| `JoinWalk` | the walk of a block over the tree of subtasks, common to all join kernels |
| `LFTJKernel` | the six kernels for regular, negative and optional edges and constraints: what is done at a vertex |
| `TableJoin` | the table join kernel: what is done at an edge |
| `KernelExecutor` | the choice of the kernel, and the composition of the three. Implements `JoinCount` |
| `QueryGraph` | `simple_parser` (edges) and `query_graph` as operators |
| `LgfScheduler` | `subgraph_matcher` up to the plan: parsing, query graph, preload, matching order, both schedules and the search for subtasks |
| `MC...` | instances for TLC |
| `MultiGpu_proofs`, `GpuPipeline_proofs`, `LruCache_proofs`, `SchedPlanTree_proofs`, `KernelExecutor_proofs`, `LgfScheduler_proofs` | the theorems about the module of that name |
| `SetLemmas`, `SequenceLemmas` | lemmas the proofs share: ranks, least elements and sums over finite sets, folds and flattening of sequences |

`MatchService` is the interface at which the two device managers agree: the same promise is shown
for one GPU (with streams and eviction) and for several (with threads and the loader). `TaskStream`
is what the planner hands to either. `LruCache` justifies the `lru` sequence of `GpuPipeline`.
`JoinCount` is what a task's counter means, which the device managers add up; `JoinWalk` takes the
tree of a task as `SchedPlanTree` shows it to be (`EveryPathIsAMatch`, `NodesAreChoices`), and
`SchedPlanTree` takes its tree as `LgfScheduler` shows it to be (`NoDeadEnds`, `LevelsFollowOrder`).
So the chain from the query file to the number printed is: `LgfScheduler` (each match is served by
one subtask), `SchedPlanTree` (each subtask goes into one task), `GpuPipeline` or `MultiGpu` (each
task is run once on its own data), `KernelExecutor` (each match in a task is counted once).

### MultiGpu and the code

`pc[g]` is the place of the worker of GPU g, `ldPc` that of the loader, `phase` the main thread's:
`listing` is `_make_shard_list`, `running` the parallel region, `reported` after the printing,
`cleaned` after `~device_manager`; `ready` is `_ready`, to which the constructor gives no value: both
are initial; `exited` is `exit(1)`, and `undefined` is reached when the program
has dereferenced null, has used the deleted cache, or has raced inside the LRU policy. One action is
one step between accesses to shared state: the test of a shard outside the lock (`TestShard`), the
predicate and the sleep under `_load_mutex` (`ConsumeReady`, `FallAsleep`), the two halves of `get`
(`BeginGet`, `EndGet`) and of `add` (`LoaderPublish`, `LoaderBeginRegister`, `LoaderEndRegister`).
The cache has no lock, so a data race is possible; the model records it in `raced` and allows the
program to fail from then on. What is shown of later states is shown of the executions in which the
race did no harm. With one constant (`DoubleBuffering`) the module is either of the two loops.

### GpuPipeline and the code

`stream[h]` holds the operations enqueued on a CUDA stream and not yet run; a copy reads its source
when it runs. `dev[h]` is a half of the device buffer (the plain loop uses one). `slotOf`, `mem` and
`lru` are the host cache. A kernel that finds anything but the header and the shards of its task
counts nothing, so that every confusion of data shows in the total. `cfg` chooses the plan, the
mode, what was preloaded, and which way the query may fail.

### SchedPlanTree and the code

`stk` is `_tracking_stk`, `tmp` is `_tmp_group_info`, `group` is `_grid_group_ptr`; `used`, `total`,
`subtasks`, `infos` belong to the task being filled, and `tree` is the tree the kernel gets. One
action is one round of a loop of the code. `cfg` holds the shape of the query and the tree itself,
as the set of its leaves. `infos` are the entries of `_tree_info_vec`; closing a task hangs them one
by one into `tree` (`AddInfo`): the stack is popped down to the nodes above the entry, and the
vertices without edges of their own (`Followers`) get a node each, one below the other.

### LruCache and the code

Nodes are model values; `mem` holds their `prev`, `next` and `value`, the pool, and for both lists
the tail and the size; `ptr` is `_ptr_map`. The actions are the operations of
`lru_cache_controller` with everything they call.

### JoinWalk, LFTJKernel, TableJoin and the code

The six kernels differ in the branches for constraints, negative and optional edges; one module has
all branches, and the query decides which are taken. Query vertices are numbered from 1 in the matching
order, so `dep` is the code's plus one. `node` is `tree_node_id`, as the set of the subtasks below
the node; `subtask` is `subtask_id`, whose shards `shard_idxs` holds; `child`, `finish`, `resume`,
`rslt`, `im` and `todo` are `sched_tree_child`, `is_finish`, `state`, `rslt` and `im_data` up to
`tmp_im_size` and up to `im_size`. `arr` and `pivot` are the windows (`flip24_arrs`,
`min_iter_per_shard`, `max_iter_per_shard`) and the shortest list; `rest` is what the pivot's window
has left. A window knows the element it starts at, because the binary search of the code looks at
one even when the window is empty. `left` is a history variable: the matches, by definition, that
were not counted yet.

`empty` is `is_null_value`. The code has a flag for each place of the buffer above; the model has the
data vertices of that buffer whose flag is set, which is the same since a buffer holds no vertex
twice. The flags of a vertex are set when the buffer above is filled (`Flagged`), cleared by a
candidate (`Cleared`), and looked at when nothing is left of the pivot in the last group below the
parent (`IsNull`): then the buffer becomes one null value (`WithNull`). `Level` says at which vertex
the scheduler chooses the shard of an edge, which is what the last group depends on. The order of
the matches is that of an outer join: `Matches` extends a partial match by a null value exactly when
it has no extension in any subtask.

`OptionalAssumption` states what the tasks of the model leave out: a vertex before an optional one
with a single list longer than the row of flags. The code does not keep to it (see below).

The table join kernel has the same walk over query edges instead of vertices, which is why the walk
is a module of its own. `rows` is what is left of the sources of a shard; a source that an earlier
edge matched is looked up instead (`JoinSource`), and a destination that was is compared (`Matching`).
`TableAssumption` leaves out first shards with a single source (see below).

Threads of a block run in step between barriers. Read for the races this hides: the only variable
that one warp writes while another may still read it is `subtask_id` (`LFTJ_kernel_basic.cu:320`
against `:456`, after the `break`), and what is read there is read again after the next barrier.
The race of the threads for places in the buffer is kept: `Descend` takes any vertex of the buffer.
Blocks share nothing but the counter and are run one after the other.

### QueryGraph, LgfScheduler and the code

An input is a query (names, labels, the texts of the edges as prefix, arrow and names), a data graph
(the grid rows of each label, and the leaves of each grid block with their ranges and data edges),
and the modes. `phase` is how far `subgraph_matcher` is. `Reading` is the tokenizer and the case
distinction of `_parse_query_edges_data`; a text is refused when it is not what was understood.
`edges`, `optional`, `order`, `edgeOrder` are `_edges_info`, `is_optional`, `_order`, `_edge_order`.
The recursion of `_iterate_sub_task` is laid out in steps: `path`, `valid` and `cursor` are its
frames (the node, its flag, and how far the loops are), `ranges` and `grid` are `_range_rslt`.
`Skip` and `Enter` are the two outcomes of `_chk_grid_range` and `_push_range_rslt`; `Found` and
`Return` go back (`Back`: the node is kept if valid, the ranges are popped). `tree` has the nodes
that were added to their parents and `plan` the subtasks. `Candidates` are the shards of an edge in
the order of the loops, with the four cases of out-shard or in-shard and the transposed block of an
undirected edge.

What a shard holds is told, in the properties, from its data edges and from the rule that kernels
look it up by the earlier vertex (`Serves`), not from the operators of the search, so a shard taken
in the wrong direction or a range compared with the wrong end shows.

## 3. Runs

| run | shows | bounds |
|---|---|---|
| `MultiGpu_stream` | the inductive invariant of the proofs; kernels have their shards; null nodes only in the window of `add`; no use of the deleted cache; complete total; refinement of `MatchService`; the query ends in every execution in which never two workers wait at once | 2 GPUs, 3 tasks, 3 shards |
| `MultiGpu_lost_wakeup` (violation) | with two waiting workers it may hang | 2 GPUs, 2 tasks |
| `MultiGpu_cleanup_race` (violation) | with preloaded shards the loader uses the deleted cache | 2 GPUs, 2 tasks |
| `GpuPipeline_all` | the two inductive invariants of the proofs; pending copies are intact, kernels see their task, header and cache are consistent, refinement, the query ends | every plan of 3 tasks over 3 shards, host for 2 |
| `GpuPipeline_small_host` (violation) | a host smaller than a task overwrites pending copies | 2 tasks, host for 2 of 3 shards |
| `SchedPlanTree_all` | the inductive invariant of the proofs; refinement of `TaskStream`, the kernel's trees, what is staged, when planning stops short, termination | all 255 trees over 3 edges with 2 shards each, 5 shapes, several device sizes; a limit on shards that ends tasks of a triangle and of the query with optional vertices at every first vertex |
| `SchedPlanTree_asserted` (violation) | a too large subtask becomes a task | all trees, 18 bytes |
| `LruCache_policy` | the inductive invariant of the proofs; both lists, the pool and the map agree; refinement of `LruPolicy` | 3 keys, 5 nodes, 2 locks each, sizes modulo 4 |
| `LgfScheduler_all` | every way to serve a match is one subtask; no dead ends, ranges belong to the path, order of levels, the preload suffices, undirected edges are regular, planning ends | 15 queries of 2 to 4 vertices, 5 of them refused, attribute joins with and without preload, 3 grid rows of 4 addresses, blocks of 1 or 2 leaves |
| `KernelExecutor_all` | the inductive invariant of the proofs; every match counted once (`JoinCount`), null values only without candidates, shards and node agree, partial matches are partial matches, termination | 11 queries and 5 table joins of 3 or 4 vertices, 55 data graphs on 4 vertices in 2 ranges, all combinations of ranges as subtasks, buffers of 1 and 2, 2 parts, 3 blocks |
| `KernelExecutor_negative_resume` (violation) | a negative edge with a constraint, resumed, loses a match | 1 task of 4 vertices, buffer of 1 |
| `KernelExecutor_optional_chain` (violation) | an optional edge from an optional vertex, over two ranges, counts a match twice | 1 task of 2 subtasks |

Why the bounds are enough. Two workers are needed for any conflict between workers and three tasks
so that one worker takes a second task while another holds one; two tasks share shards in different
order, one does not. In `GpuPipeline` two slots for three shards force an eviction in nearly every
plan, and all plans of one or two shards per task are tried. The trees of `SchedPlanTree` have up to
eight subtasks, two first vertices, and shards shared between edges and between subtasks; device
sizes are chosen below, between, and above the sizes of subtasks; 17 tree nodes are few enough for
the kernel's table to overflow. With three keys a list has a first, a middle and a last node, and
with sizes modulo 4 the longest list has the largest size. The
queries of `KernelExecutor_all` have vertices with one, two and three lists, negative edges and
constraints in the middle and at the end; with a buffer of one every list is resumed, and with all
combinations of ranges every vertex but the last has several groups below it. No query of that run
has a constraint and a negative edge at the same vertex in the middle, and none an optional edge
from an optional vertex: the violation runs show why. Optional vertices have one or two edges, are
last or followed by another one, and with `OptionalTwice` (all vertices in one range, a buffer of one)
an optional vertex finds its first candidate only after its buffer was refilled.

The table joins are a path, two cycles, and two orders in which an edge does not touch the earlier
ones. The data graph of `LgfScheduler_all` has quadrants whose actual ranges are disjoint, overlap,
and touch in one address, blocks that are missing, and rows that only one end can be in; the queries
have both arrows, an undirected edge within a label and between two, a negative edge that a later
edge touches and one that none does, optional edges in both directions, and vertices without edges
of their own before others with edges. Refused are a negative undirected edge, a vertex without
edges, an order with an optional vertex too early, a table join of one edge, and a query without
any candidate.

`CHECK_DEADLOCK FALSE` is set where the program ends (all but the cache) or stops when every key is
locked (the cache).

**Fairness.** `MultiGpu`: every thread that can run does; they are threads of the operating system,
and there are at least as many OpenMP threads as GPUs. Wakeups without a cause are allowed, never
assumed. `GpuPipeline`: the host thread, and each stream by itself, since CUDA orders operations
only within a stream. `SchedPlanTree`, `LgfScheduler`: sequential loops. `KernelExecutor`: the blocks of a launched kernel run to their end.

## 4. Proofs

Every theorem holds for all values of the constants that satisfy the assumptions of the modules:
any number of GPUs, tasks, shards, keys, any tree, any query and data graph, both modes. The
assumptions say of which type the constants are, and what the code makes sure of before the
modelled part begins (`ConfigsAssumption`: a scheduling tree has leaves, all of them on the last
edge level; `LevelsAssumption`: edges are scheduled vertex by vertex, in the order of
`_make_LFTJ_schedule` (`lgf_scheduler.cpp:80-121`), or each by itself in a table join; a query without
any regular edge, `query_graph.cpp:98`, is not of that form; `TasksAssumption`: a query edge goes from an earlier to a later vertex, every vertex has a
list to take candidates from, a table join has more than one edge; `TableAssumption`: a shard has
edges, the first shard of a table join two sources; `NodesAssumption`: the cache has a node for each key and two sentinels;
`SizeAssumption`: `size_t` can count the nodes; `InputsAssumption`: every label has grid rows, a
leaf of a block has edges, all within its ranges, no edge is in two leaves of a block, and a table
join has regular edges only, `kernel_executor.cu:80`). Some theorems have a hypothesis of their own, which is
named below with the run, or the change to one, that shows what happens without it.

In each module `IInv` is the inductive invariant and `Invariance` is `Spec => []IInv`; TLC checks it
in the passing run, except that of `LgfScheduler` and the stronger one of the kernel's trees
(`BuildInv` in `SchedPlanTree_proofs`), where the runs check the properties they imply. The proofs have one lemma for each action or each part of it.

### `MultiGpu_proofs`

* `KernelsHaveTheirShards`: no kernel is launched before all shards of its task are in host memory.
* `TotalsAreComplete`: the total that is printed is the sum of the counters of all tasks.
* `NullNodes`: a null node enters the policy's map only in the window inside `add()`.
* `LoaderIsThrough`: when nothing was preloaded the loader does not use the cache after it was
  deleted. `MultiGpu_cleanup_race` shows the case with preloaded shards.
* `Refinement`: `Spec => Service!Spec`.

`WorkerTasks` ties the program counter of a worker to the tasks it has; `OnePlace` says a popped
task is in one place (staged by one worker, launched by one worker, or done); `TotalOfDone` that the
total is the sum over the done tasks; `ListedOnce` and `LoaderPosition` describe the loader's list
and how far it is; `BehindLoader` says that everything registered was there at start or is behind the
loader; `Staged` says that what a worker has passed is registered; `ValidKnown` and `AfterReport`
connect the valid bits with the map and the end of the workers with the loader. The longest argument
is that of `LoaderIsThrough`: at the report all tasks are done (`OnePlace`), so all their shards are
registered (`Staged`), so all listed shards are (`ListedOnce`), so they are behind the loader
(`BehindLoader`), which is therefore through. With preloaded shards the second last step fails.

### `GpuPipeline_proofs`

* `HeaderIsRead`: the header buffer is rewritten only when no stream has still to read it.
* `CacheStaysConsistent`: slots and free list agree, whatever is loaded, used and evicted.
* `DataInvariance`, `CopiesStayIntact`, `KernelsSeeTheirTasks`: with host memory for the shards of
  one task (`TasksFitHost`) a slot is never refilled while a copy from it is pending, and a kernel
  finds the header and all shards of its task.
* `Refinement`: under the same hypothesis, `Spec => Service!Spec`.

`IInv` is about control and holds for any host size: `AtHand` (which tasks the host has at each
place), `StagingOrder` (how far the one being staged is), `StreamOrder` (the launched half has only
its kernel and the copy of its counter, the other only copies of the task being staged), and
`CacheConsistent`. Data is safe although nothing locks a shard, for this reason: while a task is
staged its shards are the most recently used (`StagedIsRecent`); a shard is evicted only when all
slots are taken; if the one evicted belonged to the task, all cached shards would, so the task would
need more shards than there are slots, by counting. So staged shards stay cached (`StagedIsCached`)
and the copies from them intact (`PendingCopiesIntact`); what was staged arrives (`StagedArrives`); at
the launch all is on the device (`LaunchedHolds`), and nothing is copied to that half until the
counter was read. `GpuPipeline_small_host` violates `TasksFitHost`, and the property.

### `LruCache_proofs`

* `Invariance`, `ListsStayLinked`, `NodesStayAccounted`: after any sequence of operations both lists
  are linked in both directions, closed, as long as their sizes say, and every node is a sentinel,
  in the pool, or the node of exactly one key; no size wraps.
* `Refinement`: `Spec => Policy!Spec`.

`NodesOf` reads a list off the pointers, so nothing is said by a history variable. The lemmas show
that `EmplaceBack` appends to that sequence and `RemoveNode` takes one element out of it (the three
cases of the code: first, last, in between), that a sequence linked by the pointers is the one
`NodesOf` reads (`Linked` determines it), and the rest follows for sequences. A free node exists
whenever `Add` needs one because the nodes of the valid keys and the sentinels are fewer than all
nodes.

### `SchedPlanTree_proofs`

* `StagedIsNeeded`: the shards of a task are those of its subtasks, once each.
* `Refinement`: `Spec => Stream!Spec` when the shards of one subtask fit in the 32 bits of
  `required_size` (`NothingWraps`). With a `SizeModulus` of 16 instead of 1000 TLC finds a task in
  `SchedPlanTree_all` that outgrows the device.
* `StopIsForMemory`: the plan is cut short only before a subtask that does not fit in the device,
  under the same hypothesis and with a table of at least ten tree nodes (`MaxNumTreeNodes` is 500).
* `PathsAreMatches`, `NodesChoose`: `EveryPathIsAMatch` and `NodesAreChoices` hold in every behaviour
  with `BreaksAtFirstVertex`, that is, if a task of a query with optional vertices is broken off at
  the first vertex only. The code asserts this; a query without optional vertices satisfies it
  whatever happens (lemma `BreaksAnywhere`). With `TightOptional` instead of `AllConfigs` in
  `SchedPlanTree_all` TLC finds a break inside a first vertex, and violates `EveryPathIsAMatch`.

The argument of the refinement is about the order of the leaves. `ScanInOrder` says that every entry of the stack is
the child last visited of the entry below it. `ToVisit` are the leaves that some entry still has
before it. Going down from the deepest entry that is not exhausted takes exactly the least leaf, or
the way to it, out of `ToVisit`, and popping an exhausted entry takes none. `VisitedInOrder` says that what is in
the tasks, in the task being filled, in the group to be decided upon, and in the group being
collected is, one after the other, the leaves that are not in `ToVisit`, each before the next and
before all that are to come. So when a task is closed its subtasks are the next ones of the sorted
leaves: by their ranks, which a sorted prefix determines. `RoomIsCounted` is the other half: `used`
covers the shards of the task, and with more than one subtask it stays below the capacity. The code
counts `required_size` from what the task does not have yet; each shard is added once
(`StagesWhatItNeeds`), so the sum over the set of shards is at most what was counted. `Refused` is what
`StopIsForMemory` needs: the plan ends at an empty task, an empty task is not nearly full of anything, so
the group it refused was too large by itself, and by its place among the visited that group is the next leaf.

`BuildInv` is the invariant of the kernel's trees. It follows a subtask from the scan to its path:

* A group has the edges of one vertex (`ScanGroups`). The one that is collected next goes on below the
  one returned, at the next vertex with edges, or, after a leaf, begins at the first vertex at which
  its way differs from the last subtask (`TmpComesNext`, `Differ`).
* So the entries of a task follow each other in the same way (`EntriesFollow`, `FillInv`): from the
  first vertex down to the first leaf, then from where the next subtask differs, and so on. At the
  opening of a task the code writes an entry for *every* level down to the group; if that is one of
  the first vertex, or there are no optional vertices, no follower is among them. This is where
  `BreaksAtFirstVertex` is used (`PendingInv`).
* While the entries are hung (`HangInv`), `TreeInv` gives every node a depth, `at`, which is that of its
  parent plus one, and says that the stack is the way to the last node. The next entry is hung
  below a node one vertex before its own (`Popped`), and the followers below each other; nodes
  between a parent and its child are at least as deep as the child.
* When all are hung the tree is whole (`IsWhole`). The deepest nodes are the ends, and the number of the
  subtask grows by one after each of them, so each subtask has exactly one (`TipsAreSubtasks`). The
  way to a node is as long as its depth (`AncestryLeads`), so a path has a node for each vertex. The
  recursion over the nodes is shown to define something (`LinesExist`), and is then used by its equation.
* Subtasks change, as the nodes are made, where the next one differs; so those below a node agree up
  to its vertex (`BelowAgrees`), and of two nodes below one parent the later begins another choice
  (`SiblingsDiffer`): subtasks are in order, so a choice that was left does not come back.

### `KernelExecutor_proofs`

* `Invariance`: in all kernels `child`, `finish` and `dep` describe a path of the tree of subtasks
  from the root to the node at work, and the shards held are those of its first subtask, or of the
  group the buffer is replayed for.
* `ShardsAreOfTheNode`: wherever a kernel comes back to, the shards it holds are those of its node.
* `TypeCorrect`: buffers, flags and positions keep their bounds.
* `PrefixMatches`: `PrefixIsPartialMatch` holds whenever `ConstraintsCompared(task)`.

`OnPath` is the invariant: the buffers below the node are as they were, those above are open, and
each `child` leads to the next node. Leaving a level restores it because nodes are classes of an
equivalence (to use the same shards for the first d levels) that gets finer with d.

`TypeInv` adds what the buffers hold: only a buffer full is kept when it will be filled again
(`resume`), flags are set for candidates of the buffer above only, and the condition that sends a long
list through the buffer (`Taken`) keeps the candidates before an optional vertex within the row of flags.

`MatchInv` is about the triejoins. `Fits(d, v)` says that v agrees with the vertices before level d in
every edge that ends there, in its constraints, and is in the range of every subtask below the node.
All candidates of an open buffer fit, those that were used and put back for the next group
included, and so do the matched vertices. A buffer that is filled again needs `ListsKept`: its windows
are still those of its node and of the vertices before it, the pivot is their shortest, and the rest
comes from the pivot's. One lemma for each kernel's way to fill a buffer (six for the first time, six for
again) says that what it takes from the pivot's list is in the other lists, and not in the negative
ones. A buffer is replayed for all groups below its node, so its candidates fit every one of them: the
subtasks of a node share the shards its level was joined in. `TableInv` is the same for the table join,
edge by edge.

`ConstraintsCompared` is the one condition: in a pattern with optional edges every constrained vertex
before the last one has two lists. It excludes just the case named in 5 below
(`LFTJ_kernel_optional_constraint.cu:743-755`), where the constraint is not looked at; edges and
ranges are right there as well. The tasks of `KernelExecutor_all` satisfy it.

### `LgfScheduler_proofs`

* `UndirectedStayRegular`: no undirected edge that is negative or optional passes the parser.
* `Preparation`: what parsing, query graph, preload and order leave for the next phase (`Prepared`).
* `LevelsStayInOrder`: every vertex and every edge is chosen once, in the order the kernels expect.
* `MatchesArePlanned`: each way to serve a match by shards is exactly one subtask.
* `TreeIsOfSubtasks`: the tree has the nodes of the subtasks and no others.
* `RangesAreOfThePath`: however often the search has gone back, the range and the row of a vertex
  are those the shards on the way give.
* `PlansAreLoaded`, `TypeCorrect`: what a subtask has was preloaded, and exists.

Both schedules are sorted by keys, so `Sorted` is characterised by ranks: an element stands where the
number of smaller ones says, and so each stands once. `OrderFacts` is what both schedules have
in common, `EdgesInTurn` what only the attribute join has. A candidate is a leaf of the edge's block
or, for an undirected edge, of the transposed one; `OffersListed` and `OffersAreSound` say
that the candidates are the leaves, each once, and `ServingIsOffered` that the shard of a served
match is one of them.

`Searched` is the invariant of the search. `Place`: there is a candidate for each edge on the way,
and a cursor for one more. `Behind(w)` orders the ways by their cursors: w was passed. `Plans`: every
subtask is a way that is behind, and no way is there twice, since each step puts only one way behind
(`Found`) or ways without a subtask. `Nodes`: the tree has the nodes of the subtasks, less those on
the way whose `valid` is still to be handed to the parent. `Spans`: ranges and row of a vertex come from the
candidates on the way that have it. `Complete`: no way that admits a match is behind without a
subtask. The last needs `Spans`: if `Skip` passed a candidate of such a way, the data vertices of
the match would lie in ranges that were found not to meet, or in another row; but they do lie in all
the ranges so far, since an edge that a later one touches (`TouchedLater`) serves a match only within the
actual ranges of its shard. At `planned` every
way is behind, so `Plans` and `Complete` together give `EveryMatchPlannedOnce`.

### Only model-checked

* All liveness (`Terminates` of each module, `EndsUnlessTwoWait`): the prover has no rules for
  fairness over ENABLED.
* The refinement of `JoinCount` in `KernelExecutor`: that every match is counted, and once, needs an
  invariant about the matches that are still to come from each buffer, and is false for two kernels
  (findings 5 and 6), so it depends on the instance.

## 5. What the models found

PROJECT.json quotes the statements of the repository that are violated.

1. *A lost wakeup* (`device_manager.cu:729-735, 805-809`). One flag, `notify_one`, and workers that
   wait for different shards.
2. *A detached loader uses the deleted cache* (`device_manager.cu:181, 796, 925`) in in-memory mode.
3. *Copies from shards that were evicted* (`device_manager.cu:719, 739`) when the host holds less
   than one task; nothing locks a shard while its copy is pending.
4. *A task larger than the device* (`sched_plan_tree.cpp:112-130`): the group that opens a task is
   not compared with the capacity.
5. *Lost matches* (`LFTJ_kernel_negative_constraint.cu:455-463`): when the buffer of a vertex with a
   constraint is filled again, an empty list of a negative edge is searched like any other.
6. *Matches counted twice* (`LFTJ_kernel_optional.cu:383, 440`): the groups of an optional vertex
   whose edge comes from another optional vertex hang below different nodes, and each of them is a
   "last" one that may give a null value.

Seen while modelling, with no run of their own:

* `add()` sets the valid bit before the key is in the LRU map (`cache_controller.h:105-106`); a
  worker's `get()` in between inserts a null node. `NullNodeOnlyWhileRegistering` is the exact extent.
* `required_size` is 32 bits wide (`sched_plan_tree.cpp:138`); `SizeModulus` narrows it, and with a
  modulus that sums exceed `Implements` fails.
* A shard of two edges of one subtask counts twice in `required_size` (`:140-146`), so planning may
  stop for lack of memory that is there; `StopsShortOnlyForMemory` states what does hold. The query
  then reports an incomplete total, as `device_manager.cu:172` takes zero for the end.
* A task of a query with optional vertices is also broken off inside a first vertex
  (`sched_plan_tree.cpp:150`), when the device memory is full. The assertion two lines below says that it
  is not, but the program is built with `-DNDEBUG`. The next task opens with an entry for every vertex
  level down to the group (`:112-115`), and vertices without edges of their own get a node both from
  their entry and as followers (`:283-296`): with subtasks of 16 and 20 bytes, an edge with an optional
  path of two edges, and 25 bytes of memory, a path of the kernel's tree has five nodes for four vertices.
* `get()` of a locked key would unlink it from the wrong list (`lru_cache_policy.h:64-68`). Nothing in
  the repository locks a shard, so it does not happen; `Get` of `LruCache` has it as its guard.
* The preload loop looks at `_edges_info[j]` with j the direction (`device_manager.cu:126`):
  `PlanIsLoaded` has the condition under which that does no harm.
* The search narrows ranges by the shard of a negative or optional edge as by that of a regular one
  (`lgf_scheduler.cpp:591-598`). An edge that comes later is pruned by them, and matches are lost: a
  triangle whose negative edge is searched second. `EveryMatchPlannedOnce` says what remains true:
  assignments within the actual ranges are planned, and all are when no later edge touches the ends.
* The search passes the largest ranges of the transposed block for the wrong ends
  (`lgf_scheduler.cpp:498-501`); they matter for negative and optional edges only, and those the
  parser does not accept undirected (`UndirectedAreRegular`).
* When `_init` returns false the destructor of `subgraph_matcher` deletes pointers that were never set.
* A table join whose first shard has one source divides it into parts of size zero
  (`table_join_kernel_basic.cu:93`), and every block joins the source.
* `is_join_vertex` and `edge_type_list` are indexed beyond their room (`lgf_scheduler.cpp:211, 347`).
* The condition that sends a long list through the buffer looks for a next vertex that is *not*
  optional (`LFTJ_kernel_optional.cu:76`); before an optional vertex a long list is not buffered and
  the flags are indexed beyond their row (`:255, :454`).
* In the optional kernel with constraints a constrained vertex in the middle with a single list is
  taken without looking at the constraint (`LFTJ_kernel_optional_constraint.cu:743-755`): the inner
  `continue` continues the wrong loop. `kernel_executor.cu:58` calls the kernel unstable.
* `query_graph.cpp:98` marks only the source of an optional edge when neither end has a regular edge.
* `sched_tree_prv_size` is one entry short (`LFTJ_kernel_optional.cu:239, 322`).
* Staging rounds shards up to a sector, planning does not (`device_manager.cu:746`).

## 6. Not modelled, and the plan

Not modelled:

* The grid file stream and the buddy allocator exist only as binaries (`lib/libgstream.a`,
  `lib/libash.a`): loading a shard is one step, an allocation succeeds when there is a slot.
* `labeled_gridgen` is a command line around such a library; what it writes (which leaves a block
  has, with which ranges) is an assumption on the inputs of `LgfScheduler`.
* `csv_relabeler` is a separate tool that reads and writes text files in one pass.
* JSON, the texts of vertices and constraints, and the program's options: input checks without
  state. Debug printing.
* The byte layout of header and device buffer (`device_manager.cu:434-656`): the models say which
  data is copied when and where to, in units of shards and headers. The rounding to sectors, and
  what an index beyond an array hits, are outside of them.
* What a build without assertions does with a query that is not supported.

Composition stays at interfaces: a run of all modules together would multiply the states without a
step that the neighbours do not already see, since each phase ends before the next begins (plan, then
tasks, then kernels for each task).

Next is one more proof: in `KernelExecutor`, the refinement of `JoinCount` for patterns without
negative and optional edges.

------------------------------ MODULE TableJoin ------------------------------
(***************************************************************************)
(* MJ_kernel_basic, the table join kernel: the query edges are matched one *)
(* after the other.  For each edge the kernel goes through the source      *)
(* vertices of its shard, unless the source was matched by an earlier edge *)
(* (a join vertex), and through their destinations a buffer full at a      *)
(* time; a destination that is a join vertex is compared with its match.   *)
(* The sources of the first edge are divided among the blocks.             *)
(***************************************************************************)
EXTENDS JoinWalk

(* There is a table join kernel for normal patterns only; no shard of a    *)
(* subtask is empty, since only shards with edges are stored; and its      *)
(* first shards have two sources: with one, every block would count it     *)
(* (Share).                                                                *)
TableAssumption ==
  \A k \in Tasks : k.join = "TABLE" =>
    /\ \A e \in DOMAIN k.edges : k.edges[e].kind = "regular"
    /\ \A v \in DOMAIN k.apart : k.apart[v] = {}
    /\ \A t \in DOMAIN k.subtasks : \A e \in DOMAIN k.edges : \E p \in k.edges[e].data :
         p[1] \in k.subtasks[t][k.edges[e].lo] /\ p[2] \in k.subtasks[t][k.edges[e].hi]
    /\ \A t \in DOMAIN k.subtasks :
         Cardinality({p[1] : p \in {q \in k.edges[1].data :
           q[1] \in k.subtasks[t][k.edges[1].lo] /\ q[2] \in k.subtasks[t][k.edges[1].hi]}}) > 1

ASSUME TableAssumption

(* is_join_vertex: an earlier edge matched the vertex. *)
IsJoinVertex(v) == \E e \in 1 .. dep - 1 : v \in {Edge(e).lo, Edge(e).hi}

SourceJoins == IsJoinVertex(Edge(dep).lo)
DestJoins == IsJoinVertex(Edge(dep).hi)

Sources == Rows(Shard(dep, subtask)).list

Destinations(u) == AdjList(Shard(dep, subtask), u).list

(* Mutant: the match of a join vertex is not compared. *)
MatchingAny(list) == list

(* The destinations that agree with the match so far. *)
Matching(list) == {v \in list : DestJoins => rslt[Edge(dep).hi] = v}

(* The sources of the first edge for this block; the divisor counts the    *)
(* last index, and an end before the first index wraps around.             *)
Share(list) ==
  LET last == Cardinality(list) - 1
      gap == (last + task.maxBlocks - 1) \div task.maxBlocks
      end == IF gap = 0 THEN last ELSE gap * block - 1
  IN  {u \in list : gap * (block - 1) <= Rank(u, list) /\ Rank(u, list) <= end}

(* The buffer is filled from a list of destinations. *)
FillFrom(list, more) ==
  /\ im' = [im EXCEPT ![dep] = Matching(Chunk(list))]
  /\ rest' = [rest EXCEPT ![dep] = list \ Chunk(list)]
  /\ todo' = [todo EXCEPT ![dep] = im'[dep]]
  /\ resume' = [resume EXCEPT ![dep] = more]
  /\ finish' = [finish EXCEPT ![dep] = FALSE]
  /\ UNCHANGED <<task, block, root, pc, dep, arr, pivot, empty, treeVars, outVars>>

(* MJ_intial_basic with a source that is matched: more than a buffer full  *)
(* of destinations has to be resumed.                                      *)
JoinSource ==
  /\ AtInitial
  /\ SourceJoins
  /\ \E list \in {Destinations(rslt[Edge(dep).lo])} :
       FillFrom(list, Cardinality(list) > task.threshold)
  /\ UNCHANGED <<rslt, rows>>

(* The next of the sources is matched. *)
TakeSource(sources) ==
  /\ rows' = [rows EXCEPT ![dep] = sources \ {Min(sources)}]
  /\ rslt' = [rslt EXCEPT ![Edge(dep).lo] = Min(sources)]
  /\ FillFrom(Destinations(Min(sources)), TRUE)

(* There is nothing, or nothing more, to join. *)
NoSource == FillFrom({}, FALSE) /\ UNCHANGED <<rslt, rows>>

(* MJ_intial_basic with a source that is not: the first one is matched. *)
FirstSource ==
  /\ AtInitial
  /\ ~SourceJoins
  /\ \E sources \in {IF dep = 1 THEN Share(Sources) ELSE Sources} :
       IF sources = {} THEN NoSource ELSE TakeSource(sources)

(* MJ_resume_basic: the rest of the destinations, *)
MoreDestinations ==
  /\ AtResume
  /\ rest[dep] # {}
  /\ FillFrom(rest[dep], TRUE)
  /\ UNCHANGED <<rslt, rows>>

(* Mutant: the source after the next is taken. *)
NextSourceSkipsOne ==
  /\ AtResume
  /\ rest[dep] = {}
  /\ IF SourceJoins \/ Cardinality(rows[dep]) < 2 THEN NoSource ELSE TakeSource(rows[dep] \ {Min(rows[dep])})

(* and then the next source. *)
NextSource ==
  /\ AtResume
  /\ rest[dep] = {}
  /\ IF SourceJoins \/ rows[dep] = {} THEN NoSource ELSE TakeSource(rows[dep])

(* MJ_intial_basic at the last edge: the matches are counted, for a source *)
(* that is matched or for all of them.                                     *)
CountLast ==
  /\ AtLast
  /\ \E sources \in {IF SourceJoins THEN {rslt[Edge(dep).lo]} ELSE Sources} :
     \E pairs \in {UNION {{<<u, v>> : v \in Matching(Destinations(u))} : u \in sources}} :
       /\ rslt' = [rslt EXCEPT ![Edge(dep).lo] = Max(sources)]
       /\ CountAndLeave(Cardinality(pairs),
            {[rslt EXCEPT ![Edge(dep).lo] = p[1], ![Edge(dep).hi] = p[2]] : p \in pairs})
  /\ UNCHANGED empty

TableStep ==
  IsTable /\ (JoinSource \/ FirstSource \/ MoreDestinations \/ NextSource \/ CountLast)
=============================================================================

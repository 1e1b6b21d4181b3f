----------------------------- MODULE LFTJKernel -----------------------------
(***************************************************************************)
(* The leapfrog triejoin kernels for patterns with regular, negative and   *)
(* optional edges and inequality constraints: LFTJ_kernel_basic,           *)
(* _constraint, _negative, _negative_constraint, _optional and             *)
(* _optional_constraint.                                                   *)
(*                                                                         *)
(* At each vertex the kernel intersects the lists of the edges that join   *)
(* there, a buffer full at a time.  The first list is divided among the    *)
(* blocks.  A vertex at the end of an optional edge that has no candidate  *)
(* in any of the groups is matched with a null value, in the last of them. *)
(* The kernels differ in what they look at when they take a vertex from    *)
(* the shortest list, and in when they do not fill the buffer at all.      *)
(***************************************************************************)
EXTENDS JoinWalk

(* The only list of a vertex before an optional one is no longer than      *)
(* there are flags (see empty); vertices with more lists use the buffer.   *)
FlagsFit(k) ==
  \A e, f \in DOMAIN k.edges :
    /\ k.edges[e].kind = "optional" /\ k.edges[f].hi = k.edges[e].hi - 1
    /\ \A g \in (DOMAIN k.edges) \ {f} :
         /\ k.edges[g].hi # k.edges[f].hi
         /\ k.edges[g].lo = k.edges[f].hi => k.edges[g].kind # "regular"
    => \A t \in DOMAIN k.subtasks : \A p \in k.edges[f].data :
         Cardinality({q \in k.edges[f].data :
                        q[1] = p[1] /\ q[2] \in k.subtasks[t][k.edges[f].hi]}) <= k.threshold

(* Optional vertices follow all others, and their flags fit. *)
OptionalAssumption ==
  \A k \in Tasks :
    /\ FlagsFit(k)
    /\ \A e, f \in DOMAIN k.edges :
         k.edges[e].kind = "optional" /\ k.edges[f].kind # "optional" =>
           k.edges[f].hi < k.edges[e].hi

ASSUME OptionalAssumption

(* The kinds of the pattern apart from the normal one, which choose the kernel. *)
PatternOf(k) ==
  ({k.edges[e].kind : e \in DOMAIN k.edges} \ {"regular"})
    \cup IF \E v \in DOMAIN k.apart : k.apart[v] # {} THEN {"constraint"} ELSE {}

(* There is no kernel for negative and optional edges together. *)
SupportedAssumption == \A k \in Tasks : ~({"negative", "optional"} \subseteq PatternOf(k))

ASSUME SupportedAssumption

-----------------------------------------------------------------------------
(* The lists of a vertex.                                                  *)

(* The edges that join at vertex d; others than regular at the later one.  *)
Joins(d) == {e \in Edges : Edge(e).hi = d \/ (Edge(e).lo = d /\ Edge(e).kind = "regular")}

Windows ==
  [e \in Joins(dep) |->
     IF Edge(e).lo = dep THEN Rows(Shard(e, subtask))
     ELSE AdjList(Shard(e, subtask), rslt[Edge(e).lo])]

(* The shortest of the lists but those of negative edges, the first such. *)
Pivot(w) ==
  LET lists == {e \in DOMAIN w : Edge(e).kind # "negative"}
  IN  CHOOSE e \in lists : \A f \in lists :
        \/ Cardinality(w[e].list) < Cardinality(w[f].list)
        \/ Cardinality(w[e].list) = Cardinality(w[f].list) /\ e <= f

(* lower_bound_on_flip24_array: an empty window is searched at its start. *)
LowerBound(window, v) == v \in window.list \/ (window.list = {} /\ v = window.first)

(* Data vertex v, taken from the list of edge p, is in all other lists. *)
InOthers(w, p, v) == \A e \in (DOMAIN w) \ {p} : LowerBound(w[e], v)

(* The same, and a negative edge does not lead to it. *)
InOthersOrAbsent(w, p, v) ==
  \A e \in (DOMAIN w) \ {p} :
    IF Edge(e).kind = "negative" THEN w[e].list = {} \/ ~LowerBound(w[e], v)
    ELSE LowerBound(w[e], v)

(* The same with an empty window of a negative edge searched as well. *)
InOthersNotFound(w, p, v) ==
  \A e \in (DOMAIN w) \ {p} : LowerBound(w[e], v) = (Edge(e).kind # "negative")

Constrained == task.apart[dep] # {}

(* Mutant: the constraints are not compared. *)
DistinctAny(v) == v \in DataVertices

(* The constraints of the vertex. *)
Distinct(v) == \A c \in task.apart[dep] : v # rslt[c]

(* The part of the first list this block works on. *)
Part(list) ==
  LET gap == (Cardinality(list) + task.maxBlocks - 1) \div task.maxBlocks
  IN  {v \in list : gap * (block - 1) <= Rank(v, list) /\ Rank(v, list) < gap * block}

-----------------------------------------------------------------------------
(* set_intersection_initial and _resume of each kernel: the candidates put *)
(* into the buffer (some), those of the list that are ok, and what is left *)
(* of the list (more).                                                     *)

(* SINGLE: the list itself, without the buffer. *)
Whole(list) == [some |-> list, more |-> {}]

(* SHARED_MEMBUF: a buffer full of the list is looked at. *)
Buffer(list, ok) == [some |-> Chunk(list) \cap ok, more |-> list \ Chunk(list)]

(* LAST: all of it, to be counted. *)
Joined(list, ok) ==
  CASE dep = task.n -> [some |-> ok, more |-> {}]
    [] dep = 1 -> Buffer(Part(list), ok)
    [] OTHER -> Buffer(list, ok)

OneList(w) == Cardinality(DOMAIN w) = 1

InitialBasic(w, p) ==
  IF dep # 1 /\ OneList(w) THEN Whole(w[p].list)
  ELSE Joined(w[p].list, {v \in w[p].list : InOthers(w, p, v)})

ResumeBasic(w, p) == Buffer(rest[dep], {v \in rest[dep] : InOthers(w, p, v)})

(* A vertex with constraints always goes through the buffer. *)
InitialConstraint(w, p) ==
  IF ~Constrained THEN InitialBasic(w, p)
  ELSE Joined(w[p].list, {v \in w[p].list : Distinct(v) /\ InOthers(w, p, v)})

ResumeConstraint(w, p) ==
  IF ~Constrained THEN ResumeBasic(w, p)
  ELSE Buffer(rest[dep], {v \in rest[dep] : Distinct(v) /\ InOthers(w, p, v)})

InitialNegative(w, p) ==
  IF dep # 1 /\ OneList(w) THEN Whole(w[p].list)
  ELSE Joined(w[p].list, {v \in w[p].list : InOthersOrAbsent(w, p, v)})

ResumeNegative(w, p) == Buffer(rest[dep], {v \in rest[dep] : InOthersOrAbsent(w, p, v)})

InitialNegativeConstraint(w, p) ==
  IF ~Constrained THEN InitialNegative(w, p)
  ELSE Joined(w[p].list, {v \in w[p].list : Distinct(v) /\ InOthersOrAbsent(w, p, v)})

ResumeNegativeConstraint(w, p) ==
  IF ~Constrained THEN ResumeNegative(w, p)
  ELSE Buffer(rest[dep], {v \in rest[dep] : Distinct(v) /\ InOthersNotFound(w, p, v)})

(* A list that is longer than the buffer and is not followed by an         *)
(* optional vertex goes through the buffer even if it is the only one.     *)
LongList(list) ==
  dep # task.n /\ ~IsOptional(dep + 1) /\ Cardinality(list) >= task.threshold

InitialOptional(w, p) ==
  IF w[p].list = {} \/ (dep # 1 /\ OneList(w) /\ ~LongList(w[p].list)) THEN Whole(w[p].list)
  ELSE Joined(w[p].list, {v \in w[p].list : InOthers(w, p, v)})

ResumeOptional(w, p) == Buffer(rest[dep], {v \in rest[dep] : InOthers(w, p, v)})

(* The only list of a vertex with constraints is taken as it is, below the *)
(* last vertex.                                                            *)
InitialOptionalConstraint(w, p) ==
  IF ~Constrained THEN InitialOptional(w, p)
  ELSE IF \/ w[p].list = {}
          \/ dep # 1 /\ OneList(w) /\ dep # task.n /\ ~LongList(w[p].list)
  THEN Whole(w[p].list)
  ELSE Joined(w[p].list, {v \in w[p].list : Distinct(v) /\ InOthers(w, p, v)})

ResumeOptionalConstraint(w, p) ==
  IF ~Constrained THEN ResumeOptional(w, p)
  ELSE Buffer(rest[dep], {v \in rest[dep] : Distinct(v) /\ InOthers(w, p, v)})

(* The kernel for the pattern. *)
Initially(w, p) ==
  LET pattern == PatternOf(task)
  IN  CASE pattern = {} -> InitialBasic(w, p)
        [] pattern = {"constraint"} -> InitialConstraint(w, p)
        [] pattern = {"negative"} -> InitialNegative(w, p)
        [] pattern = {"optional"} -> InitialOptional(w, p)
        [] pattern = {"constraint", "optional"} -> InitialOptionalConstraint(w, p)
        [] pattern = {"constraint", "negative"} -> InitialNegativeConstraint(w, p)

Again(w, p) ==
  LET pattern == PatternOf(task)
  IN  CASE pattern = {} -> ResumeBasic(w, p)
        [] pattern = {"constraint"} -> ResumeConstraint(w, p)
        [] pattern = {"negative"} -> ResumeNegative(w, p)
        [] pattern = {"optional"} -> ResumeOptional(w, p)
        [] pattern = {"constraint", "optional"} -> ResumeOptionalConstraint(w, p)
        [] pattern = {"constraint", "negative"} -> ResumeNegativeConstraint(w, p)

-----------------------------------------------------------------------------
(* Null values.                                                            *)

(* The node is the last of the groups below its parent. *)
InLastGroup == Cardinality(Groups(Parent, dep)) = child[dep - 1] + 1

(* A candidate of an optional vertex was found. *)
Cleared(some) ==
  IF IsOptional(dep) /\ some # {} THEN [empty EXCEPT ![dep] = @ \ {rslt[dep - 1]}] ELSE empty

(* An optional vertex turns out to have no candidate: nothing was found    *)
(* here, nothing is left, and there was nothing in the other groups.       *)
IsNull(some, more) ==
  /\ IsOptional(dep)
  /\ more = {} /\ some = {}
  /\ rslt[dep - 1] \in empty[dep]
  /\ InLastGroup

WithNull(some, more) == IF IsNull(some, more) THEN {Null} ELSE some

(* The flags of the next vertex are set for the buffer that was filled. *)
Flagged(some, more) ==
  IF IsOptional(dep + 1) THEN [Cleared(some) EXCEPT ![dep + 1] = WithNull(some, more)]
  ELSE Cleared(some)

-----------------------------------------------------------------------------
(* The steps.                                                              *)

(* The buffer is filled with some candidates; more is not joined yet. *)
Fill(some, more) ==
  /\ im' = [im EXCEPT ![dep] = WithNull(some, more)]
  /\ rest' = [rest EXCEPT ![dep] = more]
  /\ empty' = Flagged(some, more)
  /\ todo' = [todo EXCEPT ![dep] = im'[dep]]
  /\ resume' = [resume EXCEPT ![dep] = more # {}]
  /\ finish' = [finish EXCEPT ![dep] = FALSE]
  /\ UNCHANGED <<task, block, root, pc, dep, rslt, rows, treeVars, outVars>>

(* The lists of the vertex are found and the first of its candidates are   *)
(* put into the buffer.                                                    *)
Intersect ==
  /\ AtInitial
  /\ \E w \in {Windows} : \E p \in {Pivot(w)} : \E r \in {Initially(w, p)} :
       /\ arr' = [arr EXCEPT ![dep] = w]
       /\ pivot' = [pivot EXCEPT ![dep] = p]
       /\ Fill(r.some, r.more)

(* The buffer is filled again. *)
Resume ==
  /\ AtResume
  /\ \E r \in {Again(arr[dep], pivot[dep])} : Fill(r.some, r.more)
  /\ UNCHANGED <<arr, pivot>>

(* The last vertex: its candidates are counted, a null value as one, and   *)
(* it is left.                                                             *)
MatchLast ==
  /\ AtLast
  /\ \E w \in {Windows} : \E r \in {Initially(w, Pivot(w))} :
     \E last \in {WithNull(r.some, {})} :
       /\ empty' = Cleared(r.some)
       /\ CountAndLeave(Cardinality(last), {[rslt EXCEPT ![dep] = v] : v \in last})
  /\ UNCHANGED rslt

LFTJStep == ~IsTable /\ (Intersect \/ Resume \/ MatchLast)
=============================================================================

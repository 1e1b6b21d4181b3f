------------------------ MODULE SchedPlanTree_proofs -------------------------
(***************************************************************************)
(* Proofs about SchedPlanTree, for any scheduling tree, any shards and     *)
(* sizes, and any limits.                                                  *)
(***************************************************************************)
EXTENDS SchedPlanTree, SequenceLemmas, SetLemmas, FiniteSetTheorems, TLAPS

-----------------------------------------------------------------------------
(* The tree.                                                               *)

(* What the assumption on configurations says of the one at hand. *)
LEMMA ConfigFacts ==
  ASSUME cfg \in Configs
  PROVE  /\ MaxLevel \in Nat \ {0}
         /\ cfg.vlevel \in Seq(Nat \ {0}) /\ \A e \in 1 .. MaxLevel : cfg.vlevel[e] \in Nat \ {0}
         /\ cfg.leaves # {} /\ cfg.leaves \subseteq [1 .. MaxLevel -> Shards]
         /\ cfg.capacity \in Nat
         /\ \A l \in cfg.leaves : /\ l \in Seq(Shards) /\ Len(l) = MaxLevel /\ l # <<>>
                                  /\ \A e \in 1 .. MaxLevel : l[e] \in Shards
<1>1. /\ cfg.vlevel \in Seq(Nat \ {0}) /\ cfg.vlevel # <<>> /\ cfg.leaves # {}
      /\ cfg.leaves \subseteq [1 .. Len(cfg.vlevel) -> Shards] /\ cfg.capacity \in Nat
  BY ConfigsAssumption DEF ConfigsAssumption
<1>2. MaxLevel \in Nat \ {0}
  BY <1>1 DEF MaxLevel
<1>3. \A e \in 1 .. MaxLevel : cfg.vlevel[e] \in Nat \ {0}
  BY <1>1 DEF MaxLevel
<1>4. ASSUME NEW l \in cfg.leaves
      PROVE  /\ l \in Seq(Shards) /\ Len(l) = MaxLevel /\ l # <<>>
             /\ \A e \in 1 .. MaxLevel : l[e] \in Shards
  <2>1. l \in [1 .. MaxLevel -> Shards]
    BY <1>1 DEF MaxLevel
  <2>2. l \in Seq(Shards) /\ Len(l) = MaxLevel
    BY <1>2, <2>1
  <2> QED
    BY <1>2, <2>1, <2>2
<1> QED
  BY <1>1, <1>2, <1>3, <1>4 DEF MaxLevel

(* The shards of a way into the tree. *)
LEMMA PathFacts ==
  ASSUME NEW s, NEW d \in Nat \ {0}
  PROVE  /\ Len(Path(s, d)) = d - 1 /\ DOMAIN Path(s, d) = 1 .. d - 1
         /\ \A i \in 1 .. d - 1 : Path(s, d)[i] = s[i + 1].shard
         /\ \A S : (\A i \in 1 .. d - 1 : s[i + 1].shard \in S) => Path(s, d) \in Seq(S)
BY DEF Path

(* A way into the tree is the beginning of a leaf, shard by shard. *)
LEMMA PrefixOfLeaf ==
  ASSUME cfg \in Configs, NEW l \in cfg.leaves, NEW s, NEW d \in Nat \ {0}
  PROVE  IsPrefix(Path(s, d), l) <=> d - 1 <= MaxLevel /\ \A i \in 1 .. d - 1 : s[i + 1].shard = l[i]
<1> DEFINE p == Path(s, d)
<1>1. Len(p) = d - 1 /\ p = [i \in 1 .. d - 1 |-> s[i + 1].shard]
  BY PathFacts DEF Path
<1>2. SubSeq(p, 1, d - 1) = p
  BY <1>1
<1>3. l \in [1 .. MaxLevel -> Shards] /\ Len(l) = MaxLevel /\ MaxLevel \in Nat
  BY ConfigFacts
<1>4. ASSUME d - 1 <= MaxLevel PROVE SubSeq(l, 1, d - 1) = [i \in 1 .. d - 1 |-> l[i]]
  BY <1>3, <1>4
<1> HIDE DEF p
<1>5. IsPrefix(p, l) <=> d - 1 <= MaxLevel /\ p = SubSeq(l, 1, d - 1)
  BY <1>1, <1>2, <1>3 DEF IsPrefix
<1> QED
  BY <1>1, <1>4, <1>5 DEF p

(* The children of a node. *)
LEMMA ChildrenFacts ==
  ASSUME cfg \in Configs, NEW s, NEW d \in Nat \ {0}
  PROVE  /\ Children(Path(s, d)) \subseteq Shards /\ IsFiniteSet(Children(Path(s, d)))
         /\ Children(Path(s, d)) # {} => d <= MaxLevel
         /\ \A c : c \in Children(Path(s, d)) <=>
                     /\ d <= MaxLevel
                     /\ \E l \in cfg.leaves : l[d] = c /\ \A i \in 1 .. d - 1 : s[i + 1].shard = l[i]
<1>1. MaxLevel \in Nat /\ Len(Path(s, d)) = d - 1
  BY ConfigFacts, PathFacts
<1>2. \A c : c \in Children(Path(s, d)) <=>
         d - 1 # MaxLevel /\ \E l \in cfg.leaves : IsPrefix(Path(s, d), l) /\ c = l[(d - 1) + 1]
  BY <1>1 DEF Children
<1>3. \A c : c \in Children(Path(s, d)) <=>
         d <= MaxLevel /\ \E l \in cfg.leaves : l[d] = c /\ \A i \in 1 .. d - 1 : s[i + 1].shard = l[i]
  <2>1. (d - 1) + 1 = d
    OBVIOUS
  <2>2. \A l \in cfg.leaves : IsPrefix(Path(s, d), l) <=>
          d - 1 <= MaxLevel /\ \A i \in 1 .. d - 1 : s[i + 1].shard = l[i]
    BY PrefixOfLeaf
  <2>3. d - 1 # MaxLevel /\ d - 1 <= MaxLevel <=> d <= MaxLevel
    BY <1>1
  <2> QED
    BY <1>2, <2>1, <2>2, <2>3
<1>4. \A c \in Children(Path(s, d)) : c \in Shards
  BY <1>3, ConfigFacts
<1>5. IsFiniteSet(Children(Path(s, d)))
  BY <1>4, ShardsAssumption, FS_Subset
<1> QED
  BY <1>3, <1>4, <1>5

(* The children are visited in their order. *)
LEMMA ChildFacts ==
  ASSUME cfg \in Configs, NEW s, NEW d \in Nat \ {0},
         NEW k \in 1 .. Cardinality(Children(Path(s, d)))
  PROVE  /\ Child(Path(s, d), k) \in Children(Path(s, d))
         /\ Cardinality({r \in Children(Path(s, d)) : r < Child(Path(s, d), k)}) = k - 1
<1> DEFINE G == Children(Path(s, d))
<1>1. IsFiniteSet(G) /\ G \subseteq Nat
  BY ChildrenFacts, ShardsAssumption
<1>2. Cardinality(G) \in Nat
  BY <1>1, FS_CardinalityType
<1>3. k - 1 \in 0 .. Cardinality(G) - 1
  BY <1>2
<1>4. \E c \in G : Cardinality({r \in G : r < c}) = k - 1
  <2> HIDE DEF G
  <2> QED
    BY <1>1, <1>3, RankedNumbers
<1> QED
  BY <1>4 DEF Child

-----------------------------------------------------------------------------
(* The folds over the shards of a subtask.                                 *)

Listed(acc, s) == IF Contains(acc, s) THEN acc ELSE Append(acc, s)
Counted(acc, s) == IF Cached(s) THEN acc ELSE (acc + Size[s]) % SizeModulus

(* AddShards goes through the subtask shard by shard. *)
LEMMA AddShardsFold ==
  ASSUME NEW ptrs \in Seq(Shards), NEW st \in Seq(Shards)
  PROVE  \E g \in [0 .. Len(st) -> Seq(Shards)] :
           /\ g[0] = ptrs
           /\ \A k \in 1 .. Len(st) : g[k] = Listed(g[k - 1], st[k])
           /\ AddShards(ptrs, st) = g[Len(st)]
<1> DEFINE n == Len(st)
           step == [p \in Seq(Shards) \X Shards |-> Listed(p[1], p[2])]
           Rec(f) == f = [S \in SUBSET DOMAIN st |->
                 IF S = {} THEN ptrs ELSE Listed(f[S \ {Max(S)}], st[Max(S)])]
<1>1. AddShards(ptrs, st) = (CHOOSE g : Rec(g))[DOMAIN st]
  BY DEF AddShards, Listed, FoldLeft, MapThenFoldSet
<1>2. DOMAIN st = 1 .. n /\ n \in Nat /\ st \in [1 .. n -> Shards]
  OBVIOUS
<1>3. step \in [Seq(Shards) \X Shards -> Seq(Shards)]
  BY DEF Listed
<1>4. PICK f \in [SUBSET (1 .. n) -> Seq(Shards)] : FoldOf(f, n, ptrs, st, step)
  <2> HIDE DEF step, n
  <2> QED
    BY <1>2, <1>3, FoldExists
<1>5. ASSUME NEW S \in SUBSET (1 .. n), S # {}
      PROVE  S \ {Max(S)} \in SUBSET (1 .. n) /\ st[Max(S)] \in Shards
  <2>1. Max(S) \in S
    BY <1>2, <1>5, GreatestIsMax
  <2> QED
    BY <1>2, <2>1
<1>6. Rec(f)
  <2> DEFINE r == [S \in SUBSET (1 .. n) |->
                 IF S = {} THEN ptrs ELSE Listed(f[S \ {Max(S)}], st[Max(S)])]
  <2>1. ASSUME NEW S \in SUBSET (1 .. n) PROVE f[S] = r[S]
    <3>1. f[S] = IF S = {} THEN ptrs ELSE step[<<f[S \ {Max(S)}], st[Max(S)]>>]
      BY <1>4 DEF FoldOf
    <3> QED
      BY <1>5, <3>1
  <2>2. f = [S \in SUBSET (1 .. n) |-> f[S]]
    OBVIOUS
  <2>3. f = r
    BY <2>1, <2>2
  <2> QED
    BY <1>2, <2>3
<1> DEFINE h == CHOOSE g : Rec(g)
<1>7. Rec(h)
  <2> HIDE DEF Rec
  <2> QED
    BY <1>6
<1>8. FoldsWithin(h, Seq(Shards), n, ptrs, st, step)
  <2> HIDE DEF h
  <2>1. h[{}] = ptrs
    BY <1>2, <1>7
  <2>2. ASSUME NEW S \in SUBSET (1 .. n), S # {}, h[S \ {Max(S)}] \in Seq(Shards)
        PROVE  h[S] = step[<<h[S \ {Max(S)}], st[Max(S)]>>]
    <3>1. h[S] = Listed(h[S \ {Max(S)}], st[Max(S)])
      BY <1>2, <1>7, <2>2
    <3> QED
      BY <1>5, <2>2, <3>1
  <2> HIDE DEF step
  <2> QED
    BY <2>1, <2>2 DEF FoldsWithin
<1>9. PICK g \in [0 .. n -> Seq(Shards)] : LeftToRight(g, n, ptrs, st, step) /\ h[1 .. n] = g[n]
  <2>1. GoesLeftToRight(h, Seq(Shards), n, ptrs, st, step)
    <3> HIDE DEF h, step, n
    <3> QED
      BY <1>2, <1>3, <1>8, FoldSteps
  <2> QED
    BY <2>1 DEF GoesLeftToRight
<1>10. ASSUME NEW k \in 1 .. n PROVE g[k] = Listed(g[k - 1], st[k])
  <2>1. g[k - 1] \in Seq(Shards) /\ st[k] \in Shards
    BY <1>2, SMTT(30)
  <2>2. g[k] = step[<<g[k - 1], st[k]>>]
    BY <1>9 DEF LeftToRight
  <2> QED
    BY <2>1, <2>2
<1>11. g[0] = ptrs /\ AddShards(ptrs, st) = g[n]
  BY <1>1, <1>2, <1>9 DEF LeftToRight
<1> QED
  BY <1>10, <1>11

(* SizeOf adds the sizes up. *)
LEMMA SizeOfFold ==
  ASSUME NEW shards \in Seq(Shards)
  PROVE  \E g \in [0 .. Len(shards) -> Nat] :
           /\ g[0] = 0
           /\ \A k \in 1 .. Len(shards) : g[k] = g[k - 1] + Size[shards[k]]
           /\ SizeOf(shards) = g[Len(shards)]
<1> DEFINE n == Len(shards)
           step == [p \in Nat \X Shards |-> p[1] + Size[p[2]]]
           Rec(f) == f = [S \in SUBSET DOMAIN shards |->
                 IF S = {} THEN 0 ELSE f[S \ {Max(S)}] + Size[shards[Max(S)]]]
<1>1. SizeOf(shards) = (CHOOSE g : Rec(g))[DOMAIN shards]
  BY DEF SizeOf, FoldLeft, MapThenFoldSet
<1>2. DOMAIN shards = 1 .. n /\ n \in Nat /\ shards \in [1 .. n -> Shards]
  OBVIOUS
<1>3. step \in [Nat \X Shards -> Nat]
  BY SizeAssumption
<1>4. PICK f \in [SUBSET (1 .. n) -> Nat] : FoldOf(f, n, 0, shards, step)
  <2> HIDE DEF step, n
  <2> QED
    BY <1>2, <1>3, FoldExists
<1>5. ASSUME NEW S \in SUBSET (1 .. n), S # {}
      PROVE  S \ {Max(S)} \in SUBSET (1 .. n) /\ shards[Max(S)] \in Shards
  <2>1. Max(S) \in S
    BY <1>2, <1>5, GreatestIsMax
  <2> QED
    BY <1>2, <2>1
<1>6. Rec(f)
  <2> DEFINE r == [S \in SUBSET (1 .. n) |->
                 IF S = {} THEN 0 ELSE f[S \ {Max(S)}] + Size[shards[Max(S)]]]
  <2>1. ASSUME NEW S \in SUBSET (1 .. n) PROVE f[S] = r[S]
    <3>1. f[S] = IF S = {} THEN 0 ELSE step[<<f[S \ {Max(S)}], shards[Max(S)]>>]
      BY <1>4 DEF FoldOf
    <3> QED
      BY <1>5, <3>1
  <2>2. f = [S \in SUBSET (1 .. n) |-> f[S]]
    OBVIOUS
  <2>3. f = r
    BY <2>1, <2>2
  <2> QED
    BY <1>2, <2>3
<1> DEFINE h == CHOOSE g : Rec(g)
<1>7. Rec(h)
  <2> HIDE DEF Rec
  <2> QED
    BY <1>6
<1>8. FoldsWithin(h, Nat, n, 0, shards, step)
  <2> HIDE DEF h
  <2>1. h[{}] = 0
    BY <1>2, <1>7
  <2>2. ASSUME NEW S \in SUBSET (1 .. n), S # {}, h[S \ {Max(S)}] \in Nat
        PROVE  h[S] = step[<<h[S \ {Max(S)}], shards[Max(S)]>>]
    <3>1. h[S] = h[S \ {Max(S)}] + Size[shards[Max(S)]]
      BY <1>2, <1>7, <2>2
    <3> QED
      BY <1>5, <2>2, <3>1
  <2> HIDE DEF step
  <2> QED
    BY <2>1, <2>2 DEF FoldsWithin
<1>9. PICK g \in [0 .. n -> Nat] : LeftToRight(g, n, 0, shards, step) /\ h[1 .. n] = g[n]
  <2>1. GoesLeftToRight(h, Nat, n, 0, shards, step)
    <3> HIDE DEF h, step, n
    <3> QED
      BY <1>2, <1>3, <1>8, FoldSteps
  <2> QED
    BY <2>1 DEF GoesLeftToRight
<1>10. ASSUME NEW k \in 1 .. n PROVE g[k] = g[k - 1] + Size[shards[k]]
  <2>1. g[k - 1] \in Nat /\ shards[k] \in Shards
    BY <1>2
  <2>2. g[k] = step[<<g[k - 1], shards[k]>>]
    BY <1>9 DEF LeftToRight
  <2> QED
    BY <2>1, <2>2
<1>11. g[0] = 0 /\ SizeOf(shards) = g[n]
  BY <1>1, <1>2, <1>9 DEF LeftToRight
<1> QED
  BY <1>10, <1>11

(* RequiredSize adds up those of shards that are not listed yet. *)
LEMMA RequiredSizeFold ==
  ASSUME NEW st \in Seq(Shards)
  PROVE  \E g \in [0 .. Len(st) -> Nat] :
           /\ g[0] = 0
           /\ \A k \in 1 .. Len(st) : g[k] = Counted(g[k - 1], st[k])
           /\ RequiredSize(st) = g[Len(st)]
<1> DEFINE n == Len(st)
           step == [p \in Nat \X Shards |-> Counted(p[1], p[2])]
           Rec(f) == f = [S \in SUBSET DOMAIN st |->
                 IF S = {} THEN 0 ELSE Counted(f[S \ {Max(S)}], st[Max(S)])]
<1>1. RequiredSize(st) = (CHOOSE g : Rec(g))[DOMAIN st]
  BY DEF RequiredSize, Counted, FoldLeft, MapThenFoldSet
<1>2. DOMAIN st = 1 .. n /\ n \in Nat /\ st \in [1 .. n -> Shards]
  OBVIOUS
<1>3. step \in [Nat \X Shards -> Nat]
  BY SizeAssumption, LimitsAssumption DEF Counted
<1>4. PICK f \in [SUBSET (1 .. n) -> Nat] : FoldOf(f, n, 0, st, step)
  <2> HIDE DEF step, n
  <2> QED
    BY <1>2, <1>3, FoldExists
<1>5. ASSUME NEW S \in SUBSET (1 .. n), S # {}
      PROVE  S \ {Max(S)} \in SUBSET (1 .. n) /\ st[Max(S)] \in Shards
  <2>1. Max(S) \in S
    BY <1>2, <1>5, GreatestIsMax
  <2> QED
    BY <1>2, <2>1
<1>6. Rec(f)
  <2> DEFINE r == [S \in SUBSET (1 .. n) |->
                 IF S = {} THEN 0 ELSE Counted(f[S \ {Max(S)}], st[Max(S)])]
  <2>1. ASSUME NEW S \in SUBSET (1 .. n) PROVE f[S] = r[S]
    <3>1. f[S] = IF S = {} THEN 0 ELSE step[<<f[S \ {Max(S)}], st[Max(S)]>>]
      BY <1>4 DEF FoldOf
    <3> QED
      BY <1>5, <3>1
  <2>2. f = [S \in SUBSET (1 .. n) |-> f[S]]
    OBVIOUS
  <2>3. f = r
    BY <2>1, <2>2
  <2> QED
    BY <1>2, <2>3
<1> DEFINE h == CHOOSE g : Rec(g)
<1>7. Rec(h)
  <2> HIDE DEF Rec
  <2> QED
    BY <1>6
<1>8. FoldsWithin(h, Nat, n, 0, st, step)
  <2> HIDE DEF h
  <2>1. h[{}] = 0
    BY <1>2, <1>7
  <2>2. ASSUME NEW S \in SUBSET (1 .. n), S # {}, h[S \ {Max(S)}] \in Nat
        PROVE  h[S] = step[<<h[S \ {Max(S)}], st[Max(S)]>>]
    <3>1. h[S] = Counted(h[S \ {Max(S)}], st[Max(S)])
      BY <1>2, <1>7, <2>2
    <3> QED
      BY <1>5, <2>2, <3>1
  <2> HIDE DEF step
  <2> QED
    BY <2>1, <2>2 DEF FoldsWithin
<1>9. PICK g \in [0 .. n -> Nat] : LeftToRight(g, n, 0, st, step) /\ h[1 .. n] = g[n]
  <2>1. GoesLeftToRight(h, Nat, n, 0, st, step)
    <3> HIDE DEF h, step, n
    <3> QED
      BY <1>2, <1>3, <1>8, FoldSteps
  <2> QED
    BY <2>1 DEF GoesLeftToRight
<1>10. ASSUME NEW k \in 1 .. n PROVE g[k] = Counted(g[k - 1], st[k])
  <2>1. g[k - 1] \in Nat /\ st[k] \in Shards
    BY <1>2
  <2>2. g[k] = step[<<g[k - 1], st[k]>>]
    BY <1>9 DEF LeftToRight
  <2> QED
    BY <2>1, <2>2
<1>11. g[0] = 0 /\ RequiredSize(st) = g[n]
  BY <1>1, <1>2, <1>9 DEF LeftToRight
<1> QED
  BY <1>10, <1>11

-----------------------------------------------------------------------------
(* The scan.                                                               *)

Entries == [shard : Shards \cup {0}, idx : Nat \ {0}]

(* The next child of the entry at depth d. *)
LEMMA NextChild ==
  ASSUME cfg \in Configs, stk \in Seq(Entries), NEW d \in Unfinished
  PROVE  /\ d \in 1 .. Len(stk) /\ d \in 1 .. MaxLevel /\ Len(stk) \in Nat /\ d \in Nat \ {0}
         /\ stk[d].idx \in 1 .. Cardinality(Children(Path(stk, d)))
         /\ Child(Path(stk, d), stk[d].idx) \in Children(Path(stk, d))
         /\ Child(Path(stk, d), stk[d].idx) \in Shards
<1> DEFINE k == stk[d].idx
           n == Cardinality(Children(Path(stk, d)))
           c == Child(Path(stk, d), k)
<1>1. d \in 1 .. Len(stk) /\ Len(stk) \in Nat /\ k <= n
  BY DEF Unfinished
<1>2. stk[d] \in Entries /\ k \in Nat \ {0}
  <2>1. stk[d] \in Entries
    BY <1>1
  <2> QED
    BY <2>1 DEF Entries
<1>3. d \in Nat \ {0}
  BY <1>1
<1>4. IsFiniteSet(Children(Path(stk, d))) /\ Children(Path(stk, d)) \subseteq Shards
  BY <1>3, ChildrenFacts
<1>5. n \in Nat /\ k \in 1 .. n
  BY <1>1, <1>2, <1>4, FS_CardinalityType
<1>6. c \in Children(Path(stk, d))
  BY <1>3, <1>5, ChildFacts
<1>7. MaxLevel \in Nat /\ d \in 1 .. MaxLevel
  BY <1>3, <1>6, ChildrenFacts, ConfigFacts
<1> QED
  BY <1>1, <1>3, <1>4, <1>5, <1>6, <1>7

(* The stack with that child on top. *)
LEMMA NextStackFacts ==
  ASSUME cfg \in Configs, stk \in Seq(Entries), NEW d \in Unfinished
  PROVE  /\ NextStack(d) \in Seq(Entries) /\ Len(NextStack(d)) = d + 1
         /\ \A i \in 1 .. d : /\ NextStack(d)[i].shard = stk[i].shard
                              /\ NextStack(d)[i].idx = IF i = d THEN stk[i].idx + 1 ELSE stk[i].idx
         /\ NextStack(d)[d + 1] = [shard |-> Child(Path(stk, d), stk[d].idx), idx |-> 1]
<1> DEFINE c == Child(Path(stk, d), stk[d].idx)
           a == [SubSeq(stk, 1, d) EXCEPT ![d].idx = @ + 1]
           e == [shard |-> c, idx |-> 1]
<1>1. d \in 1 .. Len(stk) /\ Len(stk) \in Nat /\ d \in Nat \ {0} /\ c \in Shards
  BY NextChild
<1>2. /\ SubSeq(stk, 1, d) \in Seq(Entries) /\ Len(SubSeq(stk, 1, d)) = d
      /\ \A i \in 1 .. d : SubSeq(stk, 1, d)[i] = stk[i] /\ stk[i] \in Entries
  BY <1>1
<1>3. /\ a \in Seq(Entries) /\ Len(a) = d
      /\ \A i \in 1 .. d : /\ a[i].shard = stk[i].shard
                           /\ a[i].idx = IF i = d THEN stk[i].idx + 1 ELSE stk[i].idx
  <2> DEFINE b == SubSeq(stk, 1, d)
  <2>1. b \in Seq(Entries) /\ Len(b) = d /\ \A i \in 1 .. d : b[i] = stk[i] /\ b[i] \in Entries
    BY <1>2
  <2>2. [b[d] EXCEPT !.idx = @ + 1] \in Entries
    <3>1. d \in 1 .. d /\ b[d] \in Entries
      BY <1>1, <2>1
    <3> HIDE DEF b
    <3> QED
      BY <3>1, SMTT(30) DEF Entries
  <2>3. a = [b EXCEPT ![d] = [b[d] EXCEPT !.idx = @ + 1]]
    OBVIOUS
  <2> HIDE DEF b, a
  <2>4. a \in Seq(Entries) /\ Len(a) = d
    BY <1>1, <2>1, <2>2, <2>3
  <2>5. \A i \in 1 .. d : a[i] = IF i = d THEN [b[d] EXCEPT !.idx = @ + 1] ELSE b[i]
    BY <1>1, <2>1, <2>3
  <2>6. ASSUME NEW i \in 1 .. d
        PROVE  a[i].shard = stk[i].shard /\ a[i].idx = IF i = d THEN stk[i].idx + 1 ELSE stk[i].idx
    <3>1. b[i] = stk[i] /\ b[d] = stk[d] /\ stk[d] \in Entries
      BY <1>1, <2>1
    <3>2. CASE i = d
      <4>1. a[i] = [stk[d] EXCEPT !.idx = @ + 1]
        BY <2>5, <3>1, <3>2
      <4> QED
        BY <3>1, <3>2, <4>1 DEF Entries
    <3>3. CASE i # d
      BY <2>5, <3>1, <3>3
    <3> QED
      BY <3>2, <3>3
  <2> QED
    BY <2>4, <2>6
<1>4. e \in Entries
  BY <1>1 DEF Entries
<1>5. NextStack(d) = Append(a, e)
  BY DEF NextStack
<1> HIDE DEF a, e
<1>6. /\ Append(a, e) \in Seq(Entries) /\ Len(Append(a, e)) = d + 1
       /\ \A i \in 1 .. d : Append(a, e)[i] = a[i]
       /\ Append(a, e)[d + 1] = e
  BY <1>1, <1>3, <1>4
<1> QED
  BY <1>1, <1>3, <1>5, <1>6 DEF e

(* Where the scan gets to is in the tree; on the last level it is a leaf. *)
LEMMA NextPath ==
  ASSUME cfg \in Configs, stk \in Seq(Entries), NEW d \in Unfinished
  PROVE  /\ \E l \in cfg.leaves : IsPrefix(Path(NextStack(d), d + 1), l)
         /\ d = MaxLevel => Path(NextStack(d), d + 1) \in cfg.leaves
<1>1. d \in 1 .. MaxLevel /\ MaxLevel \in Nat /\ d \in Nat \ {0} /\ d + 1 \in Nat \ {0}
  BY NextChild, ConfigFacts
<1>2. PICK l \in cfg.leaves : /\ l[d] = Child(Path(stk, d), stk[d].idx)
                              /\ \A i \in 1 .. d - 1 : stk[i + 1].shard = l[i]
  BY <1>1, NextChild, ChildrenFacts
<1>3. ASSUME NEW i \in 1 .. d PROVE NextStack(d)[i + 1].shard = l[i]
  <2>1. CASE i = d
    <3>1. NextStack(d)[d + 1] = [shard |-> Child(Path(stk, d), stk[d].idx), idx |-> 1]
      BY NextStackFacts
    <3>2. NextStack(d)[d + 1].shard = Child(Path(stk, d), stk[d].idx)
      BY <3>1
    <3> QED
      BY <1>2, <2>1, <3>2
  <2>2. CASE i # d
    <3>1. i + 1 \in 1 .. d /\ i \in 1 .. d - 1
      BY <1>1, <2>2
    <3>2. \A j \in 1 .. d : NextStack(d)[j].shard = stk[j].shard
      BY NextStackFacts
    <3>3. NextStack(d)[i + 1].shard = stk[i + 1].shard
      BY <3>1, <3>2
    <3>4. stk[i + 1].shard = l[i]
      BY <1>2, <3>1
    <3> QED
      BY <3>3, <3>4
  <2> QED
    BY <2>1, <2>2
<1>4. (d + 1) - 1 = d /\ d <= MaxLevel
  BY <1>1
<1>5. IsPrefix(Path(NextStack(d), d + 1), l)
  BY <1>1, <1>3, <1>4, PrefixOfLeaf
<1>6. ASSUME d = MaxLevel PROVE Path(NextStack(d), d + 1) = l
  <2>1. l = [i \in 1 .. d |-> l[i]]
    BY <1>6, ConfigFacts
  <2>2. Path(NextStack(d), d + 1) = [i \in 1 .. d |-> NextStack(d)[i + 1].shard]
    BY <1>4 DEF Path
  <2> HIDE DEF NextStack
  <2> QED
    BY <1>3, <2>1, <2>2
<1> QED
  BY <1>5, <1>6

(* The group of a node of the tree. *)
LEMMA SingleGroupFacts ==
  ASSUME cfg \in Configs, NEW s, NEW d \in 1 .. MaxLevel, Len(s) = d + 1,
         d = MaxLevel => Path(s, d + 1) \in cfg.leaves
  PROVE  /\ SingleGroup(s).v = cfg.vlevel[d] /\ SingleGroup(s).v \in Nat \ {0}
         /\ SingleGroup(s).min = d /\ SingleGroup(s).max = d
         /\ SingleGroup(s).st = IF d = MaxLevel THEN Path(s, d + 1) ELSE <<>>
         /\ SingleGroup(s) \in Groups \ {NoGroup}
<1>1. d \in Nat /\ (d + 1) - 1 = d /\ cfg.vlevel[d] \in Nat \ {0} /\ MaxLevel \in Nat \ {0}
  BY ConfigFacts
<1>2. SingleGroup(s) = [v |-> cfg.vlevel[d], min |-> d, max |-> d,
                        st |-> IF d = MaxLevel THEN Path(s, d + 1) ELSE <<>>]
  BY <1>1 DEF SingleGroup
<1>3. SingleGroup(s) # NoGroup
  BY <1>1, <1>2 DEF NoGroup
<1> QED
  BY <1>1, <1>2, <1>3 DEF Groups

(* A node is visited. *)
LEMMA ScanNodeFacts ==
  ASSUME cfg \in Configs, TypeOK, ScanInTree, ScanNode
  PROVE  /\ stk' \in Seq(Entries) /\ stk' # <<>> /\ stk'[1].shard = 0
         /\ \E l \in cfg.leaves : IsPrefix(Path(stk', Len(stk')), l)
         /\ tmp' \in Groups \ {NoGroup}
         /\ group' \in Groups /\ pc' \in {"scan", "decide"}
         /\ pc' = "decide" => group' # NoGroup
         /\ UNCHANGED <<cfg, initial, taskVars, tasks>>
<1>1. /\ stk \in Seq(Entries) /\ stk # <<>> /\ stk[1].shard = 0 /\ pc = "scan"
      /\ tmp \in Groups /\ group \in Groups
  BY DEF TypeOK, ScanInTree, ScanNode, Entries
<1>2. PICK d \in Unfinished : stk' = NextStack(d)
  BY DEF ScanNode
<1>3. d \in 1 .. MaxLevel /\ MaxLevel \in Nat /\ d \in Nat \ {0}
  BY <1>1, NextChild, ConfigFacts
<1>4. /\ stk' \in Seq(Entries) /\ Len(stk') = d + 1
      /\ \A i \in 1 .. d : stk'[i].shard = stk[i].shard
  BY <1>1, <1>2, NextStackFacts
<1>5. stk' # <<>> /\ stk'[1].shard = 0
  <2>1. 1 \in 1 .. d /\ d + 1 # 0
    BY <1>3
  <2> QED
    BY <1>1, <1>4, <2>1
<1>6. /\ \E l \in cfg.leaves : IsPrefix(Path(stk', d + 1), l)
      /\ d = MaxLevel => Path(stk', d + 1) \in cfg.leaves
  BY <1>1, <1>2, NextPath
<1> DEFINE g == SingleGroup(stk')
<1>7. g \in Groups \ {NoGroup} /\ g.v = cfg.vlevel[d] /\ g.v \in Nat \ {0} /\ Len(stk') - 1 = d
  BY <1>3, <1>4, <1>6, SingleGroupFacts
<1>8. tmp' = IF OpensGroup(stk') THEN g ELSE [g EXCEPT !.min = tmp.min]
  BY DEF ScanNode
<1>9. tmp' \in Groups \ {NoGroup}
  <2>1. CASE OpensGroup(stk')
    BY <1>7, <1>8, <2>1
  <2>2. CASE ~OpensGroup(stk')
    <3>1. tmp.v = cfg.vlevel[d]
      BY <1>7, <2>2 DEF OpensGroup
    <3>2. tmp.v # 0
      BY <1>7, <3>1
    <3>3. tmp.min \in 1 .. MaxLevel
      BY <1>1, <3>2 DEF Groups, NoGroup
    <3>4. g \in [v : Nat \ {0}, min : 1 .. MaxLevel, max : 1 .. MaxLevel, st : {<<>>} \cup cfg.leaves]
      BY <1>7 DEF Groups
    <3> HIDE DEF g
    <3>5. tmp' \in [v : Nat \ {0}, min : 1 .. MaxLevel, max : 1 .. MaxLevel, st : {<<>>} \cup cfg.leaves]
      BY <1>8, <2>2, <3>3, <3>4
    <3>6. tmp' # NoGroup
      BY <3>5 DEF NoGroup
    <3> QED
      BY <3>5, <3>6 DEF Groups
  <2> QED
    BY <2>1, <2>2
<1>10. /\ group' \in Groups /\ pc' \in {"scan", "decide"} /\ (pc' = "decide" => group' # NoGroup)
       /\ UNCHANGED <<cfg, initial, taskVars, tasks>>
  <2>1. \/ OpensGroup(stk') /\ tmp.v # 0 /\ group' = tmp /\ pc' = "decide"
        \/ group' = group /\ pc' = pc
    BY DEF ScanNode
  <2>2. UNCHANGED <<cfg, initial, taskVars, tasks>>
    BY DEF ScanNode
  <2> HIDE DEF g
  <2>3. tmp.v # 0 => tmp # NoGroup
    BY DEF NoGroup
  <2> QED
    BY <1>1, <2>1, <2>2, <2>3
<1>11. \E l \in cfg.leaves : IsPrefix(Path(stk', Len(stk')), l)
  BY <1>4, <1>6
<1> HIDE DEF g
<1> QED
  BY <1>4, <1>5, <1>9, <1>10, <1>11

(* The last node was visited; there was one at least. *)
LEMMA ScanLastFacts ==
  ASSUME cfg \in Configs, TypeOK, ScanInTree, ScanLast
  PROVE  tmp \in Groups \ {NoGroup}
<1>1. tmp \in Groups /\ Unfinished = {}
  BY DEF TypeOK, ScanLast
<1>2. ASSUME tmp = NoGroup PROVE FALSE
  <2>1. stk = <<Root>>
    BY <1>2 DEF ScanInTree
  <2>2. 1 \in DOMAIN stk /\ stk[1].idx = 1
    BY <2>1 DEF Root
  <2>3. Children(Path(stk, 1)) # {}
    <3>1. PICK l \in cfg.leaves : TRUE
      BY ConfigFacts
    <3>2. MaxLevel \in Nat \ {0} /\ 1 <= MaxLevel
      BY ConfigFacts
    <3>3. l[1] \in Children(Path(stk, 1))
      BY <3>2, ChildrenFacts
    <3> QED
      BY <3>3
  <2>4. IsFiniteSet(Children(Path(stk, 1)))
    BY ChildrenFacts
  <2>5. 1 <= Cardinality(Children(Path(stk, 1)))
    BY <2>3, <2>4, FS_EmptySet, FS_CardinalityType
  <2> QED
    BY <1>1, <2>2, <2>5 DEF Unfinished
<1> QED
  BY <1>1, <1>2

-----------------------------------------------------------------------------
(* What is staged.                                                         *)

(* The shards of a subtask are added, each once. *)
LEMMA AddShardsFacts ==
  ASSUME NEW ptrs \in Seq(Shards), NEW st \in Seq(Shards)
  PROVE  /\ AddShards(ptrs, st) \in Seq(Shards)
         /\ IsInjective(ptrs) => IsInjective(AddShards(ptrs, st))
         /\ ToSet(AddShards(ptrs, st)) = ToSet(ptrs) \cup ToSet(st)
<1> DEFINE n == Len(st)
           So(k) == {st[i] : i \in 1 .. k}
<1>1. PICK g \in [0 .. n -> Seq(Shards)] :
        g[0] = ptrs /\ (\A k \in 1 .. n : g[k] = Listed(g[k - 1], st[k])) /\ AddShards(ptrs, st) = g[n]
  BY AddShardsFold
<1>2. n \in Nat /\ \A k \in 1 .. n : st[k] \in Shards
  OBVIOUS
<1>3. ASSUME NEW acc \in Seq(Shards), NEW x \in Shards
      PROVE  /\ IsInjective(acc) => IsInjective(Listed(acc, x))
             /\ ToSet(Listed(acc, x)) = ToSet(acc) \cup {x}
  <2>1. CASE Contains(acc, x)
    BY <2>1 DEF Listed, Contains, ToSet
  <2>2. CASE ~Contains(acc, x)
    <3>1. Listed(acc, x) = Append(acc, x) /\ \A i \in 1 .. Len(acc) : acc[i] # x
      BY <2>2 DEF Listed, Contains
    <3>2. /\ DOMAIN Append(acc, x) = 1 .. Len(acc) + 1 /\ Len(acc) \in Nat /\ DOMAIN acc = 1 .. Len(acc)
          /\ \A i \in 1 .. Len(acc) : Append(acc, x)[i] = acc[i]
          /\ Append(acc, x)[Len(acc) + 1] = x
      OBVIOUS
    <3>3. ToSet(Append(acc, x)) = ToSet(acc) \cup {x}
      BY <3>2 DEF ToSet
    <3>4. ASSUME IsInjective(acc), NEW i \in DOMAIN Append(acc, x), NEW j \in DOMAIN Append(acc, x),
                 Append(acc, x)[i] = Append(acc, x)[j]
          PROVE  i = j
      <4>1. \A k \in 1 .. Len(acc) + 1 : k \in 1 .. Len(acc) \/ k = Len(acc) + 1
        BY <3>2
      <4> QED
        BY <3>1, <3>2, <3>4, <4>1 DEF IsInjective
    <3>5. IsInjective(acc) => IsInjective(Append(acc, x))
      BY <3>4 DEF IsInjective
    <3> QED
      BY <3>1, <3>3, <3>5
  <2> QED
    BY <2>1, <2>2
<1> DEFINE T == {k \in 0 .. n : /\ IsInjective(ptrs) => IsInjective(g[k])
                                /\ ToSet(g[k]) = ToSet(ptrs) \cup So(k)}
<1>4. \A k \in 0 .. n : k \in T
  <2>1. 0 \in T
    <3>1. So(0) = {} /\ 0 \in 0 .. n
      BY <1>2
    <3> QED
      BY <1>1, <3>1
  <2>2. ASSUME NEW k \in 1 .. n, k - 1 \in T PROVE k \in T
    <3>1. k \in 0 .. n /\ g[k - 1] \in Seq(Shards) /\ st[k] \in Shards /\ g[k] = Listed(g[k - 1], st[k])
      BY <1>1, <1>2, SMTT(30)
    <3>2. So(k) = So(k - 1) \cup {st[k]}
      <4>1. 1 .. k = (1 .. k - 1) \cup {k}
        OBVIOUS
      <4> QED
        BY <4>1
    <3>3. (IsInjective(ptrs) => IsInjective(g[k - 1])) /\ ToSet(g[k - 1]) = ToSet(ptrs) \cup So(k - 1)
      BY <2>2
    <3>4. (IsInjective(ptrs) => IsInjective(g[k])) /\ ToSet(g[k]) = ToSet(g[k - 1]) \cup {st[k]}
      BY <1>3, <3>1, <3>3
    <3> HIDE DEF So
    <3> QED
      BY <3>1, <3>2, <3>3, <3>4
  <2> HIDE DEF T
  <2> QED
    BY <1>2, <2>1, <2>2, CountingUp
<1>5. n \in T /\ g[n] \in Seq(Shards)
  <2>1. n \in 0 .. n
    BY <1>2
  <2> HIDE DEF T
  <2> QED
    BY <1>4, <2>1
<1>6. So(n) = ToSet(st)
  BY DEF ToSet
<1> QED
  BY <1>1, <1>5, <1>6

(* The sizes are natural numbers. *)
LEMMA SizesAreNat ==
  ASSUME NEW st \in Seq(Shards)
  PROVE  SizeOf(st) \in Nat /\ RequiredSize(st) \in Nat
<1>1. Len(st) \in 0 .. Len(st)
  OBVIOUS
<1>2. SizeOf(st) \in Nat
  BY <1>1, SizeOfFold
<1>3. RequiredSize(st) \in Nat
  BY <1>1, RequiredSizeFold
<1> QED
  BY <1>2, <1>3

(* The shards of the subtasks of a task, when those of a group are added. *)
LEMMA ShardsOfFacts ==
  ASSUME cfg \in Configs, NEW g \in Groups, NEW sts \in Seq(cfg.leaves)
  PROVE  /\ g.st \in Seq(Shards) /\ g.st \in {<<>>} \cup cfg.leaves /\ SubtasksOf(g) \in Seq(cfg.leaves)
         /\ Stream!ShardsOf(<<>>) = {} /\ Stream!ShardsOf(SubtasksOf(g)) = ToSet(g.st)
         /\ sts \o SubtasksOf(g) \in Seq(cfg.leaves)
         /\ Stream!ShardsOf(sts \o SubtasksOf(g)) = Stream!ShardsOf(sts) \cup ToSet(g.st)
<1>1. g.st \in {<<>>} \cup cfg.leaves
  BY DEF Groups, NoGroup
<1>2. g.st \in Seq(Shards)
  <2>1. \A l \in cfg.leaves : l \in Seq(Shards)
    BY ConfigFacts
  <2>2. <<>> \in Seq(Shards)
    OBVIOUS
  <2> QED
    BY <1>1, <2>1, <2>2
<1>3. SubtasksOf(g) = IF g.st = <<>> THEN <<>> ELSE <<g.st>>
  BY DEF SubtasksOf
<1>4. SubtasksOf(g) \in Seq(cfg.leaves)
  <2>1. CASE g.st = <<>>
    BY <1>3, <2>1
  <2>2. CASE g.st # <<>>
    <3>1. g.st \in cfg.leaves
      BY <1>1, <2>2
    <3>2. <<g.st>> \in Seq(cfg.leaves)
      <4> DEFINE one == <<g.st>>
      <4>1. one \in [1 .. 1 -> cfg.leaves]
        BY <3>1
      <4> HIDE DEF one
      <4>2. one \in Seq(cfg.leaves)
        BY <4>1, Numbered
      <4> QED
        BY <4>2 DEF one
    <3>3. SubtasksOf(g) = <<g.st>>
      BY <1>3, <2>2
    <3> QED
      BY <3>2, <3>3
  <2> QED
    BY <2>1, <2>2
<1>5. ASSUME NEW s \in Seq(cfg.leaves)
      PROVE  Stream!ShardsOf(s) = UNION {ToSet(s[i]) : i \in 1 .. Len(s)}
  <2>1. DOMAIN s = 1 .. Len(s)
    OBVIOUS
  <2> QED
    BY <2>1 DEF Stream!ShardsOf, Stream!ToSet, ToSet
<1>6. Stream!ShardsOf(<<>>) = {}
  <2>1. <<>> \in Seq(cfg.leaves) /\ Len(<<>>) = 0 /\ 1 .. 0 = {}
    OBVIOUS
  <2> QED
    BY <1>5, <2>1
<1>7. Stream!ShardsOf(SubtasksOf(g)) = ToSet(g.st)
  <2>1. CASE g.st = <<>>
    BY <1>3, <1>6, <2>1 DEF ToSet
  <2>2. CASE g.st # <<>>
    <3>1. SubtasksOf(g) = <<g.st>> /\ <<g.st>> \in Seq(cfg.leaves)
      BY <1>3, <1>4, <2>2
    <3>2. Stream!ShardsOf(<<g.st>>) = UNION {ToSet(<<g.st>>[i]) : i \in 1 .. Len(<<g.st>>)}
      BY <1>5, <3>1
    <3>3. Len(<<g.st>>) = 1 /\ 1 .. 1 = {1} /\ <<g.st>>[1] = g.st
      OBVIOUS
    <3>4. UNION {ToSet(<<g.st>>[i]) : i \in {1}} = ToSet(g.st)
      BY <3>3
    <3> QED
      BY <3>1, <3>2, <3>3, <3>4
  <2> QED
    BY <2>1, <2>2
<1>8. sts \o SubtasksOf(g) \in Seq(cfg.leaves)
  BY <1>4
<1>9. Stream!ShardsOf(sts \o SubtasksOf(g)) = Stream!ShardsOf(sts) \cup ToSet(g.st)
  <2>1. CASE g.st = <<>>
    <3>1. sts \o SubtasksOf(g) = sts
      BY <1>3, <2>1
    <3> QED
      BY <2>1, <3>1 DEF ToSet
  <2>2. CASE g.st # <<>>
    <3> DEFINE c == sts \o <<g.st>>
    <3>1. sts \o SubtasksOf(g) = c /\ g.st \in cfg.leaves
      BY <1>1, <1>3, <2>2
    <3>2. /\ Len(c) = Len(sts) + 1 /\ Len(sts) \in Nat /\ c[Len(sts) + 1] = g.st
          /\ \A i \in 1 .. Len(sts) : c[i] = sts[i]
      BY <3>1
    <3>3. 1 .. Len(c) = (1 .. Len(sts)) \cup {Len(sts) + 1}
      BY <3>2
    <3> HIDE DEF c
    <3>4. UNION {ToSet(c[i]) : i \in 1 .. Len(c)} =
                (UNION {ToSet(sts[i]) : i \in 1 .. Len(sts)}) \cup ToSet(g.st)
      BY <3>2, <3>3
    <3> QED
      BY <1>5, <1>8, <3>1, <3>4, ZenonT(60)
  <2> QED
    BY <2>1, <2>2
<1> QED
  BY <1>1, <1>2, <1>4, <1>6, <1>7, <1>8, <1>9

-----------------------------------------------------------------------------
(* The invariant.                                                          *)

(* The configuration is one of Configs; the scan is in the tree, and what  *)
(* it collects is what the subtasks need.                                  *)
PlanInv ==
  /\ cfg \in Configs /\ TypeOK /\ ScanInTree
  /\ ToSet(total) = Stream!ShardsOf(subtasks) /\ StagesWhatItNeeds

(* The invariant, with the type of the stack named. *)
LEMMA InvFacts ==
  ASSUME PlanInv
  PROVE  /\ cfg \in Configs /\ TypeOK /\ ScanInTree
         /\ stk \in Seq(Entries) /\ tmp \in Groups /\ group \in Groups
         /\ total \in Seq(Shards) /\ IsInjective(total) /\ subtasks \in Seq(cfg.leaves)
         /\ used \in Nat /\ infos \in Seq([v : Nat \ {0}, st : Nat \ {0}])
         /\ ToSet(total) = Stream!ShardsOf(subtasks)
BY DEF PlanInv, TypeOK, Entries

(* Before the first task. *)
LEMMA InitPlanInv == Init => PlanInv
<1> SUFFICES ASSUME Init PROVE PlanInv
  OBVIOUS
<1>1. cfg \in Configs
  BY DEF Init
<1>2. MaxLevel \in Nat \ {0} /\ cfg.leaves # {} /\ cfg.leaves \subseteq [1 .. MaxLevel -> Shards]
  BY <1>1, ConfigFacts
<1>3. TypeOK
  <2>1. stk \in Seq([shard : Shards \cup {0}, idx : Nat \ {0}])
    BY DEF Init, Root
  <2>2. total \in Seq(Shards) /\ IsInjective(total)
    BY DEF Init, IsInjective
  <2>3. subtasks \in Seq(cfg.leaves) /\ infos \in Seq([v : Nat \ {0}, st : Nat \ {0}])
    BY DEF Init
  <2>4. ToSet(tasks) = {} /\ tasks \in Seq(ToSet(tasks))
    BY DEF Init, ToSet
  <2>5. tmp \in Groups /\ group \in Groups
    BY DEF Init, Groups
  <2>6. pc = "begin" /\ initial = TRUE /\ used = 0
    BY DEF Init
  <2> QED
    BY <1>2, <2>1, <2>2, <2>3, <2>4, <2>5, <2>6 DEF TypeOK
<1>4. ScanInTree
  <2>1. stk = <<Root>> /\ pc = "begin"
    BY DEF Init
  <2>2. stk[1].shard = 0 /\ Len(stk) = 1
    BY <2>1 DEF Root
  <2>3. PICK l \in cfg.leaves : TRUE
    BY <1>2
  <2>4. 1 - 1 <= MaxLevel /\ \A i \in 1 .. 1 - 1 : stk[i + 1].shard = l[i]
    BY <1>2
  <2>5. IsPrefix(Path(stk, 1), l)
    BY <1>1, <2>4, PrefixOfLeaf
  <2> QED
    BY <2>1, <2>2, <2>5 DEF ScanInTree
<1>5. ToSet(total) = Stream!ShardsOf(subtasks)
  BY DEF Init, Stream!ShardsOf, Stream!ToSet, ToSet
<1>6. StagesWhatItNeeds
  BY DEF Init, StagesWhatItNeeds, ToSet
<1> QED
  BY <1>1, <1>3, <1>4, <1>5, <1>6 DEF PlanInv

(* Steps that leave the task being filled and those made alone. *)
LEMMA ScanStep ==
  ASSUME PlanInv, UNCHANGED <<cfg, initial, taskVars, tasks>>,
         stk' \in Seq(Entries), tmp' \in Groups, group' \in Groups,
         pc' \in {"begin", "scan", "decide", "close", "stopped", "exited"},
         ScanInTree'
  PROVE  PlanInv'
<1>1. /\ cfg' = cfg /\ initial' = initial /\ used' = used /\ total' = total /\ subtasks' = subtasks
      /\ infos' = infos /\ tree' = tree /\ tasks' = tasks
  BY DEF taskVars
<1>2. Groups' = Groups
  BY <1>1 DEF Groups, MaxLevel
<1>3. TypeOK'
  BY <1>1, <1>2 DEF PlanInv, TypeOK, Entries, MaxLevel
<1>4. StagesWhatItNeeds'
  BY <1>1 DEF PlanInv, StagesWhatItNeeds
<1> QED
  BY <1>1, <1>3, <1>4 DEF PlanInv

(* Steps that leave the scan alone. *)
LEMMA FillStep ==
  ASSUME PlanInv, UNCHANGED <<cfg, stk, tmp>>, group' \in Groups,
         pc' \in {"begin", "scan", "close", "stopped", "exited"}
  PROVE  ScanInTree' /\ Groups' = Groups /\ group' \in Groups' /\ tmp' \in Groups'
<1>1. cfg' = cfg /\ stk' = stk /\ tmp' = tmp
  OBVIOUS
<1>2. Groups' = Groups
  BY <1>1 DEF Groups, MaxLevel
<1>3. ScanInTree'
  BY <1>1 DEF PlanInv, ScanInTree
<1> QED
  BY <1>1, <1>2, <1>3, InvFacts

(* A task is opened, with the group that is pending. *)
LEMMA OpenTaskStep ==
  ASSUME PlanInv, OpenTask
  PROVE  PlanInv'
<1>1. /\ cfg' = cfg /\ stk' = stk /\ tmp' = tmp /\ group' = group /\ initial' = initial /\ tasks' = tasks
      /\ pc' = "scan"
  BY DEF OpenTask, scanVars
<1>2. ScanInTree' /\ Groups' = Groups /\ group' \in Groups' /\ tmp' \in Groups'
  BY <1>1, FillStep, InvFacts
<1>3. cfg \in Configs /\ group \in Groups /\ <<>> \in Seq(cfg.leaves) /\ <<>> \in Seq(Shards)
  BY InvFacts
<1>4. group.st \in Seq(Shards) /\ SubtasksOf(group) \in Seq(cfg.leaves)
      /\ Stream!ShardsOf(<<>>) = {} /\ Stream!ShardsOf(SubtasksOf(group)) = ToSet(group.st)
  BY <1>3, ShardsOfFacts
<1>5. /\ total' = IF initial THEN <<>> ELSE AddShards(<<>>, group.st)
      /\ subtasks' = IF initial THEN <<>> ELSE SubtasksOf(group)
      /\ used' = SizeOf(total')
  BY DEF OpenTask
<1>6. ToSet(<<>>) = {} /\ IsInjective(<<>>)
  BY DEF ToSet, IsInjective
<1>7. /\ AddShards(<<>>, group.st) \in Seq(Shards) /\ IsInjective(AddShards(<<>>, group.st))
      /\ ToSet(AddShards(<<>>, group.st)) = ToSet(group.st)
  <2> DEFINE none == <<>>
             st == group.st
  <2>1. none \in Seq(Shards) /\ st \in Seq(Shards) /\ ToSet(none) = {} /\ IsInjective(none)
    BY <1>3, <1>4, <1>6
  <2> HIDE DEF none, st
  <2>2. /\ AddShards(none, st) \in Seq(Shards) /\ IsInjective(AddShards(none, st))
        /\ ToSet(AddShards(none, st)) = ToSet(none) \cup ToSet(st)
    BY <2>1, AddShardsFacts
  <2>3. ToSet(AddShards(none, st)) = ToSet(st)
    BY <2>1, <2>2
  <2> QED
    BY <2>2, <2>3 DEF none, st
<1>8. /\ total' \in Seq(Shards) /\ IsInjective(total') /\ subtasks' \in Seq(cfg.leaves)
      /\ ToSet(total') = Stream!ShardsOf(subtasks')
  <2>1. CASE initial
    BY <1>3, <1>4, <1>5, <1>6, <2>1
  <2>2. CASE ~initial
    BY <1>4, <1>5, <1>7, <2>2
  <2> QED
    BY <2>1, <2>2
<1>9. used' \in Nat
  BY <1>5, <1>8, SizesAreNat
<1>10. infos' \in Seq([v : Nat \ {0}, st : Nat \ {0}])
  <2>1. CASE initial
    BY <2>1 DEF OpenTask
  <2>2. CASE ~initial
    <3>1. group \in Groups \ {NoGroup}
      BY <1>3, <2>2 DEF OpenTask
    <3>2. group.max \in 1 .. MaxLevel
      BY <3>1 DEF Groups
    <3>3. cfg.vlevel[group.max] \in Nat
      BY <1>3, <3>2, ConfigFacts
    <3>4. infos' = [i \in 1 .. cfg.vlevel[group.max] |-> [v |-> i, st |-> 1]]
      BY <2>2 DEF OpenTask
    <3> DEFINE n == cfg.vlevel[group.max]
    <3> HIDE DEF n
    <3>5. \A i \in 1 .. n : [v |-> i, st |-> 1] \in [v : Nat \ {0}, st : Nat \ {0}]
      BY <3>3 DEF n
    <3>6. [i \in 1 .. n |-> [v |-> i, st |-> 1]] \in [1 .. n -> [v : Nat \ {0}, st : Nat \ {0}]]
      BY <3>5
    <3>7. n \in Nat
      BY <3>3 DEF n
    <3> QED
      BY <3>4, <3>6, <3>7, Numbered DEF n
  <2> QED
    BY <2>1, <2>2
<1>11. TypeOK'
  BY <1>1, <1>2, <1>8, <1>9, <1>10 DEF PlanInv, TypeOK, MaxLevel
<1>12. StagesWhatItNeeds'
  BY <1>1 DEF PlanInv, StagesWhatItNeeds
<1> QED
  BY <1>1, <1>2, <1>3, <1>8, <1>11, <1>12 DEF PlanInv

(* A group is added to the task. *)
LEMMA AddGroupStep ==
  ASSUME PlanInv, AddGroup
  PROVE  PlanInv'
<1>1. /\ cfg' = cfg /\ stk' = stk /\ tmp' = tmp /\ group' = NoGroup /\ initial' = initial
      /\ tasks' = tasks /\ pc' = "scan" /\ pc = "decide"
  BY DEF AddGroup
<1>2. NoGroup \in Groups
  BY DEF Groups
<1>3. ScanInTree' /\ Groups' = Groups /\ group' \in Groups' /\ tmp' \in Groups'
  BY <1>1, <1>2, FillStep
<1>4. /\ cfg \in Configs /\ group \in Groups /\ subtasks \in Seq(cfg.leaves) /\ used \in Nat
      /\ total \in Seq(Shards) /\ IsInjective(total) /\ ToSet(total) = Stream!ShardsOf(subtasks)
  BY InvFacts
<1>5. /\ group.st \in Seq(Shards) /\ subtasks \o SubtasksOf(group) \in Seq(cfg.leaves)
      /\ Stream!ShardsOf(subtasks \o SubtasksOf(group)) = Stream!ShardsOf(subtasks) \cup ToSet(group.st)
  BY <1>4, ShardsOfFacts
<1>6. /\ total' = AddShards(total, group.st) /\ subtasks' = subtasks \o SubtasksOf(group)
      /\ used' = used + RequiredSize(group.st)
  BY DEF AddGroup
<1>7. /\ total' \in Seq(Shards) /\ IsInjective(total') /\ ToSet(total') = ToSet(total) \cup ToSet(group.st)
  BY <1>4, <1>5, <1>6, AddShardsFacts
<1>8. used' \in Nat
  BY <1>4, <1>5, <1>6, SizesAreNat
<1>9. infos' \in Seq([v : Nat \ {0}, st : Nat \ {0}])
  <2>1. group \in Groups \ {NoGroup}
    BY <1>1, <1>4 DEF PlanInv, ScanInTree
  <2>2. group.max \in 1 .. MaxLevel
    BY <2>1 DEF Groups
  <2>3. cfg.vlevel[group.max] \in Nat \ {0}
    BY <1>4, <2>2, ConfigFacts
  <2>4. Len(subtasks) + 1 \in Nat \ {0}
    BY <1>4
  <2>5. [v |-> cfg.vlevel[group.max], st |-> Len(subtasks) + 1] \in [v : Nat \ {0}, st : Nat \ {0}]
    BY <2>3, <2>4
  <2>6. infos \in Seq([v : Nat \ {0}, st : Nat \ {0}])
    BY InvFacts
  <2> QED
    BY <2>5, <2>6 DEF AddGroup
<1>10. TypeOK'
  BY <1>1, <1>3, <1>5, <1>6, <1>7, <1>8, <1>9 DEF PlanInv, TypeOK, MaxLevel
<1>11. StagesWhatItNeeds'
  BY <1>1 DEF PlanInv, StagesWhatItNeeds
<1>12. ToSet(total') = Stream!ShardsOf(subtasks')
  BY <1>4, <1>5, <1>6, <1>7
<1> QED
  BY <1>1, <1>3, <1>4, <1>10, <1>11, <1>12 DEF PlanInv

(* The task is closed. *)
LEMMA CloseTaskStep ==
  ASSUME PlanInv, CloseTask
  PROVE  PlanInv'
<1>1. /\ cfg' = cfg /\ stk' = stk /\ tmp' = tmp /\ group' = group /\ initial' = FALSE /\ pc' = "begin"
      /\ used' = used /\ total' = total /\ subtasks' = subtasks /\ infos' = infos
  BY DEF CloseTask, scanVars, taskVars
<1>2. ScanInTree' /\ Groups' = Groups /\ group' \in Groups' /\ tmp' \in Groups'
  BY <1>1, FillStep, InvFacts
<1> DEFINE t == [subtasks |-> subtasks, total |-> total, nodes |-> tree.nodes, roots |-> tree.roots]
<1>3. ToSet(tasks') \subseteq ToSet(tasks) \cup {t}
  BY DEF CloseTask, ToSet
<1>4. /\ t.subtasks \in Seq(cfg.leaves) /\ t.total \in Seq(Shards)
      /\ IsInjective(t.total) /\ ToSet(t.total) = Stream!ShardsOf(t.subtasks)
  BY InvFacts
<1> HIDE DEF t
<1>5. StagesWhatItNeeds'
  BY <1>3, <1>4 DEF PlanInv, StagesWhatItNeeds
<1>6. tasks' \in Seq(ToSet(tasks'))
  <2>1. tasks \in Seq(ToSet(tasks)) /\ tasks' = Append(tasks, t)
    BY DEF PlanInv, TypeOK, CloseTask, t
  <2>2. tasks' \in Seq(ToSet(tasks) \cup {t})
    BY <2>1
  <2> QED
    BY <2>2, OwnElements
<1>7. TypeOK'
  BY <1>1, <1>2, <1>3, <1>4, <1>6 DEF PlanInv, TypeOK, MaxLevel
<1> QED
  BY <1>1, <1>2, <1>5, <1>7 DEF PlanInv

(* A node of the kernel's tree is hung. *)
LEMMA HangNodeStep ==
  ASSUME PlanInv, HangNode
  PROVE  PlanInv'
<1>1. /\ cfg' = cfg /\ stk' = stk /\ tmp' = tmp /\ group' = group /\ initial' = initial /\ pc' = pc
      /\ used' = used /\ total' = total /\ subtasks' = subtasks /\ tasks' = tasks /\ pc = "close"
  BY DEF HangNode, scanVars
<1>2. ScanInTree' /\ Groups' = Groups /\ group' \in Groups' /\ tmp' \in Groups'
  BY <1>1, FillStep, InvFacts
<1>3. infos' \in Seq([v : Nat \ {0}, st : Nat \ {0}])
  <2>1. infos \in Seq([v : Nat \ {0}, st : Nat \ {0}]) /\ infos # <<>> /\ infos' = Tail(infos)
    BY InvFacts DEF HangNode, MoreToHang
  <2> QED
    BY <2>1, HeadTailProperties
<1>4. TypeOK'
  BY <1>1, <1>2, <1>3 DEF PlanInv, TypeOK, MaxLevel
<1>5. StagesWhatItNeeds'
  BY <1>1 DEF PlanInv, StagesWhatItNeeds
<1> QED
  BY <1>1, <1>2, <1>4, <1>5 DEF PlanInv

(* A step that only says where the loop is. *)
LEMMA TurnStep ==
  ASSUME PlanInv, UNCHANGED <<cfg, stk, tmp, initial, taskVars, tasks>>,
         group' \in Groups, pc' \in {"begin", "scan", "close", "stopped", "exited"}
  PROVE  PlanInv'
<1>1. ScanInTree'
  BY FillStep
<1>2. stk' \in Seq(Entries) /\ tmp' \in Groups
  BY InvFacts
<1> QED
  BY <1>1, <1>2, ScanStep

(* Every step keeps the invariant. *)
LEMMA NextStep ==
  ASSUME PlanInv, [Next]_vars
  PROVE  PlanInv'
<1>1. NoGroup \in Groups /\ group \in Groups /\ cfg \in Configs /\ TypeOK /\ ScanInTree
  BY InvFacts DEF Groups
<1>2. CASE OpenTask
  BY <1>2, OpenTaskStep
<1>3. CASE StopEmpty
  BY <1>1, <1>3, TurnStep DEF StopEmpty, scanVars
<1>4. CASE ScanNode
  <2>1. /\ stk' \in Seq(Entries) /\ stk' # <<>> /\ stk'[1].shard = 0
        /\ tmp' \in Groups \ {NoGroup} /\ group' \in Groups
        /\ (pc' = "decide" => group' # NoGroup)
        /\ UNCHANGED <<cfg, initial, taskVars, tasks>> /\ pc' \in {"scan", "decide"}
    BY <1>1, <1>4, ScanNodeFacts
  <2>2. \E l \in cfg.leaves : IsPrefix(Path(stk', Len(stk')), l)
    BY <1>1, <1>4, ScanNodeFacts
  <2>3. cfg' = cfg
    BY <2>1
  <2>4. ScanInTree'
    BY <2>1, <2>2, <2>3 DEF ScanInTree, NoGroup, Path
  <2> QED
    BY <2>1, <2>4, ScanStep
<1>5. CASE ScanLast
  <2>1. tmp \in Groups \ {NoGroup}
    BY <1>1, <1>5, ScanLastFacts
  <2>2. /\ UNCHANGED <<cfg, initial, taskVars, tasks>> /\ tmp' = tmp /\ stk' = <<>>
        /\ group' = tmp /\ pc' = "decide"
    BY <1>5 DEF ScanLast
  <2>3. stk' \in Seq(Entries)
    BY <2>2
  <2>4. ScanInTree'
    BY <2>1, <2>2 DEF ScanInTree, NoGroup
  <2> QED
    BY <2>1, <2>2, <2>3, <2>4, ScanStep
<1>6. CASE ScanOver
  BY <1>1, <1>6, TurnStep DEF ScanOver
<1>7. CASE AddGroup
  BY <1>7, AddGroupStep
<1>8. CASE LeaveGroup
  BY <1>1, <1>8, TurnStep DEF LeaveGroup, scanVars
<1>9. CASE HangNode
  BY <1>9, HangNodeStep
<1>10. CASE CloseTask
  BY <1>10, CloseTaskStep
<1>11. CASE CloseEmpty
  BY <1>1, <1>11, TurnStep DEF CloseEmpty, scanVars
<1>12. CASE TreeTooLarge
  BY <1>1, <1>12, TurnStep DEF TreeTooLarge, scanVars
<1>13. CASE UNCHANGED vars
  <2>1. UNCHANGED <<cfg, stk, tmp, initial, taskVars, tasks>> /\ group' = group /\ pc' = pc
    BY <1>13 DEF vars, scanVars
  <2>2. stk' \in Seq(Entries) /\ tmp' \in Groups
    BY <2>1, InvFacts
  <2>3. pc' \in {"begin", "scan", "decide", "close", "stopped", "exited"}
    BY <1>1, <2>1 DEF TypeOK
  <2>4. ScanInTree'
    BY <1>1, <2>1 DEF ScanInTree, Path
  <2> QED
    BY <1>1, <2>1, <2>2, <2>3, <2>4, ScanStep
<1> QED
  BY <1>2, <1>3, <1>4, <1>5, <1>6, <1>7, <1>8, <1>9, <1>10, <1>11, <1>12, <1>13 DEF Next

-----------------------------------------------------------------------------
(* The order of the tree.                                                  *)

(* The order of the leaves, by its pairs. *)
LeafOrder == {p \in cfg.leaves \X cfg.leaves : Before(p[1], p[2])}

(* The leaves are finitely many and ordered. *)
LEMMA LeavesOrdered ==
  ASSUME cfg \in Configs
  PROVE  /\ IsFiniteSet(cfg.leaves) /\ StrictOrder(LeafOrder, cfg.leaves)
         /\ \A l, m \in cfg.leaves : <<l, m>> \in LeafOrder <=> Before(l, m)
         /\ \A l \in cfg.leaves : Lower(LeafOrder, cfg.leaves, l) = {m \in cfg.leaves : Before(m, l)}
<1> DEFINE n == MaxLevel
           L == cfg.leaves
           At(l, m, i) == l[i] < m[i] /\ \A j \in 1 .. i - 1 : l[j] = m[j]
<1>1. n \in Nat /\ L \subseteq [1 .. n -> Shards] /\ Shards \subseteq Nat /\ IsFiniteSet(Shards)
  BY ConfigFacts, ShardsAssumption
<1>2. IsFiniteSet(L)
  BY <1>1, FiniteFunctions, FS_Subset
<1>3. \A l, m \in L : <<l, m>> \in LeafOrder <=> Before(l, m)
  BY DEF LeafOrder
<1>4. ASSUME NEW l \in L, NEW m PROVE Before(l, m) <=> \E i \in 1 .. n : At(l, m, i)
  <2>1. DOMAIN l = 1 .. n
    BY <1>1
  <2> QED
    BY <2>1 DEF Before
<1>5. ASSUME NEW l \in L, NEW i \in 1 .. n PROVE l[i] \in Nat /\ i \in Nat
  <2>1. l \in [1 .. n -> Shards]
    BY <1>1
  <2>2. l[i] \in Shards
    BY <2>1
  <2>3. l[i] \in Nat
    BY <2>2, ShardsAssumption
  <2> QED
    BY <2>3
<1>6. \A l \in L : ~Before(l, l)
  BY <1>4, <1>5
<1>7. ASSUME NEW l \in L, NEW m \in L, NEW k \in L, Before(l, m), Before(m, k)
      PROVE  Before(l, k)
  <2>1. PICK i \in 1 .. n : At(l, m, i)
    BY <1>4, <1>7
  <2>2. PICK j \in 1 .. n : At(m, k, j)
    BY <1>4, <1>7
  <2>3. l[i] \in Nat /\ m[i] \in Nat /\ k[i] \in Nat /\ l[j] \in Nat /\ m[j] \in Nat /\ k[j] \in Nat
    BY <1>5
  <2>4. CASE i <= j
    <3>1. m[i] <= k[i]
      BY <2>2, <2>3, <2>4
    <3>2. \A h \in 1 .. i - 1 : h \in 1 .. j - 1
      BY <2>4
    <3>3. At(l, k, i)
      BY <2>1, <2>2, <2>3, <3>1, <3>2
    <3> QED
      BY <1>4, <3>3
  <2>5. CASE j < i
    <3>1. l[j] = m[j]
      BY <2>1, <2>5
    <3>2. \A h \in 1 .. j - 1 : h \in 1 .. i - 1
      BY <2>5
    <3>3. At(l, k, j)
      BY <2>1, <2>2, <2>3, <3>1, <3>2
    <3> QED
      BY <1>4, <3>3
  <2> QED
    BY <2>4, <2>5
<1>8. ASSUME NEW l \in L, NEW m \in L, l # m PROVE Before(l, m) \/ Before(m, l)
  <2> DEFINE D == {i \in 1 .. n : l[i] # m[i]}
  <2>1. D # {}
    <3>1. l \in [1 .. n -> Shards] /\ m \in [1 .. n -> Shards]
      BY <1>1
    <3>2. l = [i \in 1 .. n |-> l[i]] /\ m = [i \in 1 .. n |-> m[i]]
      BY <3>1
    <3>3. ASSUME \A i \in 1 .. n : l[i] = m[i] PROVE FALSE
      BY <1>8, <3>2, <3>3
    <3> QED
      BY <3>3
  <2>2. D \in SUBSET Nat
    BY <1>1
  <2>3. PICK i \in D : \A j \in D : i <= j
    <3> HIDE DEF D
    <3> QED
      BY <2>1, <2>2, LeastNatural
  <2>4. \A j \in 1 .. i - 1 : l[j] = m[j]
    <3>1. \A j \in 1 .. i - 1 : j \in 1 .. n /\ ~(i <= j)
      BY <1>1
    <3> QED
      BY <2>3, <3>1
  <2>5. l[i] \in Nat /\ m[i] \in Nat /\ l[i] # m[i]
    BY <1>5
  <2>6. At(l, m, i) \/ At(m, l, i)
    BY <2>4, <2>5
  <2> QED
    BY <1>4, <2>6
<1>9. StrictOrder(LeafOrder, L)
  BY <1>3, <1>6, <1>7, <1>8 DEF StrictOrder
<1>10. \A l \in L : Lower(LeafOrder, L, l) = {m \in L : Before(m, l)}
  BY <1>3 DEF Lower
<1> QED
  BY <1>2, <1>3, <1>9, <1>10

(* The children of a node by their places among them. *)
LEMMA RankFacts ==
  ASSUME cfg \in Configs, NEW s, NEW d \in Nat \ {0},
         NEW a \in Children(Path(s, d)), NEW b \in Children(Path(s, d))
  PROVE  /\ Rank(Path(s, d), a) \in 0 .. Cardinality(Children(Path(s, d))) - 1
         /\ Rank(Path(s, d), a) = Rank(Path(s, d), b) => a = b
         /\ Rank(Path(s, d), a) < Rank(Path(s, d), b) => a < b
         /\ a \in Nat /\ b \in Nat
<1> DEFINE G == Children(Path(s, d))
           R == {p \in G \X G : p[1] < p[2]}
<1>1. IsFiniteSet(G) /\ G \subseteq Nat
  BY ChildrenFacts, ShardsAssumption
<1>2. \A g, h \in G : <<g, h>> \in R <=> g < h
  OBVIOUS
<1> HIDE DEF R
<1>3. StrictOrder(R, G)
  <2>1. \A g \in G : <<g, g>> \notin R
    BY <1>1, <1>2
  <2>2. ASSUME NEW g \in G, NEW h \in G, NEW k \in G, <<g, h>> \in R, <<h, k>> \in R
        PROVE  <<g, k>> \in R
    <3>1. g \in Nat /\ h \in Nat /\ k \in Nat /\ g < h /\ h < k
      BY <1>1, <1>2, <2>2
    <3> QED
      BY <1>2, <3>1
  <2>3. ASSUME NEW g \in G, NEW h \in G PROVE g = h \/ <<g, h>> \in R \/ <<h, g>> \in R
    <3>1. g \in Nat /\ h \in Nat
      BY <1>1
    <3> QED
      BY <1>2, <3>1
  <2> QED
    BY <2>1, <2>2, <2>3 DEF StrictOrder
<1>4. ASSUME NEW g \in G PROVE Rank(Path(s, d), g) = Cardinality(Lower(R, G, g))
  <2>1. {r \in G : r < g} = Lower(R, G, g)
    BY <1>2 DEF Lower
  <2> QED
    BY <2>1 DEF Rank
<1>5. a \in G /\ b \in G /\ a \in Nat /\ b \in Nat
  BY <1>1
<1> HIDE DEF G
<1>6. Cardinality(Lower(R, G, a)) \in 0 .. Cardinality(G) - 1
  BY <1>1, <1>3, <1>5, RankIsSmall
<1>7. Cardinality(Lower(R, G, a)) = Cardinality(Lower(R, G, b)) => a = b
  BY <1>1, <1>3, <1>5, RankedBy
<1>8. ASSUME Cardinality(Lower(R, G, a)) < Cardinality(Lower(R, G, b)) PROVE a < b
  <2>1. ASSUME <<b, a>> \in R PROVE FALSE
    <3>1. /\ Cardinality(Lower(R, G, a)) \in Nat /\ Cardinality(Lower(R, G, b)) \in Nat
          /\ Cardinality(Lower(R, G, b)) < Cardinality(Lower(R, G, a))
      BY <1>1, <1>3, <1>5, <2>1, RankGrows
    <3> QED
      BY <1>8, <3>1
  <2>2. a # b
    <3>1. ASSUME a = b PROVE FALSE
      <4>1. Cardinality(Lower(R, G, a)) \in Nat
        BY <1>6
      <4> QED
        BY <1>8, <3>1, <4>1
    <3> QED
      BY <3>1
  <2> QED
    BY <1>2, <1>3, <1>5, <2>1, <2>2 DEF StrictOrder
<1> QED
  BY <1>4, <1>5, <1>6, <1>7, <1>8 DEF G

(* On the way to leaf l there is a child of entry d of stack s to visit. *)
OpenAt(s, d, l) ==
  /\ d <= MaxLevel /\ IsPrefix(Path(s, d), l)
  /\ s[d].idx <= Rank(Path(s, d), l[d]) + 1

Pending(s) == {l \in cfg.leaves : \E d \in DOMAIN s : OpenAt(s, d, l)}

(* The leaves to visit are those the stack leads to.                       *)
LEMMA ToVisitIsPending == ToVisit = Pending(stk)
BY DEF ToVisit, Pending, OpenAt

(* A leaf below an entry of the stack takes one of the children there. *)
LEMMA BelowEntry ==
  ASSUME cfg \in Configs, NEW s, NEW d \in 1 .. MaxLevel, NEW l \in cfg.leaves
  PROVE  /\ IsPrefix(Path(s, d), l) <=> \A i \in 1 .. d - 1 : s[i + 1].shard = l[i]
         /\ IsPrefix(Path(s, d), l) => l[d] \in Children(Path(s, d))
<1>1. MaxLevel \in Nat /\ d \in Nat \ {0} /\ d - 1 <= MaxLevel /\ d <= MaxLevel
  BY ConfigFacts
<1>2. IsPrefix(Path(s, d), l) <=> \A i \in 1 .. d - 1 : s[i + 1].shard = l[i]
  BY <1>1, PrefixOfLeaf
<1> QED
  BY <1>1, <1>2, ChildrenFacts

(* An entry whose children were all visited leads to no leaf. *)
LEMMA FinishedLeadsNowhere ==
  ASSUME cfg \in Configs, stk \in Seq(Entries), NEW d \in DOMAIN stk, d \notin Unfinished,
         NEW l \in cfg.leaves
  PROVE  ~OpenAt(stk, d, l)
<1> SUFFICES ASSUME OpenAt(stk, d, l) PROVE FALSE
  OBVIOUS
<1>1. d \in 1 .. MaxLevel /\ d \in Nat \ {0}
  <2>1. d \in 1 .. Len(stk) /\ MaxLevel \in Nat
    BY ConfigFacts
  <2> QED
    BY <2>1 DEF OpenAt
<1> DEFINE G == Children(Path(stk, d))
           r == Rank(Path(stk, d), l[d])
<1>2. l[d] \in G
  BY <1>1, BelowEntry DEF OpenAt
<1>3. r \in 0 .. Cardinality(G) - 1
  BY <1>1, <1>2, RankFacts
<1>4. Cardinality(G) \in Nat
  BY <1>1, ChildrenFacts, FS_CardinalityType
<1>5. stk[d].idx <= r + 1
  BY DEF OpenAt
<1>6. stk[d].idx \in Nat
  <2>1. stk[d] \in Entries
    OBVIOUS
  <2> QED
    BY <2>1 DEF Entries
<1>7. stk[d].idx <= Cardinality(G)
  <2> HIDE DEF G, r
  <2> QED
    BY <1>3, <1>4, <1>5, <1>6
<1> QED
  BY <1>7 DEF Unfinished

(* Every entry of a stack is the child last visited of the one below it. *)
ChildrenInTurn(s) ==
  \A d \in 1 .. Len(s) - 1 : Rank(Path(s, d), s[d + 1].shard) + 2 = s[d].idx

(* The entries of the stack below the one whose next child is visited, and *)
(* those of the stack after that, by the leaves they lead to.              *)
LEMMA NextOpen ==
  ASSUME cfg \in Configs, stk \in Seq(Entries), NEW d \in Unfinished, NEW l \in cfg.leaves
  PROVE  /\ \A e \in 1 .. d - 1 : OpenAt(NextStack(d), e, l) <=> OpenAt(stk, e, l)
         /\ OpenAt(stk, d, l) <=>
              /\ IsPrefix(Path(stk, d), l)
              /\ stk[d].idx - 1 <= Rank(Path(stk, d), l[d])
         /\ OpenAt(NextStack(d), d, l) <=>
              /\ IsPrefix(Path(stk, d), l)
              /\ stk[d].idx <= Rank(Path(stk, d), l[d])
         /\ OpenAt(NextStack(d), d + 1, l) <=>
              /\ d < MaxLevel /\ IsPrefix(Path(stk, d), l)
              /\ stk[d].idx - 1 = Rank(Path(stk, d), l[d])
<1> DEFINE s == NextStack(d)
           c == Child(Path(stk, d), stk[d].idx)
           k == stk[d].idx
<1>1. d \in 1 .. MaxLevel /\ MaxLevel \in Nat /\ d \in Nat \ {0} /\ d \in 1 .. Len(stk)
  BY NextChild, ConfigFacts
<1>2. c \in Children(Path(stk, d)) /\ k \in 1 .. Cardinality(Children(Path(stk, d)))
  BY NextChild
<1>3. Rank(Path(stk, d), c) = k - 1
  BY <1>1, <1>2, ChildFacts DEF Rank
<1>4. /\ \A i \in 1 .. d : /\ s[i].shard = stk[i].shard
                           /\ s[i].idx = IF i = d THEN stk[i].idx + 1 ELSE stk[i].idx
      /\ s[d + 1] = [shard |-> c, idx |-> 1]
  BY NextStackFacts
<1>5. s[d + 1].shard = c /\ s[d + 1].idx = 1
  BY <1>4
<1> HIDE DEF s
<1>6. \A e \in 1 .. d : Path(s, e) = Path(stk, e)
  <2>1. ASSUME NEW e \in 1 .. d, NEW i \in 1 .. e - 1 PROVE s[i + 1].shard = stk[i + 1].shard
    <3>1. i + 1 \in 1 .. d
      BY <1>1
    <3> QED
      BY <1>4, <3>1
  <2> QED
    BY <2>1 DEF Path
<1>7. k \in Nat \ {0}
  <2>1. Cardinality(Children(Path(stk, d))) \in Nat
    BY <1>1, ChildrenFacts, FS_CardinalityType
  <2> QED
    BY <1>2, <2>1
<1>8. IsPrefix(Path(stk, d), l) =>
        /\ Rank(Path(stk, d), l[d]) \in Nat
        /\ Rank(Path(stk, d), l[d]) = k - 1 <=> l[d] = c
  <2>1. ASSUME IsPrefix(Path(stk, d), l) PROVE l[d] \in Children(Path(stk, d))
    BY <1>1, <2>1, BelowEntry
  <2>2. ASSUME l[d] \in Children(Path(stk, d))
        PROVE  /\ Rank(Path(stk, d), l[d]) \in Nat
               /\ Rank(Path(stk, d), l[d]) = k - 1 <=> l[d] = c
    <3>1. Rank(Path(stk, d), l[d]) = Rank(Path(stk, d), c) => l[d] = c
      BY <1>1, <1>2, <2>2, RankFacts
    <3>2. Rank(Path(stk, d), l[d]) \in 0 .. Cardinality(Children(Path(stk, d))) - 1
      BY <1>1, <2>2, RankFacts
    <3> QED
      BY <1>3, <3>1, <3>2
  <2> QED
    BY <2>1, <2>2
<1>9. \A e \in 1 .. d - 1 : OpenAt(s, e, l) <=> OpenAt(stk, e, l)
  <2>1. ASSUME NEW e \in 1 .. d - 1 PROVE s[e].idx = stk[e].idx /\ e \in 1 .. d
    <3>1. e \in 1 .. d /\ e # d
      BY <1>1
    <3> QED
      BY <1>4, <3>1
  <2> QED
    BY <1>6, <2>1 DEF OpenAt
<1>10. d <= MaxLevel /\ d \in 1 .. d
  BY <1>1
<1>11. OpenAt(stk, d, l) <=> IsPrefix(Path(stk, d), l) /\ k - 1 <= Rank(Path(stk, d), l[d])
  <2>1. OpenAt(stk, d, l) <=> IsPrefix(Path(stk, d), l) /\ k <= Rank(Path(stk, d), l[d]) + 1
    BY <1>10 DEF OpenAt
  <2> HIDE DEF k
  <2> QED
    BY <1>7, <1>8, <2>1
<1>12. OpenAt(s, d, l) <=> IsPrefix(Path(stk, d), l) /\ k <= Rank(Path(stk, d), l[d])
  <2>1. s[d].idx = k + 1
    BY <1>4, <1>10
  <2>2. OpenAt(s, d, l) <=> IsPrefix(Path(stk, d), l) /\ k + 1 <= Rank(Path(stk, d), l[d]) + 1
    BY <1>6, <1>10, <2>1 DEF OpenAt
  <2> HIDE DEF k
  <2> QED
    BY <1>7, <1>8, <2>2
<1>13. OpenAt(s, d + 1, l) <=>
         d < MaxLevel /\ IsPrefix(Path(stk, d), l) /\ k - 1 = Rank(Path(stk, d), l[d])
  <2>1. CASE d = MaxLevel
    BY <1>1, <2>1 DEF OpenAt
  <2>2. CASE d < MaxLevel
    <3>1. d + 1 \in 1 .. MaxLevel /\ d + 1 \in Nat \ {0} /\ d + 1 <= MaxLevel /\ (d + 1) - 1 = d
      BY <1>1, <2>2
    <3>2. IsPrefix(Path(s, d + 1), l) <=> \A i \in 1 .. d : s[i + 1].shard = l[i]
      BY <3>1, BelowEntry
    <3>3. IsPrefix(Path(stk, d), l) <=> \A i \in 1 .. d - 1 : stk[i + 1].shard = l[i]
      BY <1>1, BelowEntry
    <3>4. \A i \in 1 .. d - 1 : i \in 1 .. d /\ s[i + 1].shard = stk[i + 1].shard
      <4>1. \A i \in 1 .. d - 1 : i \in 1 .. d /\ i + 1 \in 1 .. d
        BY <1>1
      <4> QED
        BY <1>4, <4>1
    <3>5. \A i \in 1 .. d : i = d \/ i \in 1 .. d - 1
      BY <1>1
    <3>6. IsPrefix(Path(s, d + 1), l) <=> IsPrefix(Path(stk, d), l) /\ l[d] = c
      BY <1>5, <1>10, <3>2, <3>3, <3>4, <3>5
    <3>7. ASSUME IsPrefix(Path(s, d + 1), l) PROVE 1 <= Rank(Path(s, d + 1), l[d + 1]) + 1
      <4>1. l[d + 1] \in Children(Path(s, d + 1))
        BY <3>1, <3>7, BelowEntry
      <4>2. Rank(Path(s, d + 1), l[d + 1]) \in 0 .. Cardinality(Children(Path(s, d + 1))) - 1
        BY <3>1, <4>1, RankFacts
      <4> QED
        BY <4>2
    <3>8. OpenAt(s, d + 1, l) <=> IsPrefix(Path(s, d + 1), l)
      BY <1>5, <3>1, <3>7 DEF OpenAt
    <3> QED
      BY <1>8, <2>2, <3>6, <3>8
  <2> QED
    BY <1>1, <2>1, <2>2
<1> QED
  BY <1>9, <1>11, <1>12, <1>13 DEF s

(* When the next child of the deepest unfinished entry is visited, no leaf *)
(* is lost or turns up again: the leaf visited is the first of those to    *)
(* visit, and visiting a node above the last level changes nothing.        *)
LEMMA NextPending ==
  ASSUME cfg \in Configs, stk \in Seq(Entries), ChildrenInTurn(stk), NEW d \in Unfinished, Deepest(d)
  PROVE  /\ ChildrenInTurn(NextStack(d))
         /\ d < MaxLevel => Pending(NextStack(d)) = Pending(stk)
         /\ d = MaxLevel =>
              LET p == Path(NextStack(d), d + 1)
              IN  /\ p \in Pending(stk) /\ Pending(NextStack(d)) = Pending(stk) \ {p}
                  /\ \A l \in Pending(NextStack(d)) : Before(p, l)
<1> DEFINE s == NextStack(d)
           c == Child(Path(stk, d), stk[d].idx)
           k == stk[d].idx
           r(l) == Rank(Path(stk, d), l[d])
           On(l) == IsPrefix(Path(stk, d), l)
           Lower_(l) == \E e \in 1 .. d - 1 : OpenAt(stk, e, l)
<1>1. d \in 1 .. MaxLevel /\ MaxLevel \in Nat /\ d \in Nat \ {0} /\ d \in 1 .. Len(stk) /\ Len(stk) \in Nat
  BY NextChild, ConfigFacts
<1>2. c \in Children(Path(stk, d)) /\ k \in 1 .. Cardinality(Children(Path(stk, d)))
  BY NextChild
<1>3. Rank(Path(stk, d), c) = k - 1
  BY <1>1, <1>2, ChildFacts DEF Rank
<1>4. /\ Len(s) = d + 1 /\ DOMAIN s = 1 .. d + 1
      /\ \A i \in 1 .. d : /\ s[i].shard = stk[i].shard
                           /\ s[i].idx = IF i = d THEN stk[i].idx + 1 ELSE stk[i].idx
      /\ s[d + 1] = [shard |-> c, idx |-> 1]
  BY NextStackFacts
<1>5. s[d + 1].shard = c /\ s[d + 1].idx = 1
  BY <1>4
<1>6. \A e \in 1 .. d : Path(s, e) = Path(stk, e)
  <2> HIDE DEF s
  <2>1. ASSUME NEW e \in 1 .. d, NEW i \in 1 .. e - 1 PROVE s[i + 1].shard = stk[i + 1].shard
    <3>1. i + 1 \in 1 .. d
      BY <1>1
    <3> QED
      BY <1>4, <3>1
  <2> QED
    BY <2>1 DEF Path
<1>7. k \in Nat \ {0}
  <2>1. Cardinality(Children(Path(stk, d))) \in Nat
    BY <1>1, ChildrenFacts, FS_CardinalityType
  <2> QED
    BY <1>2, <2>1
<1>8. ChildrenInTurn(s)
  <2> SUFFICES ASSUME NEW e \in 1 .. d PROVE Rank(Path(s, e), s[e + 1].shard) + 2 = s[e].idx
    BY <1>1, <1>4 DEF ChildrenInTurn
  <2>1. CASE e = d
    <3>1. Path(s, e) = Path(stk, d) /\ s[e].idx = k + 1 /\ s[e + 1].shard = c
      BY <1>4, <1>5, <1>6, <2>1
    <3> QED
      BY <1>3, <1>7, <3>1
  <2>2. CASE e # d
    <3>1. e + 1 \in 1 .. d /\ e \in 1 .. Len(stk) - 1
      BY <1>1, <2>2
    <3>2. Path(s, e) = Path(stk, e) /\ s[e].idx = stk[e].idx /\ s[e + 1].shard = stk[e + 1].shard
      BY <1>4, <1>6, <2>2, <3>1
    <3> QED
      BY <3>1, <3>2 DEF ChildrenInTurn
  <2> QED
    BY <2>1, <2>2
<1>9. ASSUME NEW l \in cfg.leaves
      PROVE  /\ l \in Pending(stk) <=> Lower_(l) \/ (On(l) /\ k - 1 <= r(l))
             /\ l \in Pending(s) <=>
                  Lower_(l) \/ (On(l) /\ k <= r(l)) \/ (d < MaxLevel /\ On(l) /\ k - 1 = r(l))
  <2>1. /\ \A e \in 1 .. d - 1 : OpenAt(s, e, l) <=> OpenAt(stk, e, l)
        /\ OpenAt(stk, d, l) <=> On(l) /\ k - 1 <= r(l)
        /\ OpenAt(s, d, l) <=> On(l) /\ k <= r(l)
        /\ OpenAt(s, d + 1, l) <=> d < MaxLevel /\ On(l) /\ k - 1 = r(l)
    BY NextOpen
  <2>2. \A e \in DOMAIN stk : OpenAt(stk, e, l) => e = d \/ e \in 1 .. d - 1
    <3>1. ASSUME NEW e \in DOMAIN stk, OpenAt(stk, e, l) PROVE e <= d
      BY <3>1, FinishedLeadsNowhere DEF Deepest
    <3>2. \A e \in DOMAIN stk : e \in Nat /\ e >= 1
      OBVIOUS
    <3> QED
      BY <1>1, <3>1, <3>2
  <2>3. d \in DOMAIN stk /\ \A e \in 1 .. d - 1 : e \in DOMAIN stk
    BY <1>1
  <2>4. l \in Pending(stk) <=> Lower_(l) \/ OpenAt(stk, d, l)
    BY <2>2, <2>3 DEF Pending
  <2> HIDE DEF s
  <2>5. \A e : e \in DOMAIN s <=> e \in 1 .. d - 1 \/ e = d \/ e = d + 1
    BY <1>1, <1>4
  <2>6. l \in Pending(s) <=> \/ \E e \in 1 .. d - 1 : OpenAt(s, e, l)
                            \/ OpenAt(s, d, l) \/ OpenAt(s, d + 1, l)
    BY <2>5 DEF Pending
  <2> QED
    BY <2>1, <2>4, <2>6
<1>10. ASSUME NEW l \in cfg.leaves, On(l)
       PROVE  r(l) \in Nat /\ (r(l) = k - 1 <=> l[d] = c) /\ l[d] \in Children(Path(stk, d))
  <2>1. l[d] \in Children(Path(stk, d))
    BY <1>1, <1>10, BelowEntry
  <2>2. Rank(Path(stk, d), l[d]) = Rank(Path(stk, d), c) => l[d] = c
    BY <1>1, <1>2, <2>1, RankFacts
  <2>3. Rank(Path(stk, d), l[d]) \in 0 .. Cardinality(Children(Path(stk, d))) - 1
    BY <1>1, <2>1, RankFacts
  <2> QED
    BY <1>3, <2>1, <2>2, <2>3
<1>11. ASSUME d < MaxLevel PROVE Pending(s) = Pending(stk)
  <2>1. \A l \in cfg.leaves : l \in Pending(stk) <=> l \in Pending(s)
    <3> HIDE DEF k, r, On, Lower_, s
    <3> QED
      BY <1>7, <1>9, <1>10, <1>11
  <2> QED
    BY <2>1 DEF Pending
<1>12. ASSUME d = MaxLevel
       PROVE  LET p == Path(s, d + 1)
              IN  /\ p \in Pending(stk) /\ Pending(s) = Pending(stk) \ {p}
                  /\ \A l \in Pending(s) : Before(p, l)
  <2> DEFINE p == Path(s, d + 1)
  <2>1. p \in cfg.leaves
    BY <1>12, NextPath
  <2> HIDE DEF s
  <2>2. \A i \in 1 .. d : p[i] = s[i + 1].shard
    BY <1>1 DEF Path
  <2>3. p[d] = c /\ d \in 1 .. d
    BY <1>1, <1>5, <2>2
  <2>4. \A i \in 1 .. d - 1 : p[i] = stk[i + 1].shard
    <3>1. \A i \in 1 .. d - 1 : i \in 1 .. d /\ i + 1 \in 1 .. d
      BY <1>1
    <3> QED
      BY <1>4, <2>2, <3>1
  <2> HIDE DEF p
  <2>5. On(p)
    BY <1>1, <2>1, <2>4, BelowEntry
  <2>6. ASSUME NEW l \in cfg.leaves, On(l), l[d] = c PROVE l = p
    <3>1. \A i \in 1 .. d - 1 : stk[i + 1].shard = l[i]
      BY <1>1, <2>6, BelowEntry
    <3>2. \A i \in 1 .. d : l[i] = p[i]
      <4>1. \A i \in 1 .. d : i = d \/ i \in 1 .. d - 1
        BY <1>1
      <4> QED
        BY <2>3, <2>4, <2>6, <3>1, <4>1
    <3>3. l \in [1 .. d -> Shards] /\ p \in [1 .. d -> Shards]
      BY <1>12, <2>1, ConfigFacts
    <3>4. l = [i \in 1 .. d |-> l[i]] /\ p = [i \in 1 .. d |-> p[i]]
      BY <3>3
    <3> QED
      BY <3>2, <3>4
  <2>7. ASSUME NEW l \in cfg.leaves, NEW e \in 1 .. d - 1, OpenAt(stk, e, l)
        PROVE  Before(p, l)
    <3>1. e \in 1 .. MaxLevel /\ e \in Nat \ {0} /\ e \in 1 .. Len(stk) - 1 /\ e \in 1 .. d
      BY <1>1
    <3>2. IsPrefix(Path(stk, e), l) /\ stk[e].idx <= Rank(Path(stk, e), l[e]) + 1
      BY <2>7 DEF OpenAt
    <3>3. \A i \in 1 .. e - 1 : stk[i + 1].shard = l[i]
      BY <3>1, <3>2, BelowEntry
    <3>4. \A i \in 1 .. e - 1 : stk[i + 1].shard = p[i] /\ p[i] = l[i]
      <4>1. \A i \in 1 .. e - 1 : i \in 1 .. d - 1
        BY <1>1
      <4> QED
        BY <2>4, <3>3, <4>1
    <3>5. IsPrefix(Path(stk, e), p)
      BY <2>1, <3>1, <3>4, BelowEntry
    <3>6. l[e] \in Children(Path(stk, e)) /\ p[e] \in Children(Path(stk, e))
      BY <2>1, <3>1, <3>2, <3>5, BelowEntry
    <3>7. Rank(Path(stk, e), p[e]) + 2 = stk[e].idx
      BY <2>4, <3>1 DEF ChildrenInTurn
    <3>8. /\ Rank(Path(stk, e), l[e]) \in 0 .. Cardinality(Children(Path(stk, e))) - 1
          /\ Rank(Path(stk, e), p[e]) \in 0 .. Cardinality(Children(Path(stk, e))) - 1
      BY <3>1, <3>6, RankFacts
    <3>9. Rank(Path(stk, e), p[e]) < Rank(Path(stk, e), l[e])
      BY <3>2, <3>7, <3>8
    <3>10. p[e] < l[e]
      BY <3>1, <3>6, <3>9, RankFacts
    <3>11. e \in DOMAIN p
      BY <1>12, <2>1, <3>1, ConfigFacts
    <3> QED
      BY <3>4, <3>10, <3>11 DEF Before
  <2>8. ASSUME NEW l \in cfg.leaves, On(l), k <= r(l) PROVE Before(p, l)
    <3>1. \A i \in 1 .. d - 1 : stk[i + 1].shard = l[i] /\ p[i] = l[i]
      BY <1>1, <2>4, <2>8, BelowEntry
    <3>2. l[d] \in Children(Path(stk, d)) /\ r(l) \in Nat
      BY <1>10, <2>8
    <3>3. Rank(Path(stk, d), c) < Rank(Path(stk, d), l[d])
      BY <1>3, <1>7, <2>8, <3>2
    <3>4. p[d] < l[d]
      BY <1>1, <1>2, <2>3, <3>2, <3>3, RankFacts
    <3>5. d \in DOMAIN p
      BY <1>1, <1>12, <2>1, ConfigFacts
    <3> QED
      BY <3>1, <3>4, <3>5 DEF Before
  <2>9. \A l \in Pending(s) : l \in cfg.leaves /\ Before(p, l)
    <3>1. ASSUME NEW l \in Pending(s) PROVE l \in cfg.leaves
      BY DEF Pending
    <3>2. ASSUME NEW l \in Pending(s) PROVE Before(p, l)
      <4>1. Lower_(l) \/ (On(l) /\ k <= r(l)) \/ (d < MaxLevel /\ On(l) /\ k - 1 = r(l))
        BY <1>9, <3>1
      <4>2. ~(d < MaxLevel)
        BY <1>1, <1>12
      <4> QED
        BY <2>7, <2>8, <3>1, <4>1, <4>2
    <3> QED
      BY <3>1, <3>2
  <2>10. ~Before(p, p)
    BY <2>1, LeavesOrdered DEF StrictOrder
  <2>11. p \notin Pending(s)
    BY <2>9, <2>10
  <2>12. r(p) = k - 1
    BY <1>3, <2>3
  <2>13. p \in Pending(stk)
    <3>1. On(p) /\ k - 1 <= r(p)
      BY <1>7, <2>5, <2>12
    <3> QED
      BY <1>9, <2>1, <3>1
  <2>14. ASSUME NEW l \in cfg.leaves, l # p PROVE l \in Pending(stk) <=> l \in Pending(s)
    <3>1. On(l) => r(l) \in Nat /\ r(l) # k - 1
      BY <1>10, <2>6, <2>14
    <3>2. /\ l \in Pending(stk) <=> Lower_(l) \/ (On(l) /\ k - 1 <= r(l))
          /\ l \in Pending(s) <=>
               Lower_(l) \/ (On(l) /\ k <= r(l)) \/ (d < MaxLevel /\ On(l) /\ k - 1 = r(l))
      BY <1>9
    <3> HIDE DEF On, k, r, Lower_
    <3> QED
      BY <1>7, <3>1, <3>2
  <2>15. Pending(s) = Pending(stk) \ {p}
    <3>1. Pending(s) \subseteq cfg.leaves /\ Pending(stk) \subseteq cfg.leaves
      BY DEF Pending
    <3> QED
      BY <2>11, <2>14, <3>1
  <2> QED
    BY <2>9, <2>13, <2>15 DEF p
<1> QED
  BY <1>8, <1>11, <1>12

-----------------------------------------------------------------------------
(* What was visited.                                                       *)

(* The leaves of V are visited, those of P are not. *)
InOrder(V, P) ==
  /\ ToSet(V) = cfg.leaves \ P
  /\ \A i, j \in DOMAIN V : i < j => Before(V[i], V[j])
  /\ \A i \in DOMAIN V : \A l \in P : Before(V[i], l)

(* The first leaf that is not visited yet is visited. *)
LEMMA OneMore ==
  ASSUME NEW V \in Seq(cfg.leaves), NEW P \in SUBSET cfg.leaves, InOrder(V, P),
         NEW p \in P, \A l \in P \ {p} : Before(p, l)
  PROVE  InOrder(Append(V, p), P \ {p})
<1> DEFINE W == Append(V, p)
           n == Len(V)
<1>1. /\ n \in Nat /\ DOMAIN V = 1 .. n /\ DOMAIN W = 1 .. n + 1
      /\ \A i \in 1 .. n : W[i] = V[i]
      /\ W[n + 1] = p
  OBVIOUS
<1>2. \A i \in 1 .. n + 1 : i \in 1 .. n \/ i = n + 1
  BY <1>1
<1> HIDE DEF W, n
<1>3. ToSet(W) = ToSet(V) \cup {p}
  <2>1. \A i \in 1 .. n : i \in 1 .. n + 1
    BY <1>1
  <2>2. n + 1 \in 1 .. n + 1
    BY <1>1
  <2> QED
    BY <1>1, <1>2, <2>1, <2>2 DEF ToSet
<1>4. ToSet(W) = cfg.leaves \ (P \ {p})
  BY <1>3 DEF InOrder
<1>5. ASSUME NEW i \in DOMAIN W, NEW j \in DOMAIN W, i < j PROVE Before(W[i], W[j])
  <2>1. i \in 1 .. n
    BY <1>1, <1>2, <1>5
  <2>2. CASE j \in 1 .. n
    BY <1>1, <1>5, <2>1, <2>2 DEF InOrder
  <2>3. CASE j = n + 1
    BY <1>1, <2>1, <2>3 DEF InOrder
  <2> QED
    BY <1>1, <1>2, <2>2, <2>3
<1>6. ASSUME NEW i \in DOMAIN W, NEW l \in P \ {p} PROVE Before(W[i], l)
  <2>1. CASE i \in 1 .. n
    BY <1>1, <2>1 DEF InOrder
  <2>2. CASE i = n + 1
    BY <1>1, <2>2
  <2> QED
    BY <1>1, <1>2, <2>1, <2>2
<1> QED
  BY <1>4, <1>5, <1>6 DEF InOrder, W

(* The parts of what was visited. *)
LEMMA VisitedParts ==
  ASSUME PlanInv
  PROVE  /\ Planned \in Seq(cfg.leaves) /\ subtasks \in Seq(cfg.leaves)
         /\ SubtasksOf(group) \in Seq(cfg.leaves) /\ SubtasksOf(tmp) \in Seq(cfg.leaves)
         /\ Visited \in Seq(cfg.leaves) /\ Planned \o subtasks \in Seq(cfg.leaves)
<1> DEFINE sts == [i \in DOMAIN tasks |-> tasks[i].subtasks]
<1>1. sts \in Seq(Seq(cfg.leaves))
  <2>1. tasks \in Seq(ToSet(tasks)) /\ \A t \in ToSet(tasks) : t.subtasks \in Seq(cfg.leaves)
    BY DEF PlanInv, TypeOK
  <2>2. DOMAIN tasks = 1 .. Len(tasks) /\ Len(tasks) \in Nat
    BY <2>1
  <2>3. \A i \in 1 .. Len(tasks) : tasks[i].subtasks \in Seq(cfg.leaves)
    BY <2>1, <2>2 DEF ToSet
  <2>4. sts \in [1 .. Len(tasks) -> Seq(cfg.leaves)]
    BY <2>2, <2>3
  <2> HIDE DEF sts
  <2> QED
    BY <2>2, <2>4, Numbered
<1>2. Planned \in Seq(cfg.leaves)
  <2>1. Planned = FlattenSeq(sts) /\ <<>> \in Seq(cfg.leaves)
    BY DEF Planned
  <2> HIDE DEF sts
  <2> QED
    BY <1>1, <2>1, FlattenAppend
<1>3. /\ subtasks \in Seq(cfg.leaves) /\ SubtasksOf(group) \in Seq(cfg.leaves)
      /\ SubtasksOf(tmp) \in Seq(cfg.leaves)
  BY InvFacts, ShardsOfFacts
<1> DEFINE A == Planned
           B == IF pc \in {"scan", "decide", "close"} THEN subtasks ELSE <<>>
           C == IF pc \in {"begin", "decide", "close"} THEN SubtasksOf(group) ELSE <<>>
           D == IF stk # <<>> THEN SubtasksOf(tmp) ELSE <<>>
<1>4. A \in Seq(cfg.leaves) /\ B \in Seq(cfg.leaves) /\ C \in Seq(cfg.leaves) /\ D \in Seq(cfg.leaves)
  <2>1. <<>> \in Seq(cfg.leaves)
    OBVIOUS
  <2> QED
    BY <1>2, <1>3, <2>1
<1>5. Visited = A \o B \o C \o D
  BY DEF Visited
<1> HIDE DEF A, B, C, D
<1>6. Visited \in Seq(cfg.leaves)
  BY <1>4, <1>5
<1> QED
  BY <1>2, <1>3, <1>6

(* A task is added to those made. *)
LEMMA PlannedStep ==
  ASSUME PlanInv
  PROVE  /\ CloseTask => Planned' = Planned \o subtasks
         /\ UNCHANGED tasks => Planned' = Planned
<1> DEFINE t == [subtasks |-> subtasks, total |-> total, nodes |-> tree.nodes, roots |-> tree.roots]
           sts == [i \in DOMAIN tasks |-> tasks[i].subtasks]
           sts2 == [i \in DOMAIN tasks' |-> tasks'[i].subtasks]
<1>1. tasks \in Seq(ToSet(tasks)) /\ \A u \in ToSet(tasks) : u.subtasks \in Seq(cfg.leaves)
  BY DEF PlanInv, TypeOK
<1>2. DOMAIN tasks = 1 .. Len(tasks) /\ Len(tasks) \in Nat
  BY <1>1
<1>3. sts \in Seq(Seq(cfg.leaves)) /\ Len(sts) = Len(tasks)
  <2>1. \A i \in 1 .. Len(tasks) : tasks[i].subtasks \in Seq(cfg.leaves)
    BY <1>1, <1>2 DEF ToSet
  <2>2. sts \in [1 .. Len(tasks) -> Seq(cfg.leaves)]
    BY <1>2, <2>1
  <2> HIDE DEF sts
  <2> QED
    BY <1>2, <2>2, Numbered
<1>4. Planned = FlattenSeq(sts) /\ Planned' = FlattenSeq(sts2)
  BY DEF Planned
<1>5. ASSUME UNCHANGED tasks PROVE Planned' = Planned
  BY <1>4, <1>5
<1>6. ASSUME CloseTask PROVE Planned' = Planned \o subtasks
  <2>1. tasks' = Append(tasks, t) /\ subtasks \in Seq(cfg.leaves) /\ t.subtasks = subtasks
    BY <1>6, InvFacts DEF CloseTask
  <2> HIDE DEF t
  <2>2. /\ DOMAIN tasks' = 1 .. Len(tasks) + 1 /\ tasks'[Len(tasks) + 1] = t
        /\ \A i \in 1 .. Len(tasks) : tasks'[i] = tasks[i]
    BY <1>1, <2>1
  <2>3. \A i \in 1 .. Len(tasks) : sts[i] = tasks[i].subtasks
    BY <1>2
  <2> DEFINE more == Append(sts, subtasks)
  <2> HIDE DEF sts
  <2>4. /\ more = [i \in 1 .. Len(tasks) + 1 |-> more[i]] /\ more[Len(tasks) + 1] = subtasks
        /\ \A i \in 1 .. Len(tasks) : more[i] = sts[i]
    <3>1. sts \in Seq(Seq(cfg.leaves)) /\ subtasks \in Seq(cfg.leaves) /\ Len(sts) = Len(tasks)
      BY <1>3, <2>1
    <3>2. /\ more \in Seq(Seq(cfg.leaves)) /\ Len(more) = Len(tasks) + 1 /\ more[Len(tasks) + 1] = subtasks
          /\ \A i \in 1 .. Len(tasks) : more[i] = sts[i]
      BY <3>1, AppendProperties
    <3>3. more = [i \in 1 .. Len(more) |-> more[i]]
      <4> HIDE DEF more
      <4> QED
        BY <3>2
    <3> QED
      BY <3>2, <3>3
  <2> HIDE DEF more
  <2>5. ASSUME NEW i \in 1 .. Len(tasks) + 1 PROVE tasks'[i].subtasks = more[i]
    <3>1. CASE i = Len(tasks) + 1
      BY <2>1, <2>2, <2>4, <3>1
    <3>2. CASE i # Len(tasks) + 1
      <4>1. i \in 1 .. Len(tasks)
        BY <1>2, <3>2
      <4> QED
        BY <2>2, <2>3, <2>4, <4>1
    <3> QED
      BY <3>1, <3>2
  <2>6. sts2 = more
    BY <2>2, <2>4, <2>5
  <2> HIDE DEF sts2
  <2>7. FlattenSeq(more) = FlattenSeq(sts) \o subtasks
    BY <1>3, <2>1, FlattenAppend DEF more
  <2> QED
    BY <1>4, <2>6, <2>7
<1> QED
  BY <1>5, <1>6

(* What was visited, at each place of the loop. *)
LEMMA VisitedNow ==
  ASSUME PlanInv
  PROVE  LET W == Planned \o subtasks
             T == IF stk # <<>> THEN SubtasksOf(tmp) ELSE <<>>
         IN  /\ pc = "scan" => Visited = W \o T
             /\ pc \in {"decide", "close"} => Visited = (W \o SubtasksOf(group)) \o T
             /\ pc = "begin" => Visited = (Planned \o SubtasksOf(group)) \o T
<1> DEFINE A == Planned
           B == subtasks
           C == SubtasksOf(group)
           T == IF stk # <<>> THEN SubtasksOf(tmp) ELSE <<>>
<1>1. A \in Seq(cfg.leaves) /\ B \in Seq(cfg.leaves) /\ C \in Seq(cfg.leaves) /\ A \o B \in Seq(cfg.leaves)
  BY VisitedParts
<1>2. /\ pc = "scan" => Visited = ((A \o B) \o <<>>) \o T
      /\ pc \in {"decide", "close"} => Visited = ((A \o B) \o C) \o T
      /\ pc = "begin" => Visited = ((A \o <<>>) \o C) \o T
  BY DEF Visited
<1>3. A \o <<>> = A
  BY <1>1, ConcatEmptySeq
<1> DEFINE AB == A \o B
<1>4. AB \o <<>> = AB
  <2> HIDE DEF AB
  <2>1. AB \in Seq(cfg.leaves)
    BY <1>1 DEF AB
  <2> QED
    BY <2>1, ConcatEmptySeq
<1> QED
  BY <1>2, <1>3, <1>4

(* The sequence of subtasks of what is collected on the stack. *)
Collected == IF stk # <<>> THEN SubtasksOf(tmp) ELSE <<>>

(* What was visited after a step, at each place of the loop. *)
LEMMA VisitedNext ==
  /\ pc' = "scan" => Visited' = ((Planned' \o subtasks') \o <<>>) \o Collected'
  /\ pc' \in {"decide", "close"} => Visited' = ((Planned' \o subtasks') \o SubtasksOf(group')) \o Collected'
  /\ pc' = "begin" => Visited' = ((Planned' \o <<>>) \o SubtasksOf(group')) \o Collected'
BY DEF Visited, Collected

(* The same, with what is collected on the stack named.                    *)
LEMMA VisitedHere ==
  ASSUME PlanInv
  PROVE  /\ pc = "scan" => Visited = (Planned \o subtasks) \o Collected
         /\ pc \in {"decide", "close"} => Visited = ((Planned \o subtasks) \o SubtasksOf(group)) \o Collected
         /\ pc = "begin" => Visited = (Planned \o SubtasksOf(group)) \o Collected
         /\ Collected \in Seq(cfg.leaves)
<1>1. <<>> \in Seq(cfg.leaves)
  OBVIOUS
<1> QED
  BY <1>1, VisitedNow, VisitedParts DEF Collected

Live == {"begin", "scan", "decide", "close"}

(* A step that visits nothing. *)
LEMMA OrderKept ==
  ASSUME VisitedInOrder, pc \in Live, UNCHANGED cfg, Visited' = Visited, ToVisit' = ToVisit
  PROVE  VisitedInOrder'
BY DEF VisitedInOrder, Live

(* A step of the filling of tasks. *)
LEMMA FillOrder ==
  ASSUME ScanInOrder, UNCHANGED <<cfg, stk, tmp>>,
         pc' = "begin" /\ initial' => group' = NoGroup,
         group' = NoGroup /\ (pc' = "close" \/ (pc' = "begin" /\ ~initial')) => stk = <<>>
  PROVE  ScanInOrder' /\ ToVisit' = ToVisit /\ Collected' = Collected
<1>1. cfg' = cfg /\ stk' = stk /\ tmp' = tmp
  OBVIOUS
<1>2. Collected' = Collected
  BY <1>1 DEF Collected
<1>3. ToVisit' = ToVisit
  BY <1>1 DEF ToVisit, Rank, Children, MaxLevel
<1>4. ScanInOrder'
  <2>1. \A d \in 1 .. Len(stk') - 1 : (Rank(Path(stk, d), stk[d + 1].shard) + 2 = stk[d].idx)'
    BY <1>1 DEF ScanInOrder, Rank, Children, MaxLevel
  <2>2. tmp'.st # <<>> => tmp'.max = MaxLevel'
    BY <1>1 DEF ScanInOrder, MaxLevel
  <2> QED
    BY <1>1, <2>1, <2>2 DEF ScanInOrder
<1> QED
  BY <1>2, <1>3, <1>4

(* The next node is visited, a leaf or a node above the last level. *)
LEMMA ScanNodeOrder ==
  ASSUME PlanInv, ScanInOrder, VisitedInOrder, ScanNode
  PROVE  ScanInOrder' /\ VisitedInOrder'
<1>1. /\ cfg \in Configs /\ TypeOK /\ ScanInTree /\ stk \in Seq(Entries) /\ stk # <<>> /\ pc = "scan"
      /\ tmp \in Groups /\ group \in Groups
  BY InvFacts DEF ScanNode
<1>2. PICK d \in Unfinished : Deepest(d) /\ stk' = NextStack(d)
  BY DEF ScanNode
<1>3. d \in 1 .. MaxLevel /\ MaxLevel \in Nat /\ d \in Nat \ {0}
  BY <1>1, NextChild, ConfigFacts
<1>4. Len(stk') = d + 1 /\ Len(stk') - 1 = d /\ stk' # <<>>
  <2>1. Len(stk') = d + 1
    BY <1>1, <1>2, NextStackFacts
  <2>2. Len(<<>>) = 0
    OBVIOUS
  <2> QED
    BY <1>3, <2>1, <2>2
<1>5. /\ cfg' = cfg /\ initial' = initial /\ subtasks' = subtasks /\ tasks' = tasks
      /\ tmp' = IF OpensGroup(stk') THEN SingleGroup(stk')
                ELSE [SingleGroup(stk') EXCEPT !.min = tmp.min]
      /\ \/ OpensGroup(stk') /\ tmp.v # 0 /\ group' = tmp /\ pc' = "decide"
         \/ ~(OpensGroup(stk') /\ tmp.v # 0) /\ group' = group /\ pc' = "scan"
  BY <1>1 DEF ScanNode, taskVars
<1>6. MaxLevel' = MaxLevel
  BY <1>5 DEF MaxLevel
<1> DEFINE p == Path(stk', d + 1)
           g == SingleGroup(stk')
<1>7. d = MaxLevel => p \in cfg.leaves /\ p # <<>>
  BY <1>1, <1>2, NextPath, ConfigFacts
<1>8. /\ g.v = cfg.vlevel[d] /\ g.min = d /\ g.max = d
      /\ g.st = (IF d = MaxLevel THEN p ELSE <<>>) /\ g \in Groups
  BY <1>1, <1>3, <1>4, <1>7, SingleGroupFacts
<1>9. tmp'.max = d /\ tmp'.st = IF d = MaxLevel THEN p ELSE <<>>
  <2>1. CASE OpensGroup(stk')
    BY <1>5, <1>8, <2>1
  <2>2. CASE ~OpensGroup(stk')
    <3> DEFINE m == [g EXCEPT !.min = tmp.min]
    <3>1. tmp' = m
      BY <1>5, <2>2
    <3>2. DOMAIN g = {"v", "min", "max", "st"}
      BY DEF SingleGroup
    <3> HIDE DEF g
    <3>3. m.max = g.max /\ m.st = g.st
      BY <3>2
    <3> HIDE DEF m
    <3> QED
      BY <1>8, <3>1, <3>3
  <2> QED
    BY <2>1, <2>2
<1> HIDE DEF g, p
<1>10. SubtasksOf(tmp') = IF d = MaxLevel THEN <<p>> ELSE <<>>
  BY <1>7, <1>9 DEF SubtasksOf
<1>11. /\ ChildrenInTurn(stk')
       /\ d < MaxLevel => Pending(stk') = Pending(stk)
       /\ d = MaxLevel => /\ p \in Pending(stk) /\ Pending(stk') = Pending(stk) \ {p}
                          /\ \A l \in Pending(stk') : Before(p, l)
  <2>1. ChildrenInTurn(stk)
    BY DEF ScanInOrder, ChildrenInTurn
  <2> QED
    BY <1>1, <1>2, <2>1, NextPending DEF p
<1>12. ScanInOrder'
  <2>1. \A e \in 1 .. Len(stk') - 1 : (Rank(Path(stk, e), stk[e + 1].shard) + 2 = stk[e].idx)'
    BY <1>5, <1>6, <1>11 DEF ChildrenInTurn, Rank, Children
  <2>2. tmp'.st # <<>> => tmp'.max = MaxLevel'
    BY <1>6, <1>9
  <2> QED
    BY <1>5, <2>1, <2>2 DEF ScanInOrder
<1>13. ToVisit = Pending(stk) /\ ToVisit' = Pending(stk')
  <2>1. ToVisit' = Pending(stk')
    BY <1>5, <1>6 DEF ToVisit, Pending, OpenAt, Rank, Children
  <2> QED
    BY <2>1, ToVisitIsPending
<1> DEFINE W == Planned \o subtasks
           T == SubtasksOf(tmp)
           N == SubtasksOf(tmp')
<1>14. W \in Seq(cfg.leaves) /\ T \in Seq(cfg.leaves) /\ N \in Seq(cfg.leaves) /\ Visited = W \o T
  <2>1. Collected = T
    BY <1>1 DEF Collected
  <2>2. N \in Seq(cfg.leaves)
    <3>1. CASE d = MaxLevel
      <4>1. p \in cfg.leaves /\ N = <<p>>
        BY <1>7, <1>10, <3>1
      <4> DEFINE one == <<p>>
      <4>2. one \in [1 .. 1 -> cfg.leaves]
        BY <4>1
      <4> HIDE DEF one
      <4>3. one \in Seq(cfg.leaves)
        BY <4>2, Numbered
      <4> QED
        BY <4>1, <4>3 DEF one
    <3>2. CASE d # MaxLevel
      <4>1. N = <<>>
        BY <1>10, <3>2
      <4> HIDE DEF N
      <4> QED
        BY <4>1
    <3> QED
      BY <3>1, <3>2
  <2> QED
    BY <1>1, <2>1, <2>2, VisitedParts, VisitedHere
<1>15. Planned' = Planned /\ Collected' = N
  <2>1. Planned' = Planned
    BY <1>5, PlannedStep
  <2>2. Collected' = N
    BY <1>4 DEF Collected
  <2> QED
    BY <2>1, <2>2
<1>16. Visited' = Visited \o N
  <2>1. CASE OpensGroup(stk') /\ tmp.v # 0
    <3>1. group' = tmp /\ pc' = "decide"
      BY <1>5, <2>1
    <3>2. Visited' = (W \o T) \o N
      BY <1>5, <1>15, <3>1, VisitedNext
    <3> QED
      BY <1>14, <3>2
  <2>2. CASE ~(OpensGroup(stk') /\ tmp.v # 0)
    <3>1. pc' = "scan"
      BY <1>5, <2>2
    <3>2. Visited' = (W \o <<>>) \o N
      BY <1>5, <1>15, <3>1, VisitedNext
    <3>3. tmp.st = <<>>
      <4>1. CASE tmp.v = 0
        BY <1>1, <4>1 DEF Groups, NoGroup
      <4>2. CASE ~OpensGroup(stk')
        <5>1. tmp.v # 0
          <6>1. tmp.v = cfg.vlevel[d]
            BY <1>4, <4>2 DEF OpensGroup
          <6> QED
            BY <1>1, <1>3, <6>1, ConfigFacts
        <5>2. ~(tmp.max >= d)
          BY <1>4, <4>2 DEF OpensGroup
        <5>3. tmp.max # MaxLevel
          BY <1>3, <5>2
        <5> QED
          BY <5>3 DEF ScanInOrder
      <4> QED
        BY <2>2, <4>1, <4>2
    <3>4. T = <<>>
      BY <3>3 DEF SubtasksOf
    <3> HIDE DEF T, W
    <3>5. W \o <<>> = W
      BY <1>14, ConcatEmptySeq
    <3> QED
      BY <1>14, <3>2, <3>4, <3>5
  <2> QED
    BY <2>1, <2>2
<1>17. InOrder(Visited, ToVisit) /\ Visited \in Seq(cfg.leaves) /\ ToVisit \in SUBSET cfg.leaves
  BY <1>1, VisitedParts DEF VisitedInOrder, InOrder, ToVisit
<1>18. InOrder(Visited', ToVisit')
  <2> HIDE DEF N
  <2>1. CASE d = MaxLevel
    <3>1. p \in ToVisit /\ ToVisit' = ToVisit \ {p} /\ \A l \in ToVisit \ {p} : Before(p, l)
      BY <1>11, <1>13, <2>1
    <3>2. N = <<p>>
      BY <1>10, <2>1 DEF N
    <3>3. p \in cfg.leaves
      BY <1>7, <2>1
    <3>4. Visited \o <<p>> = Append(Visited, p)
      BY <1>17, <3>3
    <3>5. InOrder(Append(Visited, p), ToVisit \ {p})
      BY <1>17, <3>1, OneMore
    <3> QED
      BY <1>16, <3>1, <3>2, <3>4, <3>5
  <2>2. CASE d # MaxLevel
    <3>1. N = <<>> /\ d < MaxLevel
      BY <1>3, <1>10, <2>2 DEF N
    <3>2. ToVisit' = ToVisit
      BY <1>11, <1>13, <3>1
    <3>3. Visited' = Visited
      BY <1>16, <1>17, <3>1, ConcatEmptySeq
    <3> QED
      BY <1>17, <3>2, <3>3
  <2> QED
    BY <2>1, <2>2
<1>19. VisitedInOrder'
  BY <1>5, <1>18 DEF InOrder, VisitedInOrder
<1> QED
  BY <1>12, <1>19

(* The scan is over: the group collected so far is returned. *)
LEMMA ScanLastOrder ==
  ASSUME PlanInv, ScanInOrder, VisitedInOrder, ScanLast
  PROVE  ScanInOrder' /\ VisitedInOrder'
<1>1. /\ cfg \in Configs /\ stk \in Seq(Entries) /\ stk # <<>> /\ pc = "scan" /\ Unfinished = {}
      /\ cfg' = cfg /\ stk' = <<>> /\ tmp' = tmp /\ group' = tmp /\ pc' = "decide"
      /\ subtasks' = subtasks /\ tasks' = tasks
  BY InvFacts DEF ScanLast, taskVars
<1>2. ScanInOrder'
  <2>1. tmp'.st # <<>> => tmp'.max = MaxLevel'
    BY <1>1 DEF ScanInOrder, MaxLevel
  <2>2. 1 .. Len(stk') - 1 = {}
    BY <1>1
  <2> QED
    BY <1>1, <2>1, <2>2 DEF ScanInOrder
<1>3. ToVisit' = ToVisit
  <2>1. ToVisit = {}
    BY <1>1, FinishedLeadsNowhere, ToVisitIsPending DEF Pending
  <2>2. ToVisit' = {}
    <3>1. DOMAIN stk' = {}
      BY <1>1
    <3> QED
      BY <3>1 DEF ToVisit
  <2> QED
    BY <2>1, <2>2
<1> DEFINE W == Planned \o subtasks
           T == SubtasksOf(tmp)
<1>4. W \in Seq(cfg.leaves) /\ T \in Seq(cfg.leaves)
  BY VisitedParts
<1>5. Visited = W \o T
  <2>1. Collected = T
    BY <1>1 DEF Collected
  <2> QED
    BY <1>1, <2>1, VisitedHere
<1>6. Visited' = (W \o T) \o <<>>
  <2>1. Collected' = <<>> /\ Planned' = Planned
    BY <1>1, PlannedStep DEF Collected
  <2> QED
    BY <1>1, <2>1, VisitedNext
<1> DEFINE V == W \o T
<1>7. V \in Seq(cfg.leaves)
  <2> HIDE DEF W, T
  <2> QED
    BY <1>4
<1> HIDE DEF V
<1>8. Visited' = Visited
  BY <1>5, <1>6, <1>7, ConcatEmptySeq DEF V
<1> QED
  BY <1>1, <1>2, <1>3, <1>8, OrderKept DEF Live

(* The scan has ended: the task is closed. *)
LEMMA ScanOverOrder ==
  ASSUME PlanInv, ScanInOrder, VisitedInOrder, ScanOver
  PROVE  ScanInOrder' /\ VisitedInOrder'
<1>1. /\ stk = <<>> /\ pc = "scan" /\ group' = NoGroup /\ pc' = "close"
      /\ cfg' = cfg /\ stk' = stk /\ tmp' = tmp /\ subtasks' = subtasks /\ tasks' = tasks
  BY DEF ScanOver, taskVars
<1>2. ScanInOrder' /\ ToVisit' = ToVisit /\ Collected' = Collected
  BY <1>1, FillOrder
<1>3. Planned' = Planned /\ SubtasksOf(group') = <<>>
  BY <1>1, PlannedStep DEF SubtasksOf, NoGroup
<1> DEFINE W == Planned \o subtasks
<1>4. W \in Seq(cfg.leaves) /\ Visited = W \o Collected
  BY <1>1, VisitedParts, VisitedHere
<1>5. Visited' = (W \o <<>>) \o Collected
  BY <1>1, <1>2, <1>3, VisitedNext
<1> HIDE DEF W
<1>6. Visited' = Visited
  BY <1>4, <1>5, ConcatEmptySeq
<1> QED
  BY <1>1, <1>2, <1>6, OrderKept DEF Live

(* A task opens with the subtask of the group that is pending. *)
LEMMA OpenTaskOrder ==
  ASSUME PlanInv, ScanInOrder, VisitedInOrder, OpenTask
  PROVE  ScanInOrder' /\ VisitedInOrder'
<1>1. /\ pc = "begin" /\ group' = group /\ pc' = "scan" /\ initial' = initial
      /\ cfg' = cfg /\ stk' = stk /\ tmp' = tmp /\ tasks' = tasks
      /\ subtasks' = IF initial THEN <<>> ELSE SubtasksOf(group)
  BY DEF OpenTask, scanVars
<1>2. ScanInOrder' /\ ToVisit' = ToVisit /\ Collected' = Collected
  BY <1>1, FillOrder
<1>3. Planned' = Planned
  BY <1>1, PlannedStep
<1>4. subtasks' = SubtasksOf(group)
  <2>1. CASE initial
    <3>1. group = NoGroup
      BY <1>1, <2>1 DEF ScanInOrder
    <3> QED
      BY <1>1, <2>1, <3>1 DEF SubtasksOf, NoGroup
  <2>2. CASE ~initial
    BY <1>1, <2>2
  <2> QED
    BY <2>1, <2>2
<1> DEFINE G == SubtasksOf(group)
           W == Planned \o G
<1>5. Planned \in Seq(cfg.leaves) /\ G \in Seq(cfg.leaves) /\ Visited = W \o Collected
  BY <1>1, VisitedParts, VisitedHere
<1>6. Visited' = (W \o <<>>) \o Collected
  BY <1>1, <1>2, <1>3, <1>4, VisitedNext
<1>7. W \in Seq(cfg.leaves)
  <2> HIDE DEF G
  <2> QED
    BY <1>5
<1> HIDE DEF W
<1>8. Visited' = Visited
  BY <1>5, <1>6, <1>7, ConcatEmptySeq
<1> QED
  BY <1>1, <1>2, <1>8, OrderKept DEF Live

(* A group is added to the task. *)
LEMMA AddGroupOrder ==
  ASSUME PlanInv, ScanInOrder, VisitedInOrder, AddGroup
  PROVE  ScanInOrder' /\ VisitedInOrder'
<1>1. /\ pc = "decide" /\ group' = NoGroup /\ pc' = "scan"
      /\ cfg' = cfg /\ stk' = stk /\ tmp' = tmp /\ tasks' = tasks
      /\ subtasks' = subtasks \o SubtasksOf(group)
  BY DEF AddGroup
<1>2. ScanInOrder' /\ ToVisit' = ToVisit /\ Collected' = Collected
  BY <1>1, FillOrder
<1>3. Planned' = Planned
  BY <1>1, PlannedStep
<1> DEFINE A == Planned
           B == subtasks
           G == SubtasksOf(group)
           W == A \o (B \o G)
<1>4. /\ A \in Seq(cfg.leaves) /\ B \in Seq(cfg.leaves) /\ G \in Seq(cfg.leaves)
      /\ Visited = ((A \o B) \o G) \o Collected
  BY <1>1, VisitedParts, VisitedHere
<1>5. Visited' = (W \o <<>>) \o Collected
  BY <1>1, <1>2, <1>3, VisitedNext
<1> HIDE DEF A, B, G
<1>6. (A \o B) \o G = W /\ W \in Seq(cfg.leaves)
  BY <1>4, ConcatAssociative, ConcatProperties, SMTT(30)
<1> HIDE DEF W
<1>7. Visited' = Visited
  BY <1>4, <1>5, <1>6, ConcatEmptySeq
<1> QED
  BY <1>1, <1>2, <1>7, OrderKept DEF Live

(* The task is made: its subtasks are planned. *)
LEMMA CloseTaskOrder ==
  ASSUME PlanInv, ScanInOrder, VisitedInOrder, CloseTask
  PROVE  ScanInOrder' /\ VisitedInOrder'
<1>1. /\ pc = "close" /\ group' = group /\ pc' = "begin" /\ initial' = FALSE
      /\ cfg' = cfg /\ stk' = stk /\ tmp' = tmp /\ subtasks' = subtasks
  BY DEF CloseTask, scanVars, taskVars
<1>2. group = NoGroup => stk = <<>>
  BY <1>1 DEF ScanInOrder
<1>3. ScanInOrder' /\ ToVisit' = ToVisit /\ Collected' = Collected
  BY <1>1, <1>2, FillOrder
<1>4. Planned' = Planned \o subtasks
  BY PlannedStep
<1> DEFINE W == Planned \o subtasks
           G == SubtasksOf(group)
<1>5. W \in Seq(cfg.leaves) /\ Visited = (W \o G) \o Collected
  BY <1>1, VisitedParts, VisitedHere
<1>6. Visited' = ((W \o <<>>) \o G) \o Collected
  BY <1>1, <1>3, <1>4, VisitedNext
<1> HIDE DEF W, G
<1>7. Visited' = Visited
  BY <1>5, <1>6, ConcatEmptySeq
<1> QED
  BY <1>1, <1>3, <1>7, OrderKept DEF Live

(* Steps that leave alone what was visited. *)
LEMMA OtherOrder ==
  ASSUME PlanInv, ScanInOrder, VisitedInOrder, LeaveGroup \/ HangNode \/ UNCHANGED vars
  PROVE  ScanInOrder' /\ VisitedInOrder'
<1>1. /\ cfg' = cfg /\ stk' = stk /\ tmp' = tmp /\ group' = group /\ initial' = initial
      /\ subtasks' = subtasks /\ tasks' = tasks
      /\ (pc = "decide" /\ pc' = "close") \/ (pc' = pc)
  BY DEF LeaveGroup, HangNode, vars, scanVars, taskVars
<1>2. pc = "decide" => group # NoGroup
  BY DEF PlanInv, ScanInTree
<1>3. pc' = "begin" /\ initial' => group' = NoGroup
  BY <1>1 DEF ScanInOrder
<1>4. ASSUME group' = NoGroup, pc' = "close" \/ (pc' = "begin" /\ ~initial') PROVE stk = <<>>
  BY <1>1, <1>2, <1>4 DEF ScanInOrder
<1>5. ScanInOrder' /\ ToVisit' = ToVisit
  BY <1>1, <1>3, <1>4, FillOrder
<1>6. Planned' = Planned
  BY <1>1, PlannedStep
<1>7. Visited' = Visited
  BY <1>1, <1>6 DEF Visited
<1> QED
  BY <1>1, <1>5, <1>7 DEF VisitedInOrder

(* The loop ends. *)
LEMMA StopOrder ==
  ASSUME ScanInOrder, StopEmpty \/ CloseEmpty \/ TreeTooLarge
  PROVE  ScanInOrder' /\ VisitedInOrder'
<1>1. /\ cfg' = cfg /\ stk' = stk /\ tmp' = tmp /\ pc' \in {"stopped", "exited"}
  BY DEF StopEmpty, CloseEmpty, TreeTooLarge, scanVars
<1>2. ScanInOrder'
  BY <1>1, FillOrder
<1> QED
  BY <1>1, <1>2 DEF VisitedInOrder

(* Every step keeps the order. *)
LEMMA NextOrder ==
  ASSUME PlanInv, ScanInOrder, VisitedInOrder, [Next]_vars
  PROVE  ScanInOrder' /\ VisitedInOrder'
BY ScanNodeOrder, ScanLastOrder, ScanOverOrder, OpenTaskOrder, AddGroupOrder, CloseTaskOrder,
   OtherOrder, StopOrder DEF Next

(* At first every leaf is still to be visited.                             *)
LEMMA InitOrder == Init => ScanInOrder /\ VisitedInOrder
<1> SUFFICES ASSUME Init PROVE ScanInOrder /\ VisitedInOrder
  OBVIOUS
<1>1. /\ stk = <<Root>> /\ Len(stk) = 1 /\ tmp = NoGroup /\ group = NoGroup /\ initial = TRUE
      /\ pc = "begin" /\ tasks = <<>> /\ subtasks = <<>>
  BY DEF Init
<1>2. ScanInOrder
  <2>1. 1 .. Len(stk) - 1 = {}
    BY <1>1
  <2>2. tmp.st = <<>>
    BY <1>1 DEF NoGroup
  <2> QED
    BY <1>1, <2>1, <2>2 DEF ScanInOrder
<1>3. PlanInv /\ cfg \in Configs
  BY InitPlanInv DEF PlanInv
<1>4. Visited = <<>>
  <2>1. Planned = <<>>
    <3>1. [i \in DOMAIN tasks |-> tasks[i].subtasks] = <<>>
      BY <1>1
    <3>2. FlattenSeq(<<>>) = <<>>
      BY DEF FlattenSeq
    <3> QED
      BY <3>1, <3>2 DEF Planned
  <2>2. SubtasksOf(group) = <<>> /\ Collected = <<>>
    BY <1>1 DEF SubtasksOf, Collected, NoGroup
  <2>3. Visited = (<<>> \o <<>>) \o <<>>
    BY <1>1, <1>3, <2>1, <2>2, VisitedHere
  <2> QED
    BY <2>3
<1>5. ToVisit = cfg.leaves
  <2>1. ASSUME NEW l \in cfg.leaves PROVE OpenAt(stk, 1, l)
    <3>1. 1 \in 1 .. MaxLevel /\ 1 \in Nat \ {0}
      BY <1>3, ConfigFacts
    <3>2. IsPrefix(Path(stk, 1), l)
      BY <1>3, <3>1, BelowEntry
    <3>3. l[1] \in Children(Path(stk, 1))
      BY <1>3, <3>1, <3>2, BelowEntry
    <3>4. Rank(Path(stk, 1), l[1]) \in 0 .. Cardinality(Children(Path(stk, 1))) - 1
      BY <1>3, <3>1, <3>3, RankFacts
    <3>5. stk[1].idx = 1
      BY <1>1 DEF Root
    <3>6. 1 <= Rank(Path(stk, 1), l[1]) + 1
      BY <3>4
    <3> QED
      BY <3>1, <3>2, <3>5, <3>6 DEF OpenAt
  <2>2. 1 \in DOMAIN stk
    BY <1>1
  <2> QED
    BY <2>1, <2>2, ToVisitIsPending DEF Pending
<1>6. VisitedInOrder
  BY <1>4, <1>5 DEF VisitedInOrder, ToSet
<1> QED
  BY <1>2, <1>6

-----------------------------------------------------------------------------
(* The room of a task.                                                     *)

(* The room a set of shards takes. *)
LEMMA WeightFacts ==
  /\ Stream!Weight({}) = 0
  /\ \A S \in SUBSET Shards : Stream!Weight(S) \in Nat
  /\ \A S \in SUBSET Shards : \A x \in Shards \ S : Stream!Weight(S \cup {x}) = Stream!Weight(S) + Size[x]
<1>1. \A S : Stream!Weight(S) = SumOver(Size, S)
  BY DEF Stream!Weight, Stream!MapThenSumSet, Stream!MapThenFoldSet, SumOver, MapThenSumSet, MapThenFoldSet
<1>2. \A x \in Shards : Size[x] \in Nat
  BY SizeAssumption
<1>3. /\ SumOver(Size, {}) = 0
      /\ \A S \in SUBSET Shards : SumOver(Size, S) \in Nat
      /\ \A S \in SUBSET Shards : \A x \in Shards \ S : SumOver(Size, S \cup {x}) = SumOver(Size, S) + Size[x]
  BY <1>2, ShardsAssumption, SumOfSet, ZenonT(60)
<1> QED
  BY <1>1, <1>3

(* One shard more takes at most its size. *)
LEMMA WeightOneMore ==
  ASSUME NEW S \in SUBSET Shards, NEW x \in Shards
  PROVE  /\ Stream!Weight(S) \in Nat /\ Stream!Weight(S \cup {x}) \in Nat /\ Size[x] \in Nat
         /\ Stream!Weight(S \cup {x}) <= Stream!Weight(S) + Size[x]
         /\ x \in S => Stream!Weight(S \cup {x}) = Stream!Weight(S)
<1>1. Stream!Weight(S) \in Nat /\ Stream!Weight(S \cup {x}) \in Nat
  <2>1. S \cup {x} \in SUBSET Shards
    OBVIOUS
  <2> QED
    BY <2>1, WeightFacts
<1>2. Size[x] \in Nat
  BY SizeAssumption
<1>3. CASE x \in S
  <2>1. S \cup {x} = S
    BY <1>3
  <2> QED
    BY <1>1, <1>2, <2>1
<1>4. CASE x \notin S
  <2>1. Stream!Weight(S \cup {x}) = Stream!Weight(S) + Size[x]
    BY <1>4, WeightFacts
  <2> QED
    BY <1>1, <1>2, <1>4, <2>1
<1> QED
  BY <1>3, <1>4

(* The sizes of a sequence of shards, added up, cover the shards. *)
LEMMA SizeCovers ==
  ASSUME NEW st \in Seq(Shards)
  PROVE  Stream!Weight(ToSet(st)) <= SizeOf(st)
<1> DEFINE n == Len(st)
           So(k) == {st[i] : i \in 1 .. k}
           w(k) == Stream!Weight(So(k))
<1>1. PICK g \in [0 .. n -> Nat] :
        g[0] = 0 /\ (\A k \in 1 .. n : g[k] = g[k - 1] + Size[st[k]]) /\ SizeOf(st) = g[n]
  BY SizeOfFold
<1>2. n \in Nat /\ \A k \in 1 .. n : st[k] \in Shards
  OBVIOUS
<1>3. ASSUME NEW k \in 0 .. n PROVE So(k) \in SUBSET Shards
  <2>1. \A i \in 1 .. k : i \in 1 .. n
    BY <1>2
  <2> QED
    BY <1>2, <2>1
<1> DEFINE T == {k \in 0 .. n : w(k) <= g[k]}
<1>4. \A k \in 0 .. n : k \in T
  <2>1. 0 \in T
    <3>1. So(0) = {} /\ 0 \in 0 .. n
      BY <1>2
    <3>2. w(0) = 0
      BY <3>1, WeightFacts
    <3> HIDE DEF w
    <3> QED
      BY <1>1, <3>1, <3>2
  <2>2. ASSUME NEW k \in 1 .. n, k - 1 \in T PROVE k \in T
    <3>1. k \in 0 .. n /\ k - 1 \in 0 .. n /\ st[k] \in Shards /\ g[k] = g[k - 1] + Size[st[k]]
      BY <1>1, <1>2
    <3>2. So(k) = So(k - 1) \cup {st[k]} /\ So(k - 1) \in SUBSET Shards
      <4>1. 1 .. k = (1 .. k - 1) \cup {k}
        OBVIOUS
      <4> QED
        BY <1>3, <3>1, <4>1
    <3> HIDE DEF So
    <3>3. w(k - 1) \in Nat /\ w(k) \in Nat /\ Size[st[k]] \in Nat /\ w(k) <= w(k - 1) + Size[st[k]]
      BY <3>1, <3>2, WeightOneMore
    <3>4. w(k - 1) <= g[k - 1] /\ g[k - 1] \in Nat /\ g[k] \in Nat
      BY <2>2, <3>1
    <3> HIDE DEF w
    <3>5. w(k) <= g[k]
      BY <3>1, <3>3, <3>4
    <3> QED
      BY <3>1, <3>5
  <2> HIDE DEF T
  <2> QED
    BY <1>2, <2>1, <2>2, CountingUp
<1>5. w(n) <= g[n]
  <2>1. n \in 0 .. n
    BY <1>2
  <2>2. n \in T
    BY <1>4, <2>1
  <2> HIDE DEF w
  <2> QED
    BY <2>2
<1>6. So(n) = ToSet(st)
  BY DEF ToSet
<1> QED
  BY <1>1, <1>5, <1>6

(* What is below the modulus does not wrap around.                         *)
LEMMA NoWrap == \A y \in 0 .. SizeModulus - 1 : y % SizeModulus = y
<1>1. SizeModulus \in Nat \ {0}
  BY LimitsAssumption
<1> QED
  BY <1>1

(* The required size of a subtask covers its shards that are not listed    *)
(* yet, unless it wraps around.                                            *)
LEMMA RequiredCovers ==
  ASSUME NEW st \in Seq(Shards), total \in Seq(Shards), SizeOf(st) < SizeModulus
  PROVE  Stream!Weight(ToSet(total) \cup ToSet(st)) <= Stream!Weight(ToSet(total)) + RequiredSize(st)
<1> DEFINE n == Len(st)
           So(k) == {st[i] : i \in 1 .. k}
           B == ToSet(total)
           w(k) == Stream!Weight(B \cup So(k))
<1>1. PICK h \in [0 .. n -> Nat] :
        h[0] = 0 /\ (\A k \in 1 .. n : h[k] = h[k - 1] + Size[st[k]]) /\ SizeOf(st) = h[n]
  BY SizeOfFold
<1>2. PICK g \in [0 .. n -> Nat] :
        g[0] = 0 /\ (\A k \in 1 .. n : g[k] = Counted(g[k - 1], st[k])) /\ RequiredSize(st) = g[n]
  BY RequiredSizeFold
<1>3. n \in Nat /\ \A k \in 1 .. n : st[k] \in Shards /\ Size[st[k]] \in Nat
  BY SizeAssumption
<1>4. B \in SUBSET Shards /\ SizeModulus \in Nat \ {0}
  BY LimitsAssumption DEF ToSet
<1>5. ASSUME NEW k \in 0 .. n PROVE So(k) \in SUBSET Shards
  <2>1. \A i \in 1 .. k : i \in 1 .. n
    BY <1>3
  <2> QED
    BY <1>3, <2>1
<1>6. ASSUME NEW k \in 0 .. n PROVE h[k] < SizeModulus
  <2> DEFINE D == {j \in 0 .. n : h[n - j] <= h[n]}
  <2>1. 0 \in D
    <3>1. 0 \in 0 .. n /\ n - 0 = n /\ n \in 0 .. n
      BY <1>3
    <3> QED
      BY <1>1, <3>1, SMTT(30)
  <2>2. ASSUME NEW j \in 1 .. n, j - 1 \in D PROVE j \in D
    <3>1. /\ j \in 0 .. n /\ n - (j - 1) \in 1 .. n /\ (n - (j - 1)) - 1 = n - j
          /\ n - j \in 0 .. n /\ n - (j - 1) \in 0 .. n /\ n \in 0 .. n
      BY <1>3
    <3>2. h[n - (j - 1)] = h[n - j] + Size[st[n - (j - 1)]]
      BY <1>1, <3>1
    <3>3. h[n - (j - 1)] \in Nat /\ h[n - j] \in Nat /\ h[n] \in Nat /\ Size[st[n - (j - 1)]] \in Nat
      BY <1>1, <1>3, <3>1
    <3>4. h[n - (j - 1)] <= h[n]
      BY <2>2
    <3>5. h[n - j] <= h[n]
      BY <3>2, <3>3, <3>4
    <3> QED
      BY <3>1, <3>5
  <2>3. \A j \in 0 .. n : j \in D
    <3> HIDE DEF D
    <3> QED
      BY <1>3, <2>1, <2>2, CountingUp
  <2>4. n - k \in 0 .. n /\ n - (n - k) = k /\ n \in 0 .. n
    BY <1>3
  <2>5. h[k] <= h[n]
    BY <2>3, <2>4
  <2>6. h[k] \in Nat /\ h[n] \in Nat /\ h[n] < SizeModulus
    BY <1>1, <2>4
  <2> QED
    BY <1>4, <2>5, <2>6
<1> DEFINE T == {k \in 0 .. n : g[k] <= h[k] /\ w(k) <= w(0) + g[k]}
<1>7. \A k \in 0 .. n : w(k) \in Nat
  BY <1>4, <1>5, WeightFacts
<1>8. \A k \in 0 .. n : k \in T
  <2>1. 0 \in T
    <3>1. 0 \in 0 .. n
      BY <1>3
    <3>2. w(0) \in Nat
      BY <1>7, <3>1
    <3> HIDE DEF w
    <3> QED
      BY <1>1, <1>2, <3>1, <3>2
  <2>2. ASSUME NEW k \in 1 .. n, k - 1 \in T PROVE k \in T
    <3>1. /\ k \in 0 .. n /\ k - 1 \in 0 .. n /\ 0 \in 0 .. n /\ st[k] \in Shards /\ Size[st[k]] \in Nat
          /\ h[k] = h[k - 1] + Size[st[k]] /\ g[k] = Counted(g[k - 1], st[k])
      BY <1>1, <1>2, <1>3
    <3>2. B \cup So(k) = (B \cup So(k - 1)) \cup {st[k]} /\ B \cup So(k - 1) \in SUBSET Shards
      <4>1. 1 .. k = (1 .. k - 1) \cup {k}
        OBVIOUS
      <4>2. So(k - 1) \in SUBSET Shards
        BY <1>5, <3>1
      <4> QED
        BY <1>4, <4>1, <4>2
    <3>3. /\ w(k) <= w(k - 1) + Size[st[k]]
          /\ st[k] \in B => w(k) = w(k - 1)
      <4> DEFINE S == B \cup So(k - 1)
      <4>1. S \in SUBSET Shards /\ B \subseteq S /\ B \cup So(k) = S \cup {st[k]}
        BY <3>2
      <4> HIDE DEF S, So, B
      <4>2. /\ Stream!Weight(S \cup {st[k]}) <= Stream!Weight(S) + Size[st[k]]
            /\ st[k] \in S => Stream!Weight(S \cup {st[k]}) = Stream!Weight(S)
        BY <3>1, <4>1, WeightOneMore
      <4> QED
        BY <4>1, <4>2 DEF S
    <3>4. Cached(st[k]) <=> st[k] \in B
      BY DEF Cached, Contains, ToSet
    <3>5. w(k) \in Nat /\ w(k - 1) \in Nat /\ w(0) \in Nat
      BY <1>7, <3>1
    <3> HIDE DEF w, B
    <3>6. g[k - 1] <= h[k - 1] /\ w(k - 1) <= w(0) + g[k - 1]
      BY <2>2
    <3>7. g[k - 1] \in Nat /\ h[k - 1] \in Nat /\ g[k] \in Nat /\ h[k] \in Nat
      BY <3>1
    <3>8. g[k] <= h[k] /\ w(k) <= w(0) + g[k]
      <4>1. CASE Cached(st[k])
        <5>1. g[k] = g[k - 1]
          BY <3>1, <4>1 DEF Counted
        <5>2. w(k) = w(k - 1)
          BY <3>3, <3>4, <4>1
        <5>3. g[k] <= h[k]
          BY <3>1, <3>6, <3>7, <5>1
        <5> QED
          BY <3>5, <3>6, <3>7, <5>1, <5>2, <5>3
      <4>2. CASE ~Cached(st[k])
        <5>1. g[k] = (g[k - 1] + Size[st[k]]) % SizeModulus
          BY <3>1, <4>2 DEF Counted
        <5>2. g[k - 1] + Size[st[k]] <= h[k]
          BY <3>1, <3>6, <3>7
        <5>3. h[k] < SizeModulus
          BY <1>6, <3>1
        <5>4. g[k - 1] + Size[st[k]] \in 0 .. SizeModulus - 1
          BY <1>4, <3>1, <3>7, <5>2, <5>3, SMTT(30)
        <5>5. \A y \in 0 .. SizeModulus - 1 : y % SizeModulus = y
          BY NoWrap
        <5>6. (g[k - 1] + Size[st[k]]) % SizeModulus = g[k - 1] + Size[st[k]]
          BY <5>4, <5>5
        <5>7. g[k] = g[k - 1] + Size[st[k]]
          BY <5>1, <5>6
        <5> QED
          BY <3>1, <3>3, <3>5, <3>6, <3>7, <5>2, <5>7, SMTT(30)
      <4> QED
        BY <4>1, <4>2
    <3> QED
      BY <3>1, <3>8
  <2> HIDE DEF T
  <2> QED
    BY <1>3, <2>1, <2>2, CountingUp
<1>9. w(n) <= w(0) + g[n]
  <2>1. n \in 0 .. n
    BY <1>3
  <2>2. n \in T
    BY <1>8, <2>1
  <2> HIDE DEF w
  <2> QED
    BY <2>2
<1>10. So(n) = ToSet(st) /\ B \cup So(0) = B
  <2>1. 1 .. 0 = {}
    OBVIOUS
  <2> QED
    BY <2>1 DEF ToSet
<1>11. w(n) = Stream!Weight(B \cup ToSet(st)) /\ w(0) = Stream!Weight(B)
  BY <1>10
<1> HIDE DEF w
<1> QED
  BY <1>2, <1>9, <1>11

(* A subtask with no shards takes no room. *)
LEMMA NoShards ==
  SizeOf(<<>>) = 0 /\ RequiredSize(<<>>) = 0
<1>1. <<>> \in Seq(Shards) /\ Len(<<>>) = 0
  OBVIOUS
<1> QED
  BY <1>1, SizeOfFold, RequiredSizeFold

(* At first nothing is counted.                                            *)
LEMMA InitRoom == Init => RoomIsCounted
<1> SUFFICES ASSUME Init PROVE RoomIsCounted
  OBVIOUS
<1>1. used = 0 /\ ToSet(total) = {} /\ Len(subtasks) = 0
  BY DEF Init, ToSet
<1> QED
  BY <1>1, WeightFacts DEF RoomIsCounted

(* The subtasks of the plan are leaves, and nothing wraps in them. *)
LEMMA LeafFits ==
  ASSUME PlanInv, NothingWraps, group.st # <<>>
  PROVE  SizeOf(group.st) < SizeModulus
<1>1. cfg \in Configs /\ group.st \in cfg.leaves
  BY InvFacts DEF Groups, NoGroup
<1> QED
  BY <1>1 DEF NothingWraps

(* A task opens with what its first subtask takes. *)
LEMMA OpenTaskRoom ==
  ASSUME PlanInv, OpenTask
  PROVE  RoomIsCounted'
<1>1. group.st \in Seq(Shards) /\ <<>> \in Seq(Shards)
  BY InvFacts, ShardsOfFacts
<1>2. /\ total' = IF initial THEN <<>> ELSE AddShards(<<>>, group.st)
      /\ subtasks' = IF initial THEN <<>> ELSE SubtasksOf(group)
      /\ used' = SizeOf(total')
  BY DEF OpenTask
<1>3. total' \in Seq(Shards)
  <2>1. AddShards(<<>>, group.st) \in Seq(Shards)
    BY <1>1, AddShardsFacts
  <2> QED
    BY <1>1, <1>2, <2>1
<1>4. Stream!Weight(ToSet(total')) <= used'
  BY <1>2, <1>3, SizeCovers
<1>5. Len(subtasks') = 0 \/ Len(subtasks') = 1
  <2>1. Len(SubtasksOf(group)) = 0 \/ Len(SubtasksOf(group)) = 1
    BY DEF SubtasksOf
  <2> QED
    BY <1>2, <2>1
<1>6. ASSUME subtasks' = <<>> PROVE used' = 0
  <2>1. CASE initial
    BY <1>2, <2>1, NoShards
  <2>2. CASE ~initial
    <3>1. group.st = <<>>
      BY <1>2, <1>6, <2>2 DEF SubtasksOf
    <3>2. total' = AddShards(<<>>, <<>>)
      BY <1>2, <2>2, <3>1
    <3>3. AddShards(<<>>, <<>>) = <<>>
      <4> DEFINE none == <<>>
      <4>1. none \in Seq(Shards) /\ Len(none) = 0
        OBVIOUS
      <4> HIDE DEF none
      <4>2. PICK g \in [0 .. Len(none) -> Seq(Shards)] :
              g[0] = none /\ AddShards(none, none) = g[Len(none)]
        BY <4>1, AddShardsFold, ZenonT(60)
      <4>3. AddShards(none, none) = none
        BY <4>1, <4>2
      <4> QED
        BY <4>3 DEF none
    <3> QED
      BY <1>2, <3>2, <3>3, NoShards
  <2> QED
    BY <2>1, <2>2
<1> QED
  BY <1>4, <1>5, <1>6 DEF RoomIsCounted

(* A group is only added while there is room for it. *)
LEMMA AddGroupRoom ==
  ASSUME PlanInv, RoomIsCounted, AddGroup
  PROVE  RoomIsCounted'
<1>1. group.st \in Seq(Shards) /\ total \in Seq(Shards) /\ used \in Nat /\ cfg \in Configs
      /\ subtasks \in Seq(cfg.leaves) /\ SubtasksOf(group) \in Seq(cfg.leaves)
  BY InvFacts, ShardsOfFacts
<1>2. /\ total' = AddShards(total, group.st) /\ subtasks' = subtasks \o SubtasksOf(group)
      /\ used' = used + RequiredSize(group.st) /\ cfg' = cfg
      /\ ~(RequiredSize(group.st) + used >= cfg.capacity)
  BY DEF AddGroup, ClosesTask
<1>3. RequiredSize(group.st) \in Nat /\ cfg.capacity \in Nat
  BY <1>1, SizesAreNat, ConfigFacts
<1>4. used' < cfg'.capacity
  BY <1>1, <1>2, <1>3
<1>5. ASSUME subtasks' = <<>> PROVE used' = 0
  <2>1. subtasks = <<>> /\ SubtasksOf(group) = <<>>
    <3> DEFINE G == SubtasksOf(group)
    <3>1. subtasks \in Seq(cfg.leaves) /\ G \in Seq(cfg.leaves) /\ subtasks \o G = <<>>
      BY <1>1, <1>2, <1>5
    <3> HIDE DEF G
    <3>2. Len(subtasks \o G) = Len(subtasks) + Len(G) /\ Len(subtasks) \in Nat /\ Len(G) \in Nat
      BY <3>1
    <3>3. Len(subtasks \o G) = 0
      BY <3>1
    <3>4. Len(subtasks) = 0 /\ Len(G) = 0
      BY <3>2, <3>3
    <3>5. subtasks = <<>> /\ G = <<>>
      BY <3>1, <3>4
    <3> QED
      BY <3>5 DEF G
  <2>2. group.st = <<>>
    BY <2>1 DEF SubtasksOf
  <2> QED
    BY <1>2, <2>1, <2>2, NoShards DEF RoomIsCounted
<1>6. ASSUME NothingWraps PROVE Stream!Weight(ToSet(total')) <= used'
  <2>1. ToSet(total') = ToSet(total) \cup ToSet(group.st)
    BY <1>1, <1>2, AddShardsFacts
  <2>2. SizeOf(group.st) < SizeModulus
    <3>1. CASE group.st = <<>>
      BY <3>1, NoShards, LimitsAssumption
    <3>2. CASE group.st # <<>>
      BY <1>6, <3>2, LeafFits
    <3> QED
      BY <3>1, <3>2
  <2>3. Stream!Weight(ToSet(total) \cup ToSet(group.st))
          <= Stream!Weight(ToSet(total)) + RequiredSize(group.st)
    BY <1>1, <2>2, RequiredCovers
  <2>4. Stream!Weight(ToSet(total)) <= used
    BY <1>6 DEF RoomIsCounted
  <2>5. ToSet(total) \in SUBSET Shards /\ ToSet(total) \cup ToSet(group.st) \in SUBSET Shards
    BY <1>1 DEF ToSet
  <2>6. Stream!Weight(ToSet(total)) \in Nat /\ Stream!Weight(ToSet(total) \cup ToSet(group.st)) \in Nat
    BY <2>5, WeightFacts
  <2> QED
    BY <1>1, <1>2, <1>3, <2>1, <2>3, <2>4, <2>6
<1> QED
  BY <1>4, <1>5, <1>6 DEF RoomIsCounted

(* Every step keeps the room counted.                                      *)
LEMMA NextRoom ==
  ASSUME PlanInv, RoomIsCounted, [Next]_vars
  PROVE  RoomIsCounted'
<1>1. CASE OpenTask
  BY <1>1, OpenTaskRoom
<1>2. CASE AddGroup
  BY <1>2, AddGroupRoom
<1>3. CASE ~OpenTask /\ ~AddGroup
  <2>1. cfg' = cfg /\ used' = used /\ total' = total /\ subtasks' = subtasks
    BY <1>3 DEF Next, StopEmpty, ScanNode, ScanLast, ScanOver, LeaveGroup, HangNode, CloseTask,
                CloseEmpty, TreeTooLarge, taskVars, vars
  <2> QED
    BY <2>1 DEF RoomIsCounted
<1> QED
  BY <1>1, <1>2, <1>3

-----------------------------------------------------------------------------
(* The loop.                                                               *)

(* The invariant of the whole loop. *)
LoopInv == PlanInv /\ ScanInOrder /\ VisitedInOrder /\ RoomIsCounted

(* The invariant holds at first and every step keeps it.                   *)
LEMMA LoopInvariant == Spec => []LoopInv
<1>1. Init => LoopInv
  BY InitPlanInv, InitOrder, InitRoom DEF LoopInv
<1>2. LoopInv /\ [Next]_vars => LoopInv'
  BY NextStep, NextOrder, NextRoom DEF LoopInv
<1> QED
  BY <1>1, <1>2, PTL DEF Spec

-----------------------------------------------------------------------------
(* The plan as a stream of tasks.                                          *)

(* The leaves are numbered in their order. *)
LEMMA LeavesFacts ==
  ASSUME cfg \in Configs
  PROVE  /\ Cardinality(cfg.leaves) \in Nat
         /\ Leaves \in Seq(cfg.leaves) /\ Len(Leaves) = Cardinality(cfg.leaves)
         /\ \A i \in 1 .. Cardinality(cfg.leaves) :
              Leaves[i] \in cfg.leaves /\ Cardinality(Lower(LeafOrder, cfg.leaves, Leaves[i])) = i - 1
<1> DEFINE N == Cardinality(cfg.leaves)
           At(i, l) == Cardinality({m \in cfg.leaves : Before(m, l)}) = i - 1
<1>1. N \in Nat
  BY LeavesOrdered, FS_CardinalityType
<1>2. \A l \in cfg.leaves : Lower(LeafOrder, cfg.leaves, l) = {m \in cfg.leaves : Before(m, l)}
  BY LeavesOrdered
<1>3. \A i \in 0 .. N - 1 : \E l \in cfg.leaves : Cardinality(Lower(LeafOrder, cfg.leaves, l)) = i
  BY LeavesOrdered, RankedBy
<1>4. ASSUME NEW i \in 1 .. N PROVE Leaves[i] \in cfg.leaves /\ At(i, Leaves[i])
  <2>1. i - 1 \in 0 .. N - 1
    BY <1>1
  <2>2. \E l \in cfg.leaves : At(i, l)
    BY <1>2, <1>3, <2>1
  <2>3. Leaves[i] = CHOOSE l \in cfg.leaves : At(i, l)
    BY DEF Leaves
  <2> HIDE DEF At
  <2> QED
    BY <2>2, <2>3
<1>5. Leaves \in Seq(cfg.leaves) /\ Len(Leaves) = N
  <2> DEFINE nth(i) == CHOOSE l \in cfg.leaves : At(i, l)
  <2>1. Leaves = [i \in 1 .. N |-> nth(i)]
    BY DEF Leaves
  <2> HIDE DEF nth
  <2>2. Leaves \in [1 .. N -> cfg.leaves]
    <3>1. \A i \in 1 .. N : nth(i) \in cfg.leaves
      BY <1>4, <2>1
    <3> QED
      BY <2>1, <3>1
  <2> QED
    BY <1>1, <2>2, Numbered
<1> QED
  BY <1>1, <1>2, <1>4, <1>5

(* What was visited are the first leaves; at the end it is all of them. *)
LEMMA VisitedAreFirst ==
  ASSUME PlanInv, VisitedInOrder, pc \in Live
  PROVE  /\ Len(Visited) \in Nat /\ Len(Visited) <= Len(Leaves)
         /\ \A i \in 1 .. Len(Visited) : Visited[i] = Leaves[i]
         /\ ToVisit = {} => Len(Visited) = Len(Leaves)
<1> DEFINE n == Len(Visited)
           N == Cardinality(cfg.leaves)
           r(l) == Cardinality(Lower(LeafOrder, cfg.leaves, l))
<1>1. /\ cfg \in Configs /\ Visited \in Seq(cfg.leaves) /\ InOrder(Visited, ToVisit)
  BY InvFacts, VisitedParts DEF VisitedInOrder, InOrder, Live
<1>2. /\ IsFiniteSet(cfg.leaves) /\ StrictOrder(LeafOrder, cfg.leaves)
      /\ \A l, m \in cfg.leaves : <<l, m>> \in LeafOrder <=> Before(l, m)
  BY <1>1, LeavesOrdered
<1>3. n \in Nat /\ Visited \in [1 .. n -> cfg.leaves] /\ \A i \in 1 .. n : Visited[i] \in cfg.leaves
  BY <1>1
<1>4. N \in Nat /\ Len(Leaves) = N /\ \A i \in 1 .. N : Leaves[i] \in cfg.leaves /\ r(Leaves[i]) = i - 1
  BY <1>1, LeavesFacts
<1>5. \A i, j \in 1 .. n : i < j => <<Visited[i], Visited[j]>> \in LeafOrder
  BY <1>1, <1>2, <1>3 DEF InOrder
<1>6. ASSUME NEW g \in cfg.leaves
      PROVE  (\E i \in 1 .. n : g = Visited[i]) \/ (\A i \in 1 .. n : <<Visited[i], g>> \in LeafOrder)
  <2>1. g \in ToSet(Visited) \/ g \in ToVisit
    BY <1>1 DEF InOrder
  <2>2. ASSUME g \in ToSet(Visited) PROVE \E i \in 1 .. n : g = Visited[i]
    BY <1>1, <2>2 DEF ToSet
  <2>3. ASSUME g \in ToVisit PROVE \A i \in 1 .. n : <<Visited[i], g>> \in LeafOrder
    BY <1>1, <1>2, <1>3, <2>3 DEF InOrder
  <2> QED
    BY <2>1, <2>2, <2>3
<1> HIDE DEF n
<1>7. ASSUME NEW i \in 1 .. n PROVE r(Visited[i]) = i - 1
  BY <1>2, <1>3, <1>5, <1>6, SortedIsRanked
<1>8. ASSUME NEW i \in 1 .. n PROVE i \in 1 .. N
  <2>1. r(Visited[i]) \in 0 .. N - 1
    BY <1>2, <1>3, RankIsSmall
  <2>2. i - 1 \in 0 .. N - 1
    BY <1>7, <2>1
  <2> QED
    BY <1>4, <2>2
<1>9. n <= N
  <2>1. CASE n = 0
    BY <1>4, <2>1
  <2>2. CASE n # 0
    <3>1. n \in 1 .. n
      BY <1>3, <2>2
    <3>2. n \in 1 .. N
      BY <1>8, <3>1
    <3> QED
      BY <1>4, <3>2
  <2> QED
    BY <2>1, <2>2
<1>10. ASSUME NEW i \in 1 .. n PROVE Visited[i] = Leaves[i]
  <2>1. r(Visited[i]) = r(Leaves[i]) /\ Visited[i] \in cfg.leaves /\ Leaves[i] \in cfg.leaves
    BY <1>3, <1>4, <1>7, <1>8
  <2> QED
    BY <1>2, <2>1, RankedBy
<1>11. ASSUME ToVisit = {} PROVE n = N
  <2>1. ASSUME n < N PROVE FALSE
    <3>1. n + 1 \in 1 .. N
      BY <1>3, <1>4, <2>1
    <3>2. Leaves[n + 1] \in cfg.leaves /\ r(Leaves[n + 1]) = (n + 1) - 1
      BY <1>4, <3>1
    <3>3. PICK i \in 1 .. n : Leaves[n + 1] = Visited[i]
      <4>1. Leaves[n + 1] \in ToSet(Visited)
        BY <1>1, <1>11, <3>2 DEF InOrder
      <4> QED
        BY <1>3, <4>1 DEF ToSet, n
    <3>4. r(Visited[i]) = i - 1
      BY <1>7
    <3>5. i - 1 = (n + 1) - 1
      BY <3>2, <3>3, <3>4
    <3> QED
      BY <1>3, <3>5
  <2> QED
    BY <1>3, <1>4, <1>9, <2>1
<1> QED
  BY <1>3, <1>4, <1>9, <1>10, <1>11 DEF n

(* The subtasks of a task that is being closed are the next leaves. *)
LEMMA NextLeaves ==
  ASSUME PlanInv, VisitedInOrder, pc = "close"
  PROVE  LET left == SubSeq(Leaves, Len(Planned) + 1, Len(Leaves))
             more == Len(Planned) + Len(subtasks)
         IN  /\ Len(subtasks) \in Nat /\ Len(left) \in Nat /\ Len(subtasks) <= Len(left)
             /\ SubSeq(left, 1, Len(subtasks)) = subtasks
             /\ SubSeq(left, Len(subtasks) + 1, Len(left)) = SubSeq(Leaves, more + 1, Len(Leaves))
<1> DEFINE A == Planned
           B == subtasks
           C == SubtasksOf(group)
           T == Collected
           p == Len(A)
           n == Len(B)
           N == Len(Leaves)
           left == SubSeq(Leaves, p + 1, N)
<1>1. cfg \in Configs /\ pc \in Live
  BY InvFacts DEF Live
<1>2. /\ A \in Seq(cfg.leaves) /\ B \in Seq(cfg.leaves) /\ C \in Seq(cfg.leaves) /\ T \in Seq(cfg.leaves)
      /\ Visited = ((A \o B) \o C) \o T
  BY VisitedParts, VisitedHere
<1>3. Leaves \in Seq(cfg.leaves) /\ N \in Nat /\ p \in Nat /\ n \in Nat
  <2>1. Leaves \in Seq(cfg.leaves)
    BY <1>1, LeavesFacts
  <2> QED
    BY <1>2, <2>1
<1>4. p + n <= Len(Visited) /\ \A i \in 1 .. n : Visited[p + i] = B[i]
  <2> HIDE DEF A, B, C, T
  <2> DEFINE W == A \o B
             X == W \o C
  <2>1. W \in Seq(cfg.leaves) /\ Len(W) = p + n /\ \A i \in 1 .. n : W[p + i] = B[i]
    BY <1>2
  <2> HIDE DEF W
  <2>2. X \in Seq(cfg.leaves) /\ Len(X) = p + n + Len(C) /\ Len(C) \in Nat
        /\ \A i \in 1 .. p + n : X[i] = W[i]
    <3>1. Len(C) \in Nat /\ X \in Seq(cfg.leaves) /\ Len(X) = Len(W) + Len(C)
          /\ \A i \in 1 .. Len(W) : X[i] = W[i]
      <4>1. W \in Seq(cfg.leaves) /\ C \in Seq(cfg.leaves)
        BY <1>2, <2>1
      <4> QED
        BY <4>1, BothParts
    <3> HIDE DEF X
    <3> QED
      BY <1>3, <2>1, <3>1
  <2> HIDE DEF X
  <2>3. Len(X \o T) = p + n + Len(C) + Len(T) /\ Len(T) \in Nat
        /\ \A i \in 1 .. p + n : (X \o T)[i] = X[i]
    <3> DEFINE Y == X \o T
    <3>1. Len(T) \in Nat /\ Len(Y) = Len(X) + Len(T)
          /\ \A i \in 1 .. Len(X) : Y[i] = X[i]
      BY <1>2, <2>2, BothParts
    <3> HIDE DEF Y
    <3>2. Len(Y) = p + n + Len(C) + Len(T) /\ Len(T) \in Nat /\ \A i \in 1 .. p + n : Y[i] = X[i]
      <4>1. \A i \in 1 .. p + n : i \in 1 .. Len(X)
        BY <1>3, <2>2
      <4> QED
        BY <1>3, <2>2, <3>1, <4>1
    <3> QED
      BY <3>2 DEF Y
  <2>4. Visited = X \o T
    BY <1>2 DEF X, W
  <2>5. \A i \in 1 .. n : p + i \in 1 .. p + n
    BY <1>3
  <2> QED
    BY <1>3, <2>1, <2>2, <2>3, <2>4, <2>5
<1>5. p + n <= N /\ \A i \in 1 .. n : Leaves[p + i] = B[i]
  <2>1. /\ Len(Visited) \in Nat /\ Len(Visited) <= N
        /\ \A i \in 1 .. Len(Visited) : Visited[i] = Leaves[i]
    BY <1>1, VisitedAreFirst
  <2>2. \A i \in 1 .. n : p + i \in 1 .. Len(Visited)
    BY <1>3, <1>4, <2>1
  <2> QED
    BY <1>3, <1>4, <2>1, <2>2
<1> HIDE DEF A, B, p, n, N
<1>6. Len(left) = N - p /\ Len(left) \in Nat /\ left \in Seq(cfg.leaves)
      /\ \A i \in 1 .. N - p : left[i] = Leaves[p + i]
  <2>1. Len(Leaves) = N
    BY DEF N
  <2>2. p \in 0 .. Len(Leaves)
    BY <1>3, <1>5, <2>1
  <2>3. left \in Seq(cfg.leaves) /\ Len(left) = N - p /\ \A i \in 1 .. N - p : left[i] = Leaves[p + i]
    BY <1>3, <2>1, <2>2, RestOf
  <2>4. Len(left) \in Nat
    BY <1>3, <1>5, <2>3
  <2> QED
    BY <2>3, <2>4
<1> HIDE DEF left
<1>7. n <= Len(left)
  BY <1>3, <1>5, <1>6
<1>8. SubSeq(left, 1, n) = B
  <2>1. SubSeq(left, 1, n) = [i \in 1 .. n |-> left[i]]
    BY <1>3, <1>6, <1>7
  <2>2. \A i \in 1 .. n : i \in 1 .. N - p /\ left[i] = B[i]
    BY <1>3, <1>5, <1>6
  <2>3. B = [i \in 1 .. n |-> B[i]]
    BY <1>2 DEF n
  <2> QED
    BY <2>1, <2>2, <2>3
<1>9. SubSeq(left, n + 1, Len(left)) = SubSeq(Leaves, p + n + 1, N)
  <2> DEFINE a == SubSeq(left, n + 1, Len(left))
             b == SubSeq(Leaves, p + n + 1, N)
  <2>0. Len(Leaves) = N /\ n \in 0 .. Len(left) /\ p + n \in 0 .. Len(Leaves)
    <3>1. Len(Leaves) = N
      BY DEF N
    <3> QED
      BY <1>3, <1>5, <1>6, <1>7, <3>1
  <2>1. a \in Seq(cfg.leaves) /\ Len(a) = Len(left) - n /\ \A i \in 1 .. Len(left) - n : a[i] = left[n + i]
    BY <1>6, <2>0, RestOf
  <2>2. b \in Seq(cfg.leaves) /\ Len(b) = N - (p + n) /\ \A i \in 1 .. N - (p + n) : b[i] = Leaves[(p + n) + i]
    BY <1>3, <2>0, RestOf
  <2> HIDE DEF a, b
  <2>3. Len(a) = N - (p + n) /\ \A i \in 1 .. N - (p + n) : a[i] = b[i]
    <3>1. Len(left) - n = N - (p + n)
      BY <1>3, <1>6
    <3>2. \A i \in 1 .. N - (p + n) : n + i \in 1 .. N - p /\ p + (n + i) = (p + n) + i
      BY <1>3, <1>5
    <3> QED
      BY <1>6, <2>1, <2>2, <3>1, <3>2
  <2>4. a = [i \in 1 .. N - (p + n) |-> a[i]] /\ b = [i \in 1 .. N - (p + n) |-> b[i]]
    BY <2>1, <2>2, <2>3
  <2>5. a = b
    BY <2>3, <2>4
  <2> QED
    BY <2>5 DEF a, b
<1> QED
  BY <1>3, <1>6, <1>7, <1>8, <1>9 DEF A, B, p, n, N, left

(* When the scan is over and no task is being filled, all is planned. *)
LEMMA AllPlanned ==
  ASSUME PlanInv, ScanInOrder, VisitedInOrder, group = NoGroup,
         (pc = "begin" /\ ~initial) \/ (pc = "close" /\ subtasks = <<>>)
  PROVE  Len(Planned) = Len(Leaves) /\ Len(Leaves) \in Nat
<1>1. stk = <<>> /\ pc \in Live
  BY DEF ScanInOrder, Live
<1>2. ToVisit = {}
  BY <1>1 DEF ToVisit
<1>3. Len(Visited) = Len(Leaves) /\ Len(Visited) \in Nat
  BY <1>1, <1>2, VisitedAreFirst
<1>4. Collected = <<>> /\ SubtasksOf(group) = <<>>
  BY <1>1 DEF Collected, SubtasksOf, NoGroup
<1> DEFINE A == Planned
<1>5. A \in Seq(cfg.leaves)
  BY VisitedParts
<1>6. Visited = (A \o <<>>) \o <<>> \/ Visited = ((A \o <<>>) \o <<>>) \o <<>>
  <2>1. CASE pc = "begin"
    <3>1. Visited = (Planned \o SubtasksOf(group)) \o Collected
      BY <2>1, VisitedHere
    <3> QED
      BY <1>4, <3>1
  <2>2. CASE pc = "close"
    <3>1. Visited = ((Planned \o subtasks) \o SubtasksOf(group)) \o Collected /\ subtasks = <<>>
      BY <2>2, VisitedHere
    <3> QED
      BY <1>4, <3>1
  <2> QED
    BY <2>1, <2>2
<1> HIDE DEF A
<1>7. A \o <<>> = A
  BY <1>5, ConcatEmptySeq
<1>8. Visited = A
  BY <1>6, <1>7
<1> QED
  BY <1>3, <1>8 DEF A

(* The variables of the stream, as the planner gives them. *)
Left == SubSeq(Leaves, Len(Planned) + 1, Len(Leaves))
CutSoFar == [i \in DOMAIN tasks |-> tasks[i].subtasks]
Status == CASE pc = "stopped" /\ ~Short -> "ended"
            [] pc = "exited" \/ Short -> "failed"
            [] OTHER -> "open"

(* Whether the stream is open, by where the loop is.                       *)
LEMMA StatusFacts ==
  /\ pc \in Live => Status = "open"
  /\ pc = "stopped" /\ group = NoGroup => Status = "ended"
  /\ pc = "exited" \/ (pc = "stopped" /\ group # NoGroup) => Status = "failed"
  /\ pc' \in Live => Status' = "open"
  /\ pc' = "stopped" /\ group' = NoGroup => Status' = "ended"
  /\ pc' = "exited" \/ (pc' = "stopped" /\ group' # NoGroup) => Status' = "failed"
<1>1. pc \in Live => pc # "stopped" /\ pc # "exited"
  BY DEF Live
<1>2. pc' \in Live => pc' # "stopped" /\ pc' # "exited"
  BY DEF Live
<1> QED
  BY <1>1, <1>2 DEF Status, Short

(* The steps of the stream in these terms. *)
LEMMA StreamSteps ==
  /\ Stream!Init <=>
       cfg.capacity \in Nat /\ Left \in Seq(Seq(DOMAIN Size)) /\ CutSoFar = <<>> /\ Status = "open"
  /\ Stream!End <=>
       /\ Status = "open" /\ Left = <<>> /\ Status' = "ended"
       /\ cfg.capacity' = cfg.capacity /\ Left' = Left /\ CutSoFar' = CutSoFar
  /\ Stream!Fail <=>
       /\ Status = "open" /\ Status' = "failed"
       /\ cfg.capacity' = cfg.capacity /\ Left' = Left /\ CutSoFar' = CutSoFar
  /\ Stream!End \/ Stream!Fail => Stream!Next
  /\ UNCHANGED Stream!vars <=>
       cfg.capacity' = cfg.capacity /\ Left' = Left /\ CutSoFar' = CutSoFar /\ Status' = Status
<1>1. Stream!Init <=>
        cfg.capacity \in Nat /\ Left \in Seq(Seq(DOMAIN Size)) /\ CutSoFar = <<>> /\ Status = "open"
  BY DEF Stream!Init, Left, CutSoFar, Status
<1>2. Stream!End <=>
        /\ Status = "open" /\ Left = <<>> /\ Status' = "ended"
        /\ cfg.capacity' = cfg.capacity /\ Left' = Left /\ CutSoFar' = CutSoFar
  BY DEF Stream!End, Left, CutSoFar, Status
<1>3. Stream!Fail <=>
        /\ Status = "open" /\ Status' = "failed"
        /\ cfg.capacity' = cfg.capacity /\ Left' = Left /\ CutSoFar' = CutSoFar
  BY DEF Stream!Fail, Left, CutSoFar, Status
<1>4. Stream!End \/ Stream!Fail => Stream!Next
  BY DEF Stream!Next
<1>5. UNCHANGED Stream!vars <=>
        cfg.capacity' = cfg.capacity /\ Left' = Left /\ CutSoFar' = CutSoFar /\ Status' = Status
  BY DEF Stream!vars, Left, CutSoFar, Status
<1> QED
  BY <1>1, <1>2, <1>3, <1>4, <1>5

(* The next n subtasks are cut from the stream. *)
LEMMA StreamCut ==
  ASSUME NEW n \in 1 .. Len(Left), Status = "open", Status' = "open", UNCHANGED cfg,
         n = 1 \/ Stream!Weight(Stream!ShardsOf(SubSeq(Left, 1, n))) < cfg.capacity,
         CutSoFar' = Append(CutSoFar, SubSeq(Left, 1, n)), Left' = SubSeq(Left, n + 1, Len(Left))
  PROVE  Stream!Next
<1>1. Stream!Cut(n)
  BY DEF Stream!Cut, Left, CutSoFar, Status
<1> QED
  BY <1>1 DEF Stream!Next, Left

(* Nothing is cut at first. *)
LEMMA InitStream == Init => Stream!Init
<1> SUFFICES ASSUME Init PROVE Stream!Init
  OBVIOUS
<1>1. cfg \in Configs /\ tasks = <<>> /\ pc \in Live
  BY DEF Init, Live
<1>2. cfg.capacity \in Nat /\ Leaves \in Seq(cfg.leaves) /\ \A l \in cfg.leaves : l \in Seq(Shards)
  BY <1>1, ConfigFacts, LeavesFacts
<1>3. CutSoFar = <<>>
  BY <1>1 DEF CutSoFar
<1>4. Len(Planned) = 0
  BY <1>3 DEF CutSoFar, Planned, FlattenSeq
<1>5. Left \in Seq(Seq(DOMAIN Size))
  <2>1. DOMAIN Size = Shards
    BY SizeAssumption
  <2>2. 0 \in 0 .. Len(Leaves)
    BY <1>2
  <2>3. Left \in Seq(cfg.leaves)
    BY <1>2, <1>4, <2>2, RestOf DEF Left
  <2>4. Left \in Seq(Seq(Shards))
    BY <1>2, <2>3
  <2> QED
    BY <2>1, <2>4
<1> QED
  BY <1>1, <1>2, <1>3, <1>5, StatusFacts, StreamSteps

(* A task of no shards has no subtasks. *)
LEMMA EmptyTask ==
  ASSUME LoopInv, NothingWraps, used = 0
  PROVE  subtasks = <<>>
<1> SUFFICES ASSUME subtasks # <<>> PROVE FALSE
  OBVIOUS
<1>1. /\ cfg \in Configs /\ subtasks \in Seq(cfg.leaves) /\ total \in Seq(Shards) /\ used \in Nat
      /\ ToSet(total) = Stream!ShardsOf(subtasks)
  BY InvFacts DEF LoopInv
<1>2. 1 \in DOMAIN subtasks /\ subtasks[1] \in cfg.leaves
  BY <1>1
<1>3. subtasks[1] \in Seq(Shards) /\ 1 \in DOMAIN subtasks[1]
  BY <1>1, <1>2, ConfigFacts
<1> DEFINE x == subtasks[1][1]
           S == ToSet(total)
<1>4. x \in S
  <2>1. x \in ToSet(subtasks[1])
    BY <1>3 DEF ToSet
  <2>2. subtasks[1] \in ToSet(subtasks)
    BY <1>2 DEF ToSet
  <2>3. Stream!ShardsOf(subtasks) = UNION {ToSet(st) : st \in ToSet(subtasks)}
    BY DEF Stream!ShardsOf, Stream!ToSet, ToSet
  <2>4. ToSet(subtasks[1]) \in {ToSet(st) : st \in ToSet(subtasks)}
    BY <2>2
  <2>5. x \in UNION {ToSet(st) : st \in ToSet(subtasks)}
    BY <2>1, <2>4
  <2> QED
    BY <1>1, <2>3, <2>5
<1>5. S \in SUBSET Shards
  BY <1>1 DEF ToSet
<1> HIDE DEF S, x
<1>6. Stream!Weight(S) = Stream!Weight(S \ {x}) + Size[x]
  <2>1. (S \ {x}) \cup {x} = S /\ x \in Shards \ (S \ {x}) /\ S \ {x} \in SUBSET Shards
    BY <1>4, <1>5
  <2>2. Stream!Weight((S \ {x}) \cup {x}) = Stream!Weight(S \ {x}) + Size[x]
    BY <2>1, WeightFacts
  <2> QED
    BY <2>1, <2>2
<1>7. Stream!Weight(S \ {x}) \in Nat /\ Stream!Weight(S) \in Nat /\ Size[x] \in Nat \ {0}
  <2>1. S \ {x} \in SUBSET Shards /\ x \in Shards
    BY <1>4, <1>5
  <2> QED
    BY <1>5, <2>1, WeightFacts, SizeAssumption
<1>8. Stream!Weight(S) <= 0
  BY DEF LoopInv, RoomIsCounted, S
<1> QED
  BY <1>6, <1>7, <1>8

(* A task is cut from the stream. *)
LEMMA CloseTaskCuts ==
  ASSUME LoopInv, NothingWraps, CloseTask
  PROVE  Stream!Next
<1> DEFINE n == Len(subtasks)
<1>1. /\ PlanInv /\ VisitedInOrder /\ RoomIsCounted /\ cfg \in Configs /\ subtasks \in Seq(cfg.leaves)
      /\ total \in Seq(Shards) /\ used \in Nat /\ ToSet(total) = Stream!ShardsOf(subtasks)
  BY InvFacts DEF LoopInv
<1>2. pc = "close" /\ pc' = "begin" /\ cfg' = cfg /\ used # 0
  BY DEF CloseTask
<1>3. /\ n \in Nat /\ Len(Left) \in Nat /\ n <= Len(Left) /\ SubSeq(Left, 1, n) = subtasks
      /\ SubSeq(Left, n + 1, Len(Left)) = SubSeq(Leaves, (Len(Planned) + n) + 1, Len(Leaves))
  BY <1>1, <1>2, NextLeaves DEF Left
<1>4. subtasks # <<>>
  BY <1>1, <1>2 DEF RoomIsCounted
<1>5. n \in 1 .. Len(Left)
  BY <1>1, <1>3, <1>4
<1>6. Left' = SubSeq(Left, n + 1, Len(Left))
  <2>1. Planned' = Planned \o subtasks /\ Planned \in Seq(cfg.leaves)
    BY <1>1, PlannedStep, VisitedParts
  <2>2. Len(Planned') = Len(Planned) + n
    BY <1>1, <2>1, BothParts
  <2>3. Leaves' = Leaves
    BY <1>2 DEF Leaves
  <2> QED
    BY <1>3, <2>2, <2>3 DEF Left
<1>7. CutSoFar' = Append(CutSoFar, subtasks)
  <2> DEFINE t == [subtasks |-> subtasks, total |-> total, nodes |-> tree.nodes, roots |-> tree.roots]
             c == CutSoFar
             m == Len(tasks)
  <2>1. tasks' = Append(tasks, t) /\ t.subtasks = subtasks /\ tasks \in Seq(ToSet(tasks))
    BY <1>1 DEF CloseTask, PlanInv, TypeOK
  <2> HIDE DEF t
  <2>2. /\ m \in Nat /\ DOMAIN tasks = 1 .. m /\ DOMAIN tasks' = 1 .. m + 1 /\ tasks'[m + 1] = t
        /\ \A i \in 1 .. m : tasks'[i] = tasks[i]
    BY <2>1
  <2>3. \A u \in ToSet(tasks) : u.subtasks \in Seq(cfg.leaves)
    BY <1>1 DEF PlanInv, TypeOK
  <2>4. c \in [1 .. m -> Seq(cfg.leaves)] /\ \A i \in 1 .. m : c[i] = tasks[i].subtasks
    BY <2>2, <2>3 DEF CutSoFar, ToSet
  <2>5. CutSoFar' = [i \in 1 .. m + 1 |-> tasks'[i].subtasks]
    BY <2>2 DEF CutSoFar
  <2> HIDE DEF c, m
  <2>6. c \in Seq(Seq(cfg.leaves)) /\ Len(c) = m
    BY <2>2, <2>4, Numbered
  <2> DEFINE a == Append(c, subtasks)
  <2>7. a \in Seq(Seq(cfg.leaves)) /\ Len(a) = m + 1 /\ a[m + 1] = subtasks /\ \A i \in 1 .. m : a[i] = c[i]
    BY <1>1, <2>6, AppendProperties
  <2> HIDE DEF a
  <2>8. a = [i \in 1 .. m + 1 |-> a[i]]
    BY <2>7
  <2>9. ASSUME NEW i \in 1 .. m + 1 PROVE a[i] = tasks'[i].subtasks
    <3>1. i = m + 1 \/ i \in 1 .. m
      BY <2>2
    <3> QED
      BY <2>1, <2>2, <2>4, <2>7, <3>1
  <2>10. CutSoFar' = a
    BY <2>5, <2>8, <2>9
  <2> QED
    BY <2>10 DEF a, c
<1>8. n = 1 \/ Stream!Weight(Stream!ShardsOf(subtasks)) < cfg.capacity
  <2>1. ASSUME n # 1 PROVE Stream!Weight(Stream!ShardsOf(subtasks)) < cfg.capacity
    <3>1. n > 1
      BY <1>3, <1>5, <2>1
    <3>2. Stream!Weight(ToSet(total)) <= used /\ used < cfg.capacity
      BY <1>1, <3>1 DEF RoomIsCounted
    <3>3. Stream!Weight(ToSet(total)) \in Nat /\ cfg.capacity \in Nat
      <4>1. ToSet(total) \in SUBSET Shards
        BY <1>1 DEF ToSet
      <4> QED
        BY <1>1, <4>1, WeightFacts, ConfigFacts
    <3>4. Stream!Weight(ToSet(total)) < cfg.capacity
      BY <1>1, <3>2, <3>3
    <3> QED
      BY <1>1, <3>4
  <2> QED
    BY <2>1
<1>9. Status = "open" /\ Status' = "open"
  BY <1>2, StatusFacts DEF Live
<1> HIDE DEF n
<1>10. n = 1 \/ Stream!Weight(Stream!ShardsOf(SubSeq(Left, 1, n))) < cfg.capacity
  BY <1>3, <1>8
<1>11. CutSoFar' = Append(CutSoFar, SubSeq(Left, 1, n))
  BY <1>3, <1>7
<1> QED
  BY <1>2, <1>5, <1>6, <1>9, <1>10, <1>11, StreamCut

(* Every step of the planner is one of the stream, or changes nothing      *)
(* there.                                                                  *)
LEMMA StreamStep ==
  ASSUME LoopInv, NothingWraps, [Next]_vars
  PROVE  Stream!Next \/ UNCHANGED Stream!vars
<1>1. CASE CloseTask
  BY <1>1, CloseTaskCuts
<1>2. ASSUME cfg' = cfg, tasks' = tasks
      PROVE  cfg.capacity' = cfg.capacity /\ Left' = Left /\ CutSoFar' = CutSoFar
  <2>1. Planned' = Planned /\ Leaves' = Leaves
    BY <1>2 DEF Planned, Leaves
  <2> QED
    BY <1>2, <2>1 DEF Left, CutSoFar
<1>3. ASSUME group = NoGroup, (pc = "begin" /\ ~initial) \/ (pc = "close" /\ subtasks = <<>>)
      PROVE  Left = <<>>
  <2>1. Len(Planned) = Len(Leaves) /\ Len(Leaves) \in Nat
    BY <1>3, AllPlanned DEF LoopInv
  <2>2. Left = SubSeq(Leaves, Len(Leaves) + 1, Len(Leaves))
    BY <2>1 DEF Left
  <2> QED
    BY <2>1, <2>2, SubSeqEmpty
<1>4. CASE StopEmpty
  <2>1. /\ pc = "begin" /\ ~initial /\ group = NoGroup /\ pc' = "stopped" /\ group' = group
        /\ cfg' = cfg /\ tasks' = tasks
    BY <1>4 DEF StopEmpty, scanVars
  <2>2. Status = "open" /\ Status' = "ended"
    BY <2>1, StatusFacts DEF Live
  <2>3. Stream!End
    BY <1>2, <1>3, <2>1, <2>2, StreamSteps
  <2> QED
    BY <2>3, StreamSteps
<1>5. CASE CloseEmpty
  <2>1. /\ pc = "close" /\ used = 0 /\ pc' = "stopped" /\ group' = group /\ cfg' = cfg /\ tasks' = tasks
    BY <1>5 DEF CloseEmpty, scanVars
  <2>2. Status = "open"
    BY <2>1, StatusFacts DEF Live
  <2>3. CASE group = NoGroup
    <3>1. Left = <<>>
      BY <1>3, <2>1, <2>3, EmptyTask
    <3>2. Status' = "ended"
      BY <2>1, <2>3, StatusFacts
    <3>3. Stream!End
      BY <1>2, <2>1, <2>2, <3>1, <3>2, StreamSteps
    <3> QED
      BY <3>3, StreamSteps
  <2>4. CASE group # NoGroup
    <3>1. Status' = "failed"
      BY <2>1, <2>4, StatusFacts
    <3>2. Stream!Fail
      BY <1>2, <2>1, <2>2, <3>1, StreamSteps
    <3> QED
      BY <3>2, StreamSteps
  <2> QED
    BY <2>3, <2>4
<1>6. CASE TreeTooLarge
  <2>1. pc = "close" /\ pc' = "exited" /\ cfg' = cfg /\ tasks' = tasks
    BY <1>6 DEF TreeTooLarge
  <2>2. Status = "open" /\ Status' = "failed"
    BY <2>1, StatusFacts DEF Live
  <2>3. Stream!Fail
    BY <1>2, <2>1, <2>2, StreamSteps
  <2> QED
    BY <2>3, StreamSteps
<1>7. CASE OpenTask \/ ScanNode \/ ScanLast \/ ScanOver \/ AddGroup \/ LeaveGroup \/ HangNode
  <2>1. cfg' = cfg /\ tasks' = tasks /\ pc \in Live /\ pc' \in Live
    BY <1>7 DEF OpenTask, ScanNode, ScanLast, ScanOver, AddGroup, LeaveGroup, HangNode, Live
  <2>2. Status' = Status
    BY <2>1, StatusFacts
  <2> QED
    BY <1>2, <2>1, <2>2, StreamSteps
<1>8. CASE UNCHANGED vars
  <2>1. cfg' = cfg /\ tasks' = tasks /\ pc' = pc /\ group' = group
    BY <1>8 DEF vars, scanVars
  <2>2. Status' = Status
    BY <2>1 DEF Status, Short
  <2> QED
    BY <1>2, <2>1, <2>2, StreamSteps
<1> QED
  BY <1>1, <1>4, <1>5, <1>6, <1>7, <1>8 DEF Next

-----------------------------------------------------------------------------
(* Stopping for lack of memory.                                            *)

(* The required size of a subtask is at most the sum of its shards.        *)
LEMMA RequiredAtMost ==
  ASSUME NEW st \in Seq(Shards)
  PROVE  RequiredSize(st) <= SizeOf(st)
<1> DEFINE n == Len(st)
<1>1. PICK h \in [0 .. n -> Nat] :
        h[0] = 0 /\ (\A k \in 1 .. n : h[k] = h[k - 1] + Size[st[k]]) /\ SizeOf(st) = h[n]
  BY SizeOfFold
<1>2. PICK g \in [0 .. n -> Nat] :
        g[0] = 0 /\ (\A k \in 1 .. n : g[k] = Counted(g[k - 1], st[k])) /\ RequiredSize(st) = g[n]
  BY RequiredSizeFold
<1>3. n \in Nat /\ \A k \in 1 .. n : st[k] \in Shards /\ Size[st[k]] \in Nat
  BY SizeAssumption
<1>4. \A y \in Nat : y % SizeModulus \in Nat /\ y % SizeModulus <= y
  <2>1. SizeModulus \in Nat \ {0}
    BY LimitsAssumption
  <2> QED
    BY <2>1
<1> DEFINE T == {k \in 0 .. n : g[k] <= h[k]}
<1>5. 0 \in T
  BY <1>1, <1>2, <1>3
<1>6. ASSUME NEW k \in 1 .. n, k - 1 \in T PROVE k \in T
  <2>1. /\ k \in 0 .. n /\ k - 1 \in 0 .. n /\ Size[st[k]] \in Nat
        /\ h[k] = h[k - 1] + Size[st[k]] /\ g[k] = Counted(g[k - 1], st[k])
    BY <1>1, <1>2, <1>3
  <2>2. g[k - 1] \in Nat /\ h[k - 1] \in Nat /\ g[k - 1] <= h[k - 1]
    BY <1>6, <2>1
  <2>3. g[k - 1] + Size[st[k]] \in Nat
    BY <2>1, <2>2
  <2>4. (g[k - 1] + Size[st[k]]) % SizeModulus <= g[k - 1] + Size[st[k]]
        /\ (g[k - 1] + Size[st[k]]) % SizeModulus \in Nat
    BY <1>4, <2>3
  <2>5. g[k] = g[k - 1] \/ g[k] = (g[k - 1] + Size[st[k]]) % SizeModulus
    BY <2>1 DEF Counted
  <2>6. g[k] <= h[k]
    BY <2>1, <2>2, <2>4, <2>5
  <2> QED
    BY <2>1, <2>6
<1>7. \A k \in 0 .. n : k \in T
  <2> HIDE DEF T
  <2> QED
    BY <1>3, <1>5, <1>6, CountingUp
<1> QED
  BY <1>1, <1>2, <1>3, <1>7

(* A group that an empty task refuses is larger than the device; and where *)
(* there is no memory at all, nothing is ever planned.                     *)
Refused ==
  /\ pc = "close" /\ group # NoGroup /\ used = 0 => SizeOf(group.st) >= cfg.capacity
  /\ cfg.capacity = 0 => used = 0 /\ initial /\ tasks = <<>>

(* A task that nothing is counted for is empty, and far from full. *)
LEMMA EmptyIsNotFull ==
  ASSUME LoopInv, NothingWraps, MaxNumTreeNodes >= 10, used = 0
  PROVE  ~NearlyFull
<1>1. /\ cfg \in Configs /\ total \in Seq(Shards) /\ ToSet(total) = Stream!ShardsOf(subtasks)
      /\ group \in Groups
  BY InvFacts DEF LoopInv
<1>2. subtasks = <<>>
  BY EmptyTask
<1>3. ToSet(total) = {}
  <2>1. <<>> \in Seq(cfg.leaves)
    OBVIOUS
  <2> QED
    BY <1>1, <1>2, <2>1, ShardsOfFacts
<1>4. Len(total) = 0
  <2>1. Len(total) \in Nat
    BY <1>1
  <2>2. ASSUME Len(total) # 0 PROVE FALSE
    <3>1. 1 \in DOMAIN total
      BY <1>1, <2>1, <2>2
    <3>2. total[1] \in ToSet(total)
      BY <3>1 DEF ToSet
    <3> QED
      BY <1>3, <3>2
  <2> QED
    BY <2>2
<1>5. {cfg.vertices, cfg.capacity, cfg.maxShards} \subseteq Nat
  BY <1>1, ConfigsAssumption DEF ConfigsAssumption
<1>6. \A n \in Nat : NineTenths(n) \in Nat /\ (n >= 10 => NineTenths(n) >= 9)
  BY DEF NineTenths
<1>7. MaxNumTreeNodes \in Nat
  BY LimitsAssumption
<1>8. cfg.vertices * Len(subtasks) = 0
  <2>1. Len(subtasks) = 0 /\ \A v \in Nat : v * 0 = 0
    BY <1>2
  <2> QED
    BY <1>5, <2>1
<1>9. ~(0 > NineTenths(cfg.capacity)) /\ ~(0 > NineTenths(cfg.maxShards))
  BY <1>5, <1>6
<1>10. ~(0 + 1 > NineTenths(MaxNumTreeNodes))
  BY <1>6, <1>7
<1> QED
  BY <1>4, <1>8, <1>9, <1>10 DEF NearlyFull

(* What refuses a group is kept until the task is closed.                  *)
LEMMA RefusedStep ==
  ASSUME LoopInv, NothingWraps, MaxNumTreeNodes >= 10, Refused, [Next]_vars
  PROVE  Refused'
<1>1. /\ cfg \in Configs /\ cfg.capacity \in Nat /\ group.st \in Seq(Shards) /\ used \in Nat
      /\ subtasks \in Seq(cfg.leaves)
  BY InvFacts, ConfigFacts, ShardsOfFacts DEF LoopInv
<1>2. SizeOf(group.st) \in Nat /\ RequiredSize(group.st) \in Nat /\ RequiredSize(group.st) <= SizeOf(group.st)
  BY <1>1, SizesAreNat, RequiredAtMost
<1>3. Refused' <=>
        /\ pc' = "close" /\ group' # NoGroup /\ used' = 0 => SizeOf(group'.st) >= cfg'.capacity
        /\ cfg'.capacity = 0 => used' = 0 /\ initial' /\ tasks' = <<>>
  BY DEF Refused
<1>4. CASE OpenTask
  <2>1. /\ pc' = "scan" /\ cfg' = cfg /\ initial' = initial /\ tasks' = tasks
        /\ initial => used' = SizeOf(<<>>)
    BY <1>4 DEF OpenTask
  <2> QED
    BY <1>3, <2>1, NoShards DEF Refused
<1>5. CASE AddGroup
  <2>1. pc' = "scan" /\ cfg' = cfg /\ ~(RequiredSize(group.st) + used >= cfg.capacity)
    BY <1>5 DEF AddGroup, ClosesTask
  <2>2. cfg.capacity # 0
    BY <1>1, <1>2, <2>1
  <2> QED
    BY <1>3, <2>1, <2>2
<1>6. CASE LeaveGroup
  <2>1. /\ cfg' = cfg /\ group' = group /\ used' = used /\ initial' = initial /\ tasks' = tasks
        /\ ClosesTask
    BY <1>6 DEF LeaveGroup, scanVars, taskVars
  <2>2. ASSUME used = 0 PROVE SizeOf(group.st) >= cfg.capacity
    <3>1. ~NearlyFull
      BY <2>2, EmptyIsNotFull
    <3>2. RequiredSize(group.st) + used >= cfg.capacity
      BY <2>1, <3>1 DEF ClosesTask
    <3> QED
      BY <1>1, <1>2, <2>2, <3>2
  <2> QED
    BY <1>3, <2>1, <2>2 DEF Refused
<1>7. CASE CloseTask
  <2>1. pc' = "begin" /\ cfg' = cfg /\ used # 0
    BY <1>7 DEF CloseTask
  <2> QED
    BY <1>3, <2>1 DEF Refused
<1>8. CASE ScanNode \/ ScanLast \/ ScanOver
  <2>1. /\ cfg' = cfg /\ used' = used /\ initial' = initial /\ tasks' = tasks
        /\ pc' # "close" \/ group' = NoGroup
    BY <1>8 DEF ScanNode, ScanLast, ScanOver, taskVars
  <2> QED
    BY <1>3, <2>1 DEF Refused
<1>9. CASE HangNode \/ StopEmpty \/ CloseEmpty \/ TreeTooLarge \/ UNCHANGED vars
  <2>1. /\ cfg' = cfg /\ used' = used /\ initial' = initial /\ tasks' = tasks /\ group' = group
        /\ pc' = pc \/ pc' # "close"
    BY <1>9 DEF HangNode, StopEmpty, CloseEmpty, TreeTooLarge, vars, scanVars, taskVars
  <2> QED
    BY <1>3, <2>1 DEF Refused
<1> QED
  BY <1>4, <1>5, <1>6, <1>7, <1>8, <1>9 DEF Next

(* A group that is pending when an empty task is closed ends at the next   *)
(* leaf, if it ends at a leaf.                                             *)
LEMMA PendingIsNext ==
  ASSUME LoopInv, pc = "close", subtasks = <<>>, group.st # <<>>
  PROVE  Leaves[Len(Planned) + 1] = group.st
<1> DEFINE A == Planned
           T == Collected
           p == Len(A)
           W == A \o <<group.st>>
<1>1. cfg \in Configs /\ pc \in Live /\ group.st \in cfg.leaves
  BY InvFacts DEF LoopInv, Live, Groups, NoGroup
<1>2. A \in Seq(cfg.leaves) /\ T \in Seq(cfg.leaves) /\ Visited = ((A \o <<>>) \o <<group.st>>) \o T
  <2>1. Visited = ((Planned \o subtasks) \o SubtasksOf(group)) \o Collected
    BY VisitedHere DEF LoopInv
  <2> QED
    BY <2>1, VisitedParts, VisitedHere DEF LoopInv, SubtasksOf
<1> HIDE DEF A, T
<1>3. Visited = W \o T
  <2>1. A \o <<>> = A
    BY <1>2, ConcatEmptySeq
  <2> QED
    BY <1>2, <2>1
<1>4. /\ W \in Seq(cfg.leaves) /\ Len(W) = p + 1 /\ W[p + 1] = group.st /\ p \in Nat
  <2> DEFINE x == group.st
             L == cfg.leaves
  <2>1. A \in Seq(L) /\ x \in L
    BY <1>1, <1>2
  <2> HIDE DEF x, L
  <2>2. /\ A \o <<x>> \in Seq(L) /\ Len(A \o <<x>>) = Len(A) + 1 /\ (A \o <<x>>)[Len(A) + 1] = x
        /\ Len(A) \in Nat
    BY <2>1
  <2> QED
    BY <2>2 DEF x, L
<1> HIDE DEF W, p
<1>5. Len(W \o T) = Len(W) + Len(T) /\ Len(T) \in Nat /\ \A i \in 1 .. Len(W) : (W \o T)[i] = W[i]
  BY <1>2, <1>4, BothParts
<1>6. p + 1 \in 1 .. Len(Visited) /\ Visited[p + 1] = group.st
  <2>1. p + 1 \in 1 .. Len(W)
    BY <1>4
  <2> QED
    BY <1>3, <1>4, <1>5, <2>1
<1>7. Visited[p + 1] = Leaves[p + 1]
  BY <1>1, <1>6, VisitedAreFirst DEF LoopInv
<1> QED
  BY <1>6, <1>7 DEF p, A

(* The plan is cut short only before a subtask the device cannot hold.     *)
LEMMA ShortStep ==
  ASSUME LoopInv, NothingWraps, Refused, StopsShortOnlyForMemory, [Next]_vars
  PROVE  StopsShortOnlyForMemory'
<1> SUFFICES ASSUME pc' = "stopped", group' # NoGroup
             PROVE  SizeOf(Leaves'[Len(Planned') + 1]) >= cfg'.capacity
  BY DEF StopsShortOnlyForMemory, Short
<1>1. CloseEmpty \/ UNCHANGED vars
  BY DEF Next, OpenTask, StopEmpty, ScanNode, ScanLast, ScanOver, AddGroup, LeaveGroup, HangNode,
         CloseTask, TreeTooLarge, scanVars
<1>2. cfg' = cfg /\ tasks' = tasks /\ group' = group
  BY <1>1 DEF CloseEmpty, vars, scanVars
<1>3. Leaves' = Leaves /\ Planned' = Planned
  BY <1>2 DEF Leaves, Planned
<1>4. CASE UNCHANGED vars
  <2>1. pc' = pc
    BY <1>4 DEF vars
  <2> QED
    BY <1>2, <1>3, <2>1 DEF StopsShortOnlyForMemory, Short
<1>5. CASE CloseEmpty
  <2>1. pc = "close" /\ used = 0
    BY <1>5 DEF CloseEmpty
  <2>2. SizeOf(group.st) >= cfg.capacity
    BY <1>2, <2>1 DEF Refused
  <2>3. subtasks = <<>>
    BY <2>1, EmptyTask
  <2>4. CASE group.st # <<>>
    BY <1>2, <1>3, <2>1, <2>2, <2>3, <2>4, PendingIsNext
  <2>5. CASE group.st = <<>>
    <3>1. cfg \in Configs /\ cfg.capacity \in Nat /\ \A l \in cfg.leaves : l \in Seq(Shards)
      BY InvFacts, ConfigFacts DEF LoopInv
    <3>2. cfg.capacity = 0
      BY <2>2, <2>5, <3>1, NoShards
    <3>3. Len(Planned) = 0
      <4>1. tasks = <<>>
        BY <3>2 DEF Refused
      <4>2. [i \in DOMAIN tasks |-> tasks[i].subtasks] = <<>>
        BY <4>1
      <4> QED
        BY <4>2 DEF Planned, FlattenSeq
    <3>4. Leaves[1] \in cfg.leaves
      <4>1. Cardinality(cfg.leaves) \in Nat /\ IsFiniteSet(cfg.leaves) /\ cfg.leaves # {}
        BY <3>1, LeavesOrdered, LeavesFacts, ConfigFacts
      <4>2. Cardinality(cfg.leaves) # 0
        BY <4>1, FS_EmptySet
      <4>3. 1 \in 1 .. Cardinality(cfg.leaves)
        BY <4>1, <4>2
      <4> QED
        BY <3>1, <4>3, LeavesFacts
    <3>5. SizeOf(Leaves[1]) \in Nat
      BY <3>1, <3>4, SizesAreNat
    <3> QED
      BY <1>2, <1>3, <3>2, <3>3, <3>5
  <2> QED
    BY <2>4, <2>5
<1> QED
  BY <1>1, <1>4, <1>5

-----------------------------------------------------------------------------
(* The vertex levels.                                                      *)

(* The next vertex that is no follower of v.                               *)
Succ(v) == v + Followers(v) + 1

(* Vertex level v is the last with edges of its own. *)
Ends(v) == v + Followers(v) = Steps

(* Vertex level v has edges of its own. *)
HasEdges(v) == \E e \in 1 .. MaxLevel : cfg.vlevel[e] = v

(* What the assumption on levels says of the configuration at hand. *)
LEMMA LevelFacts ==
  ASSUME cfg \in Configs
  PROVE  /\ \A v : Followers(v) \in Nat
         /\ Steps \in Nat
         /\ cfg.vlevel[1] = 1
         /\ \A e \in 1 .. MaxLevel - 1 :
              \/ cfg.vlevel[e + 1] = cfg.vlevel[e] /\ ~cfg.tableJoin
              \/ cfg.vlevel[e + 1] = Succ(cfg.vlevel[e])
         /\ Ends(cfg.vlevel[MaxLevel])
<1>1. /\ cfg.postfix \in Nat /\ cfg.optionalPostfix \in Nat /\ cfg.vertices \in Nat /\ cfg.optional \in Nat
  BY ConfigsAssumption DEF ConfigsAssumption
<1>2. \A v : Followers(v) \in Nat
  BY <1>1 DEF Followers, FollowersOf
<1>3. MaxLevel \in Nat \ {0} /\ cfg.vlevel \in Seq(Nat \ {0}) /\ \A e \in 1 .. MaxLevel : cfg.vlevel[e] \in Nat \ {0}
  BY ConfigFacts
<1>4. Steps \in Nat
  BY <1>1, <1>3 DEF Steps
<1>5. /\ cfg.vlevel[1] = 1
      /\ \A e \in 1 .. Len(cfg.vlevel) - 1 :
              \/ cfg.vlevel[e + 1] = cfg.vlevel[e] /\ ~cfg.tableJoin
              \/ cfg.vlevel[e + 1] = cfg.vlevel[e] + FollowersOf(cfg, cfg.vlevel[e]) + 1
      /\ Last(cfg.vlevel) + FollowersOf(cfg, Last(cfg.vlevel)) + 1 = 1 + (IF cfg.tableJoin THEN Len(cfg.vlevel) ELSE cfg.vertices)
  BY LevelsAssumption DEF LevelsAssumption
<1>6. Last(cfg.vlevel) = cfg.vlevel[MaxLevel]
  BY DEF Last, MaxLevel
<1>7. cfg.vlevel[MaxLevel] + Followers(cfg.vlevel[MaxLevel]) + 1 = 1 + Steps
  BY <1>5, <1>6 DEF Steps, MaxLevel, Followers
<1>8. Ends(cfg.vlevel[MaxLevel])
  <2>1. MaxLevel \in 1 .. MaxLevel
    BY <1>3
  <2> QED
    BY <1>2, <1>3, <1>4, <1>7, <2>1 DEF Ends
<1> QED
  BY <1>2, <1>4, <1>5, <1>8 DEF Succ, Followers, MaxLevel

(* Vertex levels grow with the edge levels. *)
LEMMA LevelsGrow ==
  ASSUME cfg \in Configs, NEW e \in 1 .. MaxLevel, NEW f \in 1 .. MaxLevel, e <= f
  PROVE  cfg.vlevel[e] <= cfg.vlevel[f]
<1> DEFINE T == {k \in 0 .. MaxLevel : e <= k => cfg.vlevel[e] <= cfg.vlevel[k]}
<1>1. MaxLevel \in Nat /\ e \in Nat \ {0} /\ f \in Nat /\ \A k \in 1 .. MaxLevel : cfg.vlevel[k] \in Nat
  BY ConfigFacts
<1>2. 0 \in T
  BY <1>1
<1>3. ASSUME NEW k \in 1 .. MaxLevel, k - 1 \in T PROVE k \in T
  <2>1. CASE e <= k - 1
    <3>1. k - 1 \in 1 .. MaxLevel - 1 /\ (k - 1) + 1 = k /\ k - 1 \in 1 .. MaxLevel
      BY <1>1, <2>1
    <3>2. cfg.vlevel[k] = cfg.vlevel[k - 1] \/ cfg.vlevel[k] = Succ(cfg.vlevel[k - 1])
      BY <3>1, LevelFacts
    <3>3. Followers(cfg.vlevel[k - 1]) \in Nat
      BY LevelFacts
    <3>4. cfg.vlevel[k - 1] <= cfg.vlevel[k]
      BY <1>1, <3>1, <3>2, <3>3 DEF Succ
    <3> QED
      BY <1>1, <1>3, <2>1, <3>1, <3>4
  <2>2. CASE ~(e <= k - 1)
    <3>1. e <= k => e = k
      BY <1>1, <2>2
    <3> QED
      BY <1>1, <3>1
  <2> QED
    BY <2>1, <2>2
<1> HIDE DEF T
<1>4. f \in T
  BY <1>1, <1>2, <1>3, CountingUp
<1> QED
  BY <1>4 DEF T

(* Between a vertex level and the next there are only followers; *)
LEMMA LevelsLeap ==
  ASSUME cfg \in Configs, NEW u, NEW v, HasEdges(u), HasEdges(v), u < v
  PROVE  Succ(u) <= v /\ HasEdges(Succ(u))
<1>1. PICK e \in 1 .. MaxLevel, f \in 1 .. MaxLevel : cfg.vlevel[e] = u /\ cfg.vlevel[f] = v
  BY DEF HasEdges
<1>2. MaxLevel \in Nat /\ u \in Nat /\ v \in Nat /\ \A k \in 1 .. MaxLevel : cfg.vlevel[k] \in Nat
  BY <1>1, ConfigFacts
<1> DEFINE T == {k \in 1 .. MaxLevel : cfg.vlevel[k] > u}
<1>3. f \in T /\ T \in SUBSET Nat
  BY <1>1, <1>2
<1>4. PICK g \in T : \A k \in T : g <= k
  <2> HIDE DEF T
  <2> QED
    BY <1>3, LeastNatural
<1>5. g \in 1 .. MaxLevel /\ g > e /\ e >= 1
  <2>1. g <= e => cfg.vlevel[g] <= cfg.vlevel[e]
    BY LevelsGrow
  <2> QED
    BY <1>1, <1>2, <2>1
<1>6. g - 1 \in 1 .. MaxLevel - 1 /\ g - 1 \in 1 .. MaxLevel /\ (g - 1) + 1 = g /\ e <= g - 1
  BY <1>2, <1>5
<1>7. cfg.vlevel[g - 1] = u
  <2>1. g - 1 \notin T
    BY <1>4, <1>5, <1>6, <1>2
  <2>2. cfg.vlevel[e] <= cfg.vlevel[g - 1]
    BY <1>6, LevelsGrow
  <2> QED
    BY <1>1, <1>2, <1>6, <2>1, <2>2
<1>8. cfg.vlevel[g] = cfg.vlevel[g - 1] \/ cfg.vlevel[g] = Succ(cfg.vlevel[g - 1])
  BY <1>6, LevelFacts
<1>9. cfg.vlevel[g] = Succ(u)
  BY <1>2, <1>7, <1>8
<1>10. cfg.vlevel[g] <= cfg.vlevel[f]
  BY <1>3, <1>4, LevelsGrow
<1> QED
  BY <1>1, <1>5, <1>9, <1>10 DEF HasEdges

(* and the last one, with its followers, is where the kernel ends. *)
LEMMA LevelsEnd ==
  ASSUME cfg \in Configs, NEW v, HasEdges(v)
  PROVE  /\ v \in Nat \ {0} /\ Followers(v) \in Nat /\ Succ(v) \in Nat /\ v + Followers(v) \in Nat
         /\ v + Followers(v) <= Steps /\ v <= Steps
         /\ Ends(v) => \A u : HasEdges(u) => u <= v
         /\ ~Ends(v) => HasEdges(Succ(v))
         /\ \A u : HasEdges(u) /\ v < u => v + Followers(v) < u
<1> DEFINE top == cfg.vlevel[MaxLevel]
<1>1. MaxLevel \in Nat \ {0} /\ \A k \in 1 .. MaxLevel : cfg.vlevel[k] \in Nat \ {0}
  BY ConfigFacts
<1>2. /\ MaxLevel \in 1 .. MaxLevel /\ HasEdges(top) /\ top \in Nat
      /\ \A w : Followers(w) \in Nat
      /\ Steps \in Nat /\ Ends(top)
  BY <1>1, LevelFacts DEF HasEdges
<1>3. \A u : HasEdges(u) => u \in Nat \ {0} /\ u <= top
  <2>1. ASSUME NEW u, HasEdges(u) PROVE u \in Nat \ {0} /\ u <= top
    <3>1. PICK e \in 1 .. MaxLevel : cfg.vlevel[e] = u
      BY <2>1 DEF HasEdges
    <3>2. e <= MaxLevel
      BY <1>1
    <3>3. cfg.vlevel[e] <= cfg.vlevel[MaxLevel]
      BY <1>2, <3>2, LevelsGrow
    <3> QED
      BY <1>1, <3>1, <3>3
  <2> QED
    BY <2>1
<1>4. top + Followers(top) = Steps
  BY <1>2 DEF Ends
<1>5. \A u : HasEdges(u) /\ v < u => Succ(v) <= u /\ HasEdges(Succ(v))
  BY LevelsLeap
<1>6. v \in Nat \ {0} /\ v <= top /\ Followers(v) \in Nat
  BY <1>2, <1>3
<1> HIDE DEF top
<1>7. CASE v = top
  <2>1. Ends(v) /\ v + Followers(v) = Steps
    BY <1>2, <1>7 DEF Ends
  <2>2. \A u : HasEdges(u) => ~(v < u)
    BY <1>2, <1>3, <1>7
  <2> QED
    BY <1>2, <1>3, <1>6, <1>7, <2>1, <2>2 DEF Succ
<1>8. CASE v # top
  <2>1. v < top
    BY <1>2, <1>6, <1>8
  <2>2. Succ(v) <= top /\ HasEdges(Succ(v))
    BY <1>2, <1>5, <2>1
  <2>3. v + Followers(v) + 1 <= top
    BY <2>2 DEF Succ
  <2>4. v + Followers(v) < Steps
    BY <1>2, <1>4, <1>6, <2>3
  <2>5. ~Ends(v)
    BY <1>2, <1>6, <2>4 DEF Ends
  <2>6. \A u : HasEdges(u) /\ v < u => v + Followers(v) < u
    BY <1>3, <1>5, <1>6 DEF Succ
  <2> QED
    BY <1>2, <1>6, <2>2, <2>4, <2>5, <2>6 DEF Succ
<1> QED
  BY <1>7, <1>8

(* The next edge level belongs to the same vertex or to the next one; in a *)
(* table join only to the next one.                                        *)
LEMMA NextLevel ==
  ASSUME cfg \in Configs, NEW e \in 1 .. MaxLevel, e # MaxLevel
  PROVE  /\ e + 1 \in 1 .. MaxLevel
         /\ cfg.vlevel[e + 1] # cfg.vlevel[e] \/ cfg.tableJoin =>
              cfg.vlevel[e + 1] = Succ(cfg.vlevel[e]) /\ ~Ends(cfg.vlevel[e])
<1>1. MaxLevel \in Nat /\ e \in Nat /\ e \in 1 .. MaxLevel - 1 /\ e + 1 \in 1 .. MaxLevel
  BY ConfigFacts
<1>2. HasEdges(cfg.vlevel[e]) /\ HasEdges(cfg.vlevel[e + 1])
  BY <1>1 DEF HasEdges
<1>3. ASSUME cfg.vlevel[e + 1] # cfg.vlevel[e] \/ cfg.tableJoin
      PROVE  cfg.vlevel[e + 1] = Succ(cfg.vlevel[e]) /\ ~Ends(cfg.vlevel[e])
  <2>1. cfg.vlevel[e + 1] = Succ(cfg.vlevel[e])
    BY <1>1, <1>3, LevelFacts
  <2>2. cfg.vlevel[e] \in Nat /\ Followers(cfg.vlevel[e]) \in Nat
    BY <1>2, LevelsEnd
  <2>3. ~(cfg.vlevel[e + 1] <= cfg.vlevel[e])
    BY <2>1, <2>2 DEF Succ
  <2> QED
    BY <1>2, <2>1, <2>3, LevelsEnd
<1> QED
  BY <1>1, <1>3

-----------------------------------------------------------------------------
(* The ways the scan takes, group by group.                                *)

(* The way q, as far as it goes, parts from subtask p at vertex level v.   *)
Differ(p, q, v) ==
  /\ \A e \in DOMAIN q : cfg.vlevel[e] < v => p[e] = q[e]
  /\ \E e \in DOMAIN q : cfg.vlevel[e] = v /\ p[e] # q[e]

(* A way that goes on has parted where it parted before. *)
LEMMA DifferExtends ==
  ASSUME cfg \in Configs, NEW p, NEW q, NEW r, NEW m \in Nat, NEW n \in 0 .. MaxLevel, m <= n,
         DOMAIN q = 1 .. m, DOMAIN r = 1 .. n, \A i \in 1 .. m : r[i] = q[i],
         NEW v, Differ(p, q, v)
  PROVE  Differ(p, r, v)
<1>1. MaxLevel \in Nat /\ \A e \in 1 .. MaxLevel : cfg.vlevel[e] \in Nat
  BY ConfigFacts
<1>2. PICK f \in 1 .. m : cfg.vlevel[f] = v /\ p[f] # q[f]
  BY DEF Differ
<1>3. f \in 1 .. n /\ r[f] = q[f]
  BY <1>1, <1>2
<1>4. ASSUME NEW e \in 1 .. n, cfg.vlevel[e] < v PROVE p[e] = r[e]
  <2>1. f \in 1 .. MaxLevel /\ e \in 1 .. MaxLevel /\ cfg.vlevel[e] \in Nat /\ cfg.vlevel[f] \in Nat
    BY <1>1, <1>3
  <2>2. ~(cfg.vlevel[f] <= cfg.vlevel[e])
    BY <1>2, <1>4, <2>1
  <2>3. ~(f <= e)
    BY <2>1, <2>2, LevelsGrow
  <2>4. e \in 1 .. m
    BY <1>2, <2>1, <2>3
  <2> QED
    BY <1>4, <2>4 DEF Differ
<1> QED
  BY <1>2, <1>3, <1>4 DEF Differ

(* A way that turns off parts at the vertex of its last edge. *)
LEMMA DifferTurns ==
  ASSUME cfg \in Configs, NEW p, NEW q, NEW d \in 1 .. MaxLevel, DOMAIN q = 1 .. d,
         \A i \in 1 .. d - 1 : q[i] = p[i], q[d] # p[d]
  PROVE  Differ(p, q, cfg.vlevel[d])
<1>1. MaxLevel \in Nat /\ d \in Nat /\ \A e \in 1 .. MaxLevel : cfg.vlevel[e] \in Nat
  BY ConfigFacts
<1>2. ASSUME NEW e \in 1 .. d, cfg.vlevel[e] < cfg.vlevel[d] PROVE p[e] = q[e]
  <2>1. e # d
    BY <1>1, <1>2
  <2>2. e \in 1 .. d - 1
    BY <1>1, <2>1
  <2> QED
    BY <2>2
<1>3. d \in 1 .. d
  BY <1>1
<1> QED
  BY <1>2, <1>3 DEF Differ

(* The way to the node on top of the stack. *)
Way == Path(stk, Len(stk))

(* A group is of one vertex, and ends with a subtask at a leaf only. *)
IsGroup(g) ==
  /\ g.v = cfg.vlevel[g.max] /\ g.v = cfg.vlevel[g.min]
  /\ g.st # <<>> <=> g.max = MaxLevel

(* The node on top of the stack is the last of the group being collected,  *)
(* and no child of it was visited; a group that was returned has all edges *)
(* of its vertex.                                                          *)
ScanGroups ==
  /\ stk # <<>> => Last(stk).idx = 1
  /\ tmp # NoGroup =>
       /\ IsGroup(tmp)
       /\ stk # <<>> => Len(stk) = tmp.max + 1 /\ (tmp.st # <<>> => tmp.st = Way)
  /\ group # NoGroup => IsGroup(group) /\ (group.st = <<>> => ~Ends(group.v))

(* Way q, with the group of vertex level v at its end, comes next after a  *)
(* group of level u: it goes on below it, or, if that group ended in       *)
(* subtask p, it parts from p at v.                                        *)
ComesNext(u, p, q, v) == IF Ends(u) THEN Differ(p, q, v) ELSE v = Succ(u)

(* The group being collected comes next after the one that was returned. *)
TmpComesNext ==
  pc \in {"decide", "close", "begin"} /\ group # NoGroup /\ stk # <<>> =>
    ComesNext(group.v, group.st, Way, tmp.v)

(* A step of the scan goes one node down, or turns off at a leaf. *)
LEMMA ScanTurns ==
  ASSUME cfg \in Configs, TypeOK, ScanInTree, ScanInOrder, ScanGroups, ScanNode
  PROVE  \E d \in 1 .. MaxLevel :
           /\ Len(stk') = d + 1 /\ Last(stk').idx = 1
           /\ Len(stk) = d \/ (d < Len(stk) /\ Len(stk) = MaxLevel + 1)
           /\ DOMAIN Way = 1 .. Len(stk) - 1 /\ DOMAIN Way' = 1 .. d
           /\ \A i \in 1 .. d - 1 : Way'[i] = Way[i]
           /\ d < Len(stk) => Way'[d] # Way[d]
<1>1. stk \in Seq(Entries) /\ stk # <<>> /\ Len(stk) \in Nat \ {0} /\ Last(stk).idx = 1 /\ MaxLevel \in Nat
  <2>1. stk \in Seq(Entries) /\ stk # <<>>
    BY DEF TypeOK, ScanNode, Entries
  <2>2. Len(stk) \in Nat \ {0}
    BY <2>1
  <2> QED
    BY <2>1, <2>2, ConfigFacts DEF ScanGroups
<1>2. PICK d \in Unfinished : Deepest(d) /\ stk' = NextStack(d)
  BY DEF ScanNode
<1>3. /\ d \in 1 .. Len(stk) /\ d \in 1 .. MaxLevel /\ d \in Nat \ {0}
      /\ Child(Path(stk, d), stk[d].idx) \in Children(Path(stk, d))
      /\ stk[d].idx \in 1 .. Cardinality(Children(Path(stk, d)))
  BY <1>1, NextChild
<1>4. /\ Len(stk') = d + 1 /\ stk' \in Seq(Entries)
      /\ \A i \in 1 .. d : stk'[i].shard = stk[i].shard
      /\ stk'[d + 1] = [shard |-> Child(Path(stk, d), stk[d].idx), idx |-> 1]
  BY <1>1, <1>2, NextStackFacts
<1>5. Last(stk') = stk'[d + 1] /\ Last(stk').idx = 1
  BY <1>4 DEF Last
<1>6. /\ DOMAIN Way = 1 .. Len(stk) - 1
      /\ \A i \in 1 .. Len(stk) - 1 : Way[i] = stk[i + 1].shard
  BY <1>1 DEF Way, Path
<1>7. /\ DOMAIN Way' = 1 .. d
      /\ \A i \in 1 .. d : Way'[i] = stk'[i + 1].shard
  <2>1. Way' = [i \in 1 .. Len(stk') - 1 |-> stk'[i + 1].shard]
    BY DEF Way, Path
  <2>2. Len(stk') - 1 = d
    BY <1>3, <1>4
  <2> QED
    BY <2>1, <2>2
<1>8. \A i \in 1 .. d - 1 : Way'[i] = Way[i]
  <2>1. ASSUME NEW i \in 1 .. d - 1 PROVE Way'[i] = Way[i]
    <3>1. i + 1 \in 1 .. d /\ i \in 1 .. d /\ i \in 1 .. Len(stk) - 1
      BY <1>1, <1>3
    <3> QED
      BY <1>4, <1>6, <1>7, <3>1
  <2> QED
    BY <2>1
<1>9. Len(stk) <= MaxLevel => Len(stk) = d
  <2>1. ASSUME Len(stk) <= MaxLevel PROVE Len(stk) \in Unfinished
    <3>1. PICK l \in cfg.leaves : IsPrefix(Path(stk, Len(stk)), l)
      BY <1>1 DEF ScanInTree
    <3>2. \A i \in 1 .. Len(stk) - 1 : stk[i + 1].shard = l[i]
      BY <1>1, <3>1, PrefixOfLeaf
    <3>3. l[Len(stk)] \in Children(Path(stk, Len(stk)))
      BY <1>1, <2>1, <3>2, ChildrenFacts
    <3>4. IsFiniteSet(Children(Path(stk, Len(stk))))
      BY <1>1, ChildrenFacts
    <3>5. 1 <= Cardinality(Children(Path(stk, Len(stk))))
      BY <3>3, <3>4, FS_EmptySet, FS_CardinalityType
    <3>6. stk[Len(stk)].idx = 1 /\ Len(stk) \in DOMAIN stk
      BY <1>1 DEF Last
    <3> QED
      BY <3>5, <3>6 DEF Unfinished
  <2>2. Len(stk) \in Unfinished => Len(stk) <= d
    BY <1>2 DEF Deepest
  <2> QED
    BY <1>1, <1>3, <2>1, <2>2
<1>10. Len(stk) <= MaxLevel + 1
  <2>1. PICK l \in cfg.leaves : IsPrefix(Path(stk, Len(stk)), l)
    BY <1>1 DEF ScanInTree
  <2>2. Len(stk) - 1 <= MaxLevel
    BY <1>1, <2>1, PrefixOfLeaf
  <2> QED
    BY <1>1, <2>2
<1>11. ASSUME d < Len(stk) PROVE Way'[d] # Way[d]
  <2>1. d \in 1 .. Len(stk) - 1
    BY <1>1, <1>3, <1>11
  <2>2. Way'[d] = Child(Path(stk, d), stk[d].idx) /\ Way[d] = stk[d + 1].shard
    <3>1. d \in 1 .. d
      BY <1>3
    <3> QED
      BY <1>4, <1>6, <1>7, <2>1, <3>1
  <2>3. Rank(Path(stk, d), stk[d + 1].shard) + 2 = stk[d].idx
    BY <2>1 DEF ScanInOrder
  <2>4. Rank(Path(stk, d), Child(Path(stk, d), stk[d].idx)) = stk[d].idx - 1
    BY <1>3, ChildFacts DEF Rank
  <2>5. stk[d].idx \in Nat
    BY <1>3
  <2>6. ASSUME Way'[d] = Way[d] PROVE FALSE
    <3>1. (stk[d].idx - 1) + 2 = stk[d].idx
      BY <2>2, <2>3, <2>4, <2>6
    <3> QED
      BY <2>5, <3>1
  <2> QED
    BY <2>6
<1>12. Len(stk) = d \/ (d < Len(stk) /\ Len(stk) = MaxLevel + 1)
  BY <1>1, <1>3, <1>9, <1>10
<1> QED
  BY <1>3, <1>4, <1>5, <1>6, <1>7, <1>8, <1>11, <1>12

(* The way goes on below the node on top of the stack. *)
WayGoesOn ==
  \E m \in Nat, n \in 0 .. MaxLevel :
    /\ m <= n /\ DOMAIN Way = 1 .. m /\ DOMAIN Way' = 1 .. n
    /\ \A i \in 1 .. m : Way'[i] = Way[i]

(* The parts of a group. *)
LEMMA GroupParts ==
  ASSUME cfg \in Configs, NEW g \in Groups \ {NoGroup}
  PROVE  /\ g.v \in Nat \ {0} /\ g.min \in 1 .. MaxLevel /\ g.max \in 1 .. MaxLevel
         /\ g.st \in {<<>>} \cup cfg.leaves
BY DEF Groups

(* What the scan has on the stack after a step.                            *)
LEMMA ScannedGroup ==
  ASSUME cfg \in Configs, TypeOK, ScanInTree, ScanInOrder, ScanGroups, ScanNode,
         NEW d \in 1 .. MaxLevel, Len(stk') = d + 1
  PROVE  /\ SingleGroup(stk').v = cfg.vlevel[d]
         /\ SingleGroup(stk').min = d /\ SingleGroup(stk').max = d
         /\ SingleGroup(stk').st # <<>> <=> d = MaxLevel
         /\ SingleGroup(stk').st # <<>> => SingleGroup(stk').st = Way'
         /\ tmp' = IF OpensGroup(stk') THEN SingleGroup(stk') ELSE [SingleGroup(stk') EXCEPT !.min = tmp.min]
         /\ OpensGroup(stk') <=> d = 1 \/ tmp.v # cfg.vlevel[d] \/ tmp.max >= d \/ cfg.tableJoin
         /\ SingleGroup(stk') \in Groups
<1>1. stk \in Seq(Entries)
  BY DEF TypeOK, Entries
<1>2. PICK e \in Unfinished : stk' = NextStack(e)
  BY DEF ScanNode
<1>3. e \in 1 .. MaxLevel /\ Len(stk') = e + 1 /\ MaxLevel \in Nat
  BY <1>1, <1>2, NextChild, NextStackFacts, ConfigFacts
<1>4. e = d /\ (d + 1) - 1 = d
  BY <1>3
<1>5. d = MaxLevel => Path(stk', d + 1) \in cfg.leaves
  BY <1>1, <1>2, <1>4, NextPath
<1>6. /\ SingleGroup(stk').v = cfg.vlevel[d]
      /\ SingleGroup(stk').min = d /\ SingleGroup(stk').max = d
      /\ SingleGroup(stk').st = IF d = MaxLevel THEN Path(stk', d + 1) ELSE <<>>
      /\ SingleGroup(stk') \in Groups
  BY <1>5, SingleGroupFacts
<1>7. Path(stk', d + 1) \in cfg.leaves => Path(stk', d + 1) # <<>>
  BY ConfigFacts
<1>8. Way' = Path(stk', d + 1)
  BY DEF Way, Path
<1>9. tmp' = IF OpensGroup(stk') THEN SingleGroup(stk') ELSE [SingleGroup(stk') EXCEPT !.min = tmp.min]
  BY DEF ScanNode
<1>10. OpensGroup(stk') <=> d = 1 \/ tmp.v # cfg.vlevel[d] \/ tmp.max >= d \/ cfg.tableJoin
  BY <1>4 DEF OpensGroup
<1> QED
  BY <1>5, <1>6, <1>7, <1>8, <1>9, <1>10

(* A node is visited: the first one, the next of its group, or one that    *)
(* opens a group and returns the one before.                               *)
LEMMA ScanNodeCases ==
  ASSUME cfg \in Configs, TypeOK, ScanInTree, ScanInOrder, ScanGroups, ScanNode
  PROVE  /\ ScanGroups' /\ stk' # <<>> /\ tmp' # NoGroup
         /\ \/ tmp = NoGroup /\ group' = group /\ pc' = pc /\ tmp'.v = 1
            \/ tmp # NoGroup /\ group' = group /\ pc' = pc /\ tmp'.v = tmp.v /\ WayGoesOn
            \/ /\ tmp # NoGroup /\ group' = tmp /\ pc' = "decide"
               /\ ComesNext(tmp.v, tmp.st, Way', tmp'.v)
               /\ IF tmp.st = <<>> THEN WayGoesOn ELSE tmp.st = Way
<1>1. /\ stk # <<>> /\ stk \in Seq(Entries) /\ Len(stk) \in Nat \ {0} /\ tmp \in Groups /\ group \in Groups
      /\ cfg' = cfg /\ MaxLevel' = MaxLevel /\ MaxLevel \in Nat \ {0}
      /\ stk' \in Seq(Entries) /\ stk' # <<>> /\ tmp' \in Groups \ {NoGroup}
  <2>1. stk # <<>> /\ stk \in Seq(Entries) /\ tmp \in Groups /\ group \in Groups /\ cfg' = cfg
    BY DEF ScanNode, TypeOK, Entries
  <2>2. Len(stk) \in Nat \ {0}
    BY <2>1
  <2> QED
    BY <2>1, <2>2, ScanNodeFacts, ConfigFacts DEF MaxLevel
<1>2. PICK d \in 1 .. MaxLevel :
           /\ Len(stk') = d + 1 /\ Last(stk').idx = 1
           /\ Len(stk) = d \/ (d < Len(stk) /\ Len(stk) = MaxLevel + 1)
           /\ DOMAIN Way = 1 .. Len(stk) - 1 /\ DOMAIN Way' = 1 .. d
           /\ \A i \in 1 .. d - 1 : Way'[i] = Way[i]
           /\ d < Len(stk) => Way'[d] # Way[d]
  BY ScanTurns
<1> DEFINE g == SingleGroup(stk')
<1>3. /\ g.v = cfg.vlevel[d]
      /\ g.min = d /\ g.max = d
      /\ g.st # <<>> <=> d = MaxLevel
      /\ g.st # <<>> => g.st = Way'
      /\ tmp' = IF OpensGroup(stk') THEN g ELSE [g EXCEPT !.min = tmp.min]
      /\ OpensGroup(stk') <=> d = 1 \/ tmp.v # cfg.vlevel[d] \/ tmp.max >= d \/ cfg.tableJoin
      /\ g \in Groups
  BY <1>2, ScannedGroup
<1>4. \/ OpensGroup(stk') /\ tmp.v # 0 /\ group' = tmp /\ pc' = "decide"
      \/ ~(OpensGroup(stk') /\ tmp.v # 0) /\ group' = group /\ pc' = pc
  BY DEF ScanNode
<1> HIDE DEF g
<1>5. tmp.v = 0 <=> tmp = NoGroup
  BY <1>1, GroupParts DEF NoGroup
<1>6. tmp'.max = d /\ tmp'.v = cfg.vlevel[d] /\ tmp'.st = g.st
      /\ tmp'.min = IF OpensGroup(stk') THEN d ELSE tmp.min
  <2>1. g \in Groups \ {NoGroup}
    BY <1>2, <1>3, <1>1 DEF NoGroup
  <2>2. g \in [v : Nat \ {0}, min : 1 .. MaxLevel, max : 1 .. MaxLevel, st : {<<>>} \cup cfg.leaves]
    BY <2>1 DEF Groups
  <2> QED
    BY <1>3, <2>2
<1>7. d \in Nat /\ d >= 1 /\ cfg.vlevel[d] \in Nat /\ (d + 1) - 1 = d
  BY <1>1, ConfigFacts
<1>8. tmp = NoGroup => d = 1
  <2>1. ASSUME tmp = NoGroup PROVE Len(stk) = 1
    BY <2>1 DEF ScanInTree
  <2> QED
    BY <1>1, <1>2, <1>7, <2>1, SMTT(30)
<1>9. ASSUME tmp # NoGroup
      PROVE  /\ IsGroup(tmp) /\ Len(stk) = tmp.max + 1 /\ tmp.max \in 1 .. MaxLevel
             /\ tmp.min \in 1 .. MaxLevel
             /\ (tmp.st # <<>> => tmp.st = Way)
  BY <1>1, <1>9, GroupParts DEF ScanGroups
<1>10. ASSUME tmp # NoGroup, tmp.st = <<>>
       PROVE  d = tmp.max + 1 /\ tmp.max # MaxLevel /\ WayGoesOn
  <2>1. tmp.max # MaxLevel
    BY <1>9, <1>10 DEF IsGroup
  <2>2. d = Len(stk)
    BY <1>1, <1>2, <1>9, <1>10, <2>1
  <2>3. WayGoesOn
    <3>1. d - 1 \in Nat /\ d \in 0 .. MaxLevel /\ d - 1 <= d /\ DOMAIN Way = 1 .. d - 1
      BY <1>1, <1>2, <1>7, <2>2
    <3> QED
      BY <1>2, <3>1 DEF WayGoesOn
  <2> QED
    BY <1>9, <1>10, <2>1, <2>2, <2>3
<1>11. ASSUME tmp # NoGroup, tmp.st # <<>>
       PROVE  /\ tmp.st = Way /\ Ends(tmp.v) /\ OpensGroup(stk')
              /\ Differ(tmp.st, Way', cfg.vlevel[d])
  <2>1. tmp.max = MaxLevel /\ tmp.v = cfg.vlevel[MaxLevel] /\ tmp.st = Way
    BY <1>9, <1>11 DEF IsGroup
  <2>2. Ends(tmp.v)
    BY <2>1, LevelFacts
  <2>3. OpensGroup(stk')
    BY <1>1, <1>3, <1>7, <2>1
  <2>4. Len(stk) = MaxLevel + 1 /\ d < Len(stk)
    BY <1>1, <1>7, <1>9, <1>11, <2>1
  <2>5. Differ(Way, Way', cfg.vlevel[d])
    BY <1>2, <2>4, DifferTurns
  <2> QED
    BY <2>1, <2>2, <2>3, <2>5
<1>12. ASSUME tmp # NoGroup, tmp.st = <<>>, OpensGroup(stk')
       PROVE  cfg.vlevel[d] = Succ(tmp.v) /\ ~Ends(tmp.v)
  <2>1. d = tmp.max + 1 /\ tmp.max # MaxLevel /\ tmp.max \in 1 .. MaxLevel /\ tmp.v = cfg.vlevel[tmp.max]
    BY <1>9, <1>10, <1>12 DEF IsGroup
  <2>2. tmp.v # cfg.vlevel[d] \/ cfg.tableJoin
    BY <1>1, <1>3, <1>12, <2>1
  <2> QED
    BY <2>1, <2>2, NextLevel
<1>13. ASSUME ~OpensGroup(stk')
       PROVE  tmp # NoGroup /\ tmp.st = <<>> /\ tmp.v = cfg.vlevel[d]
  <2>1. tmp.v = cfg.vlevel[d] /\ d # 1
    BY <1>3, <1>13
  <2>2. tmp # NoGroup
    BY <1>8, <2>1
  <2> QED
    BY <1>11, <1>13, <2>1, <2>2
<1>14. IsGroup(tmp')
  <2>1. tmp'.v = cfg.vlevel[tmp'.min]
    <3>1. CASE OpensGroup(stk')
      BY <1>6, <3>1
    <3>2. CASE ~OpensGroup(stk')
      <4>1. tmp # NoGroup /\ tmp.v = cfg.vlevel[d] /\ tmp'.min = tmp.min
        BY <1>6, <1>13, <3>2
      <4>2. tmp.v = cfg.vlevel[tmp.min]
        BY <1>9, <4>1 DEF IsGroup
      <4> QED
        BY <1>6, <4>1, <4>2
    <3> QED
      BY <3>1, <3>2
  <2>2. tmp'.st # <<>> <=> tmp'.max = MaxLevel
    BY <1>3, <1>6
  <2> QED
    BY <1>6, <2>1, <2>2 DEF IsGroup
<1>15. group' # NoGroup => IsGroup(group') /\ (group'.st = <<>> => ~Ends(group'.v))
  <2>1. CASE group' = tmp /\ OpensGroup(stk')
    BY <1>9, <1>12, <2>1
  <2>2. CASE group' = group
    BY <2>2 DEF ScanGroups
  <2> QED
    BY <1>4, <2>1, <2>2
<1>16. ScanGroups'
  <2>1. IsGroup(tmp)' <=> IsGroup(tmp')
    BY <1>1 DEF IsGroup
  <2>2. (group # NoGroup => IsGroup(group) /\ (group.st = <<>> => ~Ends(group.v)))'
    <3>1. IsGroup(group)' <=> IsGroup(group')
      BY <1>1 DEF IsGroup
    <3>2. Ends(group.v)' <=> Ends(group'.v)
      BY <1>1 DEF Ends, Followers, Steps
    <3> QED
      BY <1>15, <3>1, <3>2 DEF NoGroup
  <2>3. Len(stk') = tmp'.max + 1 /\ (tmp'.st # <<>> => tmp'.st = Way')
    BY <1>2, <1>3, <1>6
  <2> QED
    BY <1>2, <1>14, <2>1, <2>2, <2>3 DEF ScanGroups
<1>17. CASE tmp = NoGroup
  <2>1. tmp'.v = 1
    BY <1>6, <1>8, <1>17, LevelFacts
  <2> QED
    BY <1>1, <1>4, <1>5, <1>16, <1>17, <2>1
<1>18. CASE tmp # NoGroup /\ ~OpensGroup(stk')
  BY <1>1, <1>4, <1>6, <1>10, <1>13, <1>16, <1>18
<1>19. CASE tmp # NoGroup /\ OpensGroup(stk')
  <2>1. group' = tmp /\ pc' = "decide"
    BY <1>4, <1>5, <1>19
  <2>2. CASE tmp.st = <<>>
    BY <1>1, <1>6, <1>10, <1>12, <1>16, <1>19, <2>1, <2>2 DEF ComesNext
  <2>3. CASE tmp.st # <<>>
    BY <1>1, <1>6, <1>11, <1>16, <1>19, <2>1, <2>3 DEF ComesNext
  <2> QED
    BY <2>2, <2>3
<1> QED
  BY <1>17, <1>18, <1>19

(* As long as there are edge levels below it, the node on top of the stack *)
(* has children to visit.                                                  *)
LEMMA TopUnfinished ==
  ASSUME cfg \in Configs, TypeOK, ScanInTree, ScanGroups, stk # <<>>, Unfinished = {}
  PROVE  Len(stk) = MaxLevel + 1
<1>1. stk \in Seq(Entries) /\ Len(stk) \in Nat \ {0} /\ Last(stk).idx = 1 /\ MaxLevel \in Nat
  <2>1. stk \in Seq(Entries)
    BY DEF TypeOK, Entries
  <2>2. Len(stk) \in Nat \ {0}
    BY <2>1
  <2> QED
    BY <2>1, <2>2, ConfigFacts DEF ScanGroups
<1>2. PICK l \in cfg.leaves : IsPrefix(Path(stk, Len(stk)), l)
  BY DEF ScanInTree
<1>3. Len(stk) - 1 <= MaxLevel /\ \A i \in 1 .. Len(stk) - 1 : stk[i + 1].shard = l[i]
  BY <1>1, <1>2, PrefixOfLeaf
<1>4. ASSUME Len(stk) <= MaxLevel PROVE FALSE
  <2>1. l[Len(stk)] \in Children(Path(stk, Len(stk)))
    BY <1>1, <1>3, <1>4, ChildrenFacts
  <2>2. IsFiniteSet(Children(Path(stk, Len(stk))))
    BY <1>1, ChildrenFacts
  <2>3. 1 <= Cardinality(Children(Path(stk, Len(stk))))
    BY <2>1, <2>2, FS_EmptySet, FS_CardinalityType
  <2>4. stk[Len(stk)].idx = 1 /\ Len(stk) \in DOMAIN stk
    BY <1>1 DEF Last
  <2>5. Len(stk) \in Unfinished
    BY <2>3, <2>4 DEF Unfinished
  <2> QED
    BY <2>5
<1> QED
  BY <1>1, <1>3, <1>4

(* A group has a subtask when its vertex is the last with edges.           *)
LEMMA GroupEnds ==
  ASSUME cfg \in Configs, ScanGroups, group # NoGroup
  PROVE  /\ group.v = cfg.vlevel[group.max] /\ group.v = cfg.vlevel[group.min]
         /\ group.st # <<>> <=> Ends(group.v)
         /\ group.st # <<>> => group.max = MaxLevel
<1>1. IsGroup(group) /\ (group.st = <<>> => ~Ends(group.v))
  BY DEF ScanGroups
<1>2. Ends(cfg.vlevel[MaxLevel])
  BY LevelFacts
<1> QED
  BY <1>1, <1>2 DEF IsGroup

(* Where the scan stands still so do the groups.                           *)
LEMMA GroupsKept ==
  ASSUME ScanGroups, UNCHANGED <<cfg, stk, tmp>>, group' \in {group, NoGroup}
  PROVE  ScanGroups'
<1>1. MaxLevel' = MaxLevel
  BY DEF MaxLevel
<1>2. IsGroup(tmp)' <=> IsGroup(tmp)
  BY <1>1 DEF IsGroup
<1>3. ASSUME group' = group
      PROVE  (group # NoGroup => IsGroup(group) /\ (group.st = <<>> => ~Ends(group.v)))'
  <2>1. IsGroup(group)' <=> IsGroup(group)
    BY <1>1, <1>3 DEF IsGroup
  <2>2. Ends(group.v)' <=> Ends(group.v)
    BY <1>1, <1>3 DEF Ends, Followers, Steps
  <2> QED
    BY <1>3, <2>1, <2>2 DEF ScanGroups, NoGroup
<1>4. (group # NoGroup => IsGroup(group) /\ (group.st = <<>> => ~Ends(group.v)))'
  BY <1>3 DEF NoGroup
<1> QED
  BY <1>2, <1>4 DEF ScanGroups, Way, Path, NoGroup

(* A step of the scan leaves the group it hands over on the way it was     *)
(* collected, and what comes next after it.                                *)
LEMMA NextKept ==
  ASSUME TmpComesNext, UNCHANGED <<cfg, scanVars>>, pc \in {"decide", "close", "begin"}
  PROVE  TmpComesNext'
<1>1. UNCHANGED <<stk, tmp, group, cfg>>
  BY DEF scanVars
<1>2. ComesNext(group.v, group.st, Way, tmp.v)' <=> ComesNext(group.v, group.st, Way, tmp.v)
  BY <1>1 DEF ComesNext, Ends, Followers, Steps, MaxLevel, Differ, Succ, Way, Path
<1> QED
  BY <1>1, <1>2 DEF TmpComesNext, NoGroup

(* At first no group is collected. *)
LEMMA InitGroups == Init => ScanGroups /\ TmpComesNext
<1> SUFFICES ASSUME Init PROVE ScanGroups /\ TmpComesNext
  OBVIOUS
<1>1. Last(<<Root>>).idx = 1
  BY DEF Last, Root
<1> QED
  BY <1>1 DEF Init, ScanGroups, TmpComesNext

(* The last group is handed over with its own way. *)
LEMMA ScanLastGroups ==
  ASSUME PlanInv, ScanGroups, ScanLast
  PROVE  ScanGroups' /\ TmpComesNext'
<1>1. cfg \in Configs /\ TypeOK /\ ScanInTree /\ stk # <<>> /\ Unfinished = {} /\ cfg' = cfg
  BY InvFacts DEF ScanLast
<1>2. tmp \in Groups \ {NoGroup} /\ tmp' = tmp /\ group' = tmp /\ stk' = <<>>
  BY <1>1, ScanLastFacts DEF ScanLast
<1>3. Len(stk) = MaxLevel + 1 /\ MaxLevel \in Nat
  BY <1>1, TopUnfinished, ConfigFacts
<1>4. IsGroup(tmp) /\ Len(stk) = tmp.max + 1 /\ tmp.max \in Nat
  <2>1. tmp.max \in 1 .. MaxLevel
    BY <1>1, <1>2, GroupParts
  <2> QED
    BY <1>1, <1>2, <1>3, <2>1 DEF ScanGroups
<1>5. tmp.st # <<>>
  BY <1>3, <1>4 DEF IsGroup
<1>6. (IsGroup(tmp)' <=> IsGroup(tmp)) /\ (IsGroup(group)' <=> IsGroup(tmp))
  BY <1>1, <1>2 DEF IsGroup, MaxLevel
<1> QED
  BY <1>2, <1>4, <1>5, <1>6 DEF ScanGroups, TmpComesNext, NoGroup

(* A step of the scan collects the group on top of the stack, or hands over *)
(* the one collected, from which the way then turns off.                   *)
LEMMA ScanNodeGroups ==
  ASSUME PlanInv, ScanInOrder, ScanGroups, ScanNode
  PROVE  ScanGroups' /\ TmpComesNext'
<1>1. cfg \in Configs /\ TypeOK /\ ScanInTree /\ cfg' = cfg /\ pc = "scan"
  BY InvFacts DEF ScanNode
<1>2. /\ ScanGroups' /\ stk' # <<>> /\ tmp' # NoGroup
      /\ \/ pc' = pc
         \/ pc' = "decide" /\ group' = tmp /\ ComesNext(tmp.v, tmp.st, Way', tmp'.v)
  BY <1>1, ScanNodeCases
<1>3. CASE pc' = pc
  BY <1>1, <1>2, <1>3 DEF TmpComesNext
<1>4. CASE pc' = "decide" /\ group' = tmp /\ ComesNext(tmp.v, tmp.st, Way', tmp'.v)
  <2>1. ComesNext(group.v, group.st, Way, tmp.v)'
    BY <1>1, <1>4 DEF ComesNext, Ends, Followers, Steps, MaxLevel, Differ, Succ
  <2> QED
    BY <1>2, <2>1 DEF TmpComesNext
<1> QED
  BY <1>2, <1>3, <1>4

(* Every step keeps what the groups say of the ways to them. *)
LEMMA NextGroups ==
  ASSUME PlanInv, ScanInOrder, ScanGroups, TmpComesNext, [Next]_vars
  PROVE  ScanGroups' /\ TmpComesNext'
<1>1. CASE ScanNode
  BY <1>1, ScanNodeGroups
<1>2. CASE ScanLast
  BY <1>2, ScanLastGroups
<1>3. CASE ScanOver
  <2>1. UNCHANGED <<cfg, stk, tmp>> /\ group' = NoGroup
    BY <1>3 DEF ScanOver
  <2> QED
    BY <2>1, GroupsKept DEF TmpComesNext, NoGroup
<1>4. CASE AddGroup
  <2>1. UNCHANGED <<cfg, stk, tmp>> /\ group' = NoGroup
    BY <1>4 DEF AddGroup
  <2> QED
    BY <2>1, GroupsKept DEF TmpComesNext, NoGroup
<1>5. CASE LeaveGroup \/ HangNode \/ CloseTask
  <2>1. UNCHANGED <<cfg, scanVars>> /\ pc \in {"decide", "close"}
    BY <1>5 DEF LeaveGroup, HangNode, CloseTask
  <2> QED
    BY <2>1, GroupsKept, NextKept DEF scanVars
<1>6. CASE OpenTask \/ StopEmpty \/ CloseEmpty \/ TreeTooLarge
  <2>1. UNCHANGED <<cfg, scanVars>> /\ pc' \notin {"decide", "close", "begin"}
    BY <1>6 DEF OpenTask, StopEmpty, CloseEmpty, TreeTooLarge
  <2> QED
    BY <2>1, GroupsKept DEF scanVars, TmpComesNext
<1>7. CASE UNCHANGED vars
  <2>1. UNCHANGED <<cfg, scanVars>> /\ pc' = pc
    BY <1>7 DEF vars
  <2>2. ScanGroups'
    BY <2>1, GroupsKept DEF scanVars
  <2>3. CASE pc \in {"decide", "close", "begin"}
    BY <2>1, <2>2, <2>3, NextKept
  <2>4. CASE pc \notin {"decide", "close", "begin"}
    BY <2>1, <2>2, <2>4 DEF TmpComesNext
  <2> QED
    BY <2>3, <2>4
<1> QED
  BY <1>1, <1>2, <1>3, <1>4, <1>5, <1>6, <1>7 DEF Next

-----------------------------------------------------------------------------
(* The entries of a task.                                                  *)

(* Entry b comes next after entry a: it goes on below it, or belongs to    *)
(* the next of the subtasks p, which parts from the one before at b.       *)
Follows(a, b, p) ==
  IF Ends(a.v)
  THEN b.st = a.st + 1 /\ (b.st \in DOMAIN p => Differ(p[a.st], p[b.st], b.v))
  ELSE b.st = a.st /\ b.v = Succ(a.v)

(* The entry is the last of subtask n, or of the one after it.             *)
EntersLast(e, n) == e.st = IF Ends(e.v) THEN n ELSE n + 1

(* The entries collected lead, one after the other, to the last subtask;   *)
(* p are the subtasks with the one that is to come.                        *)
EntriesFollow(es, n, p) ==
  /\ es = <<>> => n = 0
  /\ es # <<>> => es[1].v = 1 /\ es[1].st = 1 /\ EntersLast(es[Len(es)], n)
  /\ \A i \in 1 .. Len(es) - 1 : Follows(es[i], es[i + 1], p)
  /\ \A i \in 1 .. Len(es) : HasEdges(es[i].v) /\ es[i].st <= n + 1

(* The way to the subtask that comes next. *)
Coming == IF pc = "decide" /\ group.st # <<>> THEN group.st ELSE Way

(* A group of vertex level v with the way q comes next after the entries. *)
GroupFollows(q, v) ==
  IF infos = <<>> THEN v = 1
  ELSE ComesNext(infos[Len(infos)].v, subtasks[Len(subtasks)], q, v)

(* The invariant while a task is filled.                                   *)
FillInv ==
  pc \in {"scan", "decide"} =>
    /\ tree = EmptyTree
    /\ EntriesFollow(infos, Len(subtasks), Append(subtasks, Coming))
    /\ pc = "scan" /\ tmp # NoGroup /\ stk # <<>> => GroupFollows(Way, tmp.v)
    /\ pc = "decide" => GroupFollows(Coming, group.v)

(* There is no group collected before the first node only.                 *)
ScanStarts ==
  /\ tmp = NoGroup => pc \in {"begin", "scan"} /\ initial /\ infos = <<>>
  /\ pc = "begin" /\ initial => tmp = NoGroup

(* With optional vertices a task opens at the first vertex.                *)
PendingInv ==
  pc \in {"close", "begin"} /\ group # NoGroup /\ cfg.optional > 0 => group.v = 1

(* What a way and those that go on below it have in common.                *)
Extends(q, r) ==
  \E m \in Nat, n \in 0 .. MaxLevel :
    /\ m <= n /\ DOMAIN q = 1 .. m /\ DOMAIN r = 1 .. n
    /\ \A i \in 1 .. m : r[i] = q[i]

(* An entry that comes next does so for a way that goes on. *)
LEMMA FollowsFurther ==
  ASSUME cfg \in Configs, NEW p, NEW q, NEW r, NEW n \in Nat,
         p \in Seq(cfg.leaves), Len(p) = n,
         q = r \/ Extends(q, r),
         NEW a, NEW b, a.st \in Nat \ {0}, Follows(a, b, Append(p, q))
  PROVE  Follows(a, b, Append(p, r))
<1>1. CASE q = r
  BY <1>1
<1>2. CASE Ends(a.v) /\ Extends(q, r)
  <2>1. b.st = a.st + 1 /\ (b.st \in DOMAIN Append(p, q) => Differ(Append(p, q)[a.st], Append(p, q)[b.st], b.v))
    BY <1>2 DEF Follows
  <2>2. /\ DOMAIN Append(p, q) = 1 .. n + 1 /\ DOMAIN Append(p, r) = 1 .. n + 1
        /\ \A i \in 1 .. n : Append(p, q)[i] = p[i] /\ Append(p, r)[i] = p[i]
        /\ Append(p, q)[n + 1] = q /\ Append(p, r)[n + 1] = r
    OBVIOUS
  <2>3. ASSUME b.st \in 1 .. n + 1 PROVE Differ(Append(p, r)[a.st], Append(p, r)[b.st], b.v)
    <3>1. a.st \in 1 .. n /\ Append(p, q)[a.st] = Append(p, r)[a.st]
      BY <2>1, <2>2, <2>3
    <3>2. CASE b.st \in 1 .. n
      <4>1. Append(p, q)[b.st] = Append(p, r)[b.st]
        BY <2>2, <3>2
      <4>2. Differ(Append(p, q)[a.st], Append(p, q)[b.st], b.v)
        <5>1. b.st \in DOMAIN Append(p, q)
          BY <2>2, <2>3
        <5> QED
          BY <2>1, <5>1
      <4> QED
        BY <3>1, <4>1, <4>2
    <3>3. CASE b.st = n + 1
      <4>1. Differ(p[a.st], q, b.v)
        BY <2>1, <2>2, <2>3, <3>1, <3>3
      <4>2. Differ(p[a.st], r, b.v)
        BY <1>2, <4>1, DifferExtends DEF Extends
      <4> QED
        BY <2>2, <3>1, <3>3, <4>2
    <3>4. b.st \in 1 .. n \/ b.st = n + 1
      BY <2>3
    <3> QED
      BY <3>2, <3>3, <3>4
  <2> QED
    BY <1>2, <2>1, <2>2, <2>3 DEF Follows
<1>3. CASE ~Ends(a.v)
  BY <1>3 DEF Follows
<1> QED
  BY <1>1, <1>2, <1>3

(* So do the entries collected. *)
LEMMA EntriesFurther ==
  ASSUME PlanInv, NEW q, NEW r, q = r \/ Extends(q, r),
         EntriesFollow(infos, Len(subtasks), Append(subtasks, q))
  PROVE  EntriesFollow(infos, Len(subtasks), Append(subtasks, r))
<1>1. cfg \in Configs /\ subtasks \in Seq(cfg.leaves) /\ Len(subtasks) \in Nat
      /\ infos \in Seq([v : Nat \ {0}, st : Nat \ {0}])
  BY InvFacts
<1>2. ASSUME NEW i \in 1 .. Len(infos) - 1 PROVE Follows(infos[i], infos[i + 1], Append(subtasks, r))
  <2>1. i \in 1 .. Len(infos)
    BY <1>1
  <2>2. infos[i].st \in Nat \ {0}
    <3> DEFINE E == [v : Nat \ {0}, st : Nat \ {0}]
    <3>1. \A e \in E : e.st \in Nat \ {0}
      OBVIOUS
    <3>2. infos \in Seq(E)
      BY <1>1
    <3> HIDE DEF E
    <3>3. infos[i] \in E
      BY <2>1, <3>2
    <3> QED
      BY <3>1, <3>3
  <2>3. Follows(infos[i], infos[i + 1], Append(subtasks, q))
    BY DEF EntriesFollow
  <2> QED
    BY <1>1, <2>2, <2>3, FollowsFurther
<1> QED
  BY <1>2 DEF EntriesFollow

(* So does the group. *)
LEMMA GroupFurther ==
  ASSUME cfg \in Configs, NEW q, NEW r, q = r \/ Extends(q, r), NEW v, GroupFollows(q, v)
  PROVE  GroupFollows(r, v)
<1>1. CASE q = r
  BY <1>1
<1>2. CASE Extends(q, r)
  BY <1>2, DifferExtends DEF Extends, GroupFollows, ComesNext
<1> QED
  BY <1>1, <1>2

(* The entries do not say more of the subtasks that are there.             *)
LEMMA EntriesHere ==
  ASSUME PlanInv, NEW q, EntriesFollow(infos, Len(subtasks), Append(subtasks, q))
  PROVE  EntriesFollow(infos, Len(subtasks), subtasks)
<1>1. subtasks \in Seq(cfg.leaves) /\ Len(subtasks) \in Nat
      /\ infos \in Seq([v : Nat \ {0}, st : Nat \ {0}])
  BY InvFacts
<1>2. ASSUME NEW i \in 1 .. Len(infos) - 1 PROVE Follows(infos[i], infos[i + 1], subtasks)
  <2>1. i \in 1 .. Len(infos)
    BY <1>1
  <2>2. infos[i].st \in Nat \ {0}
    <3> DEFINE E == [v : Nat \ {0}, st : Nat \ {0}]
    <3>1. \A e \in E : e.st \in Nat \ {0}
      OBVIOUS
    <3>2. infos \in Seq(E)
      BY <1>1
    <3> HIDE DEF E
    <3>3. infos[i] \in E
      BY <2>1, <3>2
    <3> QED
      BY <3>1, <3>3
  <2>3. Follows(infos[i], infos[i + 1], Append(subtasks, q))
    BY DEF EntriesFollow
  <2>4. /\ DOMAIN subtasks = 1 .. Len(subtasks) /\ DOMAIN Append(subtasks, q) = 1 .. Len(subtasks) + 1
        /\ \A j \in 1 .. Len(subtasks) : Append(subtasks, q)[j] = subtasks[j]
    BY <1>1
  <2>5. CASE Ends(infos[i].v)
    <3>1. infos[i + 1].st = infos[i].st + 1
      BY <2>3, <2>5 DEF Follows
    <3>2. ASSUME infos[i + 1].st \in DOMAIN subtasks
          PROVE  Differ(subtasks[infos[i].st], subtasks[infos[i + 1].st], infos[i + 1].v)
      <4> DEFINE x == infos[i].st
      <4> DEFINE y == infos[i + 1].st
      <4>0. x \in Nat \ {0} /\ y = x + 1 /\ y \in 1 .. Len(subtasks)
        BY <2>2, <2>4, <3>1, <3>2
      <4> HIDE DEF x, y
      <4>5. x \in 1 .. Len(subtasks) /\ y \in 1 .. Len(subtasks) + 1
        BY <1>1, <4>0
      <4>1. infos[i].st \in 1 .. Len(subtasks) /\ infos[i + 1].st \in 1 .. Len(subtasks) + 1
        BY <4>5 DEF x, y
      <4> QED
        BY <2>3, <2>4, <2>5, <3>2, <4>1 DEF Follows
    <3> QED
      BY <2>5, <3>1, <3>2 DEF Follows
  <2>6. CASE ~Ends(infos[i].v)
    BY <2>3, <2>6 DEF Follows
  <2> QED
    BY <2>5, <2>6
<1> QED
  BY <1>2 DEF EntriesFollow

(* The next state says the same of the same levels. *)
LEMMA LevelsKept ==
  ASSUME UNCHANGED cfg
  PROVE  /\ MaxLevel' = MaxLevel /\ Steps' = Steps
         /\ \A v : Followers(v)' = Followers(v) /\ (Ends(v)' <=> Ends(v)) /\ Succ(v)' = Succ(v)
                   /\ (HasEdges(v)' <=> HasEdges(v))
         /\ \A p, q, v : Differ(p, q, v)' <=> Differ(p, q, v)
BY DEF MaxLevel, Steps, Followers, Ends, Succ, HasEdges, Differ

(* The next state says the same of the same entries. *)
LEMMA FollowsKept ==
  ASSUME UNCHANGED cfg
  PROVE  \A es, n, p : EntriesFollow(es, n, p)' <=> EntriesFollow(es, n, p)
<1>1. MaxLevel' = MaxLevel /\ Steps' = Steps
  BY LevelsKept
<1>2. ASSUME NEW a, NEW b, NEW p PROVE Follows(a, b, p)' <=> Follows(a, b, p)
  BY <1>1 DEF Follows, Ends, Succ, Differ, Followers
<1>3. ASSUME NEW e, NEW n PROVE EntersLast(e, n)' <=> EntersLast(e, n)
  BY <1>1 DEF EntersLast, Ends, Followers
<1>4. ASSUME NEW v PROVE HasEdges(v)' <=> HasEdges(v)
  BY <1>1 DEF HasEdges
<1>5. ASSUME NEW es, NEW n, NEW p PROVE EntriesFollow(es, n, p)' <=> EntriesFollow(es, n, p)
  BY <1>2, <1>3, <1>4 DEF EntriesFollow
<1> QED
  BY <1>5

(* What the invariant says of the next state, in terms of this one. *)
LEMMA FillNext ==
  ASSUME UNCHANGED cfg
  PROVE  FillInv' <=>
           (pc' \in {"scan", "decide"} =>
              /\ tree' = EmptyTree
              /\ EntriesFollow(infos', Len(subtasks'), Append(subtasks', Coming'))
              /\ pc' = "scan" /\ tmp' # NoGroup /\ stk' # <<>> =>
                   IF infos' = <<>> THEN tmp'.v = 1
                   ELSE ComesNext(infos'[Len(infos')].v, subtasks'[Len(subtasks')], Way', tmp'.v)
              /\ pc' = "decide" =>
                   IF infos' = <<>> THEN group'.v = 1
                   ELSE ComesNext(infos'[Len(infos')].v, subtasks'[Len(subtasks')], Coming', group'.v))
<1>1. EntriesFollow(infos, Len(subtasks), Append(subtasks, Coming))'
        <=> EntriesFollow(infos', Len(subtasks'), Append(subtasks', Coming'))
  BY FollowsKept
<1>2. \A u, p, q, v : ComesNext(u, p, q, v)' <=> ComesNext(u, p, q, v)
  BY LevelsKept DEF ComesNext
<1>3. GroupFollows(Way, tmp.v)' <=>
        IF infos' = <<>> THEN tmp'.v = 1
        ELSE ComesNext(infos'[Len(infos')].v, subtasks'[Len(subtasks')], Way', tmp'.v)
  BY <1>2 DEF GroupFollows
<1>4. GroupFollows(Coming, group.v)' <=>
        IF infos' = <<>> THEN group'.v = 1
        ELSE ComesNext(infos'[Len(infos')].v, subtasks'[Len(subtasks')], Coming', group'.v)
  BY <1>2 DEF GroupFollows
<1> QED
  BY <1>1, <1>3, <1>4 DEF FillInv, NoGroup, EmptyTree

(* Nothing is collected yet: any way comes next. *)
LEMMA NothingYet ==
  ASSUME NEW p
  PROVE  EntriesFollow(<<>>, 0, p)
BY DEF EntriesFollow

(* A step of the scan keeps the invariant: the way goes on, or it turns off *)
(* and the group of the way before is handed over.                         *)
LEMMA ScanNodeFill ==
  ASSUME PlanInv, ScanInOrder, ScanGroups, ScanStarts, FillInv, ScanNode
  PROVE  FillInv'
<1>1. /\ cfg \in Configs /\ TypeOK /\ ScanInTree /\ cfg' = cfg /\ pc = "scan" /\ stk # <<>>
      /\ infos' = infos /\ subtasks' = subtasks /\ tree' = tree
  BY InvFacts DEF ScanNode, taskVars
<1>2. /\ tree = EmptyTree
      /\ EntriesFollow(infos, Len(subtasks), Append(subtasks, Way))
      /\ tmp # NoGroup => GroupFollows(Way, tmp.v)
  BY <1>1 DEF FillInv, Coming
<1>3. /\ ScanGroups' /\ stk' # <<>> /\ tmp' # NoGroup
      /\ \/ tmp = NoGroup /\ group' = group /\ pc' = pc /\ tmp'.v = 1
         \/ tmp # NoGroup /\ group' = group /\ pc' = pc /\ tmp'.v = tmp.v /\ WayGoesOn
         \/ /\ tmp # NoGroup /\ group' = tmp /\ pc' = "decide"
            /\ IF tmp.st = <<>> THEN WayGoesOn ELSE tmp.st = Way
  BY <1>1, ScanNodeCases
<1>4. WayGoesOn => Extends(Way, Way')
  BY DEF WayGoesOn, Extends
<1>5. Coming' = IF pc' = "decide" /\ group'.st # <<>> THEN group'.st ELSE Way'
  BY DEF Coming
<1>6. ASSUME tmp # NoGroup PROVE Way = Coming' \/ Extends(Way, Coming')
  BY <1>1, <1>3, <1>4, <1>5, <1>6
<1>7. ASSUME tmp # NoGroup
      PROVE  EntriesFollow(infos, Len(subtasks), Append(subtasks, Coming')) /\ GroupFollows(Coming', tmp.v)
  <2>1. GroupFollows(Coming', tmp.v)
    BY <1>1, <1>2, <1>6, <1>7, GroupFurther
  <2> QED
    BY <1>2, <1>6, <1>7, <2>1, EntriesFurther
<1>8. CASE tmp = NoGroup
  <2>1. infos = <<>> /\ Len(subtasks) = 0
    BY <1>2, <1>8 DEF ScanStarts, EntriesFollow
  <2>2. EntriesFollow(infos', Len(subtasks'), Append(subtasks', Coming'))
    BY <1>1, <2>1, NothingYet
  <2> QED
    BY <1>1, <1>2, <1>3, <1>8, <2>1, <2>2, FillNext
<1>9. CASE tmp # NoGroup /\ pc' = pc
  <2>1. Coming' = Way' /\ tmp'.v = tmp.v
    BY <1>1, <1>3, <1>5, <1>9
  <2>2. IF infos' = <<>> THEN tmp'.v = 1
        ELSE ComesNext(infos'[Len(infos')].v, subtasks'[Len(subtasks')], Way', tmp'.v)
    BY <1>1, <1>7, <1>9, <2>1 DEF GroupFollows
  <2> QED
    BY <1>1, <1>2, <1>7, <1>9, <2>2, FillNext
<1>10. CASE tmp # NoGroup /\ pc' = "decide"
  <2>1. group'.v = tmp.v
    BY <1>1, <1>3, <1>10
  <2>2. IF infos' = <<>> THEN group'.v = 1
        ELSE ComesNext(infos'[Len(infos')].v, subtasks'[Len(subtasks')], Coming', group'.v)
    BY <1>1, <1>7, <1>10, <2>1 DEF GroupFollows
  <2> QED
    BY <1>1, <1>2, <1>7, <1>10, <2>2, FillNext
<1> QED
  BY <1>3, <1>8, <1>9, <1>10

(* The last group is handed over. *)
LEMMA ScanLastFill ==
  ASSUME PlanInv, ScanGroups, FillInv, ScanLast
  PROVE  FillInv'
<1>1. /\ cfg \in Configs /\ TypeOK /\ ScanInTree /\ cfg' = cfg /\ pc = "scan" /\ stk # <<>> /\ Unfinished = {}
      /\ infos' = infos /\ subtasks' = subtasks /\ tree' = tree
      /\ pc' = "decide" /\ group' = tmp
  BY InvFacts DEF ScanLast, taskVars
<1>2. tmp \in Groups \ {NoGroup}
  BY <1>1, ScanLastFacts
<1>3. Len(stk) = MaxLevel + 1 /\ MaxLevel \in Nat
  BY <1>1, TopUnfinished, ConfigFacts
<1>4. tmp.st # <<>> /\ tmp.st = Way
  <2>1. tmp.max \in 1 .. MaxLevel
    BY <1>1, <1>2, GroupParts
  <2>2. IsGroup(tmp) /\ Len(stk) = tmp.max + 1 /\ (tmp.st # <<>> => tmp.st = Way)
    BY <1>1, <1>2 DEF ScanGroups
  <2>3. tmp.max = MaxLevel
    BY <1>3, <2>1, <2>2
  <2> QED
    BY <2>2, <2>3 DEF IsGroup
<1>5. Coming' = Way
  BY <1>1, <1>4 DEF Coming
<1>6. /\ tree = EmptyTree
      /\ EntriesFollow(infos, Len(subtasks), Append(subtasks, Way))
      /\ GroupFollows(Way, tmp.v)
  BY <1>1, <1>2 DEF FillInv, Coming
<1> QED
  BY <1>1, <1>5, <1>6, FillNext DEF GroupFollows

(* A sequence with one more element. *)
LEMMA LongerByOne ==
  ASSUME NEW S, NEW s \in Seq(S), NEW x \in S
  PROVE  /\ s \o <<x>> = Append(s, x)
         /\ Append(s, x) \in Seq(S) /\ Len(Append(s, x)) = Len(s) + 1 /\ Append(s, x)[Len(s) + 1] = x
OBVIOUS

(* What is known of the group that is decided upon. *)
LEMMA DecidedGroup ==
  ASSUME PlanInv, ScanGroups, group # NoGroup
  PROVE  /\ cfg.vlevel[group.max] = group.v /\ cfg.vlevel[group.min] = group.v
         /\ HasEdges(group.v) /\ group.v \in Nat \ {0}
         /\ group.st # <<>> <=> Ends(group.v)
         /\ group.st = <<>> => SubtasksOf(group) = <<>>
         /\ group.st # <<>> => SubtasksOf(group) = <<group.st>> /\ group.st \in cfg.leaves
<1>1. cfg \in Configs /\ group \in Groups
  BY InvFacts
<1>2. group.v \in Nat \ {0} /\ group.min \in 1 .. MaxLevel /\ group.max \in 1 .. MaxLevel
      /\ group.st \in {<<>>} \cup cfg.leaves
  BY <1>1, GroupParts
<1>3. group.v = cfg.vlevel[group.max] /\ group.v = cfg.vlevel[group.min] /\ (group.st # <<>> <=> Ends(group.v))
  BY <1>1, GroupEnds
<1> QED
  BY <1>2, <1>3 DEF HasEdges, SubtasksOf

(* The entry of a group comes next. *)
LEMMA AddGroupEntry ==
  ASSUME PlanInv, ScanGroups, FillInv, AddGroup
  PROVE  /\ group # NoGroup
         /\ infos' = Append(infos, [v |-> group.v, st |-> Len(subtasks) + 1])
         /\ infos = <<>> => group.v = 1 /\ Len(subtasks) = 0
         /\ infos # <<>> => Follows(infos[Len(infos)], [v |-> group.v, st |-> Len(subtasks) + 1],
                                    Append(subtasks, Coming))
<1>1. /\ cfg \in Configs /\ subtasks \in Seq(cfg.leaves) /\ Len(subtasks) \in Nat
      /\ infos \in Seq([v : Nat \ {0}, st : Nat \ {0}])
      /\ pc = "decide" /\ group # NoGroup
      /\ infos' = Append(infos, [v |-> cfg.vlevel[group.max], st |-> Len(subtasks) + 1])
  BY InvFacts DEF AddGroup, ScanInTree
<1>2. /\ EntriesFollow(infos, Len(subtasks), Append(subtasks, Coming))
      /\ GroupFollows(Coming, group.v)
  BY <1>1 DEF FillInv
<1>3. cfg.vlevel[group.max] = group.v
  BY <1>1, DecidedGroup
<1>4. infos = <<>> => group.v = 1 /\ Len(subtasks) = 0
  BY <1>2 DEF EntriesFollow, GroupFollows
<1>5. ASSUME infos # <<>>
      PROVE  Follows(infos[Len(infos)], [v |-> group.v, st |-> Len(subtasks) + 1], Append(subtasks, Coming))
  <2> DEFINE last == infos[Len(infos)]
  <2>1. EntersLast(last, Len(subtasks)) /\ ComesNext(last.v, subtasks[Len(subtasks)], Coming, group.v)
    BY <1>2, <1>5 DEF EntriesFollow, GroupFollows
  <2>2. last.st \in Nat \ {0}
    <3> DEFINE E == [v : Nat \ {0}, st : Nat \ {0}]
    <3>1. \A e \in E : e.st \in Nat \ {0}
      OBVIOUS
    <3>2. infos \in Seq(E) /\ infos # <<>>
      BY <1>1, <1>5
    <3> HIDE DEF E
    <3>3. infos[Len(infos)] \in E
      BY <3>2
    <3> QED
      BY <3>1, <3>3
  <2> HIDE DEF last
  <2>3. CASE Ends(last.v)
    <3>1. last.st = Len(subtasks) /\ Differ(subtasks[Len(subtasks)], Coming, group.v)
      BY <2>1, <2>3 DEF EntersLast, ComesNext
    <3>2. Len(subtasks) \in 1 .. Len(subtasks)
      BY <1>1, <2>2, <3>1
    <3>3. Append(subtasks, Coming)[Len(subtasks)] = subtasks[Len(subtasks)]
          /\ Append(subtasks, Coming)[Len(subtasks) + 1] = Coming
      BY <1>1, <3>2
    <3> QED
      BY <2>3, <3>1, <3>3 DEF Follows, last
  <2>4. CASE ~Ends(last.v)
    BY <2>1, <2>4 DEF EntersLast, ComesNext, Follows, last
  <2> QED
    BY <2>3, <2>4
<1> QED
  BY <1>1, <1>3, <1>4, <1>5

(* A group added gives the next entry, and a subtask if it ends one. *)
LEMMA AddGroupFill ==
  ASSUME PlanInv, ScanGroups, TmpComesNext, ScanStarts, FillInv, AddGroup
  PROVE  FillInv'
<1> DEFINE n == Len(subtasks)
<1> DEFINE new == [v |-> group.v, st |-> n + 1]
<1> DEFINE p == Append(subtasks, Coming)
<1>1. /\ cfg \in Configs /\ subtasks \in Seq(cfg.leaves) /\ n \in Nat
      /\ infos \in Seq([v : Nat \ {0}, st : Nat \ {0}]) /\ Len(infos) \in Nat
      /\ pc = "decide" /\ pc' = "scan" /\ cfg' = cfg /\ stk' = stk /\ tmp' = tmp /\ tree' = tree
      /\ subtasks' = subtasks \o SubtasksOf(group)
  BY InvFacts DEF AddGroup
<1>2. /\ group # NoGroup /\ infos' = Append(infos, new)
      /\ infos = <<>> => group.v = 1 /\ n = 0
      /\ infos # <<>> => Follows(infos[Len(infos)], new, p)
  BY AddGroupEntry
<1>3. /\ HasEdges(group.v) /\ group.v \in Nat \ {0} /\ (group.st # <<>> <=> Ends(group.v))
      /\ group.st = <<>> => SubtasksOf(group) = <<>>
      /\ group.st # <<>> => SubtasksOf(group) = <<group.st>> /\ group.st \in cfg.leaves
  BY <1>2, DecidedGroup
<1>4. tree = EmptyTree /\ EntriesFollow(infos, n, p)
  BY <1>1 DEF FillInv
<1>5. Way' = Way /\ Coming' = Way
  BY <1>1 DEF Way, Path, Coming
<1>6. /\ Len(infos') = Len(infos) + 1 /\ infos'[Len(infos')] = new /\ infos' # <<>>
      /\ \A i \in 1 .. Len(infos) : infos'[i] = infos[i]
      /\ (infos = <<>> => infos'[1] = new) /\ (infos # <<>> => infos'[1] = infos[1])
  BY <1>1, <1>2
<1>7. new.v = group.v /\ new.st = n + 1
  OBVIOUS
<1> HIDE DEF new
<1>8. infos'[1].v = 1 /\ infos'[1].st = 1
  <2>1. CASE infos = <<>>
    BY <1>2, <1>6, <1>7, <2>1
  <2>2. CASE infos # <<>>
    BY <1>4, <1>6, <2>2 DEF EntriesFollow
  <2> QED
    BY <2>1, <2>2
<1>9. \A i \in 1 .. Len(infos') - 1 : Follows(infos'[i], infos'[i + 1], p)
  <2>1. ASSUME NEW i \in 1 .. Len(infos') - 1 PROVE Follows(infos'[i], infos'[i + 1], p)
    <3>1. CASE i \in 1 .. Len(infos) - 1
      <4>1. Follows(infos[i], infos[i + 1], p)
        BY <1>4, <3>1 DEF EntriesFollow
      <4>2. i \in 1 .. Len(infos) /\ i + 1 \in 1 .. Len(infos)
        BY <1>1, <3>1
      <4> QED
        BY <1>6, <4>1, <4>2
    <3>2. CASE i = Len(infos)
      <4>1. infos # <<>> /\ i \in 1 .. Len(infos) /\ i + 1 = Len(infos')
        BY <1>1, <1>6, <2>1, <3>2
      <4> QED
        BY <1>2, <1>6, <3>2, <4>1
    <3>3. i \in 1 .. Len(infos) - 1 \/ i = Len(infos)
      BY <1>1, <1>6
    <3> QED
      BY <3>1, <3>2, <3>3
  <2> QED
    BY <2>1
<1>10. \A i \in 1 .. Len(infos') : HasEdges(infos'[i].v) /\ infos'[i].st <= n + 1
  <2>1. ASSUME NEW i \in 1 .. Len(infos') PROVE HasEdges(infos'[i].v) /\ infos'[i].st <= n + 1
    <3>1. CASE i \in 1 .. Len(infos)
      BY <1>4, <1>6, <3>1 DEF EntriesFollow
    <3>2. CASE i = Len(infos')
      BY <1>1, <1>3, <1>6, <1>7, <3>2
    <3> QED
      BY <1>1, <1>6, <3>1, <3>2
  <2> QED
    BY <2>1
<1>11. ASSUME stk # <<>> PROVE ComesNext(group.v, group.st, Way, tmp.v)
  BY <1>1, <1>2, <1>11 DEF TmpComesNext
<1>12. CASE group.st = <<>>
  <2>1. subtasks' = subtasks /\ Len(subtasks') = n /\ ~Ends(group.v)
    BY <1>1, <1>3, <1>12
  <2>2. Coming = Way
    BY <1>12 DEF Coming
  <2>3. EntriesFollow(infos', Len(subtasks'), Append(subtasks', Coming'))
    BY <1>5, <1>6, <1>7, <1>8, <1>9, <1>10, <2>1, <2>2 DEF EntriesFollow, EntersLast
  <2>4. ASSUME stk' # <<>>
        PROVE  ComesNext(infos'[Len(infos')].v, subtasks'[Len(subtasks')], Way', tmp'.v)
    BY <1>1, <1>6, <1>7, <1>11, <2>1, <2>4 DEF ComesNext
  <2> QED
    BY <1>1, <1>4, <1>6, <2>3, <2>4, FillNext
<1>13. CASE group.st # <<>>
  <2>1. subtasks' = Append(subtasks, group.st) /\ Len(subtasks') = n + 1 /\ Ends(group.v)
        /\ subtasks' \in Seq(cfg.leaves) /\ subtasks'[n + 1] = group.st
    <3>1. subtasks' = subtasks \o <<group.st>> /\ group.st \in cfg.leaves /\ Ends(group.v)
      BY <1>1, <1>3, <1>13
    <3>2. subtasks' = Append(subtasks, group.st)
      BY <1>1, <3>1, LongerByOne
    <3>3. /\ Append(subtasks, group.st) \in Seq(cfg.leaves)
          /\ Len(Append(subtasks, group.st)) = n + 1 /\ Append(subtasks, group.st)[n + 1] = group.st
      <4> HIDE DEF p
      <4>1. subtasks \in Seq(cfg.leaves) /\ group.st \in cfg.leaves
        BY <1>1, <3>1
      <4>2. PICK s, x, S : s = subtasks /\ x = group.st /\ S = cfg.leaves
        OBVIOUS
      <4>3. s \in Seq(S) /\ x \in S
        BY <4>1, <4>2
      <4>4. Append(s, x) \in Seq(S) /\ Len(Append(s, x)) = Len(s) + 1 /\ Append(s, x)[Len(s) + 1] = x
        BY <4>3, LongerByOne
      <4> QED
        BY <4>2, <4>4
    <3> QED
      BY <3>1, <3>2, <3>3
  <2>2. p = subtasks'
    BY <1>1, <1>13, <2>1 DEF Coming
  <2>3. \A i \in 1 .. Len(infos') : HasEdges(infos'[i].v) /\ infos'[i].st <= Len(subtasks') + 1
    <3>1. ASSUME NEW i \in 1 .. Len(infos') PROVE infos'[i].st <= (n + 1) + 1
      <4> DEFINE x == infos'[i].st
      <4>1. x \in Nat
        <5> DEFINE E == [v : Nat \ {0}, st : Nat \ {0}]
        <5>1. \A e \in E : e.st \in Nat
          OBVIOUS
        <5>2. infos \in Seq(E) /\ new \in E
          BY <1>1, <1>3 DEF new
        <5> HIDE DEF E
        <5>3. infos' \in Seq(E)
          BY <1>2, <5>2
        <5>4. infos'[i] \in E
          BY <5>3
        <5> QED
          BY <5>1, <5>4
      <4>2. x <= n + 1
        BY <1>10
      <4> HIDE DEF x
      <4>3. x <= (n + 1) + 1
        BY <1>1, <4>1, <4>2
      <4> QED
        BY <4>3 DEF x
    <3> QED
      BY <1>10, <2>1, <3>1
  <2>4. \A i \in 1 .. Len(infos') - 1 : Follows(infos'[i], infos'[i + 1], Append(subtasks', Way))
    <3>1. ASSUME NEW i \in 1 .. Len(infos') - 1
          PROVE  Follows(infos'[i], infos'[i + 1], Append(subtasks', Way))
      <4>1. Follows(infos'[i], infos'[i + 1], subtasks')
        BY <1>9, <2>2
      <4>2. i + 1 \in 1 .. Len(infos') /\ i \in 1 .. Len(infos')
        BY <1>1, <1>6
      <4> DEFINE x == infos'[i].st
      <4> DEFINE y == infos'[i + 1].st
      <4>3. y <= n + 1
        BY <1>10, <4>2
      <4>4. CASE Ends(infos'[i].v)
        <5>1. y = x + 1 /\ (y \in DOMAIN subtasks' => Differ(subtasks'[x], subtasks'[y], infos'[i + 1].v))
          BY <4>1, <4>4 DEF Follows
        <5>2. x \in Nat \ {0}
          <6> DEFINE E == [v : Nat \ {0}, st : Nat \ {0}]
          <6>1. \A e \in E : e.st \in Nat \ {0}
            OBVIOUS
          <6>2. infos \in Seq(E) /\ new \in E
            BY <1>1, <1>3 DEF new
          <6> HIDE DEF E
          <6>3. infos' \in Seq(E)
            BY <1>2, <6>2
          <6>4. infos'[i] \in E
            BY <4>2, <6>3
          <6> QED
            BY <6>1, <6>4
        <5> HIDE DEF x, y
        <5>3. x \in 1 .. n + 1 /\ y \in 1 .. n + 1
          BY <1>1, <4>3, <5>1, <5>2
        <5>4. \A j \in 1 .. n + 1 : Append(subtasks', Way)[j] = subtasks'[j] /\ j \in DOMAIN subtasks'
          BY <1>1, <2>1
        <5>5. Differ(Append(subtasks', Way)[x], Append(subtasks', Way)[y], infos'[i + 1].v)
          BY <5>1, <5>3, <5>4
        <5> QED
          BY <4>4, <5>1, <5>5 DEF Follows, x, y
      <4>5. CASE ~Ends(infos'[i].v)
        BY <4>1, <4>5 DEF Follows
      <4> QED
        BY <4>4, <4>5
    <3> QED
      BY <3>1
  <2>5. EntriesFollow(infos', Len(subtasks'), Append(subtasks', Coming'))
    BY <1>5, <1>6, <1>7, <1>8, <2>1, <2>3, <2>4 DEF EntriesFollow, EntersLast
  <2>6. ASSUME stk' # <<>>
        PROVE  ComesNext(infos'[Len(infos')].v, subtasks'[Len(subtasks')], Way', tmp'.v)
    BY <1>1, <1>5, <1>6, <1>7, <1>11, <2>1, <2>6
  <2> QED
    BY <1>1, <1>4, <1>6, <2>5, <2>6, FillNext
<1> QED
  BY <1>12, <1>13

(* Without optional vertices every level down to one with edges has edges, *)
(* and no follower but below the last.                                     *)
LEMMA LowLevels ==
  ASSUME cfg \in Configs, NEW n, HasEdges(n), cfg.optional = 0 \/ n = 1
  PROVE  \A i \in 1 .. n : HasEdges(i) /\ (i # n => ~Ends(i) /\ Succ(i) = i + 1)
<1>1. n \in Nat \ {0}
  BY LevelsEnd
<1>2. HasEdges(1)
  BY ConfigFacts, LevelFacts DEF HasEdges
<1>3. CASE n = 1
  BY <1>2, <1>3
<1>4. CASE cfg.optional = 0
  <2>1. /\ cfg.postfix \in Nat /\ cfg.optionalPostfix \in Nat /\ cfg.vertices \in Nat
        /\ cfg.postfix <= cfg.vertices /\ cfg.optionalPostfix = 0
    <3>1. /\ cfg.postfix \in Nat /\ cfg.optionalPostfix \in Nat /\ cfg.vertices \in Nat
      BY ConfigsAssumption DEF ConfigsAssumption
    <3>2. cfg.optional + cfg.postfix <= cfg.vertices /\ cfg.optionalPostfix <= cfg.optional
      BY LevelsAssumption DEF LevelsAssumption
    <3> QED
      BY <1>4, <3>1, <3>2
  <2>2. ASSUME NEW v \in Nat, ~Ends(v) PROVE Followers(v) = 0
    <3>1. CASE cfg.tableJoin
      BY <3>1 DEF Followers, FollowersOf
    <3>2. CASE ~cfg.tableJoin /\ v # cfg.vertices - cfg.postfix
      BY <1>4, <2>1, <3>2 DEF Followers, FollowersOf
    <3>3. CASE ~cfg.tableJoin /\ v = cfg.vertices - cfg.postfix
      <4>1. Followers(v) = cfg.postfix
        BY <1>4, <2>1, <3>3 DEF Followers, FollowersOf
      <4>2. v + Followers(v) = Steps
        BY <2>1, <3>3, <4>1 DEF Steps
      <4> QED
        BY <2>2, <4>2 DEF Ends
    <3> QED
      BY <3>1, <3>2, <3>3
  <2> DEFINE T == {k \in 0 .. n : k = 0 \/ HasEdges(k)}
  <2>3. 0 \in T
    BY <1>1
  <2>4. ASSUME NEW i \in 1 .. n, HasEdges(i), i # n PROVE ~Ends(i) /\ Succ(i) = i + 1 /\ HasEdges(Succ(i))
    <3>1. ~Ends(i) /\ HasEdges(Succ(i))
      <4>1. ~(n <= i)
        BY <1>1, <2>4
      <4> QED
        BY <2>4, <4>1, LevelsEnd
    <3>2. i \in Nat /\ Followers(i) = 0
      BY <2>2, <3>1
    <3> QED
      BY <3>1, <3>2 DEF Succ
  <2>5. ASSUME NEW k \in 1 .. n, k - 1 \in T PROVE k \in T
    <3>1. CASE k = 1
      BY <1>2, <2>5, <3>1
    <3>2. CASE k # 1
      <4>1. k - 1 \in 1 .. n /\ k - 1 # n /\ (k - 1) + 1 = k /\ k \in 0 .. n
        BY <1>1, <3>2
      <4>2. HasEdges(k - 1)
        BY <2>5, <3>2
      <4> QED
        BY <2>4, <4>1, <4>2
    <3> QED
      BY <3>1, <3>2
  <2> HIDE DEF T
  <2>6. \A k \in 0 .. n : k \in T
    BY <1>1, <2>3, <2>5, CountingUp
  <2>7. \A i \in 1 .. n : HasEdges(i)
    BY <1>1, <2>6 DEF T
  <2> QED
    BY <2>4, <2>7
<1> QED
  BY <1>3, <1>4

(* A task opens with an entry for every vertex down to its first group. *)
LEMMA OpenTaskFill ==
  ASSUME PlanInv, ScanInOrder, ScanGroups, TmpComesNext, ScanStarts, PendingInv, OpenTask
  PROVE  FillInv'
<1>1. /\ cfg \in Configs /\ pc = "begin" /\ pc' = "scan" /\ cfg' = cfg /\ stk' = stk /\ tmp' = tmp /\ group' = group
      /\ tree' = EmptyTree /\ (initial \/ group # NoGroup)
  BY InvFacts DEF OpenTask, scanVars
<1>2. Way' = Way /\ Coming' = Way
  BY <1>1 DEF Way, Path, Coming
<1>3. CASE initial
  <2>1. infos' = <<>> /\ subtasks' = <<>> /\ Len(subtasks') = 0 /\ tmp = NoGroup
    BY <1>1, <1>3 DEF OpenTask, ScanStarts
  <2>2. EntriesFollow(infos', Len(subtasks'), Append(subtasks', Coming'))
    BY <2>1, NothingYet
  <2> QED
    BY <1>1, <2>1, <2>2, FillNext
<1>4. CASE ~initial
  <2> DEFINE n == group.v
  <2>1. group # NoGroup /\ subtasks' = SubtasksOf(group)
        /\ infos' = [i \in 1 .. cfg.vlevel[group.max] |-> [v |-> i, st |-> 1]]
    BY <1>1, <1>4 DEF OpenTask
  <2>2. /\ cfg.vlevel[group.max] = n /\ HasEdges(n) /\ n \in Nat \ {0}
        /\ group.st # <<>> <=> Ends(n)
        /\ group.st = <<>> => SubtasksOf(group) = <<>>
        /\ group.st # <<>> => SubtasksOf(group) = <<group.st>>
    BY <2>1, DecidedGroup
  <2>3. cfg.optional = 0 \/ n = 1
    <3>1. cfg.optional \in Nat
      BY <1>1, ConfigsAssumption DEF ConfigsAssumption
    <3> QED
      BY <1>1, <2>1, <3>1 DEF PendingInv
  <2> HIDE DEF n
  <2>4. \A i \in 1 .. n : HasEdges(i) /\ (i # n => ~Ends(i) /\ Succ(i) = i + 1)
    BY <1>1, <2>2, <2>3, LowLevels
  <2>5. /\ Len(infos') = n /\ infos' # <<>>
        /\ \A i \in 1 .. n : infos'[i].v = i /\ infos'[i].st = 1
    BY <2>1, <2>2
  <2>6. /\ Len(subtasks') = IF Ends(n) THEN 1 ELSE 0
        /\ Ends(n) => subtasks'[Len(subtasks')] = group.st
    BY <2>1, <2>2, SMTT(30)
  <2>7. EntriesFollow(infos', Len(subtasks'), Append(subtasks', Coming'))
    <3>1. 1 \in 1 .. n /\ n \in 1 .. n
      BY <2>2
    <3>2. EntersLast(infos'[n], Len(subtasks'))
      BY <2>5, <2>6, <3>1 DEF EntersLast
    <3>3. ASSUME NEW i \in 1 .. n - 1 PROVE Follows(infos'[i], infos'[i + 1], Append(subtasks', Coming'))
      <4>1. i \in 1 .. n /\ i # n /\ i + 1 \in 1 .. n
        BY <2>2
      <4>2. infos'[i].v = i /\ infos'[i].st = 1 /\ infos'[i + 1].v = i + 1 /\ infos'[i + 1].st = 1
        BY <2>5, <4>1
      <4>3. ~Ends(i) /\ Succ(i) = i + 1
        BY <2>4, <4>1
      <4> QED
        BY <4>2, <4>3 DEF Follows
    <3>4. ASSUME NEW i \in 1 .. n PROVE HasEdges(infos'[i].v) /\ infos'[i].st <= Len(subtasks') + 1
      BY <2>4, <2>5, <2>6
    <3> QED
      BY <2>5, <3>1, <3>2, <3>3, <3>4 DEF EntriesFollow
  <2>8. ASSUME stk' # <<>>
        PROVE  ComesNext(infos'[Len(infos')].v, subtasks'[Len(subtasks')], Way', tmp'.v)
    <3>1. ComesNext(n, group.st, Way, tmp.v)
      BY <1>1, <2>1, <2>8 DEF TmpComesNext, n
    <3>2. n \in 1 .. n
      BY <2>2
    <3>3. infos'[Len(infos')].v = n
      BY <2>5, <3>2
    <3> QED
      BY <1>1, <1>2, <2>6, <3>1, <3>3 DEF ComesNext
  <2> QED
    BY <1>1, <2>5, <2>7, <2>8, FillNext
<1> QED
  BY <1>3, <1>4

(* Before the first task nothing is collected. *)
LEMMA InitFill == Init => FillInv /\ ScanStarts /\ PendingInv
BY DEF Init, FillInv, ScanStarts, PendingInv

(* Every step keeps the invariant of the task being filled. *)
LEMMA NextFill ==
  ASSUME PlanInv, ScanInOrder, ScanGroups, TmpComesNext, ScanStarts, PendingInv, FillInv, [Next]_vars
  PROVE  FillInv'
<1>1. CASE ScanNode
  BY <1>1, ScanNodeFill
<1>2. CASE ScanLast
  BY <1>2, ScanLastFill
<1>3. CASE AddGroup
  BY <1>3, AddGroupFill
<1>4. CASE OpenTask
  BY <1>4, OpenTaskFill
<1>5. CASE ScanOver \/ LeaveGroup \/ HangNode \/ CloseTask \/ StopEmpty \/ CloseEmpty \/ TreeTooLarge
  <2>1. pc' \notin {"scan", "decide"}
    BY <1>5 DEF ScanOver, LeaveGroup, HangNode, CloseTask, StopEmpty, CloseEmpty, TreeTooLarge
  <2> QED
    BY <2>1 DEF FillInv
<1>6. CASE UNCHANGED vars
  <2>1. UNCHANGED <<cfg, pc, stk, tmp, group, infos, subtasks, tree>>
    BY <1>6 DEF vars, scanVars, taskVars
  <2>2. Way' = Way /\ Coming' = Coming
    BY <2>1 DEF Coming, Way, Path
  <2> QED
    BY <2>1, <2>2, FillNext DEF FillInv, GroupFollows
<1> QED
  BY <1>1, <1>2, <1>3, <1>4, <1>5, <1>6 DEF Next

(* A group is collected from the first node on. *)
LEMMA NextStarts ==
  ASSUME PlanInv, ScanStarts, [Next]_vars
  PROVE  ScanStarts'
<1>1. CASE ScanNode
  <2>1. tmp' # NoGroup /\ pc' \in {"scan", "decide"}
    BY <1>1, InvFacts, ScanNodeFacts
  <2> QED
    BY <2>1 DEF ScanStarts, NoGroup
<1>2. CASE ScanLast
  <2>1. tmp' # NoGroup /\ pc' = "decide"
    BY <1>2, InvFacts, ScanLastFacts DEF ScanLast
  <2> QED
    BY <2>1 DEF ScanStarts, NoGroup
<1>3. CASE ScanOver
  <2>1. tmp' # NoGroup /\ pc' = "close"
    BY <1>3, InvFacts DEF ScanOver, ScanInTree
  <2> QED
    BY <2>1 DEF ScanStarts, NoGroup
<1>4. CASE OpenTask
  <2>1. pc' = "scan" /\ tmp' = tmp /\ initial' = initial /\ pc = "begin" /\ (initial => infos' = <<>>)
    BY <1>4 DEF OpenTask, scanVars
  <2> QED
    BY <2>1 DEF ScanStarts, NoGroup
<1>5. CASE AddGroup \/ LeaveGroup \/ HangNode \/ CloseEmpty \/ TreeTooLarge
  <2>1. pc \in {"decide", "close"} /\ tmp' = tmp /\ pc' # "begin"
    BY <1>5 DEF AddGroup, LeaveGroup, HangNode, CloseEmpty, TreeTooLarge, scanVars
  <2> QED
    BY <2>1 DEF ScanStarts, NoGroup
<1>6. CASE CloseTask
  <2>1. pc = "close" /\ tmp' = tmp /\ ~initial'
    BY <1>6 DEF CloseTask, scanVars
  <2> QED
    BY <2>1 DEF ScanStarts, NoGroup
<1>7. CASE StopEmpty
  <2>1. pc = "begin" /\ ~initial /\ tmp' = tmp /\ pc' = "stopped"
    BY <1>7 DEF StopEmpty, scanVars
  <2> QED
    BY <2>1 DEF ScanStarts, NoGroup
<1>8. CASE UNCHANGED vars
  <2>1. UNCHANGED <<pc, tmp, initial, infos>>
    BY <1>8 DEF vars, scanVars, taskVars
  <2> QED
    BY <2>1 DEF ScanStarts, NoGroup
<1> QED
  BY <1>1, <1>2, <1>3, <1>4, <1>5, <1>6, <1>7, <1>8 DEF Next

(* A task is broken off at the first vertex, as the assertion demands.     *)
LEMMA NextPendingGroup ==
  ASSUME PlanInv, ScanGroups, PendingInv, [Next]_vars,
         LeaveGroup /\ cfg.optional > 0 => cfg.vlevel[group.min] = 1
  PROVE  PendingInv'
<1>1. CASE LeaveGroup
  <2>1. cfg' = cfg /\ group' = group /\ pc = "decide"
    BY <1>1 DEF LeaveGroup, scanVars
  <2>2. group # NoGroup => cfg.vlevel[group.min] = group.v
    BY DecidedGroup
  <2> QED
    BY <1>1, <2>1, <2>2 DEF PendingInv, NoGroup
<1>2. CASE HangNode \/ CloseTask \/ UNCHANGED vars
  <2>1. cfg' = cfg /\ group' = group /\ (pc' \in {"close", "begin"} => pc \in {"close", "begin"})
    BY <1>2 DEF HangNode, CloseTask, vars, scanVars
  <2> QED
    BY <2>1 DEF PendingInv, NoGroup
<1>3. CASE ScanOver
  BY <1>3 DEF ScanOver, PendingInv, NoGroup
<1>4. CASE ScanNode \/ ScanLast \/ OpenTask \/ AddGroup \/ StopEmpty \/ CloseEmpty \/ TreeTooLarge
  <2>1. pc' \notin {"close", "begin"}
    BY <1>4 DEF ScanNode, ScanLast, OpenTask, AddGroup, StopEmpty, CloseEmpty, TreeTooLarge
  <2> QED
    BY <2>1 DEF PendingInv
<1> QED
  BY <1>1, <1>2, <1>3, <1>4 DEF Next

-----------------------------------------------------------------------------
(* The tree of the kernel.                                                 *)

(* Nodes of a tree for the subtasks p, node k the at[k]-th from the root:  *)
(* a node is hung below the last one that is higher up, it goes on below   *)
(* the one before, or that one is as deep as a match and the next subtask  *)
(* parts from its subtask here.                                            *)
NodeType == [prv : Nat, dep : Nat, st : Nat]

Hung(nodes, at, k) ==
  /\ nodes[k].prv < k
  /\ at[k] = IF nodes[k].prv = 0 THEN 1 ELSE at[nodes[k].prv] + 1
  /\ HasEdges(nodes[k].dep)
  /\ nodes[k].dep <= at[k] /\ at[k] <= nodes[k].dep + Followers(nodes[k].dep)
  /\ \A j \in 1 .. k - 1 : nodes[k].prv < j => at[j] >= at[k]

(* The node after node k. *)
GoesOn(nodes, p, at, k) ==
  IF at[k] = Steps
  THEN /\ nodes[k + 1].st = nodes[k].st + 1 /\ nodes[k + 1].dep = at[k + 1]
       /\ Differ(p[nodes[k].st], p[nodes[k + 1].st], at[k + 1])
  ELSE nodes[k + 1].prv = k /\ nodes[k + 1].st = nodes[k].st

(* The nodes of a tree, in the order they were hung. *)
IsTree(nodes, p, at) ==
  /\ nodes \in Seq(NodeType) /\ at \in [1 .. Len(nodes) -> Nat]
  /\ \A k \in 1 .. Len(nodes) : Hung(nodes, at, k) /\ nodes[k].st \in DOMAIN p
  /\ \A k \in 1 .. Len(nodes) - 1 : GoesOn(nodes, p, at, k)
  /\ nodes # <<>> => nodes[1].st = 1

(* The stack leads to the last node, which is the last of its followers:   *)
(* entry i + 1 is the last node that is i-th from the root.                *)
StackLeads(t, at) ==
  LET last == Len(t.nodes)
  IN  /\ t.stk \in Seq([id : Nat, dep : Nat])
      /\ Len(t.stk) = 1 + (IF last = 0 THEN 0 ELSE at[last])
      /\ t.stk[1] = [id |-> 0, dep |-> 0]
      /\ t.stk[Len(t.stk)].id = last
      /\ last # 0 => at[last] = t.nodes[last].dep + Followers(t.nodes[last].dep)
      /\ \A i \in 1 .. Len(t.stk) - 1 :
           /\ t.stk[i + 1].id \in 1 .. last /\ at[t.stk[i + 1].id] = i
           /\ t.stk[i + 1].dep = t.nodes[t.stk[i + 1].id].dep
           /\ \A j \in 1 .. last : t.stk[i + 1].id < j => at[j] > i

(* The tree being built. *)
TreeInv(t, p, at) ==
  /\ IsTree(t.nodes, p, at) /\ StackLeads(t, at)
  /\ t.roots \in Seq(Nat) /\ ToSet(t.roots) = Below(t.nodes, 0)

(* The entry that comes after the last node.                               *)
HangsNext(t, p, info) ==
  IF t.nodes = <<>> THEN info.v = 1 /\ info.st = 1
  ELSE Follows([v |-> t.nodes[Len(t.nodes)].dep, st |-> t.nodes[Len(t.nodes)].st], info, p)

(* An entry of vertex level v is hung below node q, the last of those that *)
(* are higher up; if a match does not end at the last node, it is that.    *)
HangsBelow(t, at, v, q) ==
  /\ v \in Nat \ {0} /\ Len(t.stk) \in Nat /\ v <= Len(t.stk)
  /\ q \in 0 .. Len(t.nodes)
  /\ q = 0 <=> v = 1
  /\ q # 0 => at[q] = v - 1
  /\ \A j \in 1 .. Len(t.nodes) : q < j => at[j] >= v
  /\ t.nodes # <<>> =>
       IF at[Len(t.nodes)] = Steps THEN Ends(t.nodes[Len(t.nodes)].dep)
       ELSE q = Len(t.nodes) /\ ~Ends(t.nodes[Len(t.nodes)].dep)

(* The stack is popped down to the nodes above the entry.                  *)
LEMMA Popped ==
  ASSUME cfg \in Configs, NEW p, NEW at, TreeInv(tree, p, at),
         NEW info, HasEdges(info.v), HangsNext(tree, p, info)
  PROVE  LET stack == SubSeq(tree.stk, 1, Max({d \in DOMAIN tree.stk : Above(tree.stk[d], info)}))
         IN  /\ stack = SubSeq(tree.stk, 1, info.v) /\ Last(stack).id = tree.stk[info.v].id
             /\ HangsBelow(tree, at, info.v, tree.stk[info.v].id)
<1> DEFINE v == info.v
<1> DEFINE nodes == tree.nodes
<1> DEFINE stk0 == tree.stk
<1> DEFINE N == Len(nodes)
<1> DEFINE L == Len(stk0)
<1> DEFINE D == {d \in DOMAIN stk0 : Above(stk0[d], info)}
<1>1. /\ nodes \in Seq(NodeType) /\ at \in [1 .. N -> Nat] /\ N \in Nat
      /\ \A k \in 1 .. N : Hung(nodes, at, k)
      /\ stk0 \in Seq([id : Nat, dep : Nat]) /\ L \in Nat
      /\ L = 1 + (IF N = 0 THEN 0 ELSE at[N])
      /\ stk0[1] = [id |-> 0, dep |-> 0]
      /\ N # 0 => at[N] = nodes[N].dep + Followers(nodes[N].dep)
      /\ \A i \in 1 .. L - 1 :
           /\ stk0[i + 1].id \in 1 .. N /\ at[stk0[i + 1].id] = i
           /\ stk0[i + 1].dep = nodes[stk0[i + 1].id].dep
           /\ \A j \in 1 .. N : stk0[i + 1].id < j => at[j] > i
  BY SMTT(30) DEF TreeInv, IsTree, StackLeads
<1>2. /\ v \in Nat \ {0} /\ Steps \in Nat /\ v <= Steps
      /\ \A u : HasEdges(u) => u \in Nat \ {0} /\ Followers(u) \in Nat /\ (u < v => u + Followers(u) < v)
  BY LevelsEnd, LevelFacts
<1>3. nodes # <<>> => N \in 1 .. N /\ HangsNext(tree, p, info) /\ N # 0
  BY <1>1
<1>4. ASSUME N # 0
      PROVE  /\ at[N] \in Nat /\ nodes[N].dep \in Nat \ {0} /\ HasEdges(nodes[N].dep)
             /\ IF at[N] = Steps THEN Ends(nodes[N].dep) ELSE v = at[N] + 1 /\ ~Ends(nodes[N].dep)
  <2>1. N \in 1 .. N /\ nodes # <<>>
    BY <1>1, <1>4
  <2>2. at[N] \in Nat /\ HasEdges(nodes[N].dep) /\ at[N] = nodes[N].dep + Followers(nodes[N].dep)
    BY <1>1, <1>4, <2>1 DEF Hung
  <2>3. nodes[N].dep \in Nat \ {0}
    BY <1>2, <2>2
  <2>4. Ends(nodes[N].dep) <=> at[N] = Steps
    BY <2>2 DEF Ends
  <2>5. ~Ends(nodes[N].dep) => v = at[N] + 1
    BY <2>1, <2>2 DEF HangsNext, Follows, Succ
  <2> QED
    BY <2>2, <2>3, <2>4, <2>5
<1>5. v <= L
  <2>1. CASE N = 0
    <3>1. nodes = <<>>
      BY <1>1, <2>1
    <3> QED
      BY <1>1, <2>1, <3>1 DEF HangsNext
  <2>2. CASE N # 0
    BY <1>1, <1>2, <1>4, <2>2, SMTT(30)
  <2> QED
    BY <2>1, <2>2
<1>6. \A i \in 1 .. L - 1 : stk0[i + 1].dep < v <=> i < v
  <2>1. ASSUME NEW i \in 1 .. L - 1 PROVE stk0[i + 1].dep < v <=> i < v
    <3> DEFINE k == stk0[i + 1].id
    <3>1. k \in 1 .. N /\ at[k] = i /\ stk0[i + 1].dep = nodes[k].dep
      BY <1>1
    <3>2. HasEdges(nodes[k].dep) /\ nodes[k].dep <= i /\ i <= nodes[k].dep + Followers(nodes[k].dep)
      BY <1>1, <3>1 DEF Hung
    <3> DEFINE u == nodes[k].dep
    <3>3. u \in Nat \ {0} /\ Followers(u) \in Nat /\ (u < v => u + Followers(u) < v)
      BY <1>2, <3>2
    <3>4. i \in Nat
      BY <1>1
    <3> HIDE DEF k, u
    <3>5. u < v <=> i < v
      BY <1>2, <3>2, <3>3, <3>4 DEF u
    <3> QED
      BY <3>1, <3>5 DEF k, u
  <2> QED
    BY <2>1
<1>7. \A d \in 1 .. L : d \in D <=> d <= v
  <2>1. ASSUME NEW d \in 1 .. L PROVE d \in D <=> d <= v
    <3>1. CASE d = 1
      <4>1. stk0[d].dep = 0
        BY <1>1, <3>1
      <4> QED
        BY <1>1, <1>2, <3>1, <4>1 DEF Above
    <3>2. CASE d # 1
      <4>1. d - 1 \in 1 .. L - 1 /\ (d - 1) + 1 = d
        <5> HIDE DEF L, N
        <5>1. L \in Nat
          BY <1>1
        <5> QED
          BY <3>2, <5>1
      <4>2. stk0[d].dep < v <=> d - 1 < v
        BY <1>6, <4>1
      <4> QED
        BY <1>1, <1>2, <4>2, SMTT(30) DEF Above
    <3> QED
      BY <3>1, <3>2
  <2> QED
    BY <2>1
<1>8. Max(D) = v
  <2>1. v \in 1 .. L /\ D \in SUBSET (1 .. L)
    <3>1. v \in 1 .. L
      <4> HIDE DEF v, L
      <4> QED
        BY <1>1, <1>2, <1>5
    <3>2. D \in SUBSET (DOMAIN stk0) /\ DOMAIN stk0 = 1 .. L
      BY <1>1
    <3> HIDE DEF D, L
    <3> QED
      BY <3>1, <3>2
  <2>2. v \in D /\ D # {}
    BY <1>2, <1>7, <2>1
  <2> HIDE DEF D
  <2>3. Max(D) \in D /\ \A y \in D : y <= Max(D)
    BY <1>1, <2>1, <2>2, GreatestIsMax
  <2>4. Max(D) <= v /\ v <= Max(D) /\ Max(D) \in Nat
    <3>1. Max(D) \in 1 .. L
      BY <2>1, <2>3
    <3>2. Max(D) \in Nat
      BY <1>1, <3>1
    <3> QED
      BY <1>7, <2>2, <2>3, <3>1, <3>2
  <2> QED
    BY <1>2, <2>4
<1> DEFINE q == stk0[v].id
<1>9. Last(SubSeq(stk0, 1, v)).id = q
  <2>1. Len(SubSeq(stk0, 1, v)) = v /\ SubSeq(stk0, 1, v)[v] = stk0[v]
    <3>1. v \in 1 .. L /\ L \in Nat /\ v \in Nat \ {0}
      <4> HIDE DEF v, L
      <4> QED
        BY <1>1, <1>2, <1>5
    <3>2. PICK e : e = stk0
      OBVIOUS
    <3>3. PICK w : w = v
      OBVIOUS
    <3>4. e \in Seq([id : Nat, dep : Nat]) /\ w \in 0 .. Len(e) /\ w # 0
      BY <1>1, <3>1, <3>2, <3>3 DEF TreeInv
    <3>5. Len(SubSeq(e, 1, w)) = w /\ \A i \in 1 .. w : SubSeq(e, 1, w)[i] = e[i]
      BY ONLY <3>4, FirstPart
    <3>6. w \in 1 .. w
      BY <3>1, <3>3
    <3> QED
      BY <3>2, <3>3, <3>5, <3>6
  <2> QED
    BY <2>1 DEF Last
<1>10. /\ q \in 0 .. N
       /\ q = 0 <=> v = 1
       /\ q # 0 => at[q] = v - 1
       /\ \A j \in 1 .. N : q < j => at[j] >= v
  <2>1. CASE v = 1
    <3>1. q = 0
      BY <1>1, <2>1
    <3>2. \A j \in 1 .. N : at[j] >= 1
      <4>1. ASSUME NEW j \in 1 .. N PROVE at[j] >= 1
        <5>1. HasEdges(nodes[j].dep) /\ nodes[j].dep <= at[j] /\ at[j] \in Nat
          BY <1>1 DEF Hung
        <5>2. nodes[j].dep \in Nat \ {0}
          BY <1>2, <5>1
        <5> QED
          BY <5>1, <5>2
      <4> QED
        BY <4>1
    <3> QED
      BY <1>1, <2>1, <3>1, <3>2
  <2>2. CASE v # 1
    <3>1. v - 1 \in 1 .. L - 1 /\ (v - 1) + 1 = v
      BY <1>1, <1>2, <1>5, <2>2
    <3>2. q \in 1 .. N /\ at[q] = v - 1 /\ \A j \in 1 .. N : q < j => at[j] > v - 1
      BY <1>1, <3>1
    <3>3. \A j \in 1 .. N : q < j => at[j] >= v
      <4>1. \A j \in 1 .. N : at[j] \in Nat
        BY <1>1
      <4> HIDE DEF v, q
      <4>2. \A x \in Nat : x > v - 1 => x >= v
        BY <1>2
      <4> QED
        BY <3>2, <4>1, <4>2
    <3> QED
      BY <1>1, <2>2, <3>2, <3>3, SMTT(30)
  <2> QED
    BY <2>1, <2>2
<1>11. ASSUME nodes # <<>>
       PROVE  IF at[N] = Steps THEN Ends(nodes[N].dep) ELSE q = N /\ ~Ends(nodes[N].dep)
  <2>1. N # 0 /\ N \in 1 .. N
    BY <1>1, <1>11
  <2>2. CASE at[N] = Steps
    BY <1>4, <2>1, <2>2
  <2>3. CASE at[N] # Steps
    <3>1. v = at[N] + 1 /\ ~Ends(nodes[N].dep) /\ at[N] \in Nat
      BY <1>4, <2>1, <2>3
    <3>2. ~(at[N] >= v)
      BY <3>1
    <3>3. ~(q < N)
      BY <1>10, <2>1, <3>2
    <3>4. q = N
      <4>1. q \in 0 .. N /\ N \in Nat
        BY <1>1, <1>10
      <4> HIDE DEF q, N
      <4> QED
        BY ONLY <3>3, <4>1
    <3> QED
      BY <2>3, <3>1, <3>4
  <2> QED
    BY <2>2, <2>3
<1>12. HangsBelow(tree, at, v, q)
  BY <1>1, <1>2, <1>5, <1>10, <1>11 DEF HangsBelow
<1> HIDE DEF D, q
<1> QED
  BY <1>8, <1>9, <1>12 DEF D, q

(* What an entry adds to the tree.                                         *)
LEMMA AddedNodes ==
  ASSUME cfg \in Configs, NEW p, NEW at, TreeInv(tree, p, at),
         NEW info, HasEdges(info.v), info.st \in Nat, HangsNext(tree, p, info)
  PROVE  LET v == info.v
             F == Followers(v)
             N == Len(tree.nodes)
             q == tree.stk[v].id
             t == AddInfo(info)
         IN  /\ t.nodes \in Seq(NodeType) /\ Len(t.nodes) = N + 1 + F /\ F \in Nat /\ N \in Nat
             /\ \A k \in 1 .. N : t.nodes[k] = tree.nodes[k]
             /\ \A j \in 1 .. 1 + F :
                  t.nodes[N + j] = [prv |-> IF j = 1 THEN q ELSE N + j - 1, dep |-> v, st |-> info.st]
             /\ t.stk \in Seq([id : Nat, dep : Nat]) /\ Len(t.stk) = v + 1 + F
             /\ \A i \in 1 .. v : t.stk[i] = tree.stk[i]
             /\ \A j \in 1 .. 1 + F : t.stk[v + j] = [id |-> N + j, dep |-> v]
             /\ t.roots = IF v = 1 THEN Append(tree.roots, N + 1) ELSE tree.roots
<1> DEFINE v == info.v
<1> DEFINE F == Followers(v)
<1> DEFINE N == Len(tree.nodes)
<1> DEFINE q == tree.stk[v].id
<1> DEFINE stack == SubSeq(tree.stk, 1, Max({d \in DOMAIN tree.stk : Above(tree.stk[d], info)}))
<1> DEFINE first == N + 1
<1> DEFINE new == [j \in 1 .. 1 + F |-> first + j - 1]
<1> DEFINE more == [j \in DOMAIN new |-> [prv |-> IF j = 1 THEN Last(stack).id ELSE new[j - 1],
                                          dep |-> v, st |-> info.st]]
<1> DEFINE up == [j \in DOMAIN new |-> [id |-> new[j], dep |-> v]]
<1>1. AddInfo(info) = [nodes |-> tree.nodes \o more, stk |-> stack \o up,
                       roots |-> IF v = 1 THEN Append(tree.roots, first) ELSE tree.roots]
  BY DEF AddInfo
<1>2. /\ tree.nodes \in Seq(NodeType) /\ N \in Nat /\ tree.stk \in Seq([id : Nat, dep : Nat])
      /\ Len(tree.stk) \in Nat /\ v \in Nat \ {0} /\ F \in Nat
      /\ v <= Len(tree.stk) /\ q \in 0 .. N
      /\ Last(stack).id = q /\ stack = SubSeq(tree.stk, 1, v)
  <2>1. tree.nodes \in Seq(NodeType) /\ tree.stk \in Seq([id : Nat, dep : Nat])
    BY DEF TreeInv, IsTree, StackLeads
  <2>2. N \in Nat /\ Len(tree.stk) \in Nat
    BY <2>1
  <2>3. F \in Nat
    BY LevelsEnd
  <2>4. Last(stack).id = q /\ stack = SubSeq(tree.stk, 1, v) /\ HangsBelow(tree, at, v, q)
    BY Popped
  <2>5. v \in Nat \ {0} /\ v <= Len(tree.stk) /\ q \in 0 .. N
    BY <2>4 DEF HangsBelow
  <2> QED
    BY <2>1, <2>2, <2>3, <2>4, <2>5
<1> HIDE DEF stack, q, v, F, N
<1>3. DOMAIN new = 1 .. 1 + F /\ \A j \in 1 .. 1 + F : new[j] = N + j
  BY <1>2
<1> DEFINE node(j) == [prv |-> IF j = 1 THEN q ELSE N + j - 1, dep |-> v, st |-> info.st]
<1>4. /\ more = [j \in 1 .. 1 + F |-> [prv |-> IF j = 1 THEN q ELSE new[j - 1], dep |-> v, st |-> info.st]]
      /\ up = [j \in 1 .. 1 + F |-> [id |-> new[j], dep |-> v]]
  BY <1>2, <1>3
<1>5. \A j \in 1 .. 1 + F : more[j] = node(j) /\ up[j] = [id |-> N + j, dep |-> v]
  <2>1. ASSUME NEW j \in 1 .. 1 + F PROVE more[j] = node(j) /\ up[j] = [id |-> N + j, dep |-> v]
    <3>1. j # 1 => j - 1 \in 1 .. 1 + F
      BY <1>2
    <3>2. j # 1 => new[j - 1] = N + j - 1
      <4>1. j # 1 => new[j - 1] = N + (j - 1)
        BY <1>3, <3>1
      <4> QED
        BY <1>2, <4>1
    <3> QED
      BY <1>3, <1>4, <3>2
  <2> QED
    BY <2>1
<1>6. more \in [1 .. 1 + F -> NodeType] /\ up \in [1 .. 1 + F -> [id : Nat, dep : Nat]]
  <2>1. \A j \in 1 .. 1 + F : node(j) \in NodeType /\ [id |-> N + j, dep |-> v] \in [id : Nat, dep : Nat]
    <3>1. ASSUME NEW j \in 1 .. 1 + F PROVE node(j) \in NodeType /\ [id |-> N + j, dep |-> v] \in [id : Nat, dep : Nat]
      <4>1. j \in Nat /\ N + j \in Nat /\ (j # 1 => N + j - 1 \in Nat) /\ q \in Nat
        BY <1>2
      <4> QED
        BY <1>2, <4>1 DEF NodeType
    <3> QED
      BY <3>1
  <2>2. \A j \in 1 .. 1 + F : more[j] \in NodeType /\ up[j] \in [id : Nat, dep : Nat]
    <3> HIDE DEF more, up, node
    <3> QED
      BY <1>5, <2>1
  <2>3. DOMAIN more = 1 .. 1 + F /\ DOMAIN up = 1 .. 1 + F
    BY <1>3
  <2>4. more = [j \in 1 .. 1 + F |-> more[j]] /\ up = [j \in 1 .. 1 + F |-> up[j]]
    BY <2>3
  <2> HIDE DEF more, up, node
  <2> QED
    BY <2>2, <2>4
<1> HIDE DEF more, up, new
<1>7. PICK a, b, c, d : a = tree.nodes /\ b = more /\ c = stack /\ d = up
  OBVIOUS
<1> DEFINE Pairs == [id : Nat, dep : Nat]
<1> HIDE DEF Pairs
<1>15. PICK m : m = 1 + F
  OBVIOUS
<1>8. m \in Nat /\ b \in [1 .. m -> NodeType] /\ d \in [1 .. m -> Pairs] /\ a \in Seq(NodeType) /\ Len(a) = N
  BY <1>2, <1>6, <1>7, <1>15, SMTT(30) DEF N, Pairs
<1>9. c \in Seq(Pairs) /\ Len(c) = v /\ \A i \in 1 .. v : c[i] = tree.stk[i]
  <2>1. PICK e : e = tree.stk
    OBVIOUS
  <2>2. e \in Seq(Pairs) /\ v \in 0 .. Len(e)
    BY <1>2, <2>1 DEF Pairs
  <2>3. SubSeq(e, 1, v) \in Seq(Pairs) /\ Len(SubSeq(e, 1, v)) = v /\ \A i \in 1 .. v : SubSeq(e, 1, v)[i] = e[i]
    BY <2>2, FirstPart
  <2> QED
    BY <1>2, <1>7, <2>1, <2>3
<1>10. /\ a \o b \in Seq(NodeType) /\ Len(a \o b) = N + 1 + F
       /\ \A k \in 1 .. N : (a \o b)[k] = a[k]
       /\ \A j \in 1 .. 1 + F : (a \o b)[N + j] = b[j]
  <2>1. /\ a \o b \in Seq(NodeType) /\ Len(a \o b) = Len(a) + m
        /\ \A k \in 1 .. Len(a) : (a \o b)[k] = a[k]
        /\ \A j \in 1 .. m : (a \o b)[Len(a) + j] = b[j]
    <3>1. a \in Seq(NodeType) /\ m \in Nat /\ b \in [1 .. m -> NodeType]
      BY <1>8
    <3> QED
      BY ONLY <3>1, WithMore
  <2>2. Len(a) = N /\ Len(a) + m = N + 1 + F
    BY <1>2, <1>8, <1>15
  <2> QED
    BY <1>15, <2>1, <2>2, Zenon
<1>11. /\ c \o d \in Seq(Pairs) /\ Len(c \o d) = v + 1 + F
       /\ \A k \in 1 .. v : (c \o d)[k] = c[k]
       /\ \A j \in 1 .. 1 + F : (c \o d)[v + j] = d[j]
  <2>1. /\ c \o d \in Seq(Pairs) /\ Len(c \o d) = Len(c) + m
        /\ \A k \in 1 .. Len(c) : (c \o d)[k] = c[k]
        /\ \A j \in 1 .. m : (c \o d)[Len(c) + j] = d[j]
    <3>1. c \in Seq(Pairs) /\ m \in Nat /\ d \in [1 .. m -> Pairs]
      BY <1>8, <1>9
    <3> QED
      BY ONLY <3>1, WithMore
  <2>2. Len(c) = v /\ Len(c) + m = v + 1 + F
    BY <1>2, <1>9, <1>15
  <2> QED
    BY <1>15, <2>1, <2>2, Zenon
<1>12. /\ AddInfo(info).nodes = a \o b /\ AddInfo(info).stk = c \o d
       /\ AddInfo(info).roots = IF v = 1 THEN Append(tree.roots, N + 1) ELSE tree.roots
  BY <1>1, <1>7
<1>13. /\ \A k \in 1 .. N : (a \o b)[k] = tree.nodes[k]
       /\ \A j \in 1 .. 1 + F : (a \o b)[N + j] = node(j)
       /\ \A i \in 1 .. v : (c \o d)[i] = tree.stk[i]
       /\ \A j \in 1 .. 1 + F : (c \o d)[v + j] = [id |-> N + j, dep |-> v]
  <2> HIDE DEF node
  <2> QED
    BY <1>5, <1>7, <1>9, <1>10, <1>11, ZenonT(60)
<1>14. /\ AddInfo(info).nodes \in Seq(NodeType) /\ Len(AddInfo(info).nodes) = N + 1 + F /\ F \in Nat /\ N \in Nat
       /\ \A k \in 1 .. N : AddInfo(info).nodes[k] = tree.nodes[k]
       /\ \A j \in 1 .. 1 + F : AddInfo(info).nodes[N + j] = node(j)
       /\ AddInfo(info).stk \in Seq([id : Nat, dep : Nat]) /\ Len(AddInfo(info).stk) = v + 1 + F
       /\ \A i \in 1 .. v : AddInfo(info).stk[i] = tree.stk[i]
       /\ \A j \in 1 .. 1 + F : AddInfo(info).stk[v + j] = [id |-> N + j, dep |-> v]
       /\ AddInfo(info).roots = IF v = 1 THEN Append(tree.roots, N + 1) ELSE tree.roots
  <2> HIDE DEF node
  <2> QED
    BY <1>2, <1>10, <1>11, <1>12, <1>13 DEF Pairs
<1> QED
  BY <1>14 DEF N, F, v, q

(* An entry of level v for subtask s is hung below node q.                 *)
EntryComes(nodes, p, at, v, s, q) ==
  /\ s \in Nat /\ s \in DOMAIN p /\ q \in 0 .. Len(nodes)
  /\ q = 0 <=> v = 1
  /\ q # 0 => at[q] = v - 1
  /\ \A j \in 1 .. Len(nodes) : q < j => at[j] >= v
  /\ IF nodes = <<>> THEN s = 1
     ELSE IF at[Len(nodes)] = Steps
     THEN /\ s = nodes[Len(nodes)].st + 1
          /\ Differ(p[nodes[Len(nodes)].st], p[s], v)
     ELSE q = Len(nodes) /\ s = nodes[Len(nodes)].st

(* The nodes of a tree with those of the entry after them. *)
EntryAdded(nodes, new, v, s, q) ==
  /\ new \in Seq(NodeType) /\ Len(new) = Len(nodes) + 1 + Followers(v)
  /\ \A k \in 1 .. Len(nodes) : new[k] = nodes[k]
  /\ \A j \in 1 .. 1 + Followers(v) :
       new[Len(nodes) + j] = [prv |-> IF j = 1 THEN q ELSE Len(nodes) + j - 1, dep |-> v, st |-> s]

(* The nodes with them are a tree, as deep where they were as before. *)
Continues(nodes, new, p, at, at2, v) ==
  /\ IsTree(new, p, at2)
  /\ \A k \in 1 .. Len(nodes) : at2[k] = at[k]
  /\ \A j \in 1 .. 1 + Followers(v) : at2[Len(nodes) + j] = v + j - 1

(* The nodes of an entry continue a tree.                                  *)
LEMMA TreeGrows ==
  ASSUME cfg \in Configs, NEW p, NEW at, NEW nodes, IsTree(nodes, p, at),
         NEW v, HasEdges(v), NEW s, NEW q, EntryComes(nodes, p, at, v, s, q),
         NEW new, EntryAdded(nodes, new, v, s, q)
  PROVE  \E at2 : Continues(nodes, new, p, at, at2, v)
<1>0. /\ s \in Nat /\ s \in DOMAIN p /\ q \in 0 .. Len(nodes)
      /\ q = 0 <=> v = 1
      /\ q # 0 => at[q] = v - 1
      /\ \A j \in 1 .. Len(nodes) : q < j => at[j] >= v
      /\ IF nodes = <<>> THEN s = 1
         ELSE IF at[Len(nodes)] = Steps
         THEN /\ s = nodes[Len(nodes)].st + 1
              /\ Differ(p[nodes[Len(nodes)].st], p[s], v)
         ELSE q = Len(nodes) /\ s = nodes[Len(nodes)].st
  BY DEF EntryComes
<1>13. /\ new \in Seq(NodeType) /\ Len(new) = Len(nodes) + 1 + Followers(v)
       /\ \A k \in 1 .. Len(nodes) : new[k] = nodes[k]
       /\ \A j \in 1 .. 1 + Followers(v) :
            new[Len(nodes) + j] = [prv |-> IF j = 1 THEN q ELSE Len(nodes) + j - 1, dep |-> v, st |-> s]
  BY DEF EntryAdded
<1> DEFINE N == Len(nodes)
<1> DEFINE F == Followers(v)
<1> DEFINE M == N + 1 + F
<1> DEFINE at2 == [k \in 1 .. M |-> IF k <= N THEN at[k] ELSE v + (k - N) - 1]
<1>1. /\ N \in Nat /\ F \in Nat /\ M \in Nat /\ v \in Nat \ {0} /\ Steps \in Nat /\ v + F <= Steps
      /\ nodes \in Seq(NodeType) /\ at \in [1 .. N -> Nat]
      /\ \A k \in 1 .. N : Hung(nodes, at, k) /\ nodes[k].st \in DOMAIN p
      /\ \A k \in 1 .. N - 1 : GoesOn(nodes, p, at, k)
      /\ nodes # <<>> => nodes[1].st = 1
  <2>1. nodes \in Seq(NodeType)
    BY DEF IsTree
  <2>2. N \in Nat
    BY <2>1
  <2>3. F \in Nat /\ v \in Nat \ {0} /\ Steps \in Nat /\ v + F <= Steps
    BY LevelsEnd, LevelFacts
  <2>4. M \in Nat
    BY <2>2, <2>3
  <2> QED
    BY <2>1, <2>2, <2>3, <2>4 DEF IsTree
<1>2. nodes = <<>> <=> N = 0
  BY <1>1
<1> HIDE DEF N, F
<1>3. \A k \in 1 .. N : k \in 1 .. M /\ at2[k] = at[k] /\ at[k] \in Nat /\ new[k] = nodes[k]
  <2>1. \A k \in 1 .. N : new[k] = nodes[k]
    BY <1>13 DEF N
  <2> QED
    BY <1>1, <2>1
<1>4. \A k \in N + 1 .. M : /\ k \in 1 .. M /\ k \in Nat /\ ~(k <= N) /\ at2[k] = v + (k - N) - 1
                            /\ new[k].prv = (IF k = N + 1 THEN q ELSE k - 1) /\ new[k].dep = v /\ new[k].st = s
  <2>1. ASSUME NEW k \in N + 1 .. M
        PROVE  /\ k \in 1 .. M /\ k \in Nat /\ ~(k <= N) /\ at2[k] = v + (k - N) - 1
               /\ new[k].prv = (IF k = N + 1 THEN q ELSE k - 1) /\ new[k].dep = v /\ new[k].st = s
    <3>1. k \in 1 .. M /\ k \in Nat /\ ~(k <= N)
      BY <1>1
    <3>2. k - N \in 1 .. 1 + F /\ N + (k - N) = k /\ N + (k - N) - 1 = k - 1 /\ (k - N = 1 <=> k = N + 1)
      BY <1>1
    <3>3. new[N + (k - N)] = [prv |-> IF k - N = 1 THEN q ELSE N + (k - N) - 1, dep |-> v, st |-> s]
      BY <1>13, <3>2 DEF N, F
    <3>4. new[k].prv = (IF k - N = 1 THEN q ELSE N + (k - N) - 1) /\ new[k].dep = v /\ new[k].st = s
      BY <3>2, <3>3
    <3>5. at2[k] = v + (k - N) - 1
      BY <3>1
    <3> QED
      BY <3>1, <3>2, <3>4, <3>5
  <2> QED
    BY <2>1
<1>5. at2 \in [1 .. M -> Nat]
  <2>1. \A k \in 1 .. M : at2[k] \in Nat
    <3>1. ASSUME NEW k \in 1 .. M PROVE at2[k] \in Nat
      <4>1. CASE k <= N
        <5>1. k \in 1 .. N
          BY <1>1, <4>1
        <5> QED
          BY <1>3, <5>1
      <4>2. CASE ~(k <= N)
        BY <1>1, <4>2
      <4> QED
        BY <4>1, <4>2
    <3> QED
      BY <3>1
  <2> QED
    BY <2>1
<1> HIDE DEF at2
<1>6. \A k \in 1 .. M : k \in 1 .. N \/ k \in N + 1 .. M
  BY <1>1
<1>7. ASSUME NEW k \in 1 .. M PROVE Hung(new, at2, k) /\ new[k].st \in DOMAIN p
  <2>1. CASE k \in 1 .. N
    <3>1. Hung(nodes, at, k) /\ nodes[k].st \in DOMAIN p /\ new[k] = nodes[k] /\ at2[k] = at[k]
      BY <1>1, <1>3, <2>1
    <3>2. \A j \in 1 .. k - 1 : j \in 1 .. N
      BY <1>1, <2>1
    <3>3. nodes[k].prv \in Nat
      <4>1. nodes[k] \in NodeType
        BY <1>1, <2>1 DEF N
      <4> QED
        BY <4>1 DEF NodeType
    <3>4. nodes[k].prv # 0 => at2[nodes[k].prv] = at[nodes[k].prv]
      <4>1. nodes[k].prv # 0 => nodes[k].prv \in 1 .. N
        <5>1. nodes[k].prv < k
          BY <3>1 DEF Hung
        <5>2. PICK x : x = nodes[k].prv
          OBVIOUS
        <5>3. x \in Nat /\ x < k
          BY <3>3, <5>1, <5>2
        <5>4. x # 0 => x \in 1 .. N
          BY <1>1, <2>1, <5>3
        <5> QED
          BY <5>2, <5>4
      <4> QED
        BY <1>3, <4>1
    <3> QED
      BY <1>3, <3>1, <3>2, <3>4 DEF Hung
  <2>2. CASE k \in N + 1 .. M
    <3>1. /\ new[k].prv = (IF k = N + 1 THEN q ELSE k - 1) /\ new[k].dep = v /\ new[k].st = s
          /\ at2[k] = v + (k - N) - 1 /\ k \in Nat
      BY <1>4, <2>2
    <3>2. v <= at2[k] /\ at2[k] <= v + F
      BY <1>1, <2>2, <3>1
    <3>3. CASE k = N + 1
      <4>1. at2[k] = v
        BY <1>1, <3>1, <3>3
      <4>2. new[k].prv = q /\ q \in Nat /\ q < k
        BY <1>0, <1>1, <3>1, <3>3 DEF N
      <4>3. at2[k] = IF q = 0 THEN 1 ELSE at2[q] + 1
        <5>1. q # 0 => q \in 1 .. N
          BY <1>0, <1>1 DEF N
        <5>2. q # 0 => at2[q] = v - 1
          BY <1>0, <1>3, <5>1
        <5>3. q = 0 <=> v = 1
          BY <1>0
        <5> QED
          BY <1>1, <4>1, <5>2, <5>3
      <4>4. \A j \in 1 .. k - 1 : q < j => at2[j] >= v
        <5>1. \A j \in 1 .. k - 1 : j \in 1 .. N
          BY <1>1, <3>3
        <5>2. \A j \in 1 .. N : q < j => at[j] >= v
          BY <1>0 DEF N
        <5> QED
          BY <1>3, <5>1, <5>2
      <4> QED
        BY <1>0, <3>1, <3>2, <4>1, <4>2, <4>3, <4>4 DEF Hung, F
    <3>4. CASE k # N + 1
      <4>1. k - 1 \in N + 1 .. M /\ k - 1 \in Nat /\ k - 1 # 0 /\ k - 1 < k
        BY <1>1, <2>2, <3>4
      <4>2. at2[k - 1] = v + ((k - 1) - N) - 1
        BY <1>4, <4>1
      <4>3. at2[k] = at2[k - 1] + 1
        BY <1>1, <3>1, <4>1, <4>2
      <4>4. \A j \in 1 .. k - 1 : ~(k - 1 < j)
        BY <3>1
      <4> QED
        BY <1>0, <3>1, <3>2, <3>4, <4>1, <4>3, <4>4 DEF Hung, F
    <3> QED
      BY <3>3, <3>4
  <2> QED
    BY <1>6, <2>1, <2>2
<1>8. ASSUME NEW k \in 1 .. M - 1 PROVE GoesOn(new, p, at2, k)
  <2>0. k + 1 \in 1 .. M /\ k \in 1 .. M /\ k \in Nat
    BY <1>1
  <2>1. CASE k \in 1 .. N - 1
    <3>1. k \in 1 .. N /\ k + 1 \in 1 .. N
      BY <1>1, <2>1, SMTT(30)
    <3>2. GoesOn(nodes, p, at, k)
      BY <1>1, <2>1
    <3> QED
      BY <1>3, <3>1, <3>2 DEF GoesOn
  <2>2. CASE k = N /\ N # 0
    <3>1. N \in 1 .. N /\ N + 1 \in N + 1 .. M /\ nodes # <<>>
      <4>1. nodes # <<>>
        BY <1>2, <2>2
      <4>2. N \in 1 .. N /\ N + 1 \in N + 1 .. M
        BY <1>1, <2>2
      <4> QED
        BY <4>1, <4>2
    <3>2. new[N] = nodes[N] /\ at2[N] = at[N]
      BY <1>3, <3>1
    <3>3. new[N + 1].prv = q /\ new[N + 1].dep = v /\ new[N + 1].st = s /\ at2[N + 1] = v
      <4>1. at2[N + 1] = v + ((N + 1) - N) - 1
        BY <1>4, <3>1
      <4>2. at2[N + 1] = v
        BY <1>1, <4>1
      <4> QED
        BY <1>4, <3>1, <4>2
    <3>4. IF at[N] = Steps
          THEN s = nodes[N].st + 1 /\ Differ(p[nodes[N].st], p[s], v)
          ELSE q = N /\ s = nodes[N].st
      BY <1>0, <3>1 DEF N
    <3> QED
      BY <2>2, <3>2, <3>3, <3>4 DEF GoesOn
  <2>3. CASE k \in N + 1 .. M - 1
    <3>1. k \in N + 1 .. M /\ k + 1 \in N + 1 .. M /\ k + 1 # N + 1 /\ (k + 1) - 1 = k
      BY <1>1, <2>3
    <3>2. new[k].st = s /\ new[k + 1].st = s /\ new[k + 1].prv = k /\ at2[k] = v + (k - N) - 1
      BY <1>4, <3>1
    <3>3. at2[k] # Steps
      BY <1>1, <2>3, <3>2
    <3> QED
      BY <3>2, <3>3 DEF GoesOn
  <2>4. k \in 1 .. N - 1 \/ (k = N /\ N # 0) \/ k \in N + 1 .. M - 1
    BY <1>1, <2>0
  <2> QED
    BY <2>1, <2>2, <2>3, <2>4
<1>9. new[1].st = 1
  <2>1. CASE N = 0
    <3>1. 1 \in N + 1 .. M
      BY <1>1, <2>1
    <3>2. new[1].st = s
      BY <1>4, <3>1
    <3>3. s = 1
      BY <1>0, <1>2, <2>1
    <3> QED
      BY <3>2, <3>3
  <2>2. CASE N # 0
    <3>1. 1 \in 1 .. N
      BY <1>1, <2>2
    <3> QED
      BY <1>1, <1>2, <1>3, <2>2, <3>1
  <2> QED
    BY <2>1, <2>2
<1>10. Len(new) = M
  BY <1>13 DEF N, F
<1>11. IsTree(new, p, at2)
  BY <1>5, <1>7, <1>8, <1>9, <1>10, <1>13 DEF IsTree
<1>12. \A j \in 1 .. 1 + F : at2[N + j] = v + j - 1
  <2>1. ASSUME NEW j \in 1 .. 1 + F PROVE at2[N + j] = v + j - 1
    <3>1. N + j \in N + 1 .. M /\ j \in Nat
      BY <1>1, SMTT(30)
    <3>2. at2[N + j] = v + ((N + j) - N) - 1
      BY <1>4, <3>1, SMTT(30)
    <3> QED
      BY <1>1, <3>1, <3>2
  <2> QED
    BY <2>1
<1> QED
  BY <1>3, <1>11, <1>12 DEF Continues, N, F

(* Tree u is tree t, of N nodes, with the nodes of an entry of level v and *)
(* F followers, the first of them hung below the v-th entry of the stack.  *)
Grown(t, u, at, at2, v, N, F) ==
  /\ N = Len(t.nodes) /\ F = Followers(v) /\ v <= Len(t.stk)
  /\ Len(u.nodes) = N + 1 + F
  /\ \A k \in 1 .. N : u.nodes[k] = t.nodes[k] /\ at2[k] = at[k]
  /\ \A j \in 1 .. 1 + F : u.nodes[N + j].dep = v /\ at2[N + j] = v + j - 1
  /\ \A j \in 1 .. N : t.stk[v].id < j => at[j] >= v
  /\ u.stk \in Seq([id : Nat, dep : Nat]) /\ Len(u.stk) = v + 1 + F
  /\ \A i \in 1 .. v : u.stk[i] = t.stk[i]
  /\ \A j \in 1 .. 1 + F : u.stk[v + j] = [id |-> N + j, dep |-> v]

(* The stack of a tree leads to its last node, with the new nodes on top.  *)
LEMMA StackGrows ==
  ASSUME cfg \in Configs, NEW t, NEW u, NEW at, NEW at2, StackLeads(t, at),
         NEW v, HasEdges(v), NEW N \in Nat, NEW F \in Nat, Grown(t, u, at, at2, v, N, F)
  PROVE  StackLeads(u, at2)
<1> DEFINE M == N + 1 + F
<1>1. /\ F \in Nat /\ v \in Nat \ {0} /\ M \in Nat /\ M \in 1 .. M
  <2>1. F \in Nat /\ v \in Nat \ {0}
    BY LevelsEnd
  <2> QED
    BY <2>1
<1>2. /\ t.stk[1] = [id |-> 0, dep |-> 0]
      /\ \A i \in 1 .. Len(t.stk) - 1 :
           /\ t.stk[i + 1].id \in 1 .. N /\ at[t.stk[i + 1].id] = i
           /\ t.stk[i + 1].dep = t.nodes[t.stk[i + 1].id].dep
           /\ \A j \in 1 .. N : t.stk[i + 1].id < j => at[j] > i
      /\ Len(t.stk) \in Nat /\ v <= Len(t.stk)
  <2>1. Len(t.stk) \in Nat
    BY DEF StackLeads
  <2>2. N = Len(t.nodes) /\ v <= Len(t.stk)
    BY DEF Grown
  <2> QED
    BY <2>1, <2>2 DEF StackLeads
<1> HIDE DEF Grown
<1>3. ASSUME NEW k \in 1 .. M, ~(k \in 1 .. N)
      PROVE  /\ k - N \in 1 .. 1 + F /\ N + (k - N) = k
             /\ u.nodes[k].dep = v /\ at2[k] = v + (k - N) - 1
  <2>1. k - N \in 1 .. 1 + F /\ N + (k - N) = k
    BY <1>1, <1>3
  <2>2. u.nodes[N + (k - N)].dep = v /\ at2[N + (k - N)] = v + (k - N) - 1
    BY <2>1 DEF Grown
  <2> QED
    BY <2>1, <2>2
<1>4. Len(u.nodes) = M /\ Len(u.stk) = v + 1 + F
  BY DEF Grown
<1>5. at2[M] = v + F /\ u.nodes[M].dep = v
  <2>1. ~(M \in 1 .. N)
    BY <1>1
  <2>2. u.nodes[M].dep = v /\ at2[M] = v + (M - N) - 1
    BY <1>1, <1>3, <2>1
  <2> QED
    BY <1>1, <2>2
<1>6. u.stk[Len(u.stk)].id = M
  <2>1. 1 + F \in 1 .. 1 + F
    BY <1>1
  <2>2. u.stk[v + (1 + F)] = [id |-> N + (1 + F), dep |-> v]
    BY <2>1 DEF Grown
  <2>3. v + (1 + F) = v + 1 + F /\ N + (1 + F) = M
    BY <1>1
  <2> QED
    BY <1>4, <2>2, <2>3
<1>7. u.stk[1] = [id |-> 0, dep |-> 0]
  <2>1. 1 \in 1 .. v
    BY <1>1
  <2>2. u.stk[1] = t.stk[1]
    BY <2>1 DEF Grown
  <2> QED
    BY <1>2, <2>2
<1>8. ASSUME NEW i \in 1 .. Len(u.stk) - 1
      PROVE  /\ u.stk[i + 1].id \in 1 .. M /\ at2[u.stk[i + 1].id] = i
             /\ u.stk[i + 1].dep = u.nodes[u.stk[i + 1].id].dep
             /\ \A j \in 1 .. M : u.stk[i + 1].id < j => at2[j] > i
  <2>1. i \in Nat \ {0} /\ i <= v + F
    BY <1>1, <1>4
  <2>2. CASE i < v
    <3>1. i + 1 \in 1 .. v /\ i \in 1 .. Len(t.stk) - 1
      BY <1>1, <1>2, <2>1, <2>2
    <3>2. u.stk[i + 1] = t.stk[i + 1]
      BY <3>1 DEF Grown
    <3> DEFINE k == t.stk[i + 1].id
    <3>3. /\ k \in 1 .. N /\ at[k] = i /\ t.stk[i + 1].dep = t.nodes[k].dep
          /\ \A j \in 1 .. N : k < j => at[j] > i
      BY <1>2, <3>1
    <3> HIDE DEF k
    <3>4. k \in 1 .. M /\ at2[k] = i /\ u.nodes[k] = t.nodes[k]
      <4>1. u.nodes[k] = t.nodes[k] /\ at2[k] = at[k]
        BY <3>3 DEF Grown
      <4> QED
        BY <1>1, <3>3, <4>1 DEF M
    <3>5. ASSUME NEW j \in 1 .. M, k < j PROVE at2[j] > i
      <4>1. CASE j \in 1 .. N
        <5>1. at2[j] = at[j]
          BY <4>1 DEF Grown
        <5> QED
          BY <3>3, <3>5, <4>1, <5>1
      <4>2. CASE ~(j \in 1 .. N)
        <5>1. j - N \in 1 .. 1 + F /\ at2[j] = v + (j - N) - 1
          BY <1>3, <4>2
        <5> QED
          BY <1>1, <2>1, <2>2, <5>1
      <4> QED
        BY <4>1, <4>2
    <3> QED
      BY <3>2, <3>3, <3>4, <3>5 DEF k
  <2>3. CASE ~(i < v)
    <3> DEFINE m == i + 1 - v
    <3>1. m \in 1 .. 1 + F /\ v + m = i + 1 /\ N + m \in 1 .. M /\ ~(N + m \in 1 .. N) /\ (N + m) - N = m /\ m \in Nat
      BY <1>1, <2>1, <2>3
    <3>2. u.stk[v + m] = [id |-> N + m, dep |-> v]
      BY <3>1 DEF Grown
    <3>3. u.stk[i + 1].id = N + m /\ u.stk[i + 1].dep = v
      BY <3>1, <3>2
    <3>4. u.nodes[N + m].dep = v /\ at2[N + m] = v + ((N + m) - N) - 1
      BY <1>3, <3>1
    <3>5. at2[N + m] = i
      BY <1>1, <2>1, <3>1, <3>4
    <3>6. ASSUME NEW j \in 1 .. M, N + m < j PROVE at2[j] > i
      <4>1. ~(j \in 1 .. N)
        BY <3>1, <3>6
      <4>2. at2[j] = v + (j - N) - 1
        BY <1>3, <4>1
      <4> QED
        BY <1>1, <2>1, <3>1, <3>6, <4>2
    <3> QED
      BY <3>1, <3>3, <3>4, <3>5, <3>6
  <2> QED
    BY <2>2, <2>3
<1>9. Len(u.stk) = 1 + (IF M = 0 THEN 0 ELSE at2[M]) /\ M # 0
  BY <1>1, <1>4, <1>5
<1>10. at2[M] = u.nodes[M].dep + Followers(u.nodes[M].dep)
  BY <1>5 DEF Grown
<1> QED
  <2>1. u.stk \in Seq([id : Nat, dep : Nat])
    BY DEF Grown
  <2> QED
    BY <1>4, <1>6, <1>7, <1>8, <1>9, <1>10, <2>1 DEF StackLeads

(* What the next entry says of the last node.                              *)
LEMMA NextOfLast ==
  ASSUME cfg \in Configs, NEW t, NEW p, NEW at, TreeInv(t, p, at), t.nodes # <<>>,
         NEW info, HangsNext(t, p, info), info.st \in DOMAIN p
  PROVE  LET last == t.nodes[Len(t.nodes)]
         IN  IF Ends(last.dep)
             THEN info.st = last.st + 1 /\ Differ(p[last.st], p[info.st], info.v)
             ELSE info.st = last.st
BY DEF HangsNext, Follows

(* The tree with an entry hung in it is a tree. *)
LEMMA AddInfoTree ==
  ASSUME cfg \in Configs, NEW p, NEW at, TreeInv(tree, p, at),
         NEW info, HasEdges(info.v), info.st \in Nat, info.st \in DOMAIN p, HangsNext(tree, p, info)
  PROVE  LET t == AddInfo(info)
         IN  /\ \E at2 : TreeInv(t, p, at2)
             /\ t.nodes # <<>>
             /\ t.nodes[Len(t.nodes)].dep = info.v /\ t.nodes[Len(t.nodes)].st = info.st
<1> DEFINE u == AddInfo(info)
<1> DEFINE v == info.v
<1> DEFINE s == info.st
<1> DEFINE nodes == tree.nodes
<1> DEFINE N == Len(tree.nodes)
<1> DEFINE F == Followers(v)
<1> DEFINE q == tree.stk[v].id
<1>1. /\ u.nodes \in Seq(NodeType) /\ Len(u.nodes) = N + 1 + F /\ F \in Nat /\ N \in Nat
      /\ \A k \in 1 .. N : u.nodes[k] = nodes[k]
      /\ \A j \in 1 .. 1 + F : u.nodes[N + j] = [prv |-> IF j = 1 THEN q ELSE N + j - 1, dep |-> v, st |-> s]
      /\ u.stk \in Seq([id : Nat, dep : Nat]) /\ Len(u.stk) = v + 1 + F
      /\ \A i \in 1 .. v : u.stk[i] = tree.stk[i]
      /\ \A j \in 1 .. 1 + F : u.stk[v + j] = [id |-> N + j, dep |-> v]
      /\ u.roots = IF v = 1 THEN Append(tree.roots, N + 1) ELSE tree.roots
  BY AddedNodes
<1>2. /\ v \in Nat \ {0} /\ v <= Len(tree.stk) /\ q \in 0 .. N
      /\ q = 0 <=> v = 1
      /\ q # 0 => at[q] = v - 1
      /\ \A j \in 1 .. N : q < j => at[j] >= v
      /\ nodes # <<>> => IF at[N] = Steps THEN Ends(nodes[N].dep) ELSE q = N /\ ~Ends(nodes[N].dep)
  <2>1. HangsBelow(tree, at, v, q)
    BY Popped
  <2> QED
    BY <2>1 DEF HangsBelow
<1>3. IsTree(nodes, p, at) /\ StackLeads(tree, at) /\ tree.roots \in Seq(Nat) /\ ToSet(tree.roots) = Below(nodes, 0)
  BY DEF TreeInv
<1>4. HasEdges(v) /\ s \in Nat /\ s \in DOMAIN p /\ Len(nodes) = N /\ (nodes = <<>> => s = 1)
  BY DEF HangsNext
<1>5. IF nodes = <<>> THEN s = 1
      ELSE IF at[N] = Steps
      THEN s = nodes[N].st + 1 /\ Differ(p[nodes[N].st], p[s], v)
      ELSE q = N /\ s = nodes[N].st
  <2>1. nodes # <<>> =>
          IF Ends(nodes[N].dep)
          THEN s = nodes[N].st + 1 /\ Differ(p[nodes[N].st], p[s], v)
          ELSE s = nodes[N].st
    BY NextOfLast
  <2> QED
    BY <1>2, <1>4, <2>1
<1> HIDE DEF u, v, s, nodes, N, F, q
<1>6. PICK at2 :
        /\ IsTree(u.nodes, p, at2)
        /\ \A k \in 1 .. N : at2[k] = at[k]
        /\ \A j \in 1 .. 1 + F : at2[N + j] = v + j - 1
  <2>1. EntryComes(nodes, p, at, v, s, q)
    BY <1>2, <1>4, <1>5 DEF EntryComes
  <2>2. EntryAdded(nodes, u.nodes, v, s, q)
    BY <1>1, <1>4 DEF EntryAdded, F
  <2>3. \E at2 : Continues(nodes, u.nodes, p, at, at2, v)
    <3>1. cfg \in Configs /\ IsTree(nodes, p, at) /\ HasEdges(v)
      BY <1>3, <1>4
    <3> QED
      BY ONLY <2>1, <2>2, <3>1, TreeGrows
  <2> QED
    BY <1>4, <2>3 DEF Continues, F
<1>7. \A j \in 1 .. 1 + F : /\ u.nodes[N + j].prv = (IF j = 1 THEN q ELSE N + j - 1)
                            /\ u.nodes[N + j].dep = v /\ u.nodes[N + j].st = s
  <2>1. ASSUME NEW j \in 1 .. 1 + F
        PROVE  /\ u.nodes[N + j].prv = (IF j = 1 THEN q ELSE N + j - 1)
               /\ u.nodes[N + j].dep = v /\ u.nodes[N + j].st = s
    <3>1. u.nodes[N + j] = [prv |-> IF j = 1 THEN q ELSE N + j - 1, dep |-> v, st |-> s]
      BY <1>1
    <3> QED
      BY <3>1
  <2> QED
    BY <2>1
<1>8. StackLeads(u, at2)
  <2>1. Grown(tree, u, at, at2, v, N, F)
    BY <1>1, <1>2, <1>6, <1>7 DEF Grown, nodes, N, q, F
  <2> QED
    BY <1>1, <1>3, <1>4, <2>1, StackGrows
<1>9. Below(u.nodes, 0) = Below(nodes, 0) \cup (IF v = 1 THEN {N + 1} ELSE {})
  <2>1. DOMAIN u.nodes = 1 .. N + 1 + F /\ DOMAIN nodes = 1 .. N
    BY <1>1, <1>3, <1>4, SMTT(30) DEF IsTree
  <2>2. ASSUME NEW k PROVE k \in Below(u.nodes, 0) <=> k \in Below(nodes, 0) \/ (k = N + 1 /\ v = 1)
    <3>1. CASE k \in 1 .. N
      <4>1. k \in 1 .. N + 1 + F /\ k # N + 1 /\ u.nodes[k] = nodes[k]
        BY <1>1, <3>1, SMTT(30)
      <4> QED
        BY <2>1, <3>1, <4>1 DEF Below
    <3>2. CASE k \in N + 1 .. N + 1 + F
      <4>1. k - N \in 1 .. 1 + F /\ N + (k - N) = k /\ k \in 1 .. N + 1 + F /\ ~(k \in 1 .. N)
            /\ (k - N = 1 <=> k = N + 1)
        BY <1>1, <3>2
      <4>2. k \in Below(u.nodes, 0) <=> k = N + 1 /\ v = 1
        <5>1. u.nodes[k].prv = IF k - N = 1 THEN q ELSE N + (k - N) - 1
          <6>1. PICK j : j = k - N
            OBVIOUS
          <6>2. u.nodes[N + j].prv = IF j = 1 THEN q ELSE N + j - 1
            BY <1>7, <4>1, <6>1
          <6> QED
            BY <4>1, <6>1, <6>2
        <5>2. CASE k = N + 1
          <6>1. k - N = 1 /\ k \in 1 .. N + 1 + F
            BY <1>1, <5>2
          <6>2. u.nodes[k].prv = q
            BY <5>1, <6>1
          <6> QED
            BY <1>2, <2>1, <5>2, <6>1, <6>2 DEF Below
        <5>3. CASE k # N + 1
          <6>1. u.nodes[k].prv # 0
            BY <1>1, <3>2, <5>1, <5>3
          <6> QED
            BY <5>3, <6>1 DEF Below
        <5> QED
          BY <5>2, <5>3
      <4>3. k \notin Below(nodes, 0)
        <5>1. ~(k \in 1 .. N)
          BY <1>1, <3>2
        <5> QED
          BY <2>1, <5>1 DEF Below
      <4> QED
        BY <4>2, <4>3
    <3>3. CASE k \notin 1 .. N /\ k \notin N + 1 .. N + 1 + F
      <4>1. k \notin 1 .. N + 1 + F /\ k # N + 1
        BY <1>1, <3>3
      <4> QED
        BY <2>1, <3>3, <4>1 DEF Below
    <3> QED
      BY <3>1, <3>2, <3>3
  <2> QED
    BY <2>2
<1>10. u.roots \in Seq(Nat) /\ ToSet(u.roots) = Below(u.nodes, 0)
  <2>1. CASE v = 1
    <3>1. N + 1 \in Nat /\ u.roots = Append(tree.roots, N + 1)
      BY <1>1, <2>1
    <3>2. u.roots \in Seq(Nat) /\ ToSet(u.roots) = ToSet(tree.roots) \cup {N + 1}
      <4>1. PICK r, n : r = tree.roots /\ n = N + 1
        OBVIOUS
      <4>2. Append(r, n) \in Seq(Nat) /\ ToSet(Append(r, n)) = ToSet(r) \cup {n}
        <5>1. r \in Seq(Nat) /\ n \in Nat
          BY <1>3, <3>1, <4>1
        <5> QED
          BY ONLY <5>1, RangeOfMore
      <4> QED
        BY <3>1, <4>1, <4>2
    <3> QED
      BY <1>3, <1>9, <2>1, <3>2
  <2>2. CASE v # 1
    BY <1>1, <1>3, <1>9, <2>2
  <2> QED
    BY <2>1, <2>2
<1>11. TreeInv(u, p, at2)
  BY <1>6, <1>8, <1>10 DEF TreeInv
<1>12. u.nodes # <<>> /\ u.nodes[Len(u.nodes)].dep = v /\ u.nodes[Len(u.nodes)].st = s
  <2>1. 1 + F \in 1 .. 1 + F /\ N + (1 + F) = N + 1 + F /\ N + 1 + F # 0
    BY <1>1
  <2>2. u.nodes[N + (1 + F)].dep = v /\ u.nodes[N + (1 + F)].st = s
    BY <1>7, <2>1
  <2>3. u.nodes # <<>>
    BY <1>1, <2>1
  <2> QED
    BY <1>1, <2>1, <2>2, <2>3
<1> QED
  BY <1>11, <1>12 DEF u, v, s

(* The entries still to be hung, for n subtasks p, continue the tree.      *)
EntriesHang(es, t, p, n) ==
  /\ \A i \in 1 .. Len(es) - 1 : Follows(es[i], es[i + 1], p)
  /\ \A i \in 1 .. Len(es) : HasEdges(es[i].v)
  /\ es # <<>> => HangsNext(t, p, es[1]) /\ EntersLast(es[Len(es)], n)
  /\ es = <<>> /\ t.nodes = <<>> => n = 0
  /\ es = <<>> /\ t.nodes # <<>> =>
       EntersLast([v |-> t.nodes[Len(t.nodes)].dep, st |-> t.nodes[Len(t.nodes)].st], n)

(* The invariant while the tree is built. *)
HangInv ==
  pc = "close" =>
    /\ \E at : TreeInv(tree, subtasks, at)
    /\ EntriesHang(infos, tree, subtasks, Len(subtasks))

(* The next state says the same of the same trees. *)
LEMMA TreesKept ==
  ASSUME UNCHANGED cfg
  PROVE  /\ \A t, p, at : TreeInv(t, p, at)' <=> TreeInv(t, p, at)
         /\ \A es, t, p, n : EntriesHang(es, t, p, n)' <=> EntriesHang(es, t, p, n)
<1>1. /\ MaxLevel' = MaxLevel /\ Steps' = Steps
      /\ \A v : Followers(v)' = Followers(v) /\ (Ends(v)' <=> Ends(v)) /\ Succ(v)' = Succ(v)
                /\ (HasEdges(v)' <=> HasEdges(v))
      /\ \A p, q, v : Differ(p, q, v)' <=> Differ(p, q, v)
  BY LevelsKept
<1>2. ASSUME NEW a, NEW b, NEW p PROVE Follows(a, b, p)' <=> Follows(a, b, p)
  BY <1>1 DEF Follows
<1>3. ASSUME NEW e, NEW n PROVE EntersLast(e, n)' <=> EntersLast(e, n)
  BY <1>1 DEF EntersLast
<1>4. ASSUME NEW t, NEW p, NEW info PROVE HangsNext(t, p, info)' <=> HangsNext(t, p, info)
  BY <1>2 DEF HangsNext
<1>5. ASSUME NEW es, NEW t, NEW p, NEW n PROVE EntriesHang(es, t, p, n)' <=> EntriesHang(es, t, p, n)
  BY <1>1, <1>2, <1>3, <1>4 DEF EntriesHang
<1>6. ASSUME NEW nodes, NEW at, NEW k PROVE Hung(nodes, at, k)' <=> Hung(nodes, at, k)
  BY <1>1 DEF Hung
<1>7. ASSUME NEW nodes, NEW p, NEW at, NEW k PROVE GoesOn(nodes, p, at, k)' <=> GoesOn(nodes, p, at, k)
  BY <1>1 DEF GoesOn
<1>8. ASSUME NEW nodes, NEW p, NEW at PROVE IsTree(nodes, p, at)' <=> IsTree(nodes, p, at)
  BY <1>6, <1>7 DEF IsTree
<1>9. ASSUME NEW t, NEW at PROVE StackLeads(t, at)' <=> StackLeads(t, at)
  BY <1>1 DEF StackLeads
<1>10. ASSUME NEW t, NEW p, NEW at PROVE TreeInv(t, p, at)' <=> TreeInv(t, p, at)
  BY <1>8, <1>9 DEF TreeInv
<1> QED
  BY <1>5, <1>10

(* A task is closed with its entries and an empty tree. *)
LEMMA HangStarts ==
  ASSUME PlanInv, FillInv, pc \in {"scan", "decide"}
  PROVE  /\ \E at : TreeInv(tree, subtasks, at)
         /\ EntriesHang(infos, tree, subtasks, Len(subtasks))
<1>1. tree = EmptyTree /\ EntriesFollow(infos, Len(subtasks), subtasks)
  BY EntriesHere DEF FillInv
<1>2. tree.nodes = <<>> /\ tree.stk = <<[id |-> 0, dep |-> 0]>> /\ tree.roots = <<>>
  BY <1>1 DEF EmptyTree
<1>3. TreeInv(tree, subtasks, <<>>)
  <2>1. IsTree(<<>>, subtasks, <<>>)
    <3>1. <<>> \in Seq(NodeType) /\ <<>> \in [1 .. Len(<<>>) -> Nat] /\ Len(<<>>) = 0
      OBVIOUS
    <3> QED
      BY <3>1 DEF IsTree
  <2>2. StackLeads(tree, <<>>)
    <3>1. tree.stk \in Seq([id : Nat, dep : Nat]) /\ Len(tree.stk) = 1 /\ tree.stk[1] = [id |-> 0, dep |-> 0]
          /\ Len(tree.nodes) = 0
      BY <1>2
    <3> QED
      BY <3>1 DEF StackLeads
  <2>3. tree.roots \in Seq(Nat) /\ ToSet(tree.roots) = Below(tree.nodes, 0)
    BY <1>2 DEF ToSet, Below
  <2> QED
    BY <1>2, <2>1, <2>2, <2>3 DEF TreeInv
<1>4. infos # <<>> => HangsNext(tree, subtasks, infos[1])
  BY <1>1, <1>2 DEF EntriesFollow, HangsNext
<1> QED
  BY <1>1, <1>2, <1>3, <1>4 DEF EntriesFollow, EntriesHang

(* The tree with the next entry hung in it is a tree, and the rest of the  *)
(* entries continue it.                                                    *)
LEMMA HangNodeHangs ==
  ASSUME PlanInv, HangInv, HangNode
  PROVE  HangInv'
<1> DEFINE info == infos[1]
<1> DEFINE rest == Tail(infos)
<1> DEFINE t == AddInfo(info)
<1> DEFINE n == Len(subtasks)
<1>1. /\ cfg \in Configs /\ subtasks \in Seq(cfg.leaves) /\ n \in Nat
      /\ infos \in Seq([v : Nat \ {0}, st : Nat \ {0}])
  BY InvFacts
<1>2. /\ pc = "close" /\ infos # <<>> /\ info.st <= n /\ tree' = t /\ infos' = rest
      /\ subtasks' = subtasks /\ cfg' = cfg
  BY DEF HangNode, MoreToHang
<1>3. PICK at : TreeInv(tree, subtasks, at)
  BY <1>2 DEF HangInv
<1>4. /\ \A i \in 1 .. Len(infos) - 1 : Follows(infos[i], infos[i + 1], subtasks)
      /\ \A i \in 1 .. Len(infos) : HasEdges(infos[i].v)
      /\ HangsNext(tree, subtasks, info) /\ EntersLast(infos[Len(infos)], n)
  BY <1>2 DEF HangInv, EntriesHang
<1>5. Len(infos) \in Nat \ {0} /\ Len(rest) = Len(infos) - 1 /\ \A i \in 1 .. Len(rest) : rest[i] = infos[i + 1]
  <2> DEFINE E == [v : Nat \ {0}, st : Nat \ {0}]
  <2>1. infos \in Seq(E)
    BY <1>1
  <2> HIDE DEF E
  <2> QED
    BY <1>2, <2>1
<1>6. info.st \in Nat /\ info.st \in DOMAIN subtasks /\ HasEdges(info.v)
  <2> DEFINE E == [v : Nat \ {0}, st : Nat \ {0}]
  <2>1. \A e \in E : e.st \in Nat \ {0}
    OBVIOUS
  <2>2. infos \in Seq(E) /\ 1 \in 1 .. Len(infos)
    BY <1>1, <1>5
  <2> HIDE DEF E
  <2>3. info \in E
    BY <2>2
  <2>4. info.st \in Nat \ {0}
    BY <2>1, <2>3
  <2>5. DOMAIN subtasks = 1 .. n
    BY <1>1
  <2> HIDE DEF info, n
  <2>6. info.st \in 1 .. n
    BY <1>1, <1>2, <2>4
  <2> QED
    BY <1>4, <2>2, <2>4, <2>5, <2>6 DEF info
<1>7. /\ \E at2 : TreeInv(t, subtasks, at2)
      /\ t.nodes # <<>>
      /\ t.nodes[Len(t.nodes)].dep = info.v /\ t.nodes[Len(t.nodes)].st = info.st
  BY ONLY <1>1, <1>3, <1>4, <1>6, AddInfoTree DEF t
<1> HIDE DEF t, rest
<1>8. EntriesHang(rest, t, subtasks, n)
  <2>1. \A i \in 1 .. Len(rest) - 1 : Follows(rest[i], rest[i + 1], subtasks)
    <3>1. ASSUME NEW i \in 1 .. Len(rest) - 1 PROVE Follows(rest[i], rest[i + 1], subtasks)
      <4>1. i \in 1 .. Len(rest) /\ i + 1 \in 1 .. Len(rest) /\ i + 1 \in 1 .. Len(infos) - 1
        BY <1>5
      <4> QED
        BY <1>4, <1>5, <4>1
    <3> QED
      BY <3>1
  <2>2. \A i \in 1 .. Len(rest) : HasEdges(rest[i].v)
    <3>1. ASSUME NEW i \in 1 .. Len(rest) PROVE HasEdges(rest[i].v)
      <4>1. i + 1 \in 1 .. Len(infos)
        BY <1>5
      <4> QED
        BY <1>4, <1>5, <4>1
    <3> QED
      BY <3>1
  <2>3. ASSUME rest # <<>> PROVE HangsNext(t, subtasks, rest[1]) /\ EntersLast(rest[Len(rest)], n)
    <3>1. Len(rest) # 0
      <4> DEFINE E == [v : Nat \ {0}, st : Nat \ {0}]
      <4>1. infos \in Seq(E) /\ infos # <<>>
        BY <1>1, <1>2
      <4> HIDE DEF E
      <4>2. rest \in Seq(E)
        BY <4>1 DEF rest
      <4> QED
        BY <2>3, <4>2
    <3>2. 1 \in 1 .. Len(rest) /\ 1 \in 1 .. Len(infos) - 1 /\ Len(rest) \in 1 .. Len(rest) /\ Len(rest) + 1 = Len(infos)
      BY <1>5, <3>1
    <3>3. rest[1] = infos[1 + 1] /\ rest[Len(rest)] = infos[Len(infos)]
      <4>1. rest[Len(rest)] = infos[Len(rest) + 1] /\ rest[1] = infos[1 + 1]
        BY <1>5, <3>2
      <4> QED
        BY <3>2, <4>1
    <3>4. Follows(info, rest[1], subtasks)
      BY <1>4, <3>2, <3>3
    <3> QED
      BY <1>4, <1>7, <3>3, <3>4 DEF HangsNext, Follows
  <2>4. ASSUME rest = <<>>
        PROVE  EntersLast([v |-> t.nodes[Len(t.nodes)].dep, st |-> t.nodes[Len(t.nodes)].st], n)
    <3>1. Len(infos) = 1
      BY <1>5, <2>4
    <3>2. EntersLast(info, n)
      BY <1>4, <3>1
    <3> QED
      BY <1>7, <3>2 DEF EntersLast
  <2> QED
    BY <1>7, <2>1, <2>2, <2>3, <2>4 DEF EntriesHang
<1>9. (\E a : TreeInv(tree, subtasks, a))' <=> \E a : TreeInv(tree', subtasks', a)
  BY <1>2, TreesKept
<1>10. EntriesHang(infos, tree, subtasks, Len(subtasks))' <=> EntriesHang(infos', tree', subtasks', Len(subtasks'))
  BY <1>2, TreesKept
<1> QED
  BY <1>2, <1>7, <1>8, <1>9, <1>10 DEF HangInv

(* Every step keeps the invariant of the tree. *)
LEMMA NextHang ==
  ASSUME PlanInv, FillInv, HangInv, [Next]_vars
  PROVE  HangInv'
<1>1. CASE HangNode
  BY <1>1, HangNodeHangs
<1>2. CASE ScanOver \/ LeaveGroup
  <2>1. pc \in {"scan", "decide"} /\ UNCHANGED <<cfg, tree, subtasks, infos>>
    BY <1>2 DEF ScanOver, LeaveGroup, taskVars
  <2>2. (\E a : TreeInv(tree, subtasks, a))' <=> \E a : TreeInv(tree', subtasks', a)
    BY <2>1, TreesKept
  <2>3. EntriesHang(infos, tree, subtasks, Len(subtasks))' <=> EntriesHang(infos', tree', subtasks', Len(subtasks'))
    BY <2>1, TreesKept
  <2>4. /\ \E a : TreeInv(tree, subtasks, a)
        /\ EntriesHang(infos, tree, subtasks, Len(subtasks))
    BY <2>1, HangStarts
  <2> QED
    BY <2>1, <2>2, <2>3, <2>4 DEF HangInv
<1>3. CASE UNCHANGED vars
  <2>1. UNCHANGED <<pc, cfg, tree, subtasks, infos>>
    BY <1>3 DEF vars, taskVars
  <2>2. (\E a : TreeInv(tree, subtasks, a))' <=> \E a : TreeInv(tree', subtasks', a)
    BY <2>1, TreesKept
  <2>3. EntriesHang(infos, tree, subtasks, Len(subtasks))' <=> EntriesHang(infos', tree', subtasks', Len(subtasks'))
    BY <2>1, TreesKept
  <2> QED
    BY <2>1, <2>2, <2>3 DEF HangInv
<1>4. CASE ScanNode \/ ScanLast \/ OpenTask \/ AddGroup \/ StopEmpty \/ CloseTask \/ CloseEmpty \/ TreeTooLarge
  <2>1. pc' # "close"
    BY <1>4 DEF ScanNode, ScanLast, OpenTask, AddGroup, StopEmpty, CloseTask, CloseEmpty, TreeTooLarge
  <2> QED
    BY <2>1 DEF HangInv
<1> QED
  BY <1>1, <1>2, <1>3, <1>4 DEF Next

(* Before the first task there is no tree. *)
LEMMA InitHang == Init => HangInv
BY DEF Init, HangInv

-----------------------------------------------------------------------------
(* A complete tree.                                                        *)

(* The tree ends with a match for the last subtask. *)
IsWhole(nodes, p, at) ==
  /\ IsTree(nodes, p, at) /\ nodes # <<>>
  /\ at[Len(nodes)] = Steps /\ nodes[Len(nodes)].st = Len(p)

(* The tree of a task that is closed is complete. *)
LEMMA ClosedTree ==
  ASSUME PlanInv, RoomIsCounted, HangInv, CloseTask
  PROVE  /\ \E at : IsWhole(tree.nodes, subtasks, at)
         /\ ToSet(tree.roots) = Below(tree.nodes, 0)
<1> DEFINE nodes == tree.nodes
<1> DEFINE n == Len(subtasks)
<1> DEFINE N == Len(nodes)
<1> DEFINE info == infos[1]
<1>1. cfg \in Configs /\ subtasks \in Seq(cfg.leaves) /\ n \in Nat /\ infos \in Seq([v : Nat \ {0}, st : Nat \ {0}])
  BY InvFacts
<1>2. pc = "close" /\ used # 0 /\ ~(infos # <<>> /\ info.st <= n)
  BY DEF CloseTask, MoreToHang
<1>3. PICK at : TreeInv(tree, subtasks, at)
  BY <1>2 DEF HangInv
<1>4. EntriesHang(infos, tree, subtasks, n)
  BY <1>2 DEF HangInv
<1>5. n # 0
  <2>1. subtasks # <<>>
    BY <1>2 DEF RoomIsCounted
  <2> QED
    BY <1>1, <2>1
<1>6. /\ nodes \in Seq(NodeType) /\ N \in Nat /\ IsTree(nodes, subtasks, at)
      /\ N # 0 => at[N] = nodes[N].dep + Followers(nodes[N].dep)
      /\ ToSet(tree.roots) = Below(nodes, 0)
  BY <1>3 DEF TreeInv, StackLeads, IsTree
<1>7. infos # <<>> => info.st \in Nat \ {0} /\ ~(info.st <= n)
  <2> DEFINE E == [v : Nat \ {0}, st : Nat \ {0}]
  <2>1. \A e \in E : e.st \in Nat \ {0}
    OBVIOUS
  <2>2. infos \in Seq(E)
    BY <1>1
  <2> HIDE DEF E
  <2>3. infos # <<>> => info \in E
    <3>1. infos # <<>> => 1 \in 1 .. Len(infos)
      BY <2>2
    <3> QED
      BY <2>2, <3>1
  <2> QED
    BY <1>2, <2>1, <2>3
<1>8. nodes # <<>>
  <2>1. ASSUME nodes = <<>> PROVE FALSE
    <3>1. infos # <<>>
      BY <1>4, <1>5, <2>1 DEF EntriesHang
    <3>2. info.st = 1
      BY <1>4, <2>1, <3>1 DEF EntriesHang, HangsNext
    <3> QED
      BY <1>1, <1>5, <1>7, <3>1, <3>2
  <2> QED
    BY <2>1
<1>9. N # 0 /\ N \in 1 .. N
  BY <1>6, <1>8
<1> DEFINE e == [v |-> nodes[N].dep, st |-> nodes[N].st]
<1>10. e.v = nodes[N].dep /\ e.st = nodes[N].st
  OBVIOUS
<1>11. e.st \in Nat /\ e.st <= n /\ (Ends(e.v) <=> at[N] = Steps)
  <2>1. nodes[N].st \in DOMAIN subtasks /\ DOMAIN subtasks = 1 .. n
    <3>1. \A k \in 1 .. N : nodes[k].st \in DOMAIN subtasks
      BY <1>6 DEF IsTree
    <3>2. DOMAIN subtasks = 1 .. n
      BY <1>1
    <3> HIDE DEF n
    <3> QED
      BY <1>9, <3>1, <3>2
  <2>2. at[N] = nodes[N].dep + Followers(nodes[N].dep)
    BY <1>6, <1>9
  <2>3. nodes[N].st \in Nat /\ nodes[N].st <= n
    <3>1. PICK x : x = nodes[N].st
      OBVIOUS
    <3>2. x \in 1 .. n
      BY <2>1, <3>1
    <3>3. x \in Nat /\ x <= n
      BY <1>1, <3>2
    <3> QED
      BY <3>1, <3>3
  <2> QED
    BY <1>10, <2>2, <2>3 DEF Ends
<1>12. Ends(e.v) /\ e.st = n
  <2>1. CASE infos = <<>>
    <3>1. EntersLast(e, n)
      BY <1>4, <1>8, <2>1 DEF EntriesHang
    <3>2. e.st = IF Ends(e.v) THEN n ELSE n + 1
      BY <3>1 DEF EntersLast
    <3> HIDE DEF e, n
    <3> QED
      BY <1>1, <1>11, <3>2
  <2>2. CASE infos # <<>>
    <3>1. Follows(e, info, subtasks)
      BY <1>4, <1>8, <2>2 DEF EntriesHang, HangsNext
    <3>2. IF Ends(e.v) THEN info.st = e.st + 1 ELSE info.st = e.st
      BY <3>1 DEF Follows
    <3>3. info.st \in Nat \ {0} /\ ~(info.st <= n)
      BY <1>7, <2>2
    <3> HIDE DEF e, n, info
    <3> QED
      BY <1>1, <1>11, <3>2, <3>3
  <2> QED
    BY <2>1, <2>2
<1>13. IsWhole(nodes, subtasks, at)
  BY <1>6, <1>8, <1>10, <1>11, <1>12 DEF IsWhole
<1> QED
  BY <1>6, <1>13

(* The nodes of a complete tree: the deepest have none below them, and     *)
(* after each of them the next subtask begins.                             *)
LEMMA WholeFacts ==
  ASSUME cfg \in Configs, NEW p \in Seq(cfg.leaves), NEW nodes, NEW at, IsWhole(nodes, p, at)
  PROVE  /\ Len(nodes) \in Nat \ {0} /\ DOMAIN nodes = 1 .. Len(nodes) /\ Len(p) \in Nat
         /\ \A k \in 1 .. Len(nodes) :
              /\ nodes[k].prv \in 0 .. k - 1 /\ nodes[k].dep \in Nat \ {0}
              /\ nodes[k].st \in 1 .. Len(p) /\ at[k] \in Nat \ {0} /\ at[k] <= Steps
              /\ nodes[k].dep <= at[k]
              /\ at[k] = IF nodes[k].prv = 0 THEN 1 ELSE at[nodes[k].prv] + 1
              /\ \A j \in 1 .. k - 1 : nodes[k].prv < j => at[j] >= at[k]
         /\ \A k \in 1 .. Len(nodes) - 1 : GoesOn(nodes, p, at, k)
         /\ nodes[1].st = 1 /\ at[Len(nodes)] = Steps /\ nodes[Len(nodes)].st = Len(p)
         /\ Steps \in Nat
<1>1. /\ nodes \in Seq(NodeType) /\ nodes # <<>> /\ at \in [1 .. Len(nodes) -> Nat]
      /\ \A k \in 1 .. Len(nodes) : Hung(nodes, at, k) /\ nodes[k].st \in DOMAIN p
      /\ DOMAIN p = 1 .. Len(p) /\ Len(p) \in Nat
  BY DEF IsWhole, IsTree
<1>2. Len(nodes) \in Nat \ {0} /\ DOMAIN nodes = 1 .. Len(nodes)
  BY <1>1
<1>3. Steps \in Nat
  BY LevelFacts
<1>4. ASSUME NEW k \in 1 .. Len(nodes)
      PROVE  /\ nodes[k].prv \in 0 .. k - 1 /\ nodes[k].dep \in Nat \ {0}
             /\ nodes[k].st \in 1 .. Len(p) /\ at[k] \in Nat \ {0} /\ at[k] <= Steps
             /\ nodes[k].dep <= at[k]
             /\ at[k] = IF nodes[k].prv = 0 THEN 1 ELSE at[nodes[k].prv] + 1
             /\ \A j \in 1 .. k - 1 : nodes[k].prv < j => at[j] >= at[k]
  <2>1. /\ nodes[k].prv < k
        /\ at[k] = IF nodes[k].prv = 0 THEN 1 ELSE at[nodes[k].prv] + 1
        /\ HasEdges(nodes[k].dep)
        /\ nodes[k].dep <= at[k] /\ at[k] <= nodes[k].dep + Followers(nodes[k].dep)
        /\ \A j \in 1 .. k - 1 : nodes[k].prv < j => at[j] >= at[k]
        /\ nodes[k].st \in 1 .. Len(p) /\ at[k] \in Nat
    BY <1>1 DEF Hung
  <2>2. nodes[k].prv \in Nat
    <3>1. nodes[k] \in NodeType
      BY <1>1
    <3> QED
      BY <3>1 DEF NodeType
  <2>3. nodes[k].dep \in Nat \ {0} /\ Followers(nodes[k].dep) \in Nat /\ nodes[k].dep + Followers(nodes[k].dep) <= Steps
    BY <2>1, LevelsEnd
  <2>4. nodes[k].prv \in 0 .. k - 1
    <3>1. PICK x : x = nodes[k].prv
      OBVIOUS
    <3>2. x \in Nat /\ x < k /\ k \in Nat
      BY <1>2, <2>1, <2>2, <3>1
    <3>3. x \in 0 .. k - 1
      BY <3>2
    <3> QED
      BY <3>1, <3>3
  <2>5. at[k] \in Nat \ {0} /\ at[k] <= Steps
    BY <1>3, <2>1, <2>3
  <2> QED
    BY <2>1, <2>3, <2>4, <2>5
<1> QED
  BY <1>1, <1>2, <1>3, <1>4 DEF IsWhole, IsTree

(* The tips of a complete tree are its deepest nodes. *)
LEMMA TipsAreDeepest ==
  ASSUME cfg \in Configs, NEW p \in Seq(cfg.leaves), NEW nodes, NEW at, IsWhole(nodes, p, at)
  PROVE  Tips(nodes) = {k \in 1 .. Len(nodes) : at[k] = Steps}
<1> DEFINE N == Len(nodes)
<1>1. /\ N \in Nat \ {0} /\ DOMAIN nodes = 1 .. N /\ Steps \in Nat
      /\ \A k \in 1 .. N :
           /\ at[k] \in Nat /\ at[k] <= Steps
           /\ at[k] = IF nodes[k].prv = 0 THEN 1 ELSE at[nodes[k].prv] + 1
      /\ \A k \in 1 .. N - 1 : GoesOn(nodes, p, at, k)
      /\ at[N] = Steps
  BY WholeFacts
<1> HIDE DEF N
<1>2. ASSUME NEW k \in 1 .. N PROVE Below(nodes, k) = {} <=> at[k] = Steps
  <2>1. ASSUME at[k] = Steps, NEW j \in Below(nodes, k) PROVE FALSE
    <3>1. j \in 1 .. N /\ nodes[j].prv = k /\ k # 0
      BY <1>1, <2>1 DEF Below
    <3>2. at[j] = at[k] + 1 /\ at[j] <= Steps
      BY <1>1, <3>1
    <3> QED
      BY <1>1, <2>1, <3>2
  <2>2. ASSUME at[k] # Steps PROVE Below(nodes, k) # {}
    <3>1. k # N
      BY <1>1, <2>2
    <3>2. k \in 1 .. N - 1 /\ k + 1 \in 1 .. N
      BY <1>1, <3>1
    <3>3. nodes[k + 1].prv = k
      BY <1>1, <2>2, <3>2 DEF GoesOn
    <3>4. k + 1 \in Below(nodes, k)
      BY <1>1, <3>2, <3>3 DEF Below
    <3> QED
      BY <3>4
  <2> QED
    BY <2>1, <2>2
<1> QED
  BY <1>1, <1>2 DEF Tips, N

(* After a tip all nodes are of later subtasks; before it of no later one. *)
LEMMA SubtasksGrow ==
  ASSUME cfg \in Configs, NEW p \in Seq(cfg.leaves), NEW nodes, NEW at, IsWhole(nodes, p, at),
         NEW j \in 1 .. Len(nodes), NEW k \in 1 .. Len(nodes), j < k
  PROVE  nodes[j].st <= nodes[k].st /\ (at[j] = Steps => nodes[j].st < nodes[k].st)
<1> DEFINE N == Len(nodes)
<1> DEFINE first == nodes[j].st + (IF at[j] = Steps THEN 1 ELSE 0)
<1> DEFINE T == {i \in 1 .. N : first <= nodes[i].st}
<1>1. /\ N \in Nat \ {0}
      /\ \A i \in 1 .. N : nodes[i].st \in Nat
      /\ \A i \in 1 .. N - 1 : nodes[i + 1].st = nodes[i].st + (IF at[i] = Steps THEN 1 ELSE 0)
  <2>1. /\ N \in Nat \ {0} /\ Len(p) \in Nat
        /\ \A i \in 1 .. N : nodes[i].st \in 1 .. Len(p)
        /\ \A i \in 1 .. N - 1 : GoesOn(nodes, p, at, i)
    BY WholeFacts
  <2>2. \A i \in 1 .. N : nodes[i].st \in Nat
    BY <2>1
  <2>3. ASSUME NEW i \in 1 .. N - 1 PROVE nodes[i + 1].st = nodes[i].st + (IF at[i] = Steps THEN 1 ELSE 0)
    <3>1. i \in 1 .. N
      BY <2>1
    <3>2. IF at[i] = Steps THEN nodes[i + 1].st = nodes[i].st + 1 ELSE nodes[i + 1].st = nodes[i].st
      BY <2>1 DEF GoesOn
    <3>3. nodes[i].st \in Nat
      BY <2>2, <3>1
    <3> QED
      BY <3>2, <3>3
  <2> QED
    BY <2>1, <2>2, <2>3
<1> HIDE DEF N
<1>2. j + 1 \in 1 .. N /\ j \in 1 .. N - 1 /\ j \in Nat /\ k \in Nat /\ j + 1 \in Nat /\ k \in j + 1 .. N /\ first \in Nat
  <2>1. j \in 1 .. N /\ k \in 1 .. N
    BY DEF N
  <2> QED
    BY <1>1, <2>1
<1>3. j + 1 \in T
  BY <1>1, <1>2
<1> HIDE DEF first
<1>4. \A i \in j + 1 .. N - 1 : i \in T => i + 1 \in T
  <2>1. ASSUME NEW i \in j + 1 .. N - 1, i \in T PROVE i + 1 \in T
    <3>1. i \in 1 .. N - 1 /\ i + 1 \in 1 .. N /\ i \in 1 .. N
      BY <1>1, <1>2
    <3>2. nodes[i].st <= nodes[i + 1].st /\ nodes[i].st \in Nat /\ nodes[i + 1].st \in Nat
      <4>1. PICK x, y : x = nodes[i].st /\ y = nodes[i + 1].st
        OBVIOUS
      <4>2. x \in Nat /\ y \in Nat /\ y = x + (IF at[i] = Steps THEN 1 ELSE 0)
        BY <1>1, <3>1, <4>1
      <4>3. x <= y
        BY <4>2
      <4> QED
        BY <4>1, <4>2, <4>3
    <3>3. first <= nodes[i].st
      BY <2>1
    <3> QED
      BY <1>2, <3>1, <3>2, <3>3
  <2> QED
    BY <2>1
<1>5. \A i \in j + 1 .. N : i \in T
  <2> HIDE DEF T
  <2>1. N \in Nat
    BY <1>1
  <2>2. PICK m : m = j + 1
    OBVIOUS
  <2>3. m \in Nat /\ m \in T /\ \A i \in m .. N - 1 : i \in T => i + 1 \in T
    BY <1>2, <1>3, <1>4, <2>2
  <2>4. \A i \in m .. N : i \in T
    BY ONLY <2>1, <2>3, CountingOn
  <2> QED
    BY <2>2, <2>4
<1>6. first <= nodes[k].st
  BY <1>2, <1>5
<1>7. j \in 1 .. N /\ nodes[j].st \in Nat /\ nodes[k].st \in Nat
  BY <1>1, <1>2
<1> QED
  BY <1>6, <1>7 DEF first

(* Every subtask has exactly one tip. *)
LEMMA TipsAreSubtasks ==
  ASSUME cfg \in Configs, NEW p \in Seq(cfg.leaves), NEW nodes, NEW at, IsWhole(nodes, p, at)
  PROVE  Cardinality(Tips(nodes)) = Len(p) /\ {nodes[k].st : k \in Tips(nodes)} = DOMAIN p
<1> DEFINE N == Len(nodes)
<1> DEFINE n == Len(p)
<1> DEFINE T == Tips(nodes)
<1> DEFINE f == [k \in T |-> nodes[k].st]
<1>1. /\ N \in Nat \ {0} /\ n \in Nat /\ DOMAIN p = 1 .. n
      /\ \A k \in 1 .. N : nodes[k].st \in 1 .. n
      /\ \A k \in 1 .. N - 1 : IF at[k] = Steps THEN nodes[k + 1].st = nodes[k].st + 1
                               ELSE nodes[k + 1].st = nodes[k].st
      /\ nodes[1].st = 1 /\ at[N] = Steps /\ nodes[N].st = n
  <2>1. \A k \in 1 .. N - 1 : GoesOn(nodes, p, at, k)
    BY WholeFacts
  <2> QED
    BY <2>1, WholeFacts DEF GoesOn
<1>2. T = {k \in 1 .. N : at[k] = Steps}
  BY TipsAreDeepest
<1>3. \A j, k \in 1 .. N : j < k /\ at[j] = Steps => nodes[j].st < nodes[k].st
  BY SubtasksGrow
<1> HIDE DEF N, n, T
<1>4. ASSUME NEW s \in 1 .. n PROVE \E k \in T : nodes[k].st = s
  <2> DEFINE K == {k \in 1 .. N : nodes[k].st <= s}
  <2>1. 1 \in K /\ K \in SUBSET (1 .. N) /\ K # {}
    BY <1>1
  <2> DEFINE k == Max(K)
  <2>2. k \in K /\ \A i \in K : i <= k
    <3> HIDE DEF K
    <3>1. N \in Nat
      BY <1>1
    <3> QED
      BY <2>1, <3>1, GreatestIsMax
  <2> HIDE DEF k
  <2>3. k \in 1 .. N /\ nodes[k].st <= s /\ nodes[k].st \in Nat /\ s \in Nat /\ s <= n
    <3>1. k \in 1 .. N /\ nodes[k].st <= s
      BY <2>2
    <3>2. PICK x : x = nodes[k].st
      OBVIOUS
    <3>3. x \in 1 .. n
      BY <1>1, <3>1, <3>2
    <3>4. x \in Nat /\ s \in Nat /\ s <= n
      BY <1>1, <3>3
    <3> QED
      BY <3>1, <3>2, <3>4
  <2>4. CASE k = N
    <3>1. nodes[k].st = n /\ at[k] = Steps
      BY <1>1, <2>4
    <3>2. nodes[k].st = s
      BY <1>1, <2>3, <3>1
    <3> QED
      BY <1>2, <2>3, <3>1, <3>2
  <2>5. CASE k # N
    <3>1. k \in 1 .. N - 1 /\ k + 1 \in 1 .. N /\ ~(k + 1 <= k)
      BY <1>1, <2>3, <2>5
    <3>2. ~(nodes[k + 1].st <= s)
      BY <2>2, <3>1
    <3>3. at[k] = Steps /\ nodes[k + 1].st = nodes[k].st + 1
      BY <1>1, <2>3, <3>1, <3>2
    <3>4. nodes[k].st = s
      <4>1. PICK x : x = nodes[k].st
        OBVIOUS
      <4>2. x \in Nat /\ x <= s /\ ~(x + 1 <= s) /\ s \in Nat
        BY <2>3, <3>2, <3>3, <4>1
      <4>3. x = s
        BY <4>2
      <4> QED
        BY <4>1, <4>3
    <3> QED
      BY <1>2, <2>3, <3>3, <3>4
  <2> QED
    BY <2>4, <2>5
<1>5. f \in [T -> 1 .. n]
  BY <1>1, <1>2
<1>6. f \in Bijection(T, 1 .. n)
  <2>1. ASSUME NEW j \in T, NEW k \in T, f[j] = f[k] PROVE j = k
    <3>1. j \in 1 .. N /\ k \in 1 .. N /\ at[j] = Steps /\ at[k] = Steps
      BY <1>2
    <3>2. nodes[j].st = nodes[k].st
      BY <2>1
    <3>3. nodes[j].st \in Nat /\ nodes[k].st \in Nat
      <4>1. nodes[j].st \in 1 .. n /\ nodes[k].st \in 1 .. n
        BY <1>1, <3>1
      <4>2. PICK x, y : x = nodes[j].st /\ y = nodes[k].st
        OBVIOUS
      <4>3. x \in Nat /\ y \in Nat
        BY <4>1, <4>2
      <4> QED
        BY <4>2, <4>3
    <3>4. ~(nodes[j].st < nodes[k].st) /\ ~(nodes[k].st < nodes[j].st)
      BY <3>2, <3>3
    <3>5. ~(j < k) /\ ~(k < j)
      BY <1>3, <3>1, <3>4
    <3> QED
      BY <1>1, <3>1, <3>5
  <2>2. \A s \in 1 .. n : \E k \in T : f[k] = s
    BY <1>4
  <2> HIDE DEF f
  <2> QED
    BY <1>5, <2>1, <2>2 DEF Bijection, Injection, Surjection, IsInjective
<1>7. Cardinality(T) = n
  <2>1. IsFiniteSet(T)
    <3>1. IsFiniteSet(1 .. N)
      BY <1>1, FS_Interval
    <3>2. T \subseteq 1 .. N
      BY <1>2
    <3> QED
      BY <3>1, <3>2, FS_Subset
  <2>2. ExistsBijection(T, 1 .. n)
    BY <1>6 DEF ExistsBijection
  <2>3. Cardinality(1 .. n) = n
    BY <1>1, FS_Interval
  <2>4. Cardinality(1 .. n) = Cardinality(T)
    BY <2>1, <2>2, FS_Bijection
  <2> QED
    BY <2>3, <2>4
<1>8. {nodes[k].st : k \in T} = DOMAIN p
  <2>1. \A k \in T : nodes[k].st \in 1 .. n
    BY <1>1, <1>2
  <2> QED
    BY <1>1, <1>4, <2>1
<1> QED
  BY <1>7, <1>8 DEF n, T

(* The lines of the nodes f to their root, for nodes that are hung below   *)
(* earlier ones.                                                           *)
Lines(f, nodes, m) ==
  f = [n \in 0 .. m |-> IF n = 0 THEN <<>> ELSE Append(f[nodes[n].prv], n)]

(* The lines are defined, each from that of an earlier node. *)
LEMMA LinesExist ==
  ASSUME NEW N \in Nat, NEW nodes, \A k \in 1 .. N : nodes[k].prv \in 0 .. k - 1
  PROVE  \E f : Lines(f, nodes, N)
<1> DEFINE T == {m \in 0 .. N : \E f : Lines(f, nodes, m)}
<1>1. 0 \in T
  <2> DEFINE f == [n \in 0 .. 0 |-> <<>>]
  <2>1. f = [n \in 0 .. 0 |-> IF n = 0 THEN <<>> ELSE Append(f[nodes[n].prv], n)]
    OBVIOUS
  <2> HIDE DEF f
  <2> QED
    BY <2>1 DEF Lines
<1>2. ASSUME NEW m \in 1 .. N, m - 1 \in T PROVE m \in T
  <2>1. PICK f : Lines(f, nodes, m - 1)
    BY <1>2
  <2> DEFINE e == Append(f[nodes[m].prv], m)
  <2> DEFINE g == [n \in 0 .. m |-> IF n = m THEN e ELSE f[n]]
  <2> HIDE DEF e
  <2>2. ASSUME NEW n \in 0 .. m PROVE g[n] = IF n = 0 THEN <<>> ELSE Append(g[nodes[n].prv], n)
    <3>1. CASE n = m
      <4>1. nodes[m].prv \in 0 .. m - 1
        OBVIOUS
      <4>2. nodes[m].prv \in 0 .. m /\ nodes[m].prv # m /\ m # 0
        <5>1. PICK x : x = nodes[m].prv
          OBVIOUS
        <5>2. x \in 0 .. m /\ x # m /\ m # 0
          BY <4>1, <5>1
        <5> QED
          BY <5>1, <5>2
      <4>3. g[m] = e /\ g[nodes[m].prv] = f[nodes[m].prv]
        BY <3>1, <4>2
      <4> HIDE DEF g
      <4> QED
        BY <3>1, <4>2, <4>3 DEF e
    <3>2. CASE n # m
      <4>1. n \in 0 .. m - 1 /\ (n # 0 => n \in 1 .. N)
        BY <3>2
      <4>2. f[n] = IF n = 0 THEN <<>> ELSE Append(f[nodes[n].prv], n)
        BY <2>1, <4>1 DEF Lines
      <4>3. n # 0 => nodes[n].prv \in 0 .. m /\ nodes[n].prv # m
        <5>1. PICK x : x = nodes[n].prv
          OBVIOUS
        <5>2. n # 0 => x \in 0 .. n - 1
          BY <4>1, <5>1
        <5>3. n # 0 => x \in 0 .. m /\ x # m
          BY <3>2, <5>2
        <5> QED
          BY <5>1, <5>3
      <4>4. g[n] = f[n] /\ (n # 0 => g[nodes[n].prv] = f[nodes[n].prv])
        BY <3>2, <4>3
      <4> HIDE DEF g
      <4> QED
        BY <4>2, <4>4
    <3> QED
      BY <3>1, <3>2
  <2>3. g = [n \in 0 .. m |-> g[n]]
    OBVIOUS
  <2> HIDE DEF g
  <2>4. Lines(g, nodes, m)
    BY <2>2, <2>3 DEF Lines
  <2> QED
    BY <2>4
<1> HIDE DEF T
<1>3. N \in T
  <2>1. \A k \in 0 .. N : k \in T
    BY <1>1, <1>2, CountingUp
  <2> QED
    BY <2>1
<1> QED
  BY <1>3 DEF T

(* The way to a node is the way to the one it hangs below, and the node. *)
LEMMA AncestrySteps ==
  ASSUME NEW nodes, Len(nodes) \in Nat, \A k \in 1 .. Len(nodes) : nodes[k].prv \in 0 .. k - 1
  PROVE  /\ Ancestry(nodes, 0) = <<>>
         /\ \A k \in 1 .. Len(nodes) : Ancestry(nodes, k) = Append(Ancestry(nodes, nodes[k].prv), k)
<1> DEFINE N == Len(nodes)
<1> DEFINE line == CHOOSE f : Lines(f, nodes, N)
<1>1. Lines(line, nodes, N)
  BY LinesExist
<1>2. \A k : Ancestry(nodes, k) = line[k]
  BY DEF Ancestry, Lines
<1> HIDE DEF line
<1>3. \A n \in 0 .. N : line[n] = IF n = 0 THEN <<>> ELSE Append(line[nodes[n].prv], n)
  BY <1>1 DEF Lines
<1>4. 0 \in 0 .. N /\ \A k \in 1 .. N : k \in 0 .. N /\ k # 0
  OBVIOUS
<1>5. line[0] = <<>> /\ \A k \in 1 .. N : line[k] = Append(line[nodes[k].prv], k)
  <2> HIDE DEF N
  <2> QED
    BY <1>3, <1>4
<1> QED
  BY <1>2, <1>5

(* The nodes on the way to node k: as many as it is deep, and none of the  *)
(* nodes since the first of them is as high up as that.                    *)
LineOf(s, at, k, N) ==
  /\ s \in Seq(1 .. N) /\ Len(s) = IF k = 0 THEN 0 ELSE at[k]
  /\ \A a \in ToSet(s) : a \in 1 .. N /\ a <= k /\ \A j \in a + 1 .. k : at[j] > at[a]

(* The ways to the nodes of a complete tree lead to them. *)
LEMMA AncestryLeads ==
  ASSUME cfg \in Configs, NEW p \in Seq(cfg.leaves), NEW nodes, NEW at, IsWhole(nodes, p, at)
  PROVE  \A k \in 1 .. Len(nodes) : LineOf(Ancestry(nodes, k), at, k, Len(nodes))
<1> DEFINE N == Len(nodes)
<1> DEFINE T == {k \in 0 .. N : \A i \in 0 .. k : LineOf(Ancestry(nodes, i), at, i, N)}
<1>1. /\ N \in Nat \ {0} /\ DOMAIN nodes = 1 .. N
      /\ \A k \in 1 .. N :
           /\ nodes[k].prv \in 0 .. k - 1 /\ at[k] \in Nat
           /\ at[k] = IF nodes[k].prv = 0 THEN 1 ELSE at[nodes[k].prv] + 1
           /\ \A j \in 1 .. k - 1 : nodes[k].prv < j => at[j] >= at[k]
  BY WholeFacts
<1>2. /\ Ancestry(nodes, 0) = <<>>
      /\ \A k \in 1 .. N : Ancestry(nodes, k) = Append(Ancestry(nodes, nodes[k].prv), k)
  BY <1>1, AncestrySteps
<1> HIDE DEF N
<1>3. LineOf(Ancestry(nodes, 0), at, 0, N)
  <2>1. <<>> \in Seq(1 .. N) /\ Len(<<>>) = 0 /\ ToSet(<<>>) = {}
    BY DEF ToSet
  <2>2. PICK e, S : e = Ancestry(nodes, 0) /\ S = 1 .. N
    OBVIOUS
  <2>3. e \in Seq(S) /\ Len(e) = 0 /\ ToSet(e) = {}
    BY <1>2, <2>1, <2>2
  <2>4. LineOf(e, at, 0, N)
    BY <2>2, <2>3 DEF LineOf
  <2> QED
    BY <2>2, <2>4
<1>4. ASSUME NEW k \in 1 .. N, k - 1 \in T PROVE LineOf(Ancestry(nodes, k), at, k, N)
  <2> DEFINE q == nodes[k].prv
  <2> DEFINE s == Ancestry(nodes, q)
  <2>1. /\ q \in 0 .. k - 1 /\ at[k] \in Nat /\ at[k] = IF q = 0 THEN 1 ELSE at[q] + 1
        /\ \A j \in 1 .. k - 1 : q < j => at[j] >= at[k]
        /\ Ancestry(nodes, k) = Append(s, k)
    BY <1>1, <1>2
  <2> HIDE DEF q
  <2>2. /\ q \in Nat /\ q < k /\ k \in Nat /\ (q # 0 => q \in 1 .. N) /\ (q # 0 => at[q] \in Nat)
        /\ \A a \in 1 .. N : at[a] \in Nat
    BY <1>1, <2>1
  <2>3. LineOf(s, at, q, N)
    BY <1>4, <2>1
  <2> HIDE DEF s
  <2>4. s \in Seq(1 .. N) /\ Len(s) = (IF q = 0 THEN 0 ELSE at[q])
        /\ \A a \in ToSet(s) : a \in 1 .. N /\ a <= q /\ \A j \in a + 1 .. q : at[j] > at[a]
    BY <2>3 DEF LineOf
  <2>5. Append(s, k) \in Seq(1 .. N) /\ ToSet(Append(s, k)) = ToSet(s) \cup {k}
    <3>1. PICK S : S = 1 .. N
      OBVIOUS
    <3>2. s \in Seq(S) /\ k \in S
      BY <2>4, <3>1
    <3>3. Append(s, k) \in Seq(S) /\ ToSet(Append(s, k)) = ToSet(s) \cup {k}
      BY ONLY <3>2, RangeOfMore
    <3> QED
      BY <3>1, <3>3
  <2>6. Len(Append(s, k)) = at[k] /\ k # 0
    <3>1. Len(Append(s, k)) = Len(s) + 1
      BY <2>4
    <3> QED
      BY <2>1, <2>2, <2>4, <3>1
  <2>7. ASSUME NEW a \in ToSet(s) PROVE a \in 1 .. N /\ a <= k /\ \A j \in a + 1 .. k : at[j] > at[a]
    <3>1. a \in 1 .. N /\ a <= q /\ \A j \in a + 1 .. q : at[j] > at[a]
      BY <2>4
    <3>2. a \in Nat \ {0} /\ q # 0 /\ at[a] \in Nat /\ at[q] \in Nat /\ at[k] = at[q] + 1
      BY <1>1, <2>1, <2>2, <3>1, SMTT(30)
    <3>3. at[a] <= at[q]
      <4>1. CASE a = q
        BY <3>2, <4>1
      <4>2. CASE a # q
        <5>1. q \in a + 1 .. q
          BY <2>2, <3>1, <3>2, <4>2
        <5>2. at[q] > at[a]
          BY <3>1, <5>1
        <5> QED
          BY <3>2, <5>2
      <4> QED
        BY <4>1, <4>2
    <3>4. at[k] > at[a]
      BY <3>2, <3>3
    <3>5. ASSUME NEW j \in a + 1 .. k PROVE at[j] > at[a]
      <4>1. CASE j <= q
        <5>1. j \in a + 1 .. q
          BY <2>2, <3>2, <4>1
        <5> QED
          BY <3>1, <5>1
      <4>2. CASE j > q /\ j # k
        <5>1. j \in 1 .. k - 1 /\ q < j /\ j \in 1 .. N
          BY <1>1, <2>2, <3>2, <4>2
        <5>2. at[j] >= at[k] /\ at[j] \in Nat
          BY <1>1, <2>1, <5>1
        <5> QED
          BY <2>1, <3>2, <3>4, <5>2
      <4>3. CASE j = k
        BY <3>4, <4>3
      <4>4. j <= q \/ j > q
        BY <2>2, <3>2
      <4> QED
        BY <4>1, <4>2, <4>3, <4>4
    <3>6. a <= k
      BY <2>2, <3>1, <3>2
    <3> QED
      BY <3>1, <3>5, <3>6
  <2>8. k \in 1 .. N /\ k <= k /\ \A j \in k + 1 .. k : at[j] > at[k]
    BY <2>2
  <2> QED
    BY <2>1, <2>5, <2>6, <2>7, <2>8 DEF LineOf
<1>5. 0 \in T
  <2>1. \A i \in 0 .. 0 : i = 0
    OBVIOUS
  <2> QED
    BY <1>1, <1>3, <2>1
<1>6. ASSUME NEW k \in 1 .. N, k - 1 \in T PROVE k \in T
  <2>1. \A i \in 0 .. k : i \in 0 .. k - 1 \/ i = k
    OBVIOUS
  <2>2. \A i \in 0 .. k - 1 : LineOf(Ancestry(nodes, i), at, i, N)
    BY <1>6
  <2>3. k \in 0 .. N
    BY <1>1
  <2> QED
    BY <1>4, <1>6, <2>1, <2>2, <2>3
<1> HIDE DEF T
<1>7. \A k \in 0 .. N : k \in T
  BY <1>1, <1>5, <1>6, CountingUp
<1>8. \A k \in 1 .. N : k \in 0 .. N /\ k \in 0 .. k
  BY <1>1
<1> QED
  BY <1>7, <1>8 DEF T, N

(* Every path of a complete tree is a match. *)
LEMMA PathsMatch ==
  ASSUME cfg \in Configs, NEW p \in Seq(cfg.leaves), NEW nodes, NEW at, IsWhole(nodes, p, at)
  PROVE  \A k \in Tips(nodes) : Len(Ancestry(nodes, k)) = Steps
<1>1. ASSUME NEW k \in Tips(nodes) PROVE Len(Ancestry(nodes, k)) = Steps
  <2>1. k \in 1 .. Len(nodes) /\ at[k] = Steps
    BY TipsAreDeepest
  <2>2. LineOf(Ancestry(nodes, k), at, k, Len(nodes))
    BY <2>1, AncestryLeads
  <2>3. k # 0
    BY <2>1
  <2> QED
    BY <2>1, <2>2, <2>3 DEF LineOf
<1> QED
  BY <1>1

(* What follows a node deeper in the tree agrees with it. *)
LEMMA BelowAgrees ==
  ASSUME cfg \in Configs, NEW p \in Seq(cfg.leaves), NEW nodes, NEW at, IsWhole(nodes, p, at),
         NEW a \in 1 .. Len(nodes), NEW k \in 1 .. Len(nodes), a <= k,
         \A j \in a + 1 .. k : at[j] > at[a]
  PROVE  SameUpTo(p[nodes[a].st], p[nodes[k].st], nodes[a].dep)
<1> DEFINE N == Len(nodes)
<1> DEFINE T == {j \in 1 .. N : j <= k => SameUpTo(p[nodes[a].st], p[nodes[j].st], nodes[a].dep)}
<1>1. /\ N \in Nat \ {0} /\ a \in Nat \ {0} /\ k \in Nat /\ k \in a .. N
      /\ \A i \in 1 .. N : nodes[i].dep \in Nat /\ at[i] \in Nat /\ nodes[i].dep <= at[i] /\ nodes[i].st \in 1 .. Len(p)
      /\ \A i \in 1 .. N - 1 : GoesOn(nodes, p, at, i)
  <2>1. N \in Nat \ {0}
    BY WholeFacts
  <2>2. a \in Nat \ {0} /\ k \in Nat /\ k \in a .. N
    BY <2>1
  <2> QED
    BY <2>1, <2>2, WholeFacts
<1>2. \A s \in 1 .. Len(p) : p[s] \in cfg.leaves
  OBVIOUS
<1>3. /\ MaxLevel \in Nat /\ \A e \in 1 .. MaxLevel : cfg.vlevel[e] \in Nat
      /\ \A l \in cfg.leaves : DOMAIN l = 1 .. MaxLevel
  <2>1. cfg.leaves \subseteq [1 .. MaxLevel -> Shards]
    BY ConfigFacts
  <2> QED
    BY <2>1, ConfigFacts
<1> HIDE DEF N
<1>4. a \in T
  BY <1>1 DEF SameUpTo
<1>5. ASSUME NEW j \in a .. N - 1, j \in T PROVE j + 1 \in T
  <2>1. j \in 1 .. N /\ j + 1 \in 1 .. N /\ j \in 1 .. N - 1
    BY <1>1
  <2>2. ASSUME j + 1 <= k
        PROVE  SameUpTo(p[nodes[a].st], p[nodes[j + 1].st], nodes[a].dep)
    <3>1. j <= k /\ j + 1 \in a + 1 .. k
      BY <1>1, <2>1, <2>2
    <3>2. SameUpTo(p[nodes[a].st], p[nodes[j].st], nodes[a].dep)
      BY <1>5, <3>1
    <3>3. CASE at[j] # Steps
      <4>1. nodes[j + 1].st = nodes[j].st
        BY <1>1, <2>1, <3>3 DEF GoesOn
      <4> QED
        BY <3>2, <4>1
    <3>4. CASE at[j] = Steps
      <4> DEFINE q == p[nodes[j].st]
      <4> DEFINE r == p[nodes[j + 1].st]
      <4> DEFINE d == nodes[a].dep
      <4>1. Differ(q, r, at[j + 1])
        BY <1>1, <2>1, <3>4 DEF GoesOn
      <4>2. d \in Nat /\ at[j + 1] \in Nat /\ d < at[j + 1]
        <5>1. at[j + 1] > at[a] /\ at[a] \in Nat /\ d <= at[a] /\ d \in Nat /\ at[j + 1] \in Nat
          BY <1>1, <2>1, <3>1
        <5> HIDE DEF d
        <5> QED
          BY <5>1
      <4>3. r \in cfg.leaves
        BY <1>1, <1>2, <2>1
      <4>4. DOMAIN r = 1 .. MaxLevel
        BY <1>3, <4>3
      <4> HIDE DEF q, r, d
      <4>5. ASSUME NEW e \in 1 .. MaxLevel, cfg.vlevel[e] <= d PROVE q[e] = r[e]
        <5>1. cfg.vlevel[e] < at[j + 1]
          BY <1>3, <4>2, <4>5
        <5> QED
          BY <4>1, <4>4, <5>1 DEF Differ
      <4>6. SameUpTo(q, r, d)
        BY <4>5 DEF SameUpTo
      <4> QED
        BY <3>2, <4>6 DEF SameUpTo, q, r, d
    <3> QED
      BY <3>3, <3>4
  <2> QED
    BY <2>1, <2>2
<1> HIDE DEF T
<1>6. \A j \in a .. N : j \in T
  BY <1>1, <1>4, <1>5, CountingOn
<1>7. k \in T
  BY <1>1, <1>6
<1>8. k <= k
  BY <1>1
<1> QED
  BY <1>7, <1>8 DEF T

(* Of two nodes side by side the second begins another choice.             *)
LEMMA SiblingsDiffer ==
  ASSUME cfg \in Configs, NEW p \in Seq(cfg.leaves), NEW nodes, NEW at, IsWhole(nodes, p, at),
         \A i, j \in 1 .. Len(p) : i < j => Before(p[i], p[j]),
         NEW j \in 1 .. Len(nodes), NEW k \in 1 .. Len(nodes), j < k, nodes[j].prv = nodes[k].prv
  PROVE  ~SameUpTo(p[nodes[j].st], p[nodes[k].st], nodes[k].dep)
<1> DEFINE N == Len(nodes)
<1> DEFINE c == at[k]
<1> DEFINE P == p[nodes[j].st]
<1> DEFINE Q == p[nodes[k - 1].st]
<1> DEFINE R == p[nodes[k].st]
<1>1. /\ N \in Nat \ {0} /\ j \in Nat \ {0} /\ k \in Nat /\ Steps \in Nat
      /\ \A i \in 1 .. N : /\ nodes[i].prv \in 0 .. i - 1 /\ nodes[i].st \in 1 .. Len(p) /\ at[i] \in Nat
                           /\ at[i] = (IF nodes[i].prv = 0 THEN 1 ELSE at[nodes[i].prv] + 1)
      /\ \A i \in 1 .. k - 1 : nodes[k].prv < i => at[i] >= at[k]
      /\ \A i \in 1 .. N - 1 : GoesOn(nodes, p, at, i)
  <2>1. N \in Nat \ {0}
    BY WholeFacts
  <2>2. j \in Nat \ {0} /\ k \in Nat
    BY <2>1
  <2> QED
    BY <2>1, <2>2, WholeFacts
<1> HIDE DEF N
<1>2. /\ k - 1 \in 1 .. N - 1 /\ (k - 1) + 1 = k /\ k - 1 \in 1 .. N /\ j <= k - 1 /\ k - 1 \in 1 .. k - 1
      /\ j \in 1 .. N /\ k \in 1 .. N
  <2>1. j \in 1 .. N /\ k \in 1 .. N
    BY DEF N
  <2> QED
    BY <1>1, <2>1
<1>3. at[k - 1] = Steps
  <2>1. ASSUME at[k - 1] # Steps PROVE FALSE
    <3>1. nodes[k].prv = k - 1
      BY <1>1, <1>2, <2>1 DEF GoesOn
    <3>2. nodes[j].prv \in 0 .. j - 1 /\ nodes[j].prv = k - 1
      BY <1>1, <1>2, <3>1
    <3>3. PICK x : x = nodes[j].prv
      OBVIOUS
    <3>4. x \in 0 .. j - 1 /\ x = k - 1
      BY <3>2, <3>3
    <3> QED
      BY <1>1, <1>2, <3>4
  <2> QED
    BY <2>1
<1>4. nodes[k].st = nodes[k - 1].st + 1 /\ nodes[k].dep = c /\ Differ(Q, R, c)
  BY <1>1, <1>2, <1>3 DEF GoesOn
<1>5. /\ nodes[k - 1].st \in 1 .. Len(p) /\ nodes[k].st \in 1 .. Len(p) /\ nodes[j].st \in 1 .. Len(p)
      /\ nodes[j].st <= nodes[k - 1].st
  <2>1. nodes[j].st <= nodes[k - 1].st
    <3>1. CASE j = k - 1
      <4>1. nodes[j].st \in 1 .. Len(p)
        BY <1>1, <1>2
      <4>2. PICK x : x = nodes[j].st
        OBVIOUS
      <4>3. x \in 1 .. Len(p)
        BY <4>1, <4>2
      <4>4. x <= x
        BY <4>3
      <4> QED
        BY <3>1, <4>2, <4>4
    <3>2. CASE j # k - 1
      <4>1. j < k - 1
        BY <1>1, <1>2, <3>2
      <4> QED
        BY <1>2, <4>1, SubtasksGrow DEF N
    <3> QED
      BY <3>1, <3>2
  <2> QED
    BY <1>1, <1>2, <2>1
<1>6. P \in cfg.leaves /\ Q \in cfg.leaves /\ R \in cfg.leaves
  BY <1>5, SMTT(30)
<1>7. Before(Q, R) /\ (P = Q \/ Before(P, Q))
  <2>1. PICK x, y, z : x = nodes[j].st /\ y = nodes[k - 1].st /\ z = nodes[k].st
    OBVIOUS
  <2>2. x \in 1 .. Len(p) /\ y \in 1 .. Len(p) /\ z \in 1 .. Len(p) /\ x <= y /\ z = y + 1
    BY <1>4, <1>5, <2>1
  <2>3. y < z /\ (x = y \/ x < y)
    BY <2>2
  <2> QED
    BY <2>1, <2>2, <2>3
<1>8. /\ MaxLevel \in Nat /\ \A e \in 1 .. MaxLevel : cfg.vlevel[e] \in Nat
      /\ DOMAIN P = 1 .. MaxLevel /\ DOMAIN Q = 1 .. MaxLevel /\ DOMAIN R = 1 .. MaxLevel
      /\ Shards \subseteq Nat /\ \A e \in 1 .. MaxLevel : P[e] \in Shards /\ Q[e] \in Shards /\ R[e] \in Shards
  <2>1. P \in [1 .. MaxLevel -> Shards] /\ Q \in [1 .. MaxLevel -> Shards] /\ R \in [1 .. MaxLevel -> Shards]
    BY <1>6, ConfigFacts
  <2> HIDE DEF P, Q, R
  <2>2. /\ DOMAIN P = 1 .. MaxLevel /\ DOMAIN Q = 1 .. MaxLevel /\ DOMAIN R = 1 .. MaxLevel
        /\ \A e \in 1 .. MaxLevel : P[e] \in Shards /\ Q[e] \in Shards /\ R[e] \in Shards
    BY <2>1
  <2> QED
    BY <2>2, ConfigFacts, ShardsAssumption DEF ShardsAssumption
<1>9. c \in Nat
  BY <1>1, <1>2
<1> HIDE DEF P, Q, R, c
<1>10. ASSUME SameUpTo(P, R, c) PROVE FALSE
  <2>1. PICK i \in 1 .. MaxLevel : Q[i] < R[i] /\ \A m \in 1 .. i - 1 : Q[m] = R[m]
    BY <1>7, <1>8 DEF Before
  <2>2. PICK e \in 1 .. MaxLevel : cfg.vlevel[e] = c /\ Q[e] # R[e]
    BY <1>4, <1>8 DEF Differ
  <2>3. i <= e
    BY <1>8, <2>1, <2>2
  <2>4. \A m \in 1 .. i : m \in 1 .. MaxLevel /\ m <= e
    BY <1>8, <2>2, <2>3
  <2>5. \A m \in 1 .. i : cfg.vlevel[m] <= c
    BY <2>2, <2>4, LevelsGrow
  <2>6. \A m \in 1 .. i : P[m] = R[m]
    BY <1>10, <2>4, <2>5 DEF SameUpTo
  <2>7. i \in 1 .. i /\ \A m \in 1 .. i - 1 : m \in 1 .. i
    BY <1>8
  <2>8. Q[i] < P[i] /\ \A m \in 1 .. i - 1 : Q[m] = P[m]
    BY <2>1, <2>6, <2>7
  <2>9. Before(Q, P)
    BY <1>8, <2>8 DEF Before
  <2>10. <<Q, P>> \in LeafOrder /\ (P = Q \/ <<P, Q>> \in LeafOrder)
    BY <1>6, <1>7, <2>9, LeavesOrdered
  <2>11. StrictOrder(LeafOrder, cfg.leaves)
    BY LeavesOrdered
  <2> QED
    BY <1>6, <2>10, <2>11 DEF StrictOrder
<1> QED
  BY <1>4, <1>10 DEF P, R, c

(* What the two properties say of one task. *)
PathsOf(t) ==
  /\ \A k \in Tips(t.nodes) : Len(Ancestry(t.nodes, k)) = Steps
  /\ Cardinality(Tips(t.nodes)) = Len(t.subtasks)
  /\ {t.nodes[k].st : k \in Tips(t.nodes)} = DOMAIN t.subtasks
  /\ ToSet(t.roots) = Below(t.nodes, 0)

(* Every node of the task is a choice of its own. *)
ChoicesOf(t) ==
  /\ \A k \in Tips(t.nodes) : \A a \in ToSet(Ancestry(t.nodes, k)) :
       SameUpTo(t.subtasks[t.nodes[a].st], t.subtasks[t.nodes[k].st], t.nodes[a].dep)
  /\ \A j, k \in DOMAIN t.nodes :
       j < k /\ t.nodes[j].prv = t.nodes[k].prv =>
         ~SameUpTo(t.subtasks[t.nodes[j].st], t.subtasks[t.nodes[k].st], t.nodes[k].dep)

(* The subtasks of a task are in the order of the tree. *)
LEMMA SubtasksOrdered ==
  ASSUME PlanInv, VisitedInOrder, pc = "close"
  PROVE  \A i, j \in 1 .. Len(subtasks) : i < j => Before(subtasks[i], subtasks[j])
<1> DEFINE S == cfg.leaves
<1>1. /\ Planned \in Seq(S) /\ subtasks \in Seq(S) /\ SubtasksOf(group) \in Seq(S) /\ Collected \in Seq(S)
      /\ Planned \o subtasks \in Seq(S)
      /\ Visited = ((Planned \o subtasks) \o SubtasksOf(group)) \o Collected
  BY VisitedParts, VisitedHere
<1>2. PICK a, b, c, d : a = Planned /\ b = subtasks /\ c = SubtasksOf(group) /\ d = Collected
  OBVIOUS
<1>3. a \in Seq(S) /\ b \in Seq(S) /\ c \in Seq(S) /\ d \in Seq(S) /\ Visited = ((a \o b) \o c) \o d
  BY <1>1, <1>2
<1>4. \A i, j \in DOMAIN Visited : i < j => Before(Visited[i], Visited[j])
  BY DEF VisitedInOrder
<1> HIDE DEF S
<1>5. /\ a \o b \in Seq(S) /\ Len(a \o b) = Len(a) + Len(b) /\ Len(a) \in Nat /\ Len(b) \in Nat
      /\ \A i \in 1 .. Len(b) : (a \o b)[Len(a) + i] = b[i]
  BY ONLY <1>3, BothParts
<1>6. PICK e : e = a \o b
  OBVIOUS
<1>7. /\ e \o c \in Seq(S) /\ Len(e \o c) = Len(e) + Len(c) /\ Len(e) \in Nat /\ Len(c) \in Nat
      /\ \A i \in 1 .. Len(e) : (e \o c)[i] = e[i]
  <2>1. e \in Seq(S)
    BY <1>5, <1>6
  <2> QED
    BY ONLY <1>3, <2>1, BothParts
<1>8. PICK f : f = e \o c
  OBVIOUS
<1>9. /\ f \o d \in Seq(S) /\ Len(f \o d) = Len(f) + Len(d) /\ Len(f) \in Nat /\ Len(d) \in Nat
      /\ \A i \in 1 .. Len(f) : (f \o d)[i] = f[i]
  <2>1. f \in Seq(S)
    BY <1>7, <1>8
  <2> QED
    BY ONLY <1>3, <2>1, BothParts
<1>10. Visited = f \o d
  BY <1>3, <1>6, <1>8
<1>11. ASSUME NEW i \in 1 .. Len(b)
       PROVE  Len(a) + i \in DOMAIN Visited /\ Visited[Len(a) + i] = b[i]
  <2>1. i \in Nat /\ i >= 1 /\ i <= Len(b)
    BY <1>5
  <2>2. Len(e) = Len(a) + Len(b) /\ Len(f) = Len(e) + Len(c) /\ Len(f \o d) = Len(f) + Len(d)
    BY <1>5, <1>6, <1>7, <1>8, <1>9
  <2>3. Len(a) + i \in 1 .. Len(e) /\ Len(a) + i \in 1 .. Len(f) /\ Len(a) + i \in 1 .. Len(f \o d)
    BY <1>5, <1>7, <1>9, <2>1, <2>2
  <2>4. DOMAIN (f \o d) = 1 .. Len(f \o d)
    BY <1>9
  <2> QED
    BY <1>5, <1>6, <1>7, <1>8, <1>9, <1>10, <2>3, <2>4
<1>12. ASSUME NEW i \in 1 .. Len(b), NEW j \in 1 .. Len(b), i < j PROVE Before(b[i], b[j])
  <2>1. Len(a) + i < Len(a) + j
    BY <1>5, <1>12
  <2> QED
    BY <1>4, <1>11, <2>1
<1> QED
  BY <1>2, <1>12

(* The task made is a tree of matches, every node a choice of its own. *)
LEMMA TaskIsTree ==
  ASSUME PlanInv, VisitedInOrder, RoomIsCounted, HangInv, CloseTask,
         NEW t, t = [subtasks |-> subtasks, total |-> total, nodes |-> tree.nodes, roots |-> tree.roots]
  PROVE  PathsOf(t) /\ ChoicesOf(t)
<1>1. PICK nodes, p : nodes = tree.nodes /\ p = subtasks
  OBVIOUS
<1>2. t.subtasks = p /\ t.nodes = nodes /\ t.roots = tree.roots
  BY <1>1
<1>3. cfg \in Configs /\ p \in Seq(cfg.leaves) /\ Len(p) \in Nat /\ DOMAIN p = 1 .. Len(p)
  BY <1>1, InvFacts
<1>4. PICK at : IsWhole(nodes, p, at)
  BY <1>1, ClosedTree
<1>5. ToSet(t.roots) = Below(nodes, 0)
  BY <1>1, <1>2, ClosedTree
<1>6. \A i, j \in 1 .. Len(p) : i < j => Before(p[i], p[j])
  BY <1>1, SubtasksOrdered DEF CloseTask
<1>7. /\ \A k \in Tips(nodes) : Len(Ancestry(nodes, k)) = Steps
      /\ Cardinality(Tips(nodes)) = Len(p) /\ {nodes[k].st : k \in Tips(nodes)} = DOMAIN p
  BY <1>3, <1>4, PathsMatch, TipsAreSubtasks
<1>8. PathsOf(t)
  BY <1>2, <1>5, <1>7 DEF PathsOf
<1>9. ASSUME NEW k \in Tips(nodes), NEW a \in ToSet(Ancestry(nodes, k))
      PROVE  SameUpTo(p[nodes[a].st], p[nodes[k].st], nodes[a].dep)
  <2>1. k \in 1 .. Len(nodes)
    BY <1>3, <1>4, TipsAreDeepest
  <2>2. LineOf(Ancestry(nodes, k), at, k, Len(nodes))
    BY <1>3, <1>4, <2>1, AncestryLeads
  <2>3. a \in 1 .. Len(nodes) /\ a <= k /\ \A j \in a + 1 .. k : at[j] > at[a]
    BY <2>2 DEF LineOf
  <2> QED
    BY <1>3, <1>4, <2>1, <2>3, BelowAgrees
<1>10. ASSUME NEW j \in DOMAIN nodes, NEW k \in DOMAIN nodes, j < k, nodes[j].prv = nodes[k].prv
       PROVE  ~SameUpTo(p[nodes[j].st], p[nodes[k].st], nodes[k].dep)
  <2>1. DOMAIN nodes = 1 .. Len(nodes)
    BY <1>3, <1>4, WholeFacts
  <2>2. j \in 1 .. Len(nodes) /\ k \in 1 .. Len(nodes)
    BY <2>1
  <2> QED
    BY <1>3, <1>4, <1>6, <1>10, <2>2, SiblingsDiffer
<1>11. ChoicesOf(t)
  BY <1>2, <1>9, <1>10 DEF ChoicesOf
<1> QED
  BY <1>8, <1>11

(* The next state says the same of the tasks that are there. *)
LEMMA TasksKept ==
  ASSUME UNCHANGED cfg
  PROVE  \A t : (PathsOf(t)' <=> PathsOf(t)) /\ (ChoicesOf(t)' <=> ChoicesOf(t))
<1>1. MaxLevel' = MaxLevel /\ Steps' = Steps
  BY LevelsKept
<1>2. ASSUME NEW p, NEW q, NEW d PROVE SameUpTo(p, q, d)' <=> SameUpTo(p, q, d)
  BY <1>1 DEF SameUpTo
<1> QED
  BY <1>1, <1>2 DEF PathsOf, ChoicesOf

(* The trees of all tasks. *)
TreesInv == \A t \in ToSet(tasks) : PathsOf(t) /\ ChoicesOf(t)

(* The task made by a step is a tree like those that are there. *)
LEMMA NextTrees ==
  ASSUME PlanInv, VisitedInOrder, RoomIsCounted, HangInv, TreesInv, [Next]_vars
  PROVE  TreesInv'
<1>1. CASE CloseTask
  <2> DEFINE t == [subtasks |-> subtasks, total |-> total, nodes |-> tree.nodes, roots |-> tree.roots]
  <2>1. tasks' = Append(tasks, t) /\ cfg' = cfg /\ tasks \in Seq(ToSet(tasks))
    BY <1>1 DEF CloseTask, PlanInv, TypeOK
  <2>2. PathsOf(t) /\ ChoicesOf(t)
    BY <1>1, TaskIsTree
  <2> HIDE DEF t
  <2>3. \A u \in ToSet(tasks') : u \in ToSet(tasks) \/ u = t
    <3>1. PICK s, S : s = tasks /\ S = ToSet(tasks) \cup {t}
      OBVIOUS
    <3>2. s \in Seq(S) /\ t \in S
      BY <2>1, <3>1
    <3>3. ToSet(Append(s, t)) = ToSet(s) \cup {t}
      BY ONLY <3>2, RangeOfMore
    <3> QED
      BY <2>1, <3>1, <3>3
  <2>4. \A u \in ToSet(tasks') : PathsOf(u) /\ ChoicesOf(u)
    BY <2>2, <2>3 DEF TreesInv
  <2> QED
    BY <2>1, <2>4, TasksKept DEF TreesInv
<1>2. CASE UNCHANGED <<cfg, tasks>>
  <2>1. tasks' = tasks /\ cfg' = cfg
    BY <1>2
  <2>2. \A u \in ToSet(tasks') : PathsOf(u) /\ ChoicesOf(u)
    BY <2>1 DEF TreesInv
  <2> QED
    BY <2>1, <2>2, TasksKept DEF TreesInv
<1>3. CASE ~CloseTask
  <2>1. UNCHANGED <<cfg, tasks>>
    BY <1>3 DEF Next, OpenTask, StopEmpty, ScanNode, ScanLast, ScanOver, AddGroup, LeaveGroup, HangNode,
                CloseEmpty, TreeTooLarge, vars, scanVars, taskVars
  <2> QED
    BY <1>2, <2>1
<1> QED
  BY <1>1, <1>3

(* What holds at every step of the tree's construction. *)
BuildInv ==
  /\ LoopInv /\ ScanGroups /\ TmpComesNext
  /\ FillInv /\ ScanStarts /\ PendingInv /\ HangInv /\ TreesInv

(* A step that does not break a task off past the first vertex, with       *)
(* optional vertices.                                                      *)
BreaksWell == LeaveGroup /\ cfg.optional > 0 => cfg.vlevel[group.min] = 1

(* Every step keeps the invariant, but for a task of a query with optional *)
(* vertices that is broken off past the first vertex.                      *)
LEMMA NextBuild ==
  ASSUME BuildInv, [Next]_vars, BreaksWell
  PROVE  BuildInv'
<1>1. PlanInv /\ ScanInOrder /\ VisitedInOrder /\ RoomIsCounted
  BY DEF BuildInv, LoopInv
<1>2. LoopInv'
  BY <1>1, NextStep, NextOrder, NextRoom DEF LoopInv
<1>3. ScanGroups' /\ TmpComesNext'
  BY <1>1, NextGroups DEF BuildInv
<1>4. FillInv'
  BY <1>1, NextFill DEF BuildInv
<1>5. ScanStarts'
  BY <1>1, NextStarts DEF BuildInv
<1>6. PendingInv'
  BY <1>1, NextPendingGroup DEF BuildInv, BreaksWell
<1>7. HangInv'
  BY <1>1, NextHang DEF BuildInv
<1>8. TreesInv'
  BY <1>1, NextTrees DEF BuildInv
<1> QED
  BY <1>2, <1>3, <1>4, <1>5, <1>6, <1>7, <1>8 DEF BuildInv

(* The invariant holds at first. *)
LEMMA InitBuild == Init => BuildInv
<1>1. Init => LoopInv
  BY InitPlanInv, InitOrder, InitRoom DEF LoopInv
<1>2. Init => ScanGroups /\ TmpComesNext /\ FillInv /\ ScanStarts /\ PendingInv /\ HangInv
  BY InitGroups, InitFill, InitHang
<1>3. Init => TreesInv
  BY DEF Init, TreesInv, ToSet
<1> QED
  BY <1>1, <1>2, <1>3 DEF BuildInv

(* It holds always, of a run that breaks its tasks off where it may. *)
LEMMA TreesAreBuilt == Spec /\ BreaksAtFirstVertex => []BuildInv
<1>1. BuildInv /\ [Next]_vars /\ [BreaksWell]_vars => BuildInv'
  <2> SUFFICES ASSUME BuildInv, [Next]_vars, [BreaksWell]_vars PROVE BuildInv'
    OBVIOUS
  <2>1. CASE BreaksWell
    BY <2>1, NextBuild
  <2>2. CASE UNCHANGED vars
    <3>1. BreaksWell
      BY <2>2 DEF LeaveGroup, BreaksWell, vars
    <3> QED
      BY <3>1, NextBuild
  <2> QED
    BY <2>1, <2>2
<1>2. BreaksAtFirstVertex <=> [][BreaksWell]_vars
  BY DEF BreaksAtFirstVertex, BreaksWell
<1> QED
  BY <1>1, <1>2, InitBuild, PTL DEF Spec

(* Without optional vertices tasks may be broken off anywhere. *)
LEMMA BreaksAnywhere ==
  ASSUME \A c \in Configs : c.optional = 0
  PROVE  Spec => BreaksAtFirstVertex
<1>1. LoopInv /\ [Next]_vars => [BreaksWell]_vars
  <2>1. LoopInv => ~(cfg.optional > 0)
    <3>1. LoopInv => cfg \in Configs
      BY InvFacts DEF LoopInv
    <3> QED
      BY <3>1
  <2> QED
    BY <2>1 DEF BreaksWell
<1>2. BreaksAtFirstVertex <=> [][BreaksWell]_vars
  BY DEF BreaksAtFirstVertex, BreaksWell
<1> QED
  BY <1>1, <1>2, LoopInvariant, PTL DEF Spec

-----------------------------------------------------------------------------
(* The theorems.                                                           *)

(* However the scan of the scheduling tree and the filling of tasks are    *)
(* interleaved: the stack is a way into the tree; the leaves of the tasks, *)
(* of the task being filled and of the groups on their way to it are those *)
(* the scan went by, in order, and the rest is still to come; the shards   *)
(* collected for a task are those of its subtasks, and what is counted as  *)
(* used covers them.                                                       *)
THEOREM Invariance == Spec => []IInv
<1>1. LoopInv => IInv
  BY DEF LoopInv, PlanInv, IInv
<1> QED
  BY <1>1, LoopInvariant, PTL

(* The variables of the planner have their types. *)
THEOREM TypeCorrect == Spec => []TypeOK
<1>1. IInv => TypeOK
  BY DEF IInv
<1> QED
  BY <1>1, Invariance, PTL

(* The shards staged for a task are those of its subtasks, once each: none *)
(* that the kernel would read from host memory that holds something else,  *)
(* and none that takes device memory for nothing.                          *)
THEOREM StagedIsNeeded == Spec => []StagesWhatItNeeds
<1>1. IInv => StagesWhatItNeeds
  BY DEF IInv
<1> QED
  BY <1>1, Invariance, PTL

(* The planner implements the stream of tasks: however often the scan is   *)
(* broken off in the middle of the tree and resumed with the group that    *)
(* did not fit, every leaf gets into exactly one task, in the order of the *)
(* tree; the shards of a task of several subtasks fit in the device        *)
(* memory; and the plan ends only when all is planned, unless it is given  *)
(* up.  The 32 bits of required_size must hold the size of a subtask: with *)
(* a smaller modulus TLC finds a task that outgrows the device.            *)
THEOREM Refinement ==
  ASSUME NothingWraps
  PROVE  Spec => Implements
<1>1. LoopInv /\ [Next]_vars => [Stream!Next]_(Stream!vars)
  BY StreamStep
<1>2. Spec => Stream!Init /\ [][Stream!Next]_(Stream!vars)
  BY <1>1, InitStream, LoopInvariant, PTL DEF Spec
<1> QED
  BY <1>2 DEF Implements, Stream!Spec

(* The plan is cut short, and the total incomplete, only if the next       *)
(* subtask does not fit in the device memory, whatever was refused before. *)
(* The task refused then is empty, so it is not one of the tables that is  *)
(* nearly full (the code has MaxNumTreeNodes = 500), and nothing was       *)
(* counted for it that its own shards do not take.                         *)
THEOREM StopIsForMemory ==
  ASSUME NothingWraps, MaxNumTreeNodes >= 10
  PROVE  Spec => []StopsShortOnlyForMemory
<1>1. Init => Refused /\ StopsShortOnlyForMemory
  BY DEF Init, Refused, StopsShortOnlyForMemory, Short
<1>2. LoopInv /\ Refused /\ StopsShortOnlyForMemory /\ [Next]_vars => (Refused /\ StopsShortOnlyForMemory)'
  BY RefusedStep, ShortStep
<1> QED
  BY <1>1, <1>2, LoopInvariant, PTL DEF Spec

(* The tree of every task is one of matches: however the scan is broken    *)
(* off and resumed, and whatever entries are carried into the next task,   *)
(* every path from a root takes all the vertices of the query, every       *)
(* subtask is the end of exactly one, and the list of roots misses none.   *)
(* With optional vertices the task must have been broken off at the first  *)
(* vertex, as the planner asserts; without them that is no condition       *)
(* (BreaksAnywhere).                                                       *)
THEOREM PathsAreMatches == Spec /\ BreaksAtFirstVertex => []EveryPathIsAMatch
<1>1. BuildInv => EveryPathIsAMatch
  BY DEF BuildInv, TreesInv, PathsOf, EveryPathIsAMatch
<1> QED
  BY <1>1, TreesAreBuilt, PTL

(* A node of those trees stands for one choice of shards: all subtasks     *)
(* below it agree with its own up to its vertex, and no two nodes side by  *)
(* side stand for the same choice, so the kernel neither uses the shards   *)
(* of another subtask nor extends a partial match twice.                   *)
THEOREM NodesChoose == Spec /\ BreaksAtFirstVertex => []NodesAreChoices
<1>1. BuildInv => NodesAreChoices
  BY DEF BuildInv, TreesInv, ChoicesOf, NodesAreChoices
<1> QED
  BY <1>1, TreesAreBuilt, PTL
=============================================================================

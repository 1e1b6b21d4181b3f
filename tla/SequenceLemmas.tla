--------------------------- MODULE SequenceLemmas ---------------------------
(***************************************************************************)
(* What the operators on sequences of the models return, by position.      *)
(***************************************************************************)
EXTENDS SequencesExt, SequenceTheorems, SetLemmas, TLAPS

(* A function on the first n numbers is a sequence. *)
LEMMA Numbered ==
  ASSUME NEW S, NEW n \in Nat, NEW f \in [1 .. n -> S]
  PROVE  f \in Seq(S) /\ Len(f) = n
BY SeqDef

(* A sequence is one of its own elements. *)
LEMMA OwnElements ==
  ASSUME NEW S, NEW s \in Seq(S)
  PROVE  s \in Seq(ToSet(s)) /\ ToSet(s) \subseteq S
<1>1. s \in [1 .. Len(s) -> ToSet(s)] /\ Len(s) \in Nat /\ ToSet(s) \subseteq S
  BY DEF ToSet
<1> QED
  BY <1>1, Numbered

(* A sequence without its element at place i. *)
LEMMA RemovedAt ==
  ASSUME NEW S, NEW s \in Seq(S), NEW i \in 1 .. Len(s)
  PROVE  /\ RemoveAt(s, i) \in Seq(S)
         /\ Len(RemoveAt(s, i)) = Len(s) - 1
         /\ \A j \in 1 .. Len(s) - 1 : RemoveAt(s, i)[j] = IF j < i THEN s[j] ELSE s[j + 1]
<1> DEFINE a == SubSeq(s, 1, i - 1)
           b == SubSeq(s, i + 1, Len(s))
<1>1. a \in Seq(S) /\ Len(a) = i - 1 /\ \A j \in 1 .. i - 1 : a[j] = s[j]
  BY SubSeqProperties
<1>2. b \in Seq(S) /\ Len(b) = Len(s) - i /\ \A j \in 1 .. Len(s) - i : b[j] = s[i + j]
  <2>1. \A j \in i + 1 .. Len(s) : s[j] \in S
    OBVIOUS
  <2>2. Len(b) = IF i + 1 <= Len(s) THEN Len(s) - (i + 1) + 1 ELSE 0
    BY <2>1, SubSeqProperties
  <2>3. \A j \in 1 .. Len(s) - (i + 1) + 1 : b[j] = s[(i + 1) + j - 1]
    BY <2>1, SubSeqProperties
  <2>4. b \in Seq(S)
    BY <2>1, SubSeqProperties
  <2> QED
    BY <2>2, <2>3, <2>4
<1> DEFINE c == a \o b
<1>3. /\ c \in Seq(S) /\ Len(c) = Len(s) - 1
      /\ \A j \in 1 .. Len(s) - 1 : c[j] = IF j < i THEN s[j] ELSE s[j + 1]
  <2>1. c \in Seq(S) /\ Len(c) = Len(a) + Len(b)
    BY <1>1, <1>2, ConcatProperties
  <2>2. \A j \in 1 .. Len(a) + Len(b) : c[j] = IF j <= Len(a) THEN a[j] ELSE b[j - Len(a)]
    BY <1>1, <1>2, ConcatProperties
  <2> HIDE DEF a, b, c
  <2>3. Len(a) + Len(b) = Len(s) - 1 /\ i - 1 \in Nat /\ Len(s) \in Nat
    BY <1>1, <1>2
  <2>4. ASSUME NEW j \in 1 .. Len(s) - 1 PROVE c[j] = IF j < i THEN s[j] ELSE s[j + 1]
    <3>1. CASE j < i
      BY <1>1, <2>2, <2>3, <3>1
    <3>2. CASE ~(j < i)
      <4>1. j - (i - 1) \in 1 .. Len(s) - i /\ i + (j - (i - 1)) = j + 1
        BY <3>2
      <4>2. c[j] = b[j - (i - 1)]
        BY <1>1, <2>2, <2>3, <3>2
      <4>3. b[j - (i - 1)] = s[i + (j - (i - 1))]
        BY <1>2, <4>1
      <4> QED
        BY <3>2, <4>1, <4>2, <4>3
    <3> QED
      BY <3>1, <3>2
  <2> QED
    BY <2>1, <2>3, <2>4
<1>4. RemoveAt(s, i) = c
  BY DEF RemoveAt
<1> HIDE DEF a, b, c
<1> QED
  BY <1>3, <1>4

(* The element at place i of a sequence becomes its last one. *)
LEMMA MoveToBack ==
  ASSUME NEW S, NEW s \in Seq(S), NEW i \in 1 .. Len(s)
  PROVE  /\ Append(RemoveAt(s, i), s[i]) \in Seq(S)
         /\ Len(Append(RemoveAt(s, i), s[i])) = Len(s)
         /\ \A j \in 1 .. Len(s) :
              Append(RemoveAt(s, i), s[i])[j] =
                IF j < i THEN s[j] ELSE IF j < Len(s) THEN s[j + 1] ELSE s[i]
<1> DEFINE c == RemoveAt(s, i)
<1>1. /\ c \in Seq(S) /\ Len(c) = Len(s) - 1
      /\ \A j \in 1 .. Len(s) - 1 : c[j] = IF j < i THEN s[j] ELSE s[j + 1]
  BY RemovedAt
<1>2. s[i] \in S
  OBVIOUS
<1> HIDE DEF c
<1>3. /\ Append(c, s[i]) \in Seq(S) /\ Len(Append(c, s[i])) = Len(s)
      /\ \A j \in 1 .. Len(s) :
           Append(c, s[i])[j] = IF j < i THEN s[j] ELSE IF j < Len(s) THEN s[j + 1] ELSE s[i]
  BY <1>1, <1>2
<1> QED
  BY <1>3 DEF c

(* What a fold of the elements of s at any of the places 1 .. n does: the  *)
(* last one is worked in last.                                             *)
FoldOf(f, n, base, s, step) ==
  \A S \in SUBSET (1 .. n) :
    f[S] = IF S = {} THEN base ELSE step[<<f[S \ {Max(S)}], s[Max(S)]>>]

(* The function by which FoldLeft is defined exists: it folds the elements *)
(* of a sequence at any set of places.                                     *)
LEMMA FoldExists ==
  ASSUME NEW A, NEW base \in A, NEW n \in Nat, NEW E, NEW s \in [1 .. n -> E],
         NEW step \in [A \X E -> A]
  PROVE  \E f \in [SUBSET (1 .. n) -> A] : FoldOf(f, n, base, s, step)
<1> DEFINE Rec(f, k) == f = [S \in SUBSET (1 .. k) |->
                  IF S = {} THEN base ELSE step[<<f[S \ {Max(S)}], s[Max(S)]>>]]
           Bad == {k \in 0 .. n : ~\E f \in [SUBSET (1 .. k) -> A] : Rec(f, k)}
<1>1. 0 \notin Bad
  <2> DEFINE f == [S \in SUBSET (1 .. 0) |-> base]
  <2>1. \A S \in SUBSET (1 .. 0) : S = {}
    OBVIOUS
  <2>2. f \in [SUBSET (1 .. 0) -> A]
    OBVIOUS
  <2>3. Rec(f, 0)
    BY <2>1
  <2> QED
    BY <2>2, <2>3
<1>2. ASSUME NEW k \in 1 .. n, k \in Bad, k - 1 \notin Bad PROVE FALSE
  <2>1. PICK f \in [SUBSET (1 .. k - 1) -> A] : Rec(f, k - 1)
    <3>1. k - 1 \in 0 .. n
      BY <1>2
    <3> HIDE DEF Rec
    <3> QED
      BY <1>2, <3>1
  <2> DEFINE g == [S \in SUBSET (1 .. k) |-> IF k \in S THEN step[<<f[S \ {k}], s[k]>>] ELSE f[S]]
  <2>2. ASSUME NEW S \in SUBSET (1 .. k)
        PROVE  /\ k \in S => Max(S) = k /\ S \ {k} \in SUBSET (1 .. k - 1)
               /\ k \notin S => S \in SUBSET (1 .. k - 1)
    BY <2>2, GreatestUpTo
  <2>3. s[k] \in E
    BY <1>2
  <2>4. g \in [SUBSET (1 .. k) -> A]
    <3>1. ASSUME NEW S \in SUBSET (1 .. k) PROVE g[S] \in A
      <4>1. CASE k \in S
        <5>1. f[S \ {k}] \in A
          BY <2>2, <4>1
        <5> QED
          BY <2>3, <4>1, <5>1
      <4>2. CASE k \notin S
        BY <2>2, <4>2
      <4> QED
        BY <4>1, <4>2
    <3> QED
      BY <3>1
  <2>5. \A S \in SUBSET (1 .. k - 1) : S \in SUBSET (1 .. k) /\ k \notin S
    BY <1>2
  <2>6. ASSUME NEW S \in SUBSET (1 .. k)
        PROVE  g[S] = IF S = {} THEN base ELSE step[<<g[S \ {Max(S)}], s[Max(S)]>>]
    <3>1. CASE k \in S
      <4>1. Max(S) = k /\ S \ {k} \in SUBSET (1 .. k - 1) /\ S # {}
        BY <2>2, <3>1
      <4>2. g[S \ {k}] = f[S \ {k}]
        BY <2>5, <4>1
      <4> QED
        BY <3>1, <4>1, <4>2
    <3>2. CASE k \notin S
      <4>1. S \in SUBSET (1 .. k - 1)
        BY <2>2, <3>2
      <4>2. f[S] = IF S = {} THEN base ELSE step[<<f[S \ {Max(S)}], s[Max(S)]>>]
        BY <2>1, <4>1
      <4>3. S \ {Max(S)} \in SUBSET (1 .. k - 1)
        BY <4>1
      <4>4. g[S \ {Max(S)}] = f[S \ {Max(S)}]
        BY <2>5, <4>3
      <4>5. g[S] = f[S]
        BY <3>2
      <4> QED
        BY <4>2, <4>4, <4>5
    <3> QED
      BY <3>1, <3>2
  <2>7. Rec(g, k)
    <3> DEFINE r == [S \in SUBSET (1 .. k) |->
                       IF S = {} THEN base ELSE step[<<g[S \ {Max(S)}], s[Max(S)]>>]]
    <3>1. g = [S \in SUBSET (1 .. k) |-> g[S]]
      OBVIOUS
    <3> HIDE DEF g
    <3>2. \A S \in SUBSET (1 .. k) : g[S] = r[S]
      BY <2>6
    <3> QED
      BY <3>1, <3>2
  <2> HIDE DEF g, Rec
  <2> QED
    BY <1>2, <2>4, <2>7
<1>3. Bad = {}
  <2> SUFFICES ASSUME Bad # {} PROVE FALSE
    OBVIOUS
  <2>1. PICK k \in Bad : \A j \in Bad : k <= j
    <3>1. Bad \in SUBSET Nat
      OBVIOUS
    <3> HIDE DEF Bad
    <3> QED
      BY <3>1, LeastNatural
  <2>2. k \in 1 .. n /\ k - 1 \notin Bad
    <3>1. k \in 0 .. n /\ k # 0
      BY <1>1, <2>1
    <3>2. k \in Nat /\ ~(k <= k - 1)
      BY <3>1
    <3> HIDE DEF Bad
    <3> QED
      BY <2>1, <3>1, <3>2
  <2> QED
    BY <1>2, <2>1, <2>2
<1> HIDE DEF Rec
<1>4. \E f \in [SUBSET (1 .. n) -> A] : Rec(f, n)
  <2>1. n \in 0 .. n
    OBVIOUS
  <2> QED
    BY <1>3, <2>1
<1> QED
  <2>1. PICK f \in [SUBSET (1 .. n) -> A] : Rec(f, n)
    BY <1>4
  <2>2. ASSUME NEW S \in SUBSET (1 .. n)
        PROVE  f[S] = IF S = {} THEN base ELSE step[<<f[S \ {Max(S)}], s[Max(S)]>>]
    BY <2>1 DEF Rec
  <2> QED
    BY <2>2 DEF FoldOf

(* The same for a function of which less is known: what it does to values  *)
(* in A.                                                                   *)
FoldsWithin(h, A, n, base, s, step) ==
  /\ h[{}] = base
  /\ \A S \in SUBSET (1 .. n) :
       S # {} /\ h[S \ {Max(S)}] \in A => h[S] = step[<<h[S \ {Max(S)}], s[Max(S)]>>]

(* The values of a fold from left to right. *)
LeftToRight(g, n, base, s, step) ==
  /\ g[0] = base
  /\ \A k \in 1 .. n : g[k] = step[<<g[k - 1], s[k]>>]

GoesLeftToRight(h, A, n, base, s, step) ==
  \E g \in [0 .. n -> A] : LeftToRight(g, n, base, s, step) /\ h[1 .. n] = g[n]

(* A fold goes through the sequence from its beginning. *)
LEMMA FoldSteps ==
  ASSUME NEW A, NEW base \in A, NEW n \in Nat, NEW E, NEW s \in [1 .. n -> E],
         NEW step \in [A \X E -> A], NEW h, FoldsWithin(h, A, n, base, s, step)
  PROVE  GoesLeftToRight(h, A, n, base, s, step)
<1> DEFINE T == {k \in 0 .. n : h[1 .. k] \in A}
<1>1. h[1 .. 0] = base
  <2>1. 1 .. 0 = {}
    OBVIOUS
  <2> QED
    BY <2>1 DEF FoldsWithin
<1>2. ASSUME NEW k \in 1 .. n, h[1 .. k - 1] \in A
      PROVE  h[1 .. k] = step[<<h[1 .. k - 1], s[k]>>] /\ h[1 .. k] \in A
  <2> DEFINE S == 1 .. k
  <2>1. S \in SUBSET (1 .. n) /\ S # {} /\ Max(S) = k /\ S \ {k} = 1 .. k - 1
    BY PlacesUpTo
  <2> HIDE DEF S
  <2>2. h[S] = step[<<h[S \ {Max(S)}], s[Max(S)]>>]
    BY <1>2, <2>1 DEF FoldsWithin
  <2>3. s[k] \in E
    BY <1>2
  <2> QED
    BY <1>2, <2>1, <2>2, <2>3 DEF S
<1>3. \A k \in 0 .. n : k \in T
  <2>1. 0 \in T
    BY <1>1
  <2>2. ASSUME NEW k \in 1 .. n, k - 1 \in T PROVE k \in T
    <3>1. h[1 .. k - 1] \in A /\ k \in 0 .. n
      BY <2>2
    <3> QED
      BY <1>2, <3>1
  <2> HIDE DEF T
  <2> QED
    BY <2>1, <2>2, CountingUp
<1> DEFINE g == [k \in 0 .. n |-> h[1 .. k]]
<1>4. g \in [0 .. n -> A] /\ n \in 0 .. n
  BY <1>3
<1>5. g[0] = base
  BY <1>1
<1>6. ASSUME NEW k \in 1 .. n PROVE g[k] = step[<<g[k - 1], s[k]>>]
  <2>1. k \in 0 .. n /\ k - 1 \in 0 .. n
    BY <1>6
  <2>2. g[k] = h[1 .. k] /\ g[k - 1] = h[1 .. k - 1] /\ h[1 .. k - 1] \in A
    BY <1>3, <2>1
  <2> QED
    BY <1>2, <2>2
<1>7. h[1 .. n] = g[n]
  BY <1>4
<1> HIDE DEF g
<1> QED
  BY <1>4, <1>5, <1>6, <1>7 DEF LeftToRight, GoesLeftToRight

-----------------------------------------------------------------------------
(* Sequences of sequences.                                                 *)

(* The equation of the function by which FlattenSeq is defined. *)
Flattens(f, ss) ==
  \A i \in 1 .. Len(ss) : f[i] = IF i = 1 THEN ss[i] ELSE f[i - 1] \o ss[i]

(* There is such a function for every sequence of sequences. *)
LEMMA FlattenExists ==
  ASSUME NEW S, NEW ss \in Seq(Seq(S))
  PROVE  \E f \in [1 .. Len(ss) -> Seq(S)] : Flattens(f, ss)
<1> DEFINE n == Len(ss)
           Good(f, k) == \A i \in 1 .. k : /\ f[i] \in Seq(S)
                                          /\ f[i] = IF i = 1 THEN ss[i] ELSE f[i - 1] \o ss[i]
           T == {k \in 0 .. n : \E f : Good(f, k)}
<1>1. n \in Nat /\ \A i \in 1 .. n : ss[i] \in Seq(S)
  OBVIOUS
<1>2. 0 \in T
  <2> DEFINE f == <<>>
  <2>1. Good(f, 0)
    OBVIOUS
  <2> HIDE DEF Good, f
  <2> QED
    BY <1>1, <2>1
<1>3. ASSUME NEW k \in 1 .. n, k - 1 \in T PROVE k \in T
  <2>1. PICK f : Good(f, k - 1)
    BY <1>3
  <2> DEFINE e == IF k = 1 THEN ss[k] ELSE f[k - 1] \o ss[k]
             g == [i \in 1 .. k |-> IF i = k THEN e ELSE f[i]]
  <2>2. e \in Seq(S)
    <3>1. CASE k = 1
      BY <1>1, <3>1
    <3>2. CASE k # 1
      <4>1. k - 1 \in 1 .. k - 1
        BY <3>2
      <4>2. f[k - 1] \in Seq(S) /\ ss[k] \in Seq(S)
        BY <1>1, <2>1, <4>1
      <4> QED
        BY <3>2, <4>2
    <3> QED
      BY <3>1, <3>2
  <2>3. ASSUME NEW i \in 1 .. k
        PROVE  g[i] \in Seq(S) /\ g[i] = IF i = 1 THEN ss[i] ELSE g[i - 1] \o ss[i]
    <3>1. CASE i = k
      <4>1. i # 1 => i - 1 \in 1 .. k /\ i - 1 # k
        BY <3>1
      <4>2. i # 1 => g[i - 1] = f[k - 1]
        BY <3>1, <4>1
      <4> QED
        BY <2>2, <3>1, <4>2
    <3>2. CASE i # k
      <4>1. i \in 1 .. k - 1 /\ (i # 1 => i - 1 \in 1 .. k /\ i - 1 # k)
        BY <3>2
      <4>2. g[i] = f[i] /\ (i # 1 => g[i - 1] = f[i - 1])
        BY <3>2, <4>1
      <4>3. f[i] \in Seq(S) /\ f[i] = IF i = 1 THEN ss[i] ELSE f[i - 1] \o ss[i]
        BY <2>1, <4>1
      <4> QED
        BY <4>2, <4>3
    <3> QED
      BY <3>1, <3>2
  <2> HIDE DEF g
  <2>4. Good(g, k)
    BY <2>3
  <2>5. k \in 0 .. n
    OBVIOUS
  <2> HIDE DEF Good
  <2> QED
    BY <2>4, <2>5
<1>4. n \in T
  <2>1. n \in 0 .. n
    BY <1>1
  <2> HIDE DEF T, n
  <2> QED
    BY <1>1, <1>2, <1>3, <2>1, CountingUp
<1>5. PICK f : Good(f, n)
  BY <1>4
<1> DEFINE h == [i \in 1 .. n |-> f[i]]
<1>6. h \in [1 .. n -> Seq(S)]
  BY <1>5
<1>7. ASSUME NEW i \in 1 .. n PROVE h[i] = IF i = 1 THEN ss[i] ELSE h[i - 1] \o ss[i]
  <2>1. i # 1 => i - 1 \in 1 .. n
    OBVIOUS
  <2>2. f[i] = IF i = 1 THEN ss[i] ELSE f[i - 1] \o ss[i]
    BY <1>5
  <2> QED
    BY <2>1, <2>2
<1> HIDE DEF h
<1> QED
  BY <1>6, <1>7 DEF Flattens

(* What FlattenSeq computes with. *)
LEMMA FlattenOf ==
  ASSUME NEW S, NEW ss \in Seq(Seq(S)), ss # <<>>
  PROVE  \E f \in [1 .. Len(ss) -> Seq(S)] : Flattens(f, ss) /\ FlattenSeq(ss) = f[Len(ss)]
<1> DEFINE n == Len(ss)
           Rec(f) == f = [i \in 1 .. n |-> IF i = 1 THEN ss[i] ELSE f[i - 1] \o ss[i]]
           f == CHOOSE g : Rec(g)
<1>1. n \in Nat \ {0} /\ \A i \in 1 .. n : ss[i] \in Seq(S)
  OBVIOUS
<1>2. FlattenSeq(ss) = f[n]
  BY <1>1 DEF FlattenSeq
<1>3. PICK g \in [1 .. n -> Seq(S)] : Flattens(g, ss)
  BY FlattenExists
<1>4. Rec(g)
  <2> DEFINE q == [i \in 1 .. n |-> IF i = 1 THEN ss[i] ELSE g[i - 1] \o ss[i]]
  <2>1. \A i \in 1 .. n : g[i] = q[i]
    BY <1>3 DEF Flattens
  <2>2. g = [i \in 1 .. n |-> g[i]]
    OBVIOUS
  <2> QED
    BY <2>1, <2>2
<1>5. Rec(f)
  <2> HIDE DEF Rec
  <2> QED
    BY <1>4
<1> HIDE DEF f
<1>6. \A i \in 1 .. n : f[i] = IF i = 1 THEN ss[i] ELSE f[i - 1] \o ss[i]
  BY <1>5
<1>7. f = [i \in 1 .. n |-> f[i]]
  <2> DEFINE q == [i \in 1 .. n |-> IF i = 1 THEN ss[i] ELSE f[i - 1] \o ss[i]]
  <2>1. f = q /\ q = [i \in 1 .. n |-> q[i]]
    BY <1>5
  <2> HIDE DEF q
  <2> QED
    BY <2>1
<1> DEFINE T == {k \in 0 .. n : k = 0 \/ f[k] \in Seq(S)}
<1>8. 0 \in T
  BY <1>1
<1>9. ASSUME NEW k \in 1 .. n, k - 1 \in T PROVE k \in T
  <2>1. f[k] = IF k = 1 THEN ss[k] ELSE f[k - 1] \o ss[k]
    BY <1>6
  <2>2. k # 1 => f[k - 1] \in Seq(S)
    BY <1>9
  <2>3. f[k] \in Seq(S)
    BY <1>1, <2>1, <2>2
  <2> QED
    BY <2>3
<1>10. \A k \in 0 .. n : k \in T
  <2> HIDE DEF T, n
  <2> QED
    BY <1>1, <1>8, <1>9, CountingUp
<1>11. f \in [1 .. n -> Seq(S)]
  <2>1. \A k \in 1 .. n : f[k] \in Seq(S)
    BY <1>10
  <2> QED
    BY <1>7, <2>1
<1> QED
  BY <1>2, <1>6, <1>11 DEF Flattens

(* A sequence more at the end. *)
LEMMA FlattenAppend ==
  ASSUME NEW S, NEW ss \in Seq(Seq(S)), NEW s \in Seq(S)
  PROVE  /\ FlattenSeq(ss) \in Seq(S)
         /\ FlattenSeq(Append(ss, s)) = FlattenSeq(ss) \o s
<1> DEFINE n == Len(ss)
           tt == Append(ss, s)
<1>1. n \in Nat /\ tt \in Seq(Seq(S)) /\ Len(tt) = n + 1 /\ tt # <<>>
      /\ tt[n + 1] = s /\ \A i \in 1 .. n : tt[i] = ss[i] /\ ss[i] \in Seq(S)
  OBVIOUS
<1> HIDE DEF tt
<1>2. PICK g \in [1 .. Len(tt) -> Seq(S)] : Flattens(g, tt) /\ FlattenSeq(tt) = g[Len(tt)]
  BY <1>1, FlattenOf
<1>3. CASE ss = <<>>
  <2>1. n = 0 /\ FlattenSeq(ss) = <<>>
    BY <1>3 DEF FlattenSeq
  <2>2. 1 \in 1 .. Len(tt) /\ Len(tt) = 1
    BY <1>1, <2>1
  <2>3. g[1] = tt[1]
    BY <1>2, <2>2 DEF Flattens
  <2>4. FlattenSeq(tt) = s
    BY <1>1, <1>2, <2>1, <2>2, <2>3
  <2> QED
    BY <2>1, <2>4 DEF tt
<1>4. CASE ss # <<>>
  <2>1. PICK f \in [1 .. n -> Seq(S)] : Flattens(f, ss) /\ FlattenSeq(ss) = f[n]
    BY <1>4, FlattenOf
  <2>2. n # 0 /\ n \in 1 .. n
    BY <1>1, <1>4
  <2> DEFINE T == {k \in 0 .. n : k = 0 \/ g[k] = f[k]}
  <2>3. 0 \in T
    BY <1>1
  <2>4. ASSUME NEW k \in 1 .. n, k - 1 \in T PROVE k \in T
    <3>1. k \in 1 .. Len(tt) /\ k \in 1 .. Len(ss) /\ tt[k] = ss[k]
      BY <1>1
    <3>2. g[k] = IF k = 1 THEN tt[k] ELSE g[k - 1] \o tt[k]
      BY <1>2, <3>1 DEF Flattens
    <3>3. f[k] = IF k = 1 THEN ss[k] ELSE f[k - 1] \o ss[k]
      BY <2>1, <3>1 DEF Flattens
    <3>4. k # 1 => g[k - 1] = f[k - 1]
      BY <2>4
    <3>5. g[k] = f[k]
      BY <3>1, <3>2, <3>3, <3>4
    <3> QED
      BY <3>5
  <2>5. n \in T
    <3>1. n \in 0 .. n
      BY <1>1
    <3> HIDE DEF T, n
    <3> QED
      BY <1>1, <2>3, <2>4, <3>1, CountingUp
  <2>6. g[n] = f[n]
    BY <2>2, <2>5
  <2>7. n + 1 \in 1 .. Len(tt) /\ n + 1 # 1 /\ (n + 1) - 1 = n
    BY <1>1, <2>2
  <2>8. g[n + 1] = g[n] \o tt[n + 1]
    BY <1>2, <2>7 DEF Flattens
  <2>9. FlattenSeq(tt) = f[n] \o s /\ f[n] \in Seq(S)
    BY <1>1, <1>2, <2>2, <2>6, <2>8
  <2> QED
    BY <2>1, <2>9 DEF tt
<1> QED
  BY <1>3, <1>4

(* The parts of a sequence put together of two. *)
LEMMA BothParts ==
  ASSUME NEW S, NEW a \in Seq(S), NEW b \in Seq(S)
  PROVE  /\ a \o b \in Seq(S) /\ Len(a \o b) = Len(a) + Len(b)
         /\ Len(a) \in Nat /\ Len(b) \in Nat
         /\ \A i \in 1 .. Len(a) : (a \o b)[i] = a[i]
         /\ \A i \in 1 .. Len(b) : (a \o b)[Len(a) + i] = b[i]
OBVIOUS

(* What is left of a sequence after its first m elements. *)
LEMMA RestOf ==
  ASSUME NEW S, NEW s \in Seq(S), NEW m \in 0 .. Len(s)
  PROVE  /\ SubSeq(s, m + 1, Len(s)) \in Seq(S)
         /\ Len(SubSeq(s, m + 1, Len(s))) = Len(s) - m
         /\ \A i \in 1 .. Len(s) - m : SubSeq(s, m + 1, Len(s))[i] = s[m + i]
<1> DEFINE n == Len(s)
           r == SubSeq(s, m + 1, n)
<1>1. n \in Nat /\ m \in Nat /\ m <= n /\ m + 1 \in Int /\ n \in Int
  OBVIOUS
<1>2. \A i \in m + 1 .. n : s[i] \in S
  OBVIOUS
<1> HIDE DEF n
<1>3. /\ r \in Seq(S) /\ Len(r) = IF m + 1 <= n THEN n - (m + 1) + 1 ELSE 0
      /\ \A i \in 1 .. n - (m + 1) + 1 : r[i] = s[(m + 1) + i - 1]
  BY <1>1, <1>2, SubSeqProperties
<1> HIDE DEF r
<1>4. Len(r) = n - m
  BY <1>1, <1>3
<1>5. ASSUME NEW i \in 1 .. n - m PROVE r[i] = s[m + i]
  <2>1. i \in 1 .. n - (m + 1) + 1 /\ (m + 1) + i - 1 = m + i
    BY <1>1
  <2>2. r[i] = s[(m + 1) + i - 1]
    BY <1>3, <2>1
  <2> QED
    BY <2>1, <2>2
<1> QED
  BY <1>3, <1>4, <1>5 DEF r, n
(* Where the parts of a flattened sequence begin, less one. *)
Starts(start, ss) ==
  /\ start \in [0 .. Len(ss) -> Nat] /\ start[0] = 0
  /\ \A p \in 1 .. Len(ss) : start[p] = start[p - 1] + Len(ss[p])

(* The later a part, the later it begins. *)
LEMMA StartsGrow ==
  ASSUME NEW S, NEW ss \in Seq(Seq(S)), NEW start, Starts(start, ss),
         NEW p \in 0 .. Len(ss), NEW q \in 0 .. Len(ss), p <= q
  PROVE  start[p] <= start[q]
<1> DEFINE n == Len(ss)
           T == {k \in 0 .. n : p <= k => start[p] <= start[k]}
<1>1. n \in Nat /\ \A k \in 1 .. n : Len(ss[k]) \in Nat
  OBVIOUS
<1>2. start \in [0 .. n -> Nat] /\ \A k \in 1 .. n : start[k] = start[k - 1] + Len(ss[k])
  BY DEF Starts
<1> HIDE DEF n
<1>3. 0 \in T
  BY <1>1, <1>2 DEF n
<1>4. ASSUME NEW k \in 1 .. n, k - 1 \in T PROVE k \in T
  <2>1. k - 1 \in 0 .. n /\ k \in 0 .. n /\ p \in 0 .. n
    BY <1>1 DEF n
  <2>2. start[k - 1] \in Nat /\ start[k] \in Nat /\ start[p] \in Nat
    BY <1>2, <2>1
  <2>5. start[k - 1] <= start[k]
    <3>1. start[k] = start[k - 1] + Len(ss[k]) /\ Len(ss[k]) \in Nat
      BY <1>1, <1>2
    <3> QED
      BY <2>2, <3>1
  <2>3. CASE p = k
    BY <2>1, <2>2, <2>3
  <2>4. CASE p # k
    <3>1. p <= k => p <= k - 1
      BY <2>1, <2>4
    <3> QED
      BY <1>4, <2>1, <2>2, <2>5, <3>1
  <2> QED
    BY <2>3, <2>4
<1> HIDE DEF T
<1>5. \A k \in 0 .. n : k \in T
  BY <1>1, <1>3, <1>4, CountingUp
<1> QED
  BY <1>5 DEF T, n

(* A flattened sequence is made of its parts, place by place. *)
LEMMA FlattenPlaces ==
  ASSUME NEW S, NEW ss \in Seq(Seq(S))
  PROVE  /\ FlattenSeq(ss) \in Seq(S)
         /\ \E start \in [0 .. Len(ss) -> Nat] :
              /\ Starts(start, ss) /\ Len(FlattenSeq(ss)) = start[Len(ss)]
              /\ \A p \in 1 .. Len(ss) : \A k \in 1 .. Len(ss[p]) : FlattenSeq(ss)[start[p - 1] + k] = ss[p][k]
              /\ \A d \in 1 .. Len(FlattenSeq(ss)) : \E p \in 1 .. Len(ss) : start[p - 1] < d /\ d <= start[p]
<1> DEFINE n == Len(ss)
<1>1. n \in Nat /\ \A p \in 1 .. n : ss[p] \in Seq(S) /\ Len(ss[p]) \in Nat
  OBVIOUS
<1>2. CASE ss = <<>>
  <2>1. n = 0 /\ FlattenSeq(ss) = <<>> /\ <<>> \in Seq(S)
    BY <1>2 DEF FlattenSeq
  <2> DEFINE z == [i \in 0 .. 0 |-> 0]
  <2>2. Starts(z, ss) /\ Len(FlattenSeq(ss)) = z[0] /\ z \in [0 .. n -> Nat]
    BY <2>1 DEF Starts
  <2> QED
    BY <2>1, <2>2
<1>3. CASE ss # <<>>
  <2>1. PICK f \in [1 .. n -> Seq(S)] : Flattens(f, ss) /\ FlattenSeq(ss) = f[n]
    BY <1>3, FlattenOf
  <2>2. n # 0 /\ n \in 1 .. n
    BY <1>1, <1>3
  <2> DEFINE start == [p \in 0 .. n |-> IF p = 0 THEN 0 ELSE Len(f[p])]
             F(p) == f[p]
             Good(p) == /\ start[p] = start[p - 1] + Len(ss[p])
                        /\ \A q \in 1 .. p : \A k \in 1 .. Len(ss[q]) :
                             start[q - 1] + k \in 1 .. Len(F(p)) /\ F(p)[start[q - 1] + k] = ss[q][k]
                        /\ \A d \in 1 .. Len(F(p)) : \E q \in 1 .. p : start[q - 1] < d /\ d <= start[q]
             T == {p \in 0 .. n : p = 0 \/ Good(p)}
  <2>3. /\ start \in [0 .. n -> Nat] /\ start[0] = 0
        /\ \A p \in 1 .. n : start[p] = Len(f[p]) /\ f[p] \in Seq(S)
    BY <1>1
  <2> HIDE DEF start
  <2>4. 0 \in T
    BY <1>1
  <2>5. ASSUME NEW p \in 1 .. n, p - 1 \in T PROVE p \in T
    <3>1. f[p] = IF p = 1 THEN ss[p] ELSE f[p - 1] \o ss[p]
      BY <2>1 DEF Flattens
    <3>2. CASE p = 1
      <4>1. f[1] = ss[1] /\ start[1] = Len(ss[1]) /\ start[1 - 1] = 0
        BY <2>3, <3>1, <3>2
      <4>2. \A q \in 1 .. p : q = 1
        BY <3>2
      <4>3. \A k \in 1 .. Len(ss[1]) : start[1 - 1] + k = k
        BY <1>1, <3>2, <4>1
      <4>4. Len(ss[1]) \in Nat
        BY <1>1, <3>2
      <4> QED
        BY <3>2, <4>1, <4>2, <4>3, <4>4
    <3>3. CASE p # 1
      <4>1. p - 1 \in 1 .. n /\ p \in Nat /\ p - 1 \in Nat /\ Good(p - 1)
        BY <1>1, <2>5, <3>3
      <4>2. f[p] = f[p - 1] \o ss[p] /\ f[p - 1] \in Seq(S) /\ ss[p] \in Seq(S)
        BY <1>1, <2>3, <3>1, <3>3, <4>1
      <4> DEFINE a == f[p - 1]
                 b == ss[p]
      <4>3. /\ Len(f[p]) = Len(a) + Len(b) /\ Len(a) \in Nat /\ Len(b) \in Nat
            /\ \A i \in 1 .. Len(a) : f[p][i] = a[i]
            /\ \A i \in 1 .. Len(b) : f[p][Len(a) + i] = b[i]
        <5> HIDE DEF a, b
        <5>1. a \in Seq(S) /\ b \in Seq(S) /\ f[p] = a \o b
          BY <4>2 DEF a, b
        <5> QED
          BY <5>1, BothParts
      <4>4. start[p - 1] = Len(a) /\ start[p] = Len(f[p])
        BY <2>3, <4>1
      <4>5. ASSUME NEW q \in 1 .. p, NEW k \in 1 .. Len(ss[q])
            PROVE  start[q - 1] + k \in 1 .. Len(f[p]) /\ f[p][start[q - 1] + k] = ss[q][k]
        <5>1. CASE q = p
          <6>1. k \in 1 .. Len(b) /\ start[q - 1] + k = Len(a) + k /\ ss[q][k] = b[k]
            BY <4>4, <5>1
          <6> HIDE DEF a, b
          <6>2. Len(a) + k \in 1 .. Len(f[p])
            BY <4>3, <6>1
          <6> QED
            BY <4>3, <6>1, <6>2
        <5>2. CASE q # p
          <6>1. q \in 1 .. p - 1
            BY <4>1, <5>2
          <6>2. start[q - 1] + k \in 1 .. Len(a) /\ a[start[q - 1] + k] = ss[q][k]
            BY <4>1, <6>1
          <6> HIDE DEF a, b
          <6>3. start[q - 1] + k \in 1 .. Len(f[p])
            BY <4>3, <6>2, SMTT(30)
          <6> QED
            BY <4>3, <6>2, <6>3
        <5> QED
          BY <5>1, <5>2
      <4>6. ASSUME NEW d \in 1 .. Len(f[p]) PROVE \E q \in 1 .. p : start[q - 1] < d /\ d <= start[q]
        <5>1. CASE d <= Len(a)
          <6>1. d \in 1 .. Len(a)
            BY <4>3, <5>1
          <6>2. PICK q \in 1 .. p - 1 : start[q - 1] < d /\ d <= start[q]
            BY <4>1, <6>1
          <6>3. q \in 1 .. p
            BY <4>1
          <6> QED
            BY <6>2, <6>3
        <5>2. CASE ~(d <= Len(a))
          <6> HIDE DEF a, b
          <6>1. p \in 1 .. p
            BY <4>1
          <6>2. start[p - 1] < d /\ d <= start[p]
            BY <4>3, <4>4, <5>2
          <6> QED
            BY <6>1, <6>2
        <5> QED
          BY <5>1, <5>2
      <4>7. start[p] = start[p - 1] + Len(ss[p])
        BY <4>3, <4>4
      <4> QED
        BY <4>5, <4>6, <4>7
    <3> QED
      BY <3>2, <3>3
  <2>6. \A p \in 0 .. n : p \in T
    <3> HIDE DEF T, n
    <3> QED
      BY <1>1, <2>4, <2>5, CountingUp
  <2>7. \A p \in 1 .. n : Good(p)
    <3>1. ASSUME NEW p \in 1 .. n PROVE Good(p)
      <4>1. p \in 0 .. n /\ p # 0
        BY <1>1
      <4>2. p \in T
        BY <2>6, <4>1
      <4> HIDE DEF Good
      <4> QED
        BY <4>1, <4>2
    <3> QED
      BY <3>1
  <2>8. Starts(start, ss)
    BY <2>3, <2>7 DEF Starts
  <2>9. \A p \in 1 .. n : \A k \in 1 .. Len(ss[p]) : FlattenSeq(ss)[start[p - 1] + k] = ss[p][k]
    <3>1. \A q \in 1 .. n : \A k \in 1 .. Len(ss[q]) : f[n][start[q - 1] + k] = ss[q][k]
      BY <2>2, <2>7
    <3> QED
      BY <2>1, <3>1
  <2>10. \A d \in 1 .. Len(FlattenSeq(ss)) : \E p \in 1 .. n : start[p - 1] < d /\ d <= start[p]
    BY <2>1, <2>2, <2>7
  <2>11. Len(FlattenSeq(ss)) = start[n] /\ FlattenSeq(ss) \in Seq(S)
    BY <2>1, <2>2, <2>3
  <2> QED
    BY <2>3, <2>8, <2>9, <2>10, <2>11
<1> QED
  BY <1>2, <1>3

(* The elements of a flattened sequence are those of its parts. *)
LEMMA FlattenElements ==
  ASSUME NEW S, NEW ss \in Seq(Seq(S))
  PROVE  /\ \A d \in 1 .. Len(FlattenSeq(ss)) :
              \E p \in 1 .. Len(ss) : \E k \in 1 .. Len(ss[p]) : FlattenSeq(ss)[d] = ss[p][k]
         /\ \A p \in 1 .. Len(ss) : \A k \in 1 .. Len(ss[p]) :
              \E d \in 1 .. Len(FlattenSeq(ss)) : FlattenSeq(ss)[d] = ss[p][k]
<1> DEFINE n == Len(ss)
           F == FlattenSeq(ss)
<1>1. n \in Nat /\ \A p \in 1 .. n : Len(ss[p]) \in Nat
  OBVIOUS
<1>2. PICK start \in [0 .. n -> Nat] :
        /\ Starts(start, ss) /\ Len(F) = start[n]
        /\ \A p \in 1 .. n : \A k \in 1 .. Len(ss[p]) : F[start[p - 1] + k] = ss[p][k]
        /\ \A d \in 1 .. Len(F) : \E p \in 1 .. n : start[p - 1] < d /\ d <= start[p]
  BY FlattenPlaces
<1>3. F \in Seq(S)
  BY FlattenPlaces
<1> HIDE DEF F, n
<1>4. ASSUME NEW p \in 1 .. n
      PROVE  /\ start[p] = start[p - 1] + Len(ss[p])
             /\ start[p] \in Nat /\ start[p - 1] \in Nat /\ Len(ss[p]) \in Nat
  <2>1. p \in 0 .. n /\ p - 1 \in 0 .. n
    BY <1>1
  <2>2. start[p] = start[p - 1] + Len(ss[p])
    BY <1>2 DEF Starts, n
  <2> QED
    BY <1>1, <1>2, <2>1, <2>2
<1>5. ASSUME NEW d \in 1 .. Len(F)
      PROVE  \E p \in 1 .. n : \E k \in 1 .. Len(ss[p]) : d = start[p - 1] + k /\ F[d] = ss[p][k]
  <2>1. PICK p \in 1 .. n : start[p - 1] < d /\ d <= start[p]
    BY <1>2
  <2> DEFINE k == d - start[p - 1]
  <2>2. k \in 1 .. Len(ss[p]) /\ d = start[p - 1] + k
    <3>1. PICK a, b, c : a = start[p - 1] /\ b = start[p] /\ c = Len(ss[p])
      OBVIOUS
    <3>2. a \in Nat /\ c \in Nat /\ b = a + c /\ d \in Nat /\ a < d /\ d <= b
      <4>1. a \in Nat /\ b \in Nat /\ c \in Nat /\ b = a + c
        BY <1>4, <3>1
      <4> QED
        BY <2>1, <3>1, <4>1
    <3>3. d - a \in 1 .. c /\ d = a + (d - a)
      BY ONLY <3>2
    <3> QED
      BY <3>1, <3>3
  <2>3. F[start[p - 1] + k] = ss[p][k]
    BY <1>2, <2>2
  <2> QED
    BY <2>2, <2>3
<1>6. ASSUME NEW p \in 1 .. n, NEW k \in 1 .. Len(ss[p])
      PROVE  \E d \in 1 .. Len(F) : F[d] = ss[p][k]
  <2>1. p \in 0 .. n /\ n \in 0 .. n /\ p <= n
    BY <1>1
  <2>2. start[p] <= start[n]
    BY <1>2, <2>1, StartsGrow DEF n
  <2>3. start[n] \in Nat
    BY <1>2, <2>1
  <2>4. start[p - 1] + k \in 1 .. Len(F)
    <3>1. start[p] = start[p - 1] + Len(ss[p]) /\ start[p - 1] \in Nat /\ Len(ss[p]) \in Nat /\ Len(F) = start[n]
      BY <1>2, <1>4
    <3> QED
      BY <2>2, <2>3, <3>1, SMTT(30)
  <2> QED
    BY <1>2, <2>4
<1> QED
  BY <1>5, <1>6 DEF F, n

(* They are in the order R if those of each part are and the parts are one *)
(* after another.                                                          *)
LEMMA FlattenOrdered ==
  ASSUME NEW S, NEW ss \in Seq(Seq(S)), NEW R,
         \A p \in 1 .. Len(ss) : \A j, k \in 1 .. Len(ss[p]) : j < k => <<ss[p][j], ss[p][k]>> \in R,
         \A p, q \in 1 .. Len(ss) : \A j \in 1 .. Len(ss[p]), k \in 1 .. Len(ss[q]) :
           p < q => <<ss[p][j], ss[q][k]>> \in R
  PROVE  /\ FlattenSeq(ss) \in Seq(S)
         /\ \A i, j \in 1 .. Len(FlattenSeq(ss)) : i < j => <<FlattenSeq(ss)[i], FlattenSeq(ss)[j]>> \in R
<1> DEFINE n == Len(ss)
           F == FlattenSeq(ss)
<1>1. n \in Nat /\ \A p \in 1 .. n : Len(ss[p]) \in Nat
  OBVIOUS
<1>2. PICK start \in [0 .. n -> Nat] :
        /\ Starts(start, ss) /\ Len(F) = start[n]
        /\ \A p \in 1 .. n : \A k \in 1 .. Len(ss[p]) : F[start[p - 1] + k] = ss[p][k]
        /\ \A d \in 1 .. Len(F) : \E p \in 1 .. n : start[p - 1] < d /\ d <= start[p]
  BY FlattenPlaces
<1>3. F \in Seq(S)
  BY FlattenPlaces
<1> HIDE DEF F, n
<1>4. ASSUME NEW p \in 1 .. n
      PROVE  /\ start[p] = start[p - 1] + Len(ss[p])
             /\ start[p] \in Nat /\ start[p - 1] \in Nat /\ Len(ss[p]) \in Nat
  <2>1. p \in 0 .. n /\ p - 1 \in 0 .. n
    BY <1>1
  <2>2. start[p] = start[p - 1] + Len(ss[p])
    BY <1>2 DEF Starts, n
  <2> QED
    BY <1>1, <1>2, <2>1, <2>2
<1>5. ASSUME NEW d \in 1 .. Len(F)
      PROVE  \E p \in 1 .. n : \E k \in 1 .. Len(ss[p]) : d = start[p - 1] + k /\ F[d] = ss[p][k]
  <2>1. PICK p \in 1 .. n : start[p - 1] < d /\ d <= start[p]
    BY <1>2
  <2> DEFINE k == d - start[p - 1]
  <2>2. k \in 1 .. Len(ss[p]) /\ d = start[p - 1] + k
    <3>1. PICK a, b, c : a = start[p - 1] /\ b = start[p] /\ c = Len(ss[p])
      OBVIOUS
    <3>2. a \in Nat /\ c \in Nat /\ b = a + c /\ d \in Nat /\ a < d /\ d <= b
      <4>1. a \in Nat /\ b \in Nat /\ c \in Nat /\ b = a + c
        BY <1>4, <3>1
      <4> QED
        BY <2>1, <3>1, <4>1
    <3>3. d - a \in 1 .. c /\ d = a + (d - a)
      BY ONLY <3>2
    <3> QED
      BY <3>1, <3>3
  <2>3. F[start[p - 1] + k] = ss[p][k]
    BY <1>2, <2>2
  <2> QED
    BY <2>2, <2>3
<1>7. ASSUME NEW i \in 1 .. Len(F), NEW j \in 1 .. Len(F), i < j PROVE <<F[i], F[j]>> \in R
  <2>1. PICK p \in 1 .. n : \E k \in 1 .. Len(ss[p]) : i = start[p - 1] + k /\ F[i] = ss[p][k]
    BY <1>5
  <2>2. PICK k \in 1 .. Len(ss[p]) : i = start[p - 1] + k /\ F[i] = ss[p][k]
    BY <2>1
  <2>3. PICK q \in 1 .. n : \E m \in 1 .. Len(ss[q]) : j = start[q - 1] + m /\ F[j] = ss[q][m]
    BY <1>5
  <2>4. PICK m \in 1 .. Len(ss[q]) : j = start[q - 1] + m /\ F[j] = ss[q][m]
    BY <2>3
  <2>5. ~(q < p)
    <3>1. ASSUME q < p PROVE FALSE
      <4>1. q \in 0 .. n /\ p - 1 \in 0 .. n /\ q <= p - 1
        BY <1>1, <3>1
      <4>2. start[q] <= start[p - 1]
        BY <1>2, <4>1, StartsGrow DEF n
      <4>3. /\ start[q] = start[q - 1] + Len(ss[q]) /\ start[q - 1] \in Nat /\ Len(ss[q]) \in Nat
            /\ start[p - 1] \in Nat
        BY <1>4
      <4> QED
        <5> DEFINE u == start[q]
                   v == start[p - 1]
                   w == start[q - 1]
                   l == Len(ss[q])
        <5>1. i = v + k /\ j = w + m /\ u <= v /\ u = w + l /\ v \in Nat /\ w \in Nat /\ l \in Nat /\ m <= l
          BY <2>2, <2>4, <4>2, <4>3
        <5>2. i < j /\ k >= 1 /\ k \in Nat /\ m \in Nat
          BY <1>7, <4>3, <1>4
        <5> HIDE DEF u, v, w, l
        <5> QED
          BY <5>1, <5>2
    <3> QED
      BY <3>1
  <2>6. CASE p = q
    <3>1. k < m
      <4>1. start[p - 1] \in Nat /\ Len(ss[p]) \in Nat
        BY <1>4
      <4> QED
        BY <1>7, <2>2, <2>4, <2>6, <4>1, SMTT(30)
    <3> QED
      BY <2>2, <2>4, <2>6, <3>1 DEF n
  <2>7. CASE p < q
    BY <2>2, <2>4, <2>7 DEF n
  <2> QED
    BY <1>1, <2>5, <2>6, <2>7
<1> QED
  BY <1>3, <1>7 DEF F, n

(* One ordered sequence behind another. *)
LEMMA BothOrdered ==
  ASSUME NEW S, NEW a \in Seq(S), NEW b \in Seq(S), NEW R,
         \A i, j \in 1 .. Len(a) : i < j => <<a[i], a[j]>> \in R,
         \A i, j \in 1 .. Len(b) : i < j => <<b[i], b[j]>> \in R,
         \A i \in 1 .. Len(a), j \in 1 .. Len(b) : <<a[i], b[j]>> \in R
  PROVE  /\ a \o b \in Seq(S)
         /\ \A i, j \in 1 .. Len(a \o b) : i < j => <<(a \o b)[i], (a \o b)[j]>> \in R
<1> DEFINE c == a \o b
<1>1. /\ c \in Seq(S) /\ Len(c) = Len(a) + Len(b) /\ Len(a) \in Nat /\ Len(b) \in Nat
      /\ \A i \in 1 .. Len(a) : c[i] = a[i]
      /\ \A i \in 1 .. Len(b) : c[Len(a) + i] = b[i]
  BY BothParts
<1> HIDE DEF c
<1>2. \A i \in 1 .. Len(c) : i \in 1 .. Len(a) \/ (i - Len(a) \in 1 .. Len(b) /\ i = Len(a) + (i - Len(a)))
  BY <1>1
<1>3. \A i \in 1 .. Len(c) : (i \in 1 .. Len(a) /\ c[i] = a[i]) \/ (i - Len(a) \in 1 .. Len(b) /\ c[i] = b[i - Len(a)])
  BY <1>1, <1>2
<1>4. ASSUME NEW i \in 1 .. Len(c), NEW j \in 1 .. Len(c), i < j PROVE <<c[i], c[j]>> \in R
  <2>1. CASE j \in 1 .. Len(a)
    <3>1. i \in 1 .. Len(a)
      BY <1>1, <1>4, <2>1
    <3> QED
      BY <1>1, <1>4, <2>1, <3>1
  <2>2. CASE i \in 1 .. Len(a) /\ j \notin 1 .. Len(a)
    BY <1>1, <1>3, <2>2
  <2>3. CASE i \notin 1 .. Len(a) /\ j \notin 1 .. Len(a)
    <3>1. i - Len(a) < j - Len(a)
      BY <1>1, <1>4
    <3> QED
      BY <1>3, <2>3, <3>1
  <2> QED
    BY <2>1, <2>2, <2>3
<1> QED
  BY <1>1, <1>4 DEF c
(* A sequence with numbered elements after it.                             *)
LEMMA WithMore ==
  ASSUME NEW S, NEW a \in Seq(S), NEW m \in Nat, NEW b \in [1 .. m -> S]
  PROVE  /\ a \o b \in Seq(S) /\ Len(a \o b) = Len(a) + m
         /\ \A i \in 1 .. Len(a) : (a \o b)[i] = a[i]
         /\ \A i \in 1 .. m : (a \o b)[Len(a) + i] = b[i]
<1>1. b \in Seq(S) /\ Len(b) = m
  BY Numbered
<1>2. PICK c : c = b
  OBVIOUS
<1>3. c \in Seq(S) /\ Len(c) = m
  BY <1>1, <1>2
<1>4. /\ a \o c \in Seq(S) /\ Len(a \o c) = Len(a) + Len(c)
      /\ \A i \in 1 .. Len(a) : (a \o c)[i] = a[i]
      /\ \A i \in 1 .. Len(c) : (a \o c)[Len(a) + i] = c[i]
  BY <1>3
<1> QED
  BY <1>2, <1>3, <1>4

(* The first elements of a sequence.                                       *)
LEMMA FirstPart ==
  ASSUME NEW S, NEW s \in Seq(S), NEW n \in 0 .. Len(s)
  PROVE  /\ SubSeq(s, 1, n) \in Seq(S) /\ Len(SubSeq(s, 1, n)) = n
         /\ \A i \in 1 .. n : SubSeq(s, 1, n)[i] = s[i]
<1>1. Len(s) \in Nat /\ n \in Nat
  OBVIOUS
<1> QED
  BY <1>1

(* The elements of a sequence with one more. *)
LEMMA RangeOfMore ==
  ASSUME NEW S, NEW r \in Seq(S), NEW n \in S
  PROVE  Append(r, n) \in Seq(S) /\ ToSet(Append(r, n)) = ToSet(r) \cup {n}
<1> DEFINE t == Append(r, n)
<1>1. t \in Seq(S) /\ DOMAIN t = 1 .. Len(r) + 1 /\ DOMAIN r = 1 .. Len(r) /\ Len(r) \in Nat
      /\ t[Len(r) + 1] = n /\ \A i \in 1 .. Len(r) : t[i] = r[i]
  OBVIOUS
<1> HIDE DEF t
<1>2. \A x : x \in ToSet(t) <=> \E i \in 1 .. Len(r) + 1 : t[i] = x
  BY <1>1 DEF ToSet
<1>3. \A x : x \in ToSet(r) <=> \E i \in 1 .. Len(r) : r[i] = x
  BY <1>1 DEF ToSet
<1>4. \A x : x \in ToSet(t) <=> x \in ToSet(r) \/ x = n
  <2>1. ASSUME NEW x, x \in ToSet(t) PROVE x \in ToSet(r) \/ x = n
    <3>1. PICK i \in 1 .. Len(r) + 1 : t[i] = x
      BY <1>2, <2>1
    <3>2. i \in 1 .. Len(r) \/ i = Len(r) + 1
      BY <1>1
    <3> QED
      BY <1>1, <1>3, <3>1, <3>2
  <2>2. ASSUME NEW x, x \in ToSet(r) \/ x = n PROVE x \in ToSet(t)
    <3>1. Len(r) + 1 \in 1 .. Len(r) + 1 /\ \A i \in 1 .. Len(r) : i \in 1 .. Len(r) + 1
      BY <1>1
    <3> QED
      BY <1>1, <1>2, <1>3, <2>2, <3>1
  <2> QED
    BY <2>1, <2>2
<1> QED
  BY <1>1, <1>4 DEF t
=============================================================================

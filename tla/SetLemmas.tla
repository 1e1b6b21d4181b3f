----------------------------- MODULE SetLemmas ------------------------------
(***************************************************************************)
(* Least and greatest elements and ranks in sets of natural numbers and in *)
(* ordered sets, induction up to a bound, and sums over finite sets.       *)
(***************************************************************************)
EXTENDS Naturals, FiniteSets, FiniteSetsExt, FiniteSetTheorems, WellFoundedInduction, TLAPS

(* A set of naturals with an element has a least one: what the proofs by   *)
(* induction rest on.                                                      *)
LEMMA LeastNatural ==
  ASSUME NEW T \in SUBSET Nat, T # {}
  PROVE  \E x \in T : \A y \in T : x <= y
<1>1. PICK x \in T : \A y \in T : <<y, x>> \notin OpToRel(<, Nat)
  BY NatLessThanWellFounded, WFMin
<1>2. ASSUME NEW y \in T PROVE x <= y
  <2>1. ~(y < x)
    BY <1>1, <1>2 DEF OpToRel
  <2> QED
    BY <2>1
<1> QED
  BY <1>2

(* Min of the community modules finds it. *)
LEMMA LeastIsMin ==
  ASSUME NEW T \in SUBSET Nat, T # {}
  PROVE  Min(T) \in T /\ \A y \in T : Min(T) <= y
BY LeastNatural DEF Min

(* In a finite set, ordered by a number of each element that no other has, *)
(* there is an element with any number of elements before it.              *)
LEMMA Ranked ==
  ASSUME NEW G, IsFiniteSet(G), NEW f, \A g \in G : f[g] \in Nat,
         \A g, h \in G : f[g] = f[h] => g = h,
         NEW i \in 0 .. Cardinality(G) - 1
  PROVE  \E g \in G : Cardinality({h \in G : f[h] < f[g]}) = i
<1> DEFINE Before(H, g) == {h \in H : f[h] < f[g]}
           Found(H, j) == \E g \in H : Cardinality(Before(H, g)) = j
           T == {n \in Nat : \E H \in SUBSET G : Cardinality(H) = n /\ \E j \in 0 .. n - 1 : ~Found(H, j)}
<1>1. ASSUME T # {} PROVE FALSE
  <2>1. PICK n \in T : \A k \in T : n <= k
    BY <1>1, LeastNatural
  <2>2. PICK H \in SUBSET G : Cardinality(H) = n /\ \E j \in 0 .. n - 1 : ~Found(H, j)
    BY <2>1
  <2>3. PICK j \in 0 .. n - 1 : ~Found(H, j)
    BY <2>2
  <2>4. n \in Nat /\ n # 0 /\ n - 1 \in Nat
    BY <2>1, <2>3
  <2>5. IsFiniteSet(H) /\ H # {}
    BY <2>2, <2>4, FS_Subset, FS_EmptySet
  <2>6. PICK m \in H : \A h \in H : f[m] <= f[h]
    <3> DEFINE V == {f[h] : h \in H}
    <3>1. V \in SUBSET Nat /\ V # {}
      BY <2>5
    <3>2. PICK x \in V : \A y \in V : x <= y
      BY <3>1, LeastNatural
    <3> QED
      BY <3>2
  <2> DEFINE K == H \ {m}
  <2>7. K \in SUBSET G /\ IsFiniteSet(K) /\ Cardinality(K) = n - 1
    BY <2>2, <2>5, FS_RemoveElement
  <2>8. n - 1 \notin T
    BY <2>1, <2>4, SMTT(30)
  <2>9. \A k \in 0 .. (n - 1) - 1 : Found(K, k)
    BY <2>4, <2>7, <2>8
  <2>10. j # 0
    <3>1. Before(H, m) = {}
      BY <2>2, <2>6
    <3> QED
      BY <2>3, <3>1, FS_EmptySet
  <2>11. j - 1 \in 0 .. (n - 1) - 1
    BY <2>3, <2>4, <2>10
  <2>12. PICK g \in K : Cardinality(Before(K, g)) = j - 1
    BY <2>9, <2>11
  <2>13. Before(H, g) = Before(K, g) \cup {m} /\ m \notin Before(K, g)
    <3>1. f[m] < f[g]
      <4>1. f[m] <= f[g] /\ f[m] # f[g] /\ f[m] \in Nat /\ f[g] \in Nat
        BY <2>6, <2>12
      <4> QED
        BY <4>1
    <3> QED
      BY <2>6, <2>12, <3>1
  <2>14. IsFiniteSet(Before(K, g))
    BY <2>7, FS_Subset
  <2>15. Cardinality(Before(H, g)) = (j - 1) + 1
    <3> DEFINE B == Before(K, g)
    <3>1. IsFiniteSet(B) /\ m \notin B /\ Cardinality(B) = j - 1
      BY <2>12, <2>13, <2>14
    <3> HIDE DEF B
    <3>2. Cardinality(B \cup {m}) = (j - 1) + 1
      BY <3>1, FS_AddElement
    <3>3. Before(H, g) = B \cup {m}
      BY <2>13 DEF B
    <3> QED
      BY <3>2, <3>3
  <2>16. (j - 1) + 1 = j
    BY <2>3
  <2> QED
    BY <2>3, <2>12, <2>15, <2>16
<1>2. Cardinality(G) \in Nat
  BY FS_CardinalityType
<1>3. Cardinality(G) \notin T
  BY <1>1
<1>4. Found(G, i)
  BY <1>2, <1>3
<1> QED
  BY <1>4

(* The same for a set of natural numbers in their order. *)
LEMMA RankedNumbers ==
  ASSUME NEW G, \A g \in G : g \in Nat, IsFiniteSet(G), NEW i \in 0 .. Cardinality(G) - 1
  PROVE  \E g \in G : Cardinality({h \in G : h < g}) = i
<1> DEFINE f == [g \in G |-> g]
<1>1. \A g \in G : f[g] = g
  OBVIOUS
<1>2. (\A g \in G : f[g] \in Nat) /\ \A g, h \in G : f[g] = f[h] => g = h
  BY <1>1
<1> HIDE DEF f
<1>3. \E g \in G : Cardinality({h \in G : f[h] < f[g]}) = i
  BY <1>2, Ranked
<1>4. \A g \in G : {h \in G : f[h] < f[g]} = {h \in G : h < g}
  BY <1>1
<1> QED
  BY <1>3, <1>4

(* Induction up to a bound, for a set of numbers. *)
LEMMA CountingUp ==
  ASSUME NEW n \in Nat, NEW T, 0 \in T, \A k \in 1 .. n : k - 1 \in T => k \in T
  PROVE  \A k \in 0 .. n : k \in T
<1> DEFINE Bad == {k \in 0 .. n : k \notin T}
<1>1. ASSUME NEW k \in Bad, \A j \in Bad : k <= j PROVE FALSE
  <2>1. k \in 1 .. n
    BY <1>1
  <2>2. k - 1 \in 0 .. n /\ k \in Nat /\ ~(k <= k - 1)
    BY <2>1
  <2> QED
    BY <1>1, <2>1, <2>2
<1>2. Bad = {}
  <2>1. Bad \in SUBSET Nat
    OBVIOUS
  <2> HIDE DEF Bad
  <2> QED
    BY <1>1, <2>1, LeastNatural
<1> QED
  BY <1>2

(* Induction from m up to n. *)
LEMMA CountingOn ==
  ASSUME NEW m \in Nat, NEW n \in Nat, NEW T, m \in T, \A k \in m .. n - 1 : k \in T => k + 1 \in T
  PROVE  \A k \in m .. n : k \in T
<1> DEFINE U == {k \in 0 .. n : k >= m => k \in T}
<1>1. 0 \in U
  OBVIOUS
<1>2. ASSUME NEW k \in 1 .. n, k - 1 \in U PROVE k \in U
  <2>1. CASE k = m
    BY <2>1
  <2>2. CASE k # m
    <3>1. k >= m => k - 1 \in m .. n - 1 /\ (k - 1) + 1 = k /\ k - 1 >= m
      BY <2>2
    <3> QED
      BY <1>2, <3>1
  <2> QED
    BY <2>1, <2>2
<1> HIDE DEF U
<1>3. \A k \in 0 .. n : k \in U
  BY <1>1, <1>2, CountingUp
<1>4. \A k \in m .. n : k \in 0 .. n /\ k >= m
  OBVIOUS
<1> QED
  BY <1>3, <1>4 DEF U

(* Max of the community modules finds the greatest element of 1 .. k. *)
LEMMA GreatestUpTo ==
  ASSUME NEW k \in Nat \ {0}, NEW S \in SUBSET (1 .. k), k \in S
  PROVE  Max(S) = k
<1>1. \A y \in S : k >= y
  OBVIOUS
<1>2. ASSUME NEW x \in S, \A y \in S : x >= y PROVE x = k
  BY <1>2
<1> QED
  BY <1>1, <1>2 DEF Max

(* Max finds an element of the set. *)
LEMMA GreatestOf ==
  ASSUME NEW n \in Nat, NEW S \in SUBSET (0 .. n), S # {}
  PROVE  Max(S) \in S /\ \A y \in S : y <= Max(S)
<1> DEFINE T == {n - x : x \in S}
<1>1. T \in SUBSET Nat /\ T # {}
  <2>1. \A x \in S : n - x \in Nat
    OBVIOUS
  <2> QED
    BY <2>1
<1>2. PICK t \in T : \A y \in T : t <= y
  BY <1>1, LeastNatural
<1>3. PICK x \in S : t = n - x
  BY <1>2
<1>4. ASSUME NEW y \in S PROVE x >= y
  <2>1. t <= n - y
    BY <1>2
  <2> QED
    BY <1>3, <2>1
<1>5. \E z \in S : \A y \in S : z >= y
  BY <1>4
<1>6. Max(S) \in S /\ \A y \in S : Max(S) >= y
  BY <1>5 DEF Max
<1> QED
  BY <1>6

LEMMA GreatestIsMax ==
  ASSUME NEW n \in Nat, NEW S \in SUBSET (1 .. n), S # {}
  PROVE  Max(S) \in S /\ \A y \in S : y <= Max(S)
<1>1. S \in SUBSET (0 .. n)
  OBVIOUS
<1> QED
  BY <1>1, GreatestOf

(* The places up to k: the last of them, and those before it. *)
LEMMA PlacesUpTo ==
  ASSUME NEW n \in Nat, NEW k \in 1 .. n
  PROVE  /\ 1 .. k \in SUBSET (1 .. n) /\ 1 .. k # {} /\ Max(1 .. k) = k
         /\ (1 .. k) \ {k} = 1 .. k - 1 /\ 1 .. k - 1 \in SUBSET (1 .. n)
<1>1. k \in Nat \ {0} /\ k \in 1 .. k /\ 1 .. k \in SUBSET (1 .. k)
  OBVIOUS
<1>2. Max(1 .. k) = k
  BY <1>1, GreatestUpTo
<1> QED
  BY <1>1, <1>2

-----------------------------------------------------------------------------
(* Ranks in an ordered set.                                                *)

(* A strict order on a set, given by its pairs. *)
StrictOrder(R, G) ==
  /\ \A g \in G : <<g, g>> \notin R
  /\ \A g, h, k \in G : <<g, h>> \in R /\ <<h, k>> \in R => <<g, k>> \in R
  /\ \A g, h \in G : g = h \/ <<g, h>> \in R \/ <<h, g>> \in R

(* The elements before g. *)
Lower(R, G, g) == {h \in G : <<h, g>> \in R}

(* The later of two elements has more before it. *)
LEMMA RankGrows ==
  ASSUME NEW G, IsFiniteSet(G), NEW R, StrictOrder(R, G), NEW g \in G, NEW h \in G, <<g, h>> \in R
  PROVE  /\ Cardinality(Lower(R, G, g)) \in Nat /\ Cardinality(Lower(R, G, h)) \in Nat
         /\ Cardinality(Lower(R, G, g)) < Cardinality(Lower(R, G, h))
<1> DEFINE A == Lower(R, G, g)
           B == Lower(R, G, h)
<1>1. A \in SUBSET G /\ B \in SUBSET G /\ g \notin A /\ A \cup {g} \in SUBSET B
  BY DEF StrictOrder, Lower
<1> HIDE DEF A, B
<1>2. IsFiniteSet(A) /\ IsFiniteSet(B)
  BY <1>1, FS_Subset
<1>3. Cardinality(A) \in Nat /\ Cardinality(B) \in Nat
  BY <1>2, FS_CardinalityType
<1>4. Cardinality(A \cup {g}) = Cardinality(A) + 1
  BY <1>1, <1>2, FS_AddElement
<1>5. Cardinality(A \cup {g}) <= Cardinality(B)
  BY <1>1, <1>2, FS_Subset
<1> QED
  BY <1>3, <1>4, <1>5 DEF A, B

(* There are fewer elements before one of a set than it has. *)
LEMMA RankIsSmall ==
  ASSUME NEW G, IsFiniteSet(G), NEW R, StrictOrder(R, G), NEW g \in G
  PROVE  Cardinality(Lower(R, G, g)) \in 0 .. Cardinality(G) - 1
<1> DEFINE A == Lower(R, G, g)
<1>1. A \in SUBSET G /\ g \notin A /\ A \cup {g} \in SUBSET G
  BY DEF StrictOrder, Lower
<1> HIDE DEF A
<1>2. IsFiniteSet(A)
  BY <1>1, FS_Subset
<1>3. Cardinality(A) \in Nat /\ Cardinality(G) \in Nat
  BY <1>2, FS_CardinalityType
<1>4. Cardinality(A \cup {g}) = Cardinality(A) + 1
  BY <1>1, <1>2, FS_AddElement
<1>5. Cardinality(A \cup {g}) <= Cardinality(G)
  BY <1>1, FS_Subset
<1> QED
  BY <1>3, <1>4, <1>5 DEF A

(* Every rank is that of one element. *)
LEMMA RankedBy ==
  ASSUME NEW G, IsFiniteSet(G), NEW R, StrictOrder(R, G)
  PROVE  /\ \A i \in 0 .. Cardinality(G) - 1 : \E g \in G : Cardinality(Lower(R, G, g)) = i
         /\ \A g, h \in G : Cardinality(Lower(R, G, g)) = Cardinality(Lower(R, G, h)) => g = h
<1> DEFINE f == [g \in G |-> Cardinality(Lower(R, G, g))]
<1>1. \A g \in G : f[g] = Cardinality(Lower(R, G, g)) /\ f[g] \in Nat
  BY RankIsSmall
<1> HIDE DEF f
<1>2. ASSUME NEW g \in G, NEW h \in G, <<g, h>> \in R PROVE f[g] < f[h]
  BY <1>1, <1>2, RankGrows
<1>3. ASSUME NEW g \in G, NEW h \in G, f[g] = f[h] PROVE g = h
  <2>1. g = h \/ <<g, h>> \in R \/ <<h, g>> \in R
    BY DEF StrictOrder
  <2>2. ~(f[g] < f[h]) /\ ~(f[h] < f[g])
    BY <1>1, <1>3
  <2> QED
    BY <1>2, <2>1, <2>2
<1>4. ASSUME NEW g \in G PROVE {h \in G : f[h] < f[g]} = Lower(R, G, g)
  <2>1. ASSUME NEW h \in G PROVE f[h] < f[g] <=> <<h, g>> \in R
    <3>1. g = h \/ <<g, h>> \in R \/ <<h, g>> \in R
      BY DEF StrictOrder
    <3>2. f[g] \in Nat /\ f[h] \in Nat
      BY <1>1
    <3>3. CASE g = h
      BY <3>2, <3>3 DEF StrictOrder
    <3>4. CASE <<h, g>> \in R
      BY <1>2, <3>4
    <3>5. CASE <<g, h>> \in R
      <4>1. f[g] < f[h]
        BY <1>2, <3>5
      <4>2. ~(f[h] < f[g])
        BY <3>2, <4>1
      <4>3. <<h, g>> \notin R
        BY <1>2, <4>2
      <4> QED
        BY <4>2, <4>3
    <3> QED
      BY <3>1, <3>3, <3>4, <3>5
  <2> QED
    BY <2>1 DEF Lower
<1>5. ASSUME NEW i \in 0 .. Cardinality(G) - 1 PROVE \E g \in G : Cardinality(Lower(R, G, g)) = i
  <2>1. \E g \in G : Cardinality({h \in G : f[h] < f[g]}) = i
    BY <1>1, <1>3, Ranked
  <2> QED
    BY <1>4, <2>1
<1>6. \A g, h \in G : Cardinality(Lower(R, G, g)) = Cardinality(Lower(R, G, h)) => g = h
  BY <1>1, <1>3
<1> QED
  BY <1>5, <1>6

(* The elements listed in order, with all others after them: their ranks. *)
LEMMA SortedIsRanked ==
  ASSUME NEW G, NEW R, StrictOrder(R, G), NEW n \in Nat, NEW e \in [1 .. n -> G],
         \A i, j \in 1 .. n : i < j => <<e[i], e[j]>> \in R,
         \A g \in G : (\E i \in 1 .. n : g = e[i]) \/ (\A i \in 1 .. n : <<e[i], g>> \in R),
         NEW i \in 1 .. n
  PROVE  Cardinality(Lower(R, G, e[i])) = i - 1
<1> DEFINE A == Lower(R, G, e[i])
           f == [j \in 1 .. i - 1 |-> e[j]]
<1>1. i - 1 \in Nat /\ e[i] \in G
  OBVIOUS
<1>2. ASSUME NEW j \in 1 .. i - 1 PROVE j \in 1 .. n /\ j < i /\ f[j] = e[j] /\ f[j] \in A
  <2>1. j \in 1 .. n /\ j < i
    OBVIOUS
  <2> QED
    BY <2>1 DEF Lower
<1>3. ASSUME NEW a \in A PROVE \E j \in 1 .. i - 1 : f[j] = a
  <2>1. a \in G /\ <<a, e[i]>> \in R
    BY DEF Lower
  <2>2. <<e[i], a>> \notin R
    BY <1>1, <2>1 DEF StrictOrder
  <2>3. PICK j \in 1 .. n : a = e[j]
    BY <2>1, <2>2
  <2>4. j # i
    BY <1>1, <2>1, <2>3 DEF StrictOrder
  <2>5. ~(i < j)
    BY <2>2, <2>3
  <2>6. j \in 1 .. i - 1
    BY <2>4, <2>5
  <2> QED
    BY <2>3, <2>6
<1>4. ASSUME NEW j \in 1 .. i - 1, NEW k \in 1 .. i - 1, f[j] = f[k] PROVE j = k
  <2>1. j \in 1 .. n /\ k \in 1 .. n /\ e[j] = e[k] /\ e[j] \in G
    BY <1>2, <1>4
  <2>2. <<e[j], e[k]>> \notin R /\ <<e[k], e[j]>> \notin R
    BY <2>1 DEF StrictOrder
  <2>3. ~(j < k) /\ ~(k < j)
    BY <2>1, <2>2
  <2> QED
    BY <2>3
<1>5. f \in Bijection(1 .. i - 1, A)
  <2>1. f \in [1 .. i - 1 -> A]
    BY <1>2
  <2> HIDE DEF f, A
  <2> QED
    BY <1>3, <1>4, <2>1 DEF Bijection, Injection, Surjection, IsInjective
<1> HIDE DEF A, f
<1>6. ExistsBijection(1 .. i - 1, A)
  BY <1>5 DEF ExistsBijection
<1>7. Cardinality(A) = i - 1
  BY <1>1, <1>6, FS_CountingElements
<1> QED
  BY <1>7 DEF A

-----------------------------------------------------------------------------
(* Sums over a finite set.                                                 *)

SumOver(w, S) == MapThenSumSet(LAMBDA s : w[s], S)

AnyOf(S) == CHOOSE x \in S : TRUE

(* The equation of the function by which MapThenSumSet is defined. *)
Sums(h, U, w) ==
  \A S \in SUBSET U : h[S] = IF S = {} THEN 0 ELSE w[AnyOf(S)] + h[S \ {AnyOf(S)}]

(* There is such a function. *)
LEMMA SumsExist ==
  ASSUME NEW U, IsFiniteSet(U), NEW w, \A u \in U : w[u] \in Nat
  PROVE  \E h \in [SUBSET U -> Nat] : Sums(h, U, w)
<1> DEFINE Small(n) == {S \in SUBSET U : Cardinality(S) <= n}
           Good(h, n) == \A S \in Small(n) :
                           /\ h[S] \in Nat
                           /\ h[S] = IF S = {} THEN 0 ELSE w[AnyOf(S)] + h[S \ {AnyOf(S)}]
           N == Cardinality(U)
           T == {n \in 0 .. N : \E h : Good(h, n)}
<1>1. N \in Nat
  BY FS_CardinalityType
<1>2. ASSUME NEW S \in SUBSET U
      PROVE  /\ Cardinality(S) \in Nat /\ Cardinality(S) <= N /\ (Cardinality(S) = 0 <=> S = {})
             /\ S # {} => /\ AnyOf(S) \in S /\ S \ {AnyOf(S)} \in SUBSET U
                          /\ Cardinality(S \ {AnyOf(S)}) = Cardinality(S) - 1
  <2>1. IsFiniteSet(S) /\ Cardinality(S) <= N
    BY FS_Subset
  <2>2. Cardinality(S) \in Nat /\ (Cardinality(S) = 0 <=> S = {})
    BY <2>1, FS_CardinalityType, FS_EmptySet
  <2>3. ASSUME S # {}
        PROVE  AnyOf(S) \in S /\ S \ {AnyOf(S)} \in SUBSET U /\ Cardinality(S \ {AnyOf(S)}) = Cardinality(S) - 1
    <3>1. AnyOf(S) \in S
      BY <2>3 DEF AnyOf
    <3> QED
      BY <2>1, <3>1, FS_RemoveElement
  <2> QED
    BY <2>1, <2>2, <2>3
<1>3. 0 \in T
  <2> DEFINE h == [S \in SUBSET U |-> 0]
  <2>1. ASSUME NEW S \in Small(0) PROVE S = {} /\ h[S] = 0
    <3>1. S \in SUBSET U /\ Cardinality(S) <= 0
      OBVIOUS
    <3>2. Cardinality(S) \in Nat /\ (Cardinality(S) = 0 <=> S = {})
      BY <1>2, <3>1
    <3> QED
      BY <3>1, <3>2
  <2>2. Good(h, 0)
    BY <2>1
  <2> HIDE DEF Good
  <2> QED
    BY <1>1, <2>2
<1>4. ASSUME NEW n \in 1 .. N, n - 1 \in T PROVE n \in T
  <2>1. PICK h : Good(h, n - 1)
    BY <1>4
  <2> DEFINE g == [S \in SUBSET U |-> IF Cardinality(S) <= n - 1 THEN h[S]
                                     ELSE w[AnyOf(S)] + h[S \ {AnyOf(S)}]]
  <2>2. ASSUME NEW S \in Small(n)
        PROVE  g[S] \in Nat /\ g[S] = IF S = {} THEN 0 ELSE w[AnyOf(S)] + g[S \ {AnyOf(S)}]
    <3>1. CASE S = {}
      <4>1. Cardinality(S) = 0 /\ S \in Small(n - 1)
        BY <3>1, FS_EmptySet
      <4>2. h[S] = 0
        BY <2>1, <3>1, <4>1
      <4> QED
        BY <3>1, <4>1, <4>2
    <3>2. CASE S # {}
      <4> DEFINE R == S \ {AnyOf(S)}
      <4>1. AnyOf(S) \in U /\ R \in SUBSET U /\ Cardinality(R) <= n - 1 /\ R \in Small(n - 1)
        BY <1>2, <3>2
      <4>2. w[AnyOf(S)] \in Nat /\ h[R] \in Nat /\ g[R] = h[R]
        BY <2>1, <4>1
      <4>3. g[S] = w[AnyOf(S)] + h[R]
        <5>1. CASE Cardinality(S) <= n - 1
          <6>1. S \in Small(n - 1)
            BY <5>1
          <6>2. h[S] = w[AnyOf(S)] + h[R]
            BY <2>1, <3>2, <6>1
          <6> QED
            BY <5>1, <6>2
        <5>2. CASE ~(Cardinality(S) <= n - 1)
          BY <5>2
        <5> QED
          BY <5>1, <5>2
      <4> QED
        BY <3>2, <4>2, <4>3
    <3> QED
      BY <3>1, <3>2
  <2> HIDE DEF g
  <2>3. Good(g, n)
    BY <2>2
  <2> HIDE DEF Good
  <2> QED
    BY <1>1, <2>3
<1>5. N \in T
  <2> HIDE DEF T
  <2>1. \A n \in 0 .. N : n \in T
    BY <1>1, <1>3, <1>4, CountingUp
  <2> QED
    BY <1>1, <2>1
<1>6. PICK h : Good(h, N)
  BY <1>5
<1>7. \A S \in SUBSET U : S \in Small(N)
  BY <1>2
<1> DEFINE f == [S \in SUBSET U |-> h[S]]
<1>8. f \in [SUBSET U -> Nat]
  BY <1>6, <1>7
<1>9. ASSUME NEW S \in SUBSET U PROVE f[S] = IF S = {} THEN 0 ELSE w[AnyOf(S)] + f[S \ {AnyOf(S)}]
  <2>1. h[S] = IF S = {} THEN 0 ELSE w[AnyOf(S)] + h[S \ {AnyOf(S)}]
    BY <1>6, <1>7
  <2>2. S \ {AnyOf(S)} \in SUBSET U
    OBVIOUS
  <2> QED
    BY <2>1, <2>2
<1> HIDE DEF f
<1> QED
  BY <1>8, <1>9 DEF Sums

(* It is determined by its equation. *)
LEMMA SumsAgree ==
  ASSUME NEW U, IsFiniteSet(U), NEW w, NEW h, Sums(h, U, w), NEW S \in SUBSET U, NEW f, Sums(f, S, w)
  PROVE  f[S] = h[S]
<1> DEFINE N == Cardinality(S)
           T == {n \in 0 .. N : \A V \in SUBSET S : Cardinality(V) = n => f[V] = h[V]}
<1>1. IsFiniteSet(S) /\ N \in Nat
  BY FS_Subset, FS_CardinalityType
<1>2. ASSUME NEW V \in SUBSET S
      PROVE  /\ V \in SUBSET U /\ (Cardinality(V) = 0 <=> V = {})
             /\ V # {} => V \ {AnyOf(V)} \in SUBSET S /\ Cardinality(V \ {AnyOf(V)}) = Cardinality(V) - 1
  <2>1. IsFiniteSet(V)
    BY <1>1, FS_Subset
  <2>2. ASSUME V # {} PROVE V \ {AnyOf(V)} \in SUBSET S /\ Cardinality(V \ {AnyOf(V)}) = Cardinality(V) - 1
    <3>1. AnyOf(V) \in V
      BY <2>2 DEF AnyOf
    <3> QED
      BY <2>1, <3>1, FS_RemoveElement
  <2> QED
    BY <2>1, <2>2, FS_EmptySet
<1>3. 0 \in T
  <2>1. \A V \in SUBSET S : Cardinality(V) = 0 => f[V] = 0 /\ h[V] = 0
    BY <1>2 DEF Sums
  <2> QED
    BY <1>1, <2>1
<1>4. ASSUME NEW n \in 1 .. N, n - 1 \in T PROVE n \in T
  <2>1. ASSUME NEW V \in SUBSET S, Cardinality(V) = n PROVE f[V] = h[V]
    <3>1. V # {} /\ V \in SUBSET U /\ V \ {AnyOf(V)} \in SUBSET S /\ Cardinality(V \ {AnyOf(V)}) = n - 1
      BY <1>2, <2>1
    <3>2. f[V \ {AnyOf(V)}] = h[V \ {AnyOf(V)}]
      BY <1>4, <3>1
    <3>3. f[V] = w[AnyOf(V)] + f[V \ {AnyOf(V)}] /\ h[V] = w[AnyOf(V)] + h[V \ {AnyOf(V)}]
      BY <3>1 DEF Sums
    <3> QED
      BY <3>2, <3>3
  <2> QED
    BY <2>1
<1>5. N \in T
  <2> HIDE DEF T
  <2>1. \A n \in 0 .. N : n \in T
    BY <1>1, <1>3, <1>4, CountingUp
  <2> QED
    BY <1>1, <2>1
<1> QED
  BY <1>5

(* The sum over B is that over the rest, and what is added for b. *)
AddsLast(h, w, B, b) == h[B] = w[b] + h[B \ {b}]

(* The order does not matter: any element may be taken first. *)
LEMMA SumsInAnyOrder ==
  ASSUME NEW U, IsFiniteSet(U), NEW w, \A u \in U : w[u] \in Nat,
         NEW h, \A V \in SUBSET U : h[V] \in Nat, Sums(h, U, w), NEW B \in SUBSET U, NEW b \in B
  PROVE  AddsLast(h, w, B, b)
<1> DEFINE N == Cardinality(U)
           T == {n \in 0 .. N : \A S \in SUBSET U : Cardinality(S) = n =>
                                    \A x \in S : h[S] = w[x] + h[S \ {x}]}
<1>1. N \in Nat
  BY FS_CardinalityType
<1>2. ASSUME NEW S \in SUBSET U
      PROVE  /\ IsFiniteSet(S) /\ Cardinality(S) \in 0 .. N /\ (Cardinality(S) = 0 <=> S = {})
             /\ \A x \in S : Cardinality(S \ {x}) = Cardinality(S) - 1
  BY <1>1, FS_Subset, FS_CardinalityType, FS_EmptySet, FS_RemoveElement
<1>3. 0 \in T
  <2>1. \A S \in SUBSET U : Cardinality(S) = 0 => S = {}
    BY <1>2
  <2> QED
    BY <1>1, <2>1
<1>4. ASSUME NEW n \in 1 .. N, n - 1 \in T PROVE n \in T
  <2>1. ASSUME NEW S \in SUBSET U, Cardinality(S) = n, NEW x \in S PROVE h[S] = w[x] + h[S \ {x}]
    <3> DEFINE c == AnyOf(S)
    <3>1. c \in S
      BY <2>1 DEF AnyOf
    <3>2. h[S] = w[c] + h[S \ {c}]
      BY <3>1 DEF Sums
    <3> HIDE DEF c
    <3>3. CASE x = c
      BY <3>2, <3>3
    <3>4. CASE x # c
      <4>1. S \ {c} \in SUBSET U /\ S \ {x} \in SUBSET U /\ (S \ {c}) \ {x} = (S \ {x}) \ {c}
        OBVIOUS
      <4>2. Cardinality(S \ {c}) = n - 1 /\ Cardinality(S \ {x}) = n - 1
        BY <1>2, <2>1, <3>1
      <4>3. h[S \ {c}] = w[x] + h[(S \ {c}) \ {x}]
        BY <1>4, <3>4, <4>1, <4>2
      <4>4. h[S \ {x}] = w[c] + h[(S \ {x}) \ {c}]
        BY <1>4, <3>1, <3>4, <4>1, <4>2
      <4> DEFINE d == h[(S \ {c}) \ {x}]
      <4>5. w[x] \in Nat /\ w[c] \in Nat /\ d \in Nat
        BY <3>1
      <4>6. h[S] = w[c] + (w[x] + d) /\ h[S \ {x}] = w[c] + d
        BY <3>2, <4>1, <4>3, <4>4
      <4> HIDE DEF d
      <4> QED
        BY <4>5, <4>6
    <3> QED
      BY <3>3, <3>4
  <2> QED
    BY <2>1
<1>5. \A n \in 0 .. N : n \in T
  <2> HIDE DEF T
  <2> QED
    BY <1>1, <1>3, <1>4, CountingUp
<1>6. Cardinality(B) \in 0 .. N
  BY <1>2
<1>7. Cardinality(B) \in T
  BY <1>5, <1>6
<1>8. \A S \in SUBSET U : Cardinality(S) = Cardinality(B) => \A x \in S : h[S] = w[x] + h[S \ {x}]
  BY <1>7
<1> QED
  BY <1>8 DEF AddsLast

(* A sum is a natural number, zero for the empty set, and grows by what is *)
(* added for a new element.                                                *)
LEMMA SumOfSet ==
  ASSUME NEW U, IsFiniteSet(U), NEW w, \A u \in U : w[u] \in Nat
  PROVE  /\ SumOver(w, {}) = 0
         /\ \A S \in SUBSET U : SumOver(w, S) \in Nat
         /\ \A S \in SUBSET U : \A x \in U \ S : SumOver(w, S \cup {x}) = SumOver(w, S) + w[x]
<1>1. PICK h \in [SUBSET U -> Nat] : Sums(h, U, w)
  BY SumsExist
<1>2. ASSUME NEW S \in SUBSET U PROVE SumOver(w, S) = h[S]
  <2> DEFINE Rec(f) == f = [s \in SUBSET S |-> IF s = {} THEN 0 ELSE w[AnyOf(s)] + f[s \ {AnyOf(s)}]]
             f == CHOOSE g : Rec(g)
             r == [s \in SUBSET S |-> h[s]]
  <2>1. SumOver(w, S) = f[S]
    BY DEF SumOver, MapThenSumSet, MapThenFoldSet, AnyOf
  <2>2. Rec(r)
    <3>1. ASSUME NEW s \in SUBSET S PROVE r[s] = IF s = {} THEN 0 ELSE w[AnyOf(s)] + r[s \ {AnyOf(s)}]
      <4>1. s \in SUBSET U /\ s \ {AnyOf(s)} \in SUBSET S
        OBVIOUS
      <4>2. h[s] = IF s = {} THEN 0 ELSE w[AnyOf(s)] + h[s \ {AnyOf(s)}]
        BY <1>1, <4>1 DEF Sums
      <4> QED
        BY <4>1, <4>2
    <3> DEFINE q == [s \in SUBSET S |-> IF s = {} THEN 0 ELSE w[AnyOf(s)] + r[s \ {AnyOf(s)}]]
    <3>2. r = [s \in SUBSET S |-> r[s]]
      OBVIOUS
    <3> HIDE DEF r
    <3>3. \A s \in SUBSET S : r[s] = q[s]
      BY <3>1
    <3> QED
      BY <3>2, <3>3
  <2>3. Rec(f)
    <3> HIDE DEF Rec, r
    <3> QED
      BY <2>2
  <2> HIDE DEF f
  <2>4. Sums(f, S, w)
    BY <2>3 DEF Sums
  <2>5. f[S] = h[S]
    BY <1>1, <2>4, SumsAgree
  <2> QED
    BY <2>1, <2>5
<1>3. {} \in SUBSET U /\ h[{}] = 0
  BY <1>1 DEF Sums
<1>4. ASSUME NEW S \in SUBSET U, NEW x \in U \ S
      PROVE  SumOver(w, S \cup {x}) = SumOver(w, S) + w[x]
  <2>1. S \cup {x} \in SUBSET U /\ (S \cup {x}) \ {x} = S /\ x \in S \cup {x}
    OBVIOUS
  <2>2. h[S \cup {x}] = w[x] + h[S]
    <3> DEFINE V == S \cup {x}
    <3>1. V \in SUBSET U /\ x \in V /\ V \ {x} = S
      BY <2>1
    <3> HIDE DEF V
    <3>2. AddsLast(h, w, V, x)
      <4>1. (\A W \in SUBSET U : h[W] \in Nat) /\ Sums(h, U, w) /\ V \in SUBSET U /\ x \in V
        BY <1>1, <3>1
      <4> QED
        BY <4>1, SumsInAnyOrder
    <3>3. h[V] = w[x] + h[V \ {x}]
      BY <3>2 DEF AddsLast
    <3> QED
      BY <3>1, <3>3 DEF V
  <2>3. h[S] \in Nat /\ w[x] \in Nat
    OBVIOUS
  <2> QED
    BY <1>2, <2>1, <2>2, <2>3
<1> QED
  BY <1>2, <1>3, <1>4

(* The functions from a range of numbers to a finite set are finitely many. *)
LEMMA FiniteFunctions ==
  ASSUME NEW S, IsFiniteSet(S), NEW n \in Nat
  PROVE  IsFiniteSet([1 .. n -> S])
<1> DEFINE T == {k \in 0 .. n : IsFiniteSet([1 .. k -> S])}
<1>1. 0 \in T
  <2>1. [1 .. 0 -> S] = {<<>>}
    <3>1. 1 .. 0 = {}
      OBVIOUS
    <3>2. \A f \in [{} -> S] : f = <<>>
      OBVIOUS
    <3>3. <<>> \in [{} -> S]
      OBVIOUS
    <3> QED
      BY <3>1, <3>2, <3>3
  <2>2. IsFiniteSet({<<>>})
    BY FS_Singleton
  <2>3. 0 \in 0 .. n
    OBVIOUS
  <2> QED
    BY <2>1, <2>2, <2>3
<1>2. ASSUME NEW k \in 1 .. n, k - 1 \in T PROVE k \in T
  <2> DEFINE A == [1 .. k - 1 -> S]
             B == [1 .. k -> S]
             split == [f \in B |-> <<[i \in 1 .. k - 1 |-> f[i]], f[k]>>]
  <2>1. IsFiniteSet(A \X S)
    BY <1>2, FS_Product
  <2>2. ASSUME NEW f \in B PROVE [i \in 1 .. k - 1 |-> f[i]] \in A /\ f[k] \in S
    <3>1. k \in 1 .. k /\ \A i \in 1 .. k - 1 : i \in 1 .. k
      OBVIOUS
    <3> QED
      BY <3>1
  <2>3. split \in [B -> A \X S]
    BY <2>2
  <2>4. ASSUME NEW f \in B, NEW h \in B, split[f] = split[h] PROVE f = h
    <3> DEFINE a == [i \in 1 .. k - 1 |-> f[i]]
               b == [i \in 1 .. k - 1 |-> h[i]]
    <3>1. a = b /\ f[k] = h[k]
      BY <2>4
    <3>2. ASSUME NEW i \in 1 .. k PROVE f[i] = h[i]
      <4>1. CASE i = k
        BY <3>1, <4>1
      <4>2. CASE i # k
        <5>1. i \in 1 .. k - 1
          BY <4>2
        <5>2. a[i] = f[i] /\ b[i] = h[i]
          BY <5>1
        <5> HIDE DEF a, b
        <5> QED
          BY <3>1, <5>2
      <4> QED
        BY <4>1, <4>2
    <3> QED
      BY <3>2
  <2> HIDE DEF split
  <2>5. split \in Injection(B, A \X S)
    BY <2>3, <2>4 DEF Injection, IsInjective
  <2>6. IsFiniteSet(B)
    BY <2>1, <2>5, FS_Injection
  <2> QED
    BY <2>6
<1>3. \A k \in 0 .. n : k \in T
  <2> HIDE DEF T
  <2> QED
    BY <1>1, <1>2, CountingUp
<1>4. n \in T
  BY <1>3
<1> QED
  BY <1>4
=============================================================================

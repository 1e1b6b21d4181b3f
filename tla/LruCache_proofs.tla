--------------------------- MODULE LruCache_proofs --------------------------
(***************************************************************************)
(* Proofs about LruCache, for any keys and nodes: the two lists stay       *)
(* linked in both directions, no node is lost or used twice, and with all  *)
(* its pointers the cache is the LRU queue of LruPolicy.                   *)
(*                                                                         *)
(* The argument is about the lists as sequences of nodes.  An operation on *)
(* the pointers inserts a node into one sequence or deletes one from it;   *)
(* the sequence that is read off the pointers is the only one they link.   *)
(***************************************************************************)
EXTENDS LruCache, SequenceLemmas, SetLemmas, FiniteSetTheorems, TLAPS

(* Node n after position p of c, and c without its position p. *)
InsertNode(c, p, n) ==
  [i \in 1 .. Len(c) + 1 |-> IF i <= p THEN c[i] ELSE IF i = p + 1 THEN n ELSE c[i - 1]]

DeleteNode(c, p) == [i \in 1 .. Len(c) - 1 |-> IF i < p THEN c[i] ELSE c[i + 1]]

(* Numbers below the modulus of size_t are counted without wrapping.       *)
LEMMA SizeArithmetic ==
  /\ SizeModulus \in Nat \ {0}
  /\ \A x \in 0 .. SizeModulus - 1 :
       /\ (x + 1) % SizeModulus \in 0 .. SizeModulus - 1
       /\ (x + SizeModulus - 1) % SizeModulus \in 0 .. SizeModulus - 1
       /\ x + 1 < SizeModulus => (x + 1) % SizeModulus = x + 1
       /\ x > 0 => (x + SizeModulus - 1) % SizeModulus = x - 1
<1>1. Cardinality(Nodes) \in Nat /\ Cardinality(Keys) \in Nat
  BY NodesAssumption, FS_CardinalityType
<1>2. SizeModulus \in Nat \ {0}
  BY <1>1, NodesAssumption, SizeAssumption
<1>3. ASSUME NEW x \in 0 .. SizeModulus - 1
      PROVE  /\ (x + 1) % SizeModulus \in 0 .. SizeModulus - 1
             /\ (x + SizeModulus - 1) % SizeModulus \in 0 .. SizeModulus - 1
             /\ x + 1 < SizeModulus => (x + 1) % SizeModulus = x + 1
             /\ x > 0 => (x + SizeModulus - 1) % SizeModulus = x - 1
  <2>1. \A y \in Nat : y % SizeModulus \in 0 .. SizeModulus - 1
    BY <1>2
  <2>2. \A y \in 0 .. SizeModulus - 1 : y % SizeModulus = y
    BY <1>2
  <2>3. \A y \in 0 .. SizeModulus - 1 : (y + SizeModulus) % SizeModulus = y
    BY <1>2
  <2>4. x > 0 => x - 1 \in 0 .. SizeModulus - 1 /\ (x - 1) + SizeModulus = x + SizeModulus - 1
    BY <1>2
  <2>5. x + 1 \in Nat /\ x + SizeModulus - 1 \in Nat
    BY <1>2
  <2>6. (x + 1) % SizeModulus \in 0 .. SizeModulus - 1
        /\ (x + SizeModulus - 1) % SizeModulus \in 0 .. SizeModulus - 1
    BY <2>1, <2>5
  <2>7. x + 1 < SizeModulus => (x + 1) % SizeModulus = x + 1
    BY <1>2, <2>2
  <2>8. x > 0 => (x + SizeModulus - 1) % SizeModulus = x - 1
    BY <1>2, <2>3, <2>4
  <2> QED
    BY <2>6, <2>7, <2>8
<1> QED
  BY <1>2, <1>3

(* What emplace_back_to writes. *)
LEMMA EmplaceFields ==
  ASSUME NEW m \in Memories, NEW l \in Lists, NEW dest \in Nodes, NEW n \in Nodes, NEW k \in Keys
  PROVE  /\ EmplaceAfter(m, l, dest, n, k) \in Memories
         /\ EmplaceAfter(m, l, dest, n, k).value[n] = k /\ \A x \in Nodes : x # n => EmplaceAfter(m, l, dest, n, k).value[x] = m.value[x]
         /\ EmplaceAfter(m, l, dest, n, k).prev[n] = dest
         /\ \A x \in Nodes : x # n /\ x = m.next[dest] => EmplaceAfter(m, l, dest, n, k).prev[x] = n
         /\ \A x \in Nodes : x # n /\ x # m.next[dest] => EmplaceAfter(m, l, dest, n, k).prev[x] = m.prev[x]
         /\ EmplaceAfter(m, l, dest, n, k).next[dest] = n
         /\ dest # n => EmplaceAfter(m, l, dest, n, k).next[n] = m.next[dest]
         /\ \A x \in Nodes : x # n /\ x # dest => EmplaceAfter(m, l, dest, n, k).next[x] = m.next[x]
         /\ EmplaceAfter(m, l, dest, n, k).pool = m.pool \ {n}
         /\ m.next[dest] = Null => EmplaceAfter(m, l, dest, n, k).tail[l] = n
         /\ m.next[dest] # Null => EmplaceAfter(m, l, dest, n, k).tail[l] = m.tail[l]
         /\ EmplaceAfter(m, l, dest, n, k).size[l] = (m.size[l] + 1) % SizeModulus
         /\ \A o \in Lists : o # l => EmplaceAfter(m, l, dest, n, k).tail[o] = m.tail[o] /\ EmplaceAfter(m, l, dest, n, k).size[o] = m.size[o]
<1> DEFINE r == EmplaceAfter(m, l, dest, n, k)
<1>1. /\ r.value = [m.value EXCEPT ![n] = k]
      /\ r.prev = [x \in Nodes |-> IF x = n THEN dest ELSE IF x = m.next[dest] THEN n ELSE m.prev[x]]
      /\ r.next = [m.next EXCEPT ![n] = m.next[dest], ![dest] = n]
      /\ r.pool = m.pool \ {n}
      /\ r.tail = [m.tail EXCEPT ![l] = IF m.next[dest] = Null THEN n ELSE @]
      /\ r.size = [m.size EXCEPT ![l] = (@ + 1) % SizeModulus]
      /\ r = [value |-> r.value, prev |-> r.prev, next |-> r.next, pool |-> r.pool,
              tail |-> r.tail, size |-> r.size]
  BY DEF EmplaceAfter, Memories
<1>2. /\ r.value \in [Nodes -> Keys \cup {Null}] /\ r.pool \in SUBSET Nodes
      /\ r.tail \in [Lists -> Nodes]
  BY <1>1 DEF Memories
<1>3. r.prev \in [Nodes -> Nodes \cup {Null}] /\ r.next \in [Nodes -> Nodes \cup {Null}]
  BY <1>1 DEF Memories
<1>4. r.size \in [Lists -> 0 .. SizeModulus - 1]
  BY <1>1, SizeArithmetic DEF Memories
<1>5. r \in Memories
  BY <1>1, <1>2, <1>3, <1>4 DEF Memories
<1> QED
  BY <1>1, <1>5 DEF Memories

(* What remove_node writes. *)
LEMMA RemoveFields ==
  ASSUME NEW m \in Memories, NEW l \in Lists, NEW n \in Nodes, m.prev[n] \in Nodes
  PROVE  /\ RemoveNode(m, l, n) \in Memories
         /\ RemoveNode(m, l, n).value = m.value
         /\ \A x \in Nodes : x = m.next[n] => RemoveNode(m, l, n).prev[x] = m.prev[n]
         /\ \A x \in Nodes : x # m.next[n] => RemoveNode(m, l, n).prev[x] = m.prev[x]
         /\ RemoveNode(m, l, n).next[m.prev[n]] = m.next[n]
         /\ \A x \in Nodes : x # m.prev[n] => RemoveNode(m, l, n).next[x] = m.next[x]
         /\ RemoveNode(m, l, n).pool = m.pool \cup {n}
         /\ m.next[n] = Null => RemoveNode(m, l, n).tail[l] = m.prev[n]
         /\ m.next[n] # Null => RemoveNode(m, l, n).tail[l] = m.tail[l]
         /\ RemoveNode(m, l, n).size[l] = (m.size[l] + SizeModulus - 1) % SizeModulus
         /\ \A o \in Lists : o # l => RemoveNode(m, l, n).tail[o] = m.tail[o] /\ RemoveNode(m, l, n).size[o] = m.size[o]
<1> DEFINE r == RemoveNode(m, l, n)
<1>1. /\ r.value = m.value
      /\ r.prev = [x \in Nodes |-> IF x = m.next[n] THEN m.prev[n] ELSE m.prev[x]]
      /\ r.next = [m.next EXCEPT ![m.prev[n]] = m.next[n]]
      /\ r.pool = m.pool \cup {n}
      /\ r.tail = [m.tail EXCEPT ![l] = IF m.next[n] = Null THEN m.prev[n] ELSE @]
      /\ r.size = [m.size EXCEPT ![l] = (@ + SizeModulus - 1) % SizeModulus]
      /\ r = [value |-> r.value, prev |-> r.prev, next |-> r.next, pool |-> r.pool,
              tail |-> r.tail, size |-> r.size]
  BY DEF RemoveNode, Memories
<1>2. /\ r.value \in [Nodes -> Keys \cup {Null}] /\ r.pool \in SUBSET Nodes
      /\ r.tail \in [Lists -> Nodes]
  BY <1>1 DEF Memories
<1>3. r.prev \in [Nodes -> Nodes \cup {Null}] /\ r.next \in [Nodes -> Nodes \cup {Null}]
  BY <1>1 DEF Memories
<1>4. r.size \in [Lists -> 0 .. SizeModulus - 1]
  BY <1>1, SizeArithmetic DEF Memories
<1>5. r \in Memories
  BY <1>1, <1>2, <1>3, <1>4 DEF Memories
<1> QED
  BY <1>1, <1>5 DEF Memories

(* Position by position, what InsertNode is. *)
LEMMA Inserted ==
  ASSUME NEW c \in Seq(Nodes), NEW p \in 1 .. Len(c), NEW n \in Nodes
  PROVE  /\ InsertNode(c, p, n) \in Seq(Nodes)
         /\ Len(InsertNode(c, p, n)) = Len(c) + 1
         /\ \A i \in 1 .. Len(c) + 1 :
              InsertNode(c, p, n)[i] = IF i <= p THEN c[i] ELSE IF i = p + 1 THEN n ELSE c[i - 1]
<1>1. \A i \in 1 .. Len(c) + 1 :
        (IF i <= p THEN c[i] ELSE IF i = p + 1 THEN n ELSE c[i - 1]) \in Nodes
  OBVIOUS
<1>2. InsertNode(c, p, n) \in [1 .. Len(c) + 1 -> Nodes] /\ Len(c) + 1 \in Nat
  BY <1>1 DEF InsertNode
<1>3. InsertNode(c, p, n) \in Seq(Nodes)
  BY <1>2, SeqDef
<1> QED
  BY <1>2, <1>3 DEF InsertNode

(* Position by position, what DeleteNode is. *)
LEMMA Deleted ==
  ASSUME NEW c \in Seq(Nodes), NEW p \in 1 .. Len(c)
  PROVE  /\ DeleteNode(c, p) \in Seq(Nodes)
         /\ Len(DeleteNode(c, p)) = Len(c) - 1
         /\ \A i \in 1 .. Len(c) - 1 : DeleteNode(c, p)[i] = IF i < p THEN c[i] ELSE c[i + 1]
<1>1. \A i \in 1 .. Len(c) - 1 : (IF i < p THEN c[i] ELSE c[i + 1]) \in Nodes
  OBVIOUS
<1>2. DeleteNode(c, p) \in [1 .. Len(c) - 1 -> Nodes] /\ Len(c) - 1 \in Nat
  BY <1>1 DEF DeleteNode
<1>3. DeleteNode(c, p) \in Seq(Nodes)
  BY <1>2, SeqDef
<1> QED
  BY <1>2, <1>3 DEF DeleteNode

(* What the pointers of a linked list are, by position. *)
LEMMA ListFacts ==
  ASSUME NEW m \in Memories, NEW l \in Lists, NEW c \in Seq(Nodes), Linked(m, l, c)
  PROVE  /\ c \in Seq(Nodes) /\ Len(c) \in Nat \ {0} /\ Len(c) = m.size[l] + 1
         /\ \A i \in 1 .. Len(c) : c[i] \in Nodes /\ c[i] # Null
         /\ m.next[c[Len(c)]] = Null /\ c[Len(c)] = m.tail[l] /\ c[1] = Heads[l]
         /\ \A i \in 1 .. Len(c) - 1 : m.next[c[i]] = c[i + 1]
         /\ \A i \in 2 .. Len(c) : m.prev[c[i]] = c[i - 1]
         /\ \A i, j \in 1 .. Len(c) : c[i] = c[j] => i = j
<1>1. c \in Seq(Nodes) /\ Len(c) \in Nat
  BY DEF Linked
<1>2. Len(c) # 0
  BY <1>1 DEF Linked, Memories
<1>3. \A i \in 1 .. Len(c) : c[i] \in Nodes /\ c[i] # Null
  BY <1>1, NodesAssumption
<1>5. ASSUME NEW p \in 2 .. Len(c) PROVE m.prev[c[p]] = c[p - 1]
  <2>1. p - 1 \in 1 .. Len(c) - 1 /\ (p - 1) + 1 = p
    BY <1>1, <1>5
  <2>2. m.prev[c[(p - 1) + 1]] = c[p - 1]
    BY <2>1 DEF Linked
  <2> QED
    BY <2>1, <2>2
<1> QED
  BY <1>1, <1>2, <1>3, <1>5 DEF Linked

(* emplace_back_to puts the node into the list, right after dest. *)
LEMMA EmplaceLinked ==
  ASSUME NEW m \in Memories, NEW l \in Lists, NEW c \in Seq(Nodes), Linked(m, l, c), NEW p \in 1 .. Len(c),
         NEW n \in Nodes, NEW k \in Keys, \A i \in 1 .. Len(c) : c[i] # n, Len(c) < SizeModulus
  PROVE  Linked(EmplaceAfter(m, l, c[p], n, k), l, InsertNode(c, p, n))
<1> DEFINE r == EmplaceAfter(m, l, c[p], n, k)
           d == InsertNode(c, p, n)
           nxt == m.next[c[p]]
<1>1. /\ c \in Seq(Nodes) /\ Len(c) \in Nat \ {0} /\ c[p] \in Nodes
      /\ \A i \in 1 .. Len(c) : c[i] \in Nodes /\ c[i] # Null
      /\ p = Len(c) => nxt = Null
      /\ p # Len(c) => nxt = c[p + 1]
  <2>1. /\ c \in Seq(Nodes) /\ Len(c) \in Nat \ {0} /\ m.next[c[Len(c)]] = Null
        /\ \A i \in 1 .. Len(c) : c[i] \in Nodes /\ c[i] # Null
        /\ \A i \in 1 .. Len(c) - 1 : m.next[c[i]] = c[i + 1]
    BY ListFacts
  <2> QED
    BY <2>1
<1>2. /\ d \in Seq(Nodes) /\ Len(d) = Len(c) + 1
      /\ \A i \in 1 .. Len(c) + 1 :
           d[i] = IF i <= p THEN c[i] ELSE IF i = p + 1 THEN n ELSE c[i - 1]
  BY <1>1, Inserted
<1>3. /\ r.prev[n] = c[p]
      /\ \A x \in Nodes : x # n /\ x = nxt => r.prev[x] = n
      /\ \A x \in Nodes : x # n /\ x # nxt => r.prev[x] = m.prev[x]
      /\ r.next[c[p]] = n /\ c[p] # n /\ r.next[n] = nxt
      /\ \A x \in Nodes : x # n /\ x # c[p] => r.next[x] = m.next[x]
      /\ nxt = Null => r.tail[l] = n
      /\ nxt # Null => r.tail[l] = m.tail[l]
      /\ r.size[l] = (m.size[l] + 1) % SizeModulus
  <2> DEFINE dest == c[p]
  <2>1. dest \in Nodes /\ dest # n
    BY <1>1
  <2> HIDE DEF dest
  <2>2. /\ EmplaceAfter(m, l, dest, n, k).prev[n] = dest
        /\ \A x \in Nodes : x # n /\ x = m.next[dest] => EmplaceAfter(m, l, dest, n, k).prev[x] = n
        /\ \A x \in Nodes : x # n /\ x # m.next[dest] => EmplaceAfter(m, l, dest, n, k).prev[x] = m.prev[x]
        /\ EmplaceAfter(m, l, dest, n, k).next[dest] = n /\ EmplaceAfter(m, l, dest, n, k).next[n] = m.next[dest]
        /\ \A x \in Nodes : x # n /\ x # dest => EmplaceAfter(m, l, dest, n, k).next[x] = m.next[x]
        /\ m.next[dest] = Null => EmplaceAfter(m, l, dest, n, k).tail[l] = n
        /\ m.next[dest] # Null => EmplaceAfter(m, l, dest, n, k).tail[l] = m.tail[l]
        /\ EmplaceAfter(m, l, dest, n, k).size[l] = (m.size[l] + 1) % SizeModulus
    BY <2>1, EmplaceFields, SMTT(30)
  <2> QED
    BY <2>1, <2>2 DEF dest
<1>4. m.size \in [Lists -> 0 .. SizeModulus - 1]
  BY DEF Memories
<1> HIDE DEF r, d, nxt
<1>5. Len(d) = r.size[l] + 1
  <2>1. m.size[l] + 1 = Len(c) /\ m.size[l] \in 0 .. SizeModulus - 1
    BY <1>4 DEF Linked
  <2>2. (m.size[l] + 1) % SizeModulus = m.size[l] + 1
    BY <2>1, SizeArithmetic
  <2> QED
    BY <1>2, <1>3, <1>4, <2>1, <2>2
<1>6. d[1] = Heads[l]
  BY <1>1, <1>2 DEF Linked
<1>8. d[Len(d)] = r.tail[l] /\ r.next[d[Len(d)]] = Null
  <2>1. c[Len(c)] = m.tail[l] /\ m.next[c[Len(c)]] = Null
        /\ \A i, j \in 1 .. Len(c) : c[i] = c[j] => i = j
    BY DEF Linked
  <2>2. CASE p = Len(c)
    <3>1. d[Len(d)] = n /\ nxt = Null
      BY <1>1, <1>2, <2>2
    <3> QED
      BY <1>3, <1>4, <3>1
  <2>3. CASE p # Len(c)
    <3>1. d[Len(d)] = c[Len(c)] /\ nxt # Null
      <4>1. p + 1 \in 1 .. Len(c) /\ Len(c) + 1 > p + 1 /\ Len(c) + 1 \in 1 .. Len(c) + 1
            /\ (Len(c) + 1) - 1 = Len(c)
        BY <1>1, <2>3
      <4>2. d[Len(c) + 1] = c[(Len(c) + 1) - 1]
        BY <1>2, <4>1
      <4>3. nxt = c[p + 1]
        BY <1>1, <2>3
      <4> QED
        BY <1>1, <1>2, <4>1, <4>2, <4>3
    <3>2. c[Len(c)] # c[p] /\ c[Len(c)] # n /\ c[Len(c)] \in Nodes
      BY <1>1, <2>1, <2>3
    <3> QED
      BY <1>3, <1>4, <2>1, <3>1, <3>2
  <2> QED
    BY <2>2, <2>3
<1>9. \A i, j \in 1 .. Len(c) : c[i] = c[j] => i = j
  BY DEF Linked
<1>10. ASSUME NEW i \in 1 .. Len(d), NEW j \in 1 .. Len(d), i < j PROVE d[i] # d[j]
  <2>1. CASE j <= p
    BY <1>1, <1>2, <1>9, <1>10, <2>1
  <2>2. CASE j = p + 1
    BY <1>1, <1>2, <1>10, <2>2
  <2>3. CASE j > p + 1
    <3>1. d[j] = c[j - 1] /\ j - 1 \in 1 .. Len(c)
      BY <1>1, <1>2, <2>3
    <3>2. CASE i <= p
      BY <1>1, <1>2, <1>9, <2>3, <3>1, <3>2
    <3>3. CASE i = p + 1
      BY <1>1, <1>2, <3>1, <3>3
    <3>4. CASE i > p + 1
      <4>1. d[i] = c[i - 1] /\ i - 1 \in 1 .. Len(c) /\ i - 1 # j - 1
        BY <1>1, <1>2, <1>10, <3>4
      <4> QED
        BY <1>9, <3>1, <4>1
    <3> QED
      BY <1>1, <3>2, <3>3, <3>4
  <2> QED
    BY <1>1, <2>1, <2>2, <2>3
<1>12. \A i, j \in 1 .. Len(d) : d[i] = d[j] => i = j
  <2>1. ASSUME NEW i \in 1 .. Len(d), NEW j \in 1 .. Len(d), i # j PROVE d[i] # d[j]
    <3>1. i < j \/ j < i
      BY <1>2, <2>1
    <3> QED
      BY <1>10, <3>1
  <2> QED
    BY <2>1
<1>11. ASSUME NEW i \in 1 .. Len(d) - 1
       PROVE  r.next[d[i]] = d[i + 1] /\ r.prev[d[i + 1]] = d[i]
  <2>1. \A j \in 1 .. Len(c) - 1 : m.next[c[j]] = c[j + 1] /\ m.prev[c[j + 1]] = c[j]
    BY DEF Linked
  <2>2. CASE i < p
    <3>1. d[i] = c[i] /\ d[i + 1] = c[i + 1] /\ i \in 1 .. Len(c) - 1 /\ i + 1 \in 1 .. Len(c)
      BY <1>1, <1>2, <2>2
    <3>2. c[i] # c[p] /\ c[i] # n /\ c[i + 1] # n /\ c[i + 1] # nxt
      BY <1>1, <1>9, <2>2, <3>1
    <3> QED
      BY <1>1, <1>3, <2>1, <3>1, <3>2
  <2>3. CASE i = p
    <3>1. d[i] = c[p] /\ d[i + 1] = n
      BY <1>1, <1>2, <2>3
    <3> QED
      BY <1>1, <1>3, <3>1
  <2>4. CASE i = p + 1
    <3>1. d[i] = n /\ d[i + 1] = c[p + 1] /\ nxt = c[p + 1] /\ p + 1 \in 1 .. Len(c)
      BY <1>1, <1>2, <2>4
    <3>2. n # c[p] /\ c[p + 1] # n /\ c[p + 1] \in Nodes
      BY <1>1, <3>1
    <3> QED
      BY <1>3, <3>1, <3>2
  <2>5. CASE i > p + 1
    <3>1. d[i] = c[i - 1] /\ d[i + 1] = c[i] /\ i - 1 \in 1 .. Len(c) - 1 /\ i \in 1 .. Len(c)
          /\ (i - 1) + 1 = i
      BY <1>1, <1>2, <2>5, SMTT(30)
    <3>2. c[i - 1] # c[p] /\ c[i - 1] # n /\ c[i] # n /\ c[i] # nxt
      BY <1>1, <1>9, <2>5, <3>1
    <3>3. m.next[c[i - 1]] = c[i] /\ m.prev[c[i]] = c[i - 1]
      BY <2>1, <3>1
    <3> QED
      BY <1>1, <1>3, <3>1, <3>2, <3>3
  <2> QED
    BY <1>2, <2>2, <2>3, <2>4, <2>5
<1> QED
  BY <1>2, <1>5, <1>6, <1>8, <1>11, <1>12 DEF Linked, r, d

(* The other list does not notice. *)
LEMMA EmplaceElsewhere ==
  ASSUME NEW m \in Memories, NEW l \in Lists, NEW o \in Lists, o # l,
         NEW dest \in Nodes, NEW n \in Nodes, NEW k \in Keys,
         NEW c \in Seq(Nodes), Linked(m, o, c),
         \A i \in 1 .. Len(c) : c[i] # n /\ c[i] # dest /\ c[i] # m.next[dest]
  PROVE  Linked(EmplaceAfter(m, l, dest, n, k), o, c)
<1> DEFINE r == EmplaceAfter(m, l, dest, n, k)
<1>0. c \in Seq(Nodes) /\ Len(c) = m.size[o] + 1 /\ m.size[o] \in Nat
  BY DEF Linked, Memories
<1>1. c \in Seq(Nodes) /\ Len(c) \in Nat \ {0} /\ \A i \in 1 .. Len(c) : c[i] \in Nodes
  BY <1>0
<1>2. /\ \A x \in Nodes : x # n /\ x # m.next[dest] => r.prev[x] = m.prev[x]
      /\ \A x \in Nodes : x # n /\ x # dest => r.next[x] = m.next[x]
      /\ r.tail[o] = m.tail[o] /\ r.size[o] = m.size[o]
  BY EmplaceFields
<1> HIDE DEF r
<1>5. \A i \in 1 .. Len(c) : r.next[c[i]] = m.next[c[i]] /\ r.prev[c[i]] = m.prev[c[i]]
  BY <1>1, <1>2
<1>6. \A i \in 1 .. Len(c) - 1 : i \in 1 .. Len(c) /\ i + 1 \in 1 .. Len(c)
  BY <1>1
<1> QED
  BY <1>1, <1>2, <1>5, <1>6 DEF Linked, r

(* remove_node takes the node out of the list. *)
LEMMA RemoveLinked ==
  ASSUME NEW m \in Memories, NEW l \in Lists, NEW c \in Seq(Nodes), Linked(m, l, c),
         NEW p \in 2 .. Len(c)
  PROVE  Linked(RemoveNode(m, l, c[p]), l, DeleteNode(c, p))
<1> DEFINE r == RemoveNode(m, l, c[p])
           d == DeleteNode(c, p)
           nxt == m.next[c[p]]
           prv == c[p - 1]
<1>1. /\ c \in Seq(Nodes) /\ Len(c) \in Nat \ {0} /\ p \in 1 .. Len(c) /\ p - 1 \in 1 .. Len(c)
      /\ \A i \in 1 .. Len(c) : c[i] \in Nodes /\ c[i] # Null
      /\ m.prev[c[p]] = prv
      /\ p = Len(c) => nxt = Null
      /\ p # Len(c) => nxt = c[p + 1]
  <2>1. /\ c \in Seq(Nodes) /\ Len(c) \in Nat \ {0} /\ m.next[c[Len(c)]] = Null
        /\ \A i \in 1 .. Len(c) : c[i] \in Nodes /\ c[i] # Null
        /\ \A i \in 1 .. Len(c) - 1 : m.next[c[i]] = c[i + 1]
        /\ \A i \in 2 .. Len(c) : m.prev[c[i]] = c[i - 1]
    BY ListFacts
  <2> QED
    BY <2>1
<1>2. /\ d \in Seq(Nodes) /\ Len(d) = Len(c) - 1
      /\ \A i \in 1 .. Len(c) - 1 : d[i] = IF i < p THEN c[i] ELSE c[i + 1]
  BY <1>1, Deleted
<1>3. /\ \A x \in Nodes : x = nxt => r.prev[x] = prv
      /\ \A x \in Nodes : x # nxt => r.prev[x] = m.prev[x]
      /\ r.next[prv] = nxt
      /\ \A x \in Nodes : x # prv => r.next[x] = m.next[x]
      /\ nxt = Null => r.tail[l] = prv
      /\ nxt # Null => r.tail[l] = m.tail[l]
      /\ r.size[l] = (m.size[l] + SizeModulus - 1) % SizeModulus
  <2> DEFINE node == c[p]
             E == RemoveNode(m, l, node)
  <2>1. node \in Nodes /\ m.prev[node] \in Nodes /\ m.prev[node] = prv
    BY <1>1
  <2> HIDE DEF node, prv
  <2>2. /\ \A x \in Nodes : x = m.next[node] => E.prev[x] = m.prev[node]
        /\ \A x \in Nodes : x # m.next[node] => E.prev[x] = m.prev[x]
        /\ E.next[m.prev[node]] = m.next[node]
        /\ \A x \in Nodes : x # m.prev[node] => E.next[x] = m.next[x]
        /\ m.next[node] = Null => E.tail[l] = m.prev[node]
        /\ m.next[node] # Null => E.tail[l] = m.tail[l]
        /\ E.size[l] = (m.size[l] + SizeModulus - 1) % SizeModulus
    BY <2>1, RemoveFields
  <2> QED
    BY <2>1, <2>2 DEF node
<1>4. m.size \in [Lists -> 0 .. SizeModulus - 1]
  BY DEF Memories
<1> HIDE DEF r, d, nxt
<1>5. Len(d) = r.size[l] + 1
  <2>1. m.size[l] + 1 = Len(c) /\ m.size[l] \in 0 .. SizeModulus - 1 /\ m.size[l] > 0
    BY <1>1, <1>4 DEF Linked
  <2>2. (m.size[l] + SizeModulus - 1) % SizeModulus = m.size[l] - 1
    BY <2>1, SizeArithmetic
  <2> QED
    BY <1>2, <1>3, <1>4, <2>1, <2>2
<1>6. d[1] = Heads[l]
  BY <1>1, <1>2 DEF Linked
<1>7. \A i, j \in 1 .. Len(c) : c[i] = c[j] => i = j
  BY DEF Linked
<1>8. d[Len(d)] = r.tail[l] /\ r.next[d[Len(d)]] = Null
  <2>1. c[Len(c)] = m.tail[l] /\ m.next[c[Len(c)]] = Null
    BY DEF Linked
  <2>2. CASE p = Len(c)
    <3>1. d[Len(d)] = prv /\ nxt = Null
      BY <1>1, <1>2, <2>2
    <3> QED
      BY <1>3, <3>1
  <2>3. CASE p # Len(c)
    <3>1. /\ Len(c) - 1 \in 1 .. Len(c) - 1 /\ ~(Len(c) - 1 < p) /\ (Len(c) - 1) + 1 = Len(c)
          /\ Len(c) # p - 1 /\ Len(c) \in 1 .. Len(c) /\ p + 1 \in 1 .. Len(c)
      BY <1>1, <2>3
    <3>2. d[Len(c) - 1] = c[(Len(c) - 1) + 1]
      BY <1>2, <3>1, SMTT(30)
    <3>3. d[Len(d)] = c[Len(c)]
      BY <1>2, <3>1, <3>2, SMTT(30)
    <3>4. nxt # Null /\ c[Len(c)] # prv /\ c[Len(c)] \in Nodes
      BY <1>1, <1>7, <2>3, <3>1
    <3> QED
      BY <1>3, <2>1, <3>3, <3>4
  <2> QED
    BY <2>2, <2>3
<1>9. ASSUME NEW i \in 1 .. Len(d), NEW j \in 1 .. Len(d), i < j PROVE d[i] # d[j]
  <2>1. /\ i < p => d[i] = c[i] /\ i \in 1 .. Len(c)
        /\ ~(i < p) => d[i] = c[i + 1] /\ i + 1 \in 1 .. Len(c)
        /\ j < p => d[j] = c[j] /\ j \in 1 .. Len(c)
        /\ ~(j < p) => d[j] = c[j + 1] /\ j + 1 \in 1 .. Len(c)
        /\ i # j /\ i # j + 1 /\ i + 1 # j + 1 /\ (i + 1 = j => ~(j < p) \/ i < p)
    BY <1>1, <1>2, <1>9
  <2>2. CASE i < p /\ j < p
    BY <1>7, <2>1, <2>2
  <2>3. CASE i < p /\ ~(j < p)
    BY <1>7, <2>1, <2>3
  <2>4. CASE ~(i < p) /\ ~(j < p)
    BY <1>7, <2>1, <2>4
  <2> QED
    BY <1>1, <1>9, <2>2, <2>3, <2>4
<1>10. \A i, j \in 1 .. Len(d) : d[i] = d[j] => i = j
  <2>1. ASSUME NEW i \in 1 .. Len(d), NEW j \in 1 .. Len(d), i # j PROVE d[i] # d[j]
    <3>1. i < j \/ j < i
      BY <1>2, <2>1
    <3> QED
      BY <1>9, <3>1
  <2> QED
    BY <2>1
<1>11. ASSUME NEW i \in 1 .. Len(d) - 1
       PROVE  r.next[d[i]] = d[i + 1] /\ r.prev[d[i + 1]] = d[i]
  <2>1. \A j \in 1 .. Len(c) - 1 : m.next[c[j]] = c[j + 1] /\ m.prev[c[j + 1]] = c[j]
    BY DEF Linked
  <2>2. CASE i + 1 < p
    <3>1. /\ d[i] = c[i] /\ d[i + 1] = c[i + 1] /\ i \in 1 .. Len(c) - 1
          /\ i \in 1 .. Len(c) /\ i + 1 \in 1 .. Len(c) /\ i # p - 1 /\ i + 1 # p + 1
      BY <1>1, <1>2, <2>2, SMTT(30)
    <3>2. c[i] # prv /\ c[i + 1] # nxt
      BY <1>1, <1>7, <3>1
    <3> QED
      BY <1>1, <1>3, <2>1, <3>1, <3>2
  <2>3. CASE i + 1 = p
    <3>1. /\ d[i] = prv /\ d[i + 1] = c[p + 1] /\ nxt = c[p + 1] /\ p + 1 \in 1 .. Len(c)
          /\ i + 1 = p
      <4>1. i < p /\ ~(i + 1 < p) /\ i + 1 \in 1 .. Len(c) - 1 /\ i = p - 1 /\ p # Len(c)
            /\ p + 1 \in 1 .. Len(c) /\ i \in 1 .. Len(c) - 1 /\ (i + 1) + 1 = p + 1
        BY <1>1, <1>2, <2>3
      <4>2. d[i + 1] = c[(i + 1) + 1]
        BY <1>2, <4>1
      <4> QED
        BY <1>1, <1>2, <4>1, <4>2, SMTT(30)
    <3> QED
      BY <1>1, <1>3, <3>1
  <2>4. CASE i + 1 > p
    <3>1. /\ ~(i < p) /\ ~(i + 1 < p) /\ i \in 1 .. Len(c) - 1 /\ i + 1 \in 1 .. Len(c) - 1
          /\ i + 1 \in 1 .. Len(c) /\ (i + 1) + 1 \in 1 .. Len(c) /\ i + 1 # p - 1
          /\ (i + 1) + 1 # p + 1
      BY <1>1, <1>2, <2>4
    <3>2. d[i] = c[i + 1] /\ d[i + 1] = c[(i + 1) + 1]
      BY <1>2, <3>1
    <3>3. c[i + 1] # prv
      BY <1>1, <1>7, <3>1
    <3>4. c[(i + 1) + 1] # nxt
      <4>1. CASE p = Len(c)
        BY <1>1, <3>1, <4>1
      <4>2. CASE p # Len(c)
        <5>1. p + 1 \in 1 .. Len(c) /\ nxt = c[p + 1]
          BY <1>1, <4>2
        <5> QED
          BY <1>7, <3>1, <5>1
      <4> QED
        BY <4>1, <4>2
    <3>5. m.next[c[i + 1]] = c[(i + 1) + 1] /\ m.prev[c[(i + 1) + 1]] = c[i + 1]
      BY <2>1, <3>1
    <3> QED
      BY <1>1, <1>3, <3>1, <3>2, <3>3, <3>4, <3>5
  <2> QED
    BY <1>1, <1>2, <2>2, <2>3, <2>4
<1> QED
  BY <1>2, <1>5, <1>6, <1>8, <1>10, <1>11 DEF Linked, r, d

(* The other list does not notice. *)
LEMMA RemoveElsewhere ==
  ASSUME NEW m \in Memories, NEW l \in Lists, NEW o \in Lists, o # l,
         NEW n \in Nodes, m.prev[n] \in Nodes,
         NEW c \in Seq(Nodes), Linked(m, o, c),
         \A i \in 1 .. Len(c) : c[i] # m.prev[n] /\ c[i] # m.next[n]
  PROVE  Linked(RemoveNode(m, l, n), o, c)
<1> DEFINE r == RemoveNode(m, l, n)
<1>1. c \in Seq(Nodes) /\ Len(c) \in Nat \ {0} /\ \A i \in 1 .. Len(c) : c[i] \in Nodes
  BY ListFacts
<1>2. /\ \A x \in Nodes : x # m.next[n] => r.prev[x] = m.prev[x]
      /\ \A x \in Nodes : x # m.prev[n] => r.next[x] = m.next[x]
      /\ r.tail[o] = m.tail[o] /\ r.size[o] = m.size[o]
  BY RemoveFields
<1> HIDE DEF r
<1>3. \A i \in 1 .. Len(c) : r.next[c[i]] = m.next[c[i]] /\ r.prev[c[i]] = m.prev[c[i]]
  BY <1>1, <1>2
<1>4. \A i \in 1 .. Len(c) - 1 : i \in 1 .. Len(c) /\ i + 1 \in 1 .. Len(c)
  BY <1>1
<1> QED
  BY <1>1, <1>2, <1>3, <1>4 DEF Linked, r

(* The walk of NodesOf, and a linked list, satisfy its recursive equation. *)
LEMMA WalkEquation ==
  ASSUME NEW m \in Memories, NEW l \in Lists, NEW c \in Seq(Nodes), Linked(m, l, c)
  PROVE  NodesOf(m, l) =
           [i \in 1 .. m.size[l] + 1 |->
              IF i = 1 THEN Heads[l]
              ELSE IF NodesOf(m, l)[i - 1] = Null THEN Null ELSE m.next[NodesOf(m, l)[i - 1]]]
<1> DEFINE Step(w) == [i \in 1 .. m.size[l] + 1 |->
                         IF i = 1 THEN Heads[l]
                         ELSE IF w[i - 1] = Null THEN Null ELSE m.next[w[i - 1]]]
<1>1. c = Step(c)
  <2>1. /\ Len(c) \in Nat \ {0} /\ Len(c) = m.size[l] + 1
        /\ \A i \in 1 .. Len(c) : c[i] \in Nodes /\ c[i] # Null
        /\ c[1] = Heads[l]
        /\ \A i \in 1 .. Len(c) - 1 : m.next[c[i]] = c[i + 1]
    BY ListFacts
  <2>2. ASSUME NEW i \in 1 .. Len(c), i # 1
        PROVE  c[i - 1] # Null /\ c[i] = m.next[c[i - 1]]
    <3>1. i - 1 \in 1 .. Len(c) - 1 /\ i - 1 \in 1 .. Len(c) /\ (i - 1) + 1 = i
      BY <2>1, <2>2
    <3>2. m.next[c[i - 1]] = c[(i - 1) + 1]
      BY <2>1, <3>1
    <3> QED
      BY <2>1, <3>1, <3>2
  <2>3. c = [i \in 1 .. Len(c) |-> c[i]]
    OBVIOUS
  <2>4. \A i \in 1 .. Len(c) :
          c[i] = IF i = 1 THEN Heads[l] ELSE IF c[i - 1] = Null THEN Null ELSE m.next[c[i - 1]]
    BY <2>1, <2>2
  <2> HIDE DEF Linked
  <2> QED
    BY <2>1, <2>3, <2>4
<1>2. NodesOf(m, l) = CHOOSE w : w = Step(w)
  BY DEF NodesOf
<1> HIDE DEF Step
<1>3. NodesOf(m, l) = Step(NodesOf(m, l))
  BY <1>1, <1>2
<1> QED
  BY <1>3 DEF Step

(* Only one sequence is linked by the pointers: the one NodesOf reads.     *)
LEMMA LinkedIsWalk ==
  ASSUME NEW m \in Memories, NEW l \in Lists, NEW c \in Seq(Nodes), Linked(m, l, c)
  PROVE  NodesOf(m, l) = c
<1> DEFINE w == NodesOf(m, l)
           N == m.size[l] + 1
<1>1. /\ Len(c) \in Nat \ {0} /\ Len(c) = N
      /\ \A i \in 1 .. N : c[i] # Null
      /\ c[1] = Heads[l]
      /\ \A i \in 1 .. N - 1 : m.next[c[i]] = c[i + 1]
  BY ListFacts
<1>2. w = [i \in 1 .. N |-> IF i = 1 THEN Heads[l] ELSE IF w[i - 1] = Null THEN Null ELSE m.next[w[i - 1]]]
  BY WalkEquation
<1> HIDE DEF w, N
<1>3. DOMAIN w = 1 .. N
  BY <1>2
<1>4. \A i \in 1 .. N : w[i] = IF i = 1 THEN Heads[l] ELSE IF w[i - 1] = Null THEN Null ELSE m.next[w[i - 1]]
  BY <1>2
<1>5. \A i \in 1 .. N : w[i] = c[i]
  <2> DEFINE T == {i \in 1 .. N : w[i] # c[i]}
  <2>1. SUFFICES ASSUME T # {} PROVE FALSE
    OBVIOUS
  <2>2. T \in SUBSET Nat
    BY <1>1
  <2>3. PICK i \in T : \A j \in T : i <= j
    BY <2>1, <2>2, LeastNatural
  <2>4. i \in 1 .. N /\ w[i] # c[i]
    BY <2>3
  <2>5. i # 1
    BY <1>1, <1>4, <2>4
  <2>6. i - 1 \in 1 .. N - 1 /\ i - 1 \in 1 .. N /\ (i - 1) + 1 = i /\ ~(i <= i - 1)
    BY <1>1, <2>4, <2>5
  <2>7. w[i - 1] = c[i - 1]
    BY <2>3, <2>6
  <2>8. m.next[c[i - 1]] = c[(i - 1) + 1]
    BY <1>1, <2>6
  <2>9. w[i] = m.next[c[i - 1]]
    BY <1>1, <1>4, <2>4, <2>5, <2>6, <2>7
  <2> QED
    BY <2>4, <2>6, <2>8, <2>9
<1>6. c = [i \in 1 .. N |-> c[i]]
  BY <1>1
<1>7. w = [i \in 1 .. N |-> w[i]]
  BY <1>2
<1> QED
  BY <1>5, <1>6, <1>7 DEF w

(* Distinct nodes, other than two that are not in the sequence, are fewer  *)
(* than the modulus of size_t.                                             *)
LEMMA Room ==
  ASSUME NEW c \in Seq(Nodes), NEW n \in Nodes, NEW s \in Nodes, n # s,
         \A i \in 1 .. Len(c) : c[i] # n /\ c[i] # s,
         \A i, j \in 1 .. Len(c) : c[i] = c[j] => i = j
  PROVE  Len(c) < SizeModulus
<1> DEFINE D == 1 .. Len(c)
           T == Nodes \ {n, s}
<1>1. Len(c) \in Nat /\ IsFiniteSet(D) /\ Cardinality(D) = Len(c)
  <2>1. Len(c) \in Nat /\ 1 \in Int
    OBVIOUS
  <2>2. Cardinality(D) = (IF 1 > Len(c) THEN 0 ELSE Len(c) - 1 + 1)
    BY <2>1, FS_Interval, SMTT(30)
  <2> QED
    BY <2>1, <2>2, FS_Interval, SMTT(30)
<1>2. IsFiniteSet(Nodes) /\ Cardinality(Nodes) \in Nat
  BY NodesAssumption, FS_CardinalityType
<1>3. IsFiniteSet(Nodes \ {n}) /\ Cardinality(Nodes \ {n}) = Cardinality(Nodes) - 1
  BY <1>2, FS_RemoveElement
<1>4. IsFiniteSet((Nodes \ {n}) \ {s}) /\ Cardinality((Nodes \ {n}) \ {s}) = Cardinality(Nodes \ {n}) - 1
  BY <1>3, FS_RemoveElement
<1>5. (Nodes \ {n}) \ {s} = T
  OBVIOUS
<1> HIDE DEF T, D
<1>6. IsFiniteSet(T) /\ Cardinality(T) = Cardinality(Nodes) - 2
  <2>1. (Cardinality(Nodes) - 1) - 1 = Cardinality(Nodes) - 2
    BY <1>2
  <2> QED
    BY <1>3, <1>4, <1>5, <2>1
<1>7. \A i \in D : c[i] \in T
  BY <1>1 DEF D, T
<1>8. c = [i \in D |-> c[i]]
  BY DEF D
<1>9. c \in [D -> T]
  BY <1>7, <1>8
<1>10. Cardinality(D) <= Cardinality(T)
  <2>1. SUFFICES ASSUME Cardinality(T) < Cardinality(D) PROVE FALSE
    BY <1>1, <1>2, <1>6
  <2>2. \E i, j \in D : i # j /\ c[i] = c[j]
    BY <1>1, <1>6, <1>9, <2>1, FS_PigeonHole
  <2> QED
    BY <2>2 DEF D
<1> QED
  BY <1>1, <1>2, <1>6, <1>10, SizeAssumption

(* The nodes that hold keys before and after. *)
LEMMA InsertedMembers ==
  ASSUME NEW c \in Seq(Nodes), NEW p \in 1 .. Len(c), NEW n \in Nodes
  PROVE  Members(InsertNode(c, p, n)) = Members(c) \cup {n}
<1> DEFINE d == InsertNode(c, p, n)
<1>1. Len(c) \in Nat /\ Len(d) = Len(c) + 1
  BY Inserted
<1>2. \A i \in 1 .. Len(c) + 1 : d[i] = IF i <= p THEN c[i] ELSE IF i = p + 1 THEN n ELSE c[i - 1]
  BY Inserted
<1> HIDE DEF d
<1>3. ASSUME NEW i \in 2 .. Len(d) PROVE d[i] \in Members(c) \cup {n}
  <2>1. CASE i <= p
    <3>1. d[i] = c[i] /\ i \in 2 .. Len(c)
      BY <1>1, <1>2, <1>3, <2>1
    <3> QED
      BY <3>1 DEF Members
  <2>2. CASE i = p + 1
    BY <1>1, <1>2, <1>3, <2>2
  <2>3. CASE i > p + 1
    <3>1. d[i] = c[i - 1] /\ i - 1 \in 2 .. Len(c)
      BY <1>1, <1>2, <1>3, <2>3
    <3> QED
      BY <3>1 DEF Members
  <2> QED
    BY <1>1, <2>1, <2>2, <2>3
<1>4. ASSUME NEW i \in 2 .. Len(c) PROVE c[i] \in Members(d)
  <2>1. CASE i <= p
    <3>1. d[i] = c[i] /\ i \in 2 .. Len(d)
      BY <1>1, <1>2, <1>4, <2>1
    <3> QED
      BY <3>1 DEF Members
  <2>2. CASE ~(i <= p)
    <3>1. i + 1 \in 1 .. Len(c) + 1 /\ ~(i + 1 <= p) /\ i + 1 # p + 1 /\ (i + 1) - 1 = i /\ i + 1 \in 2 .. Len(d)
      BY <1>1, <1>4, <2>2
    <3>2. d[i + 1] = c[(i + 1) - 1]
      BY <1>2, <3>1
    <3> QED
      BY <3>1, <3>2 DEF Members
  <2> QED
    BY <2>1, <2>2
<1>5. n \in Members(d)
  <2>1. d[p + 1] = n /\ p + 1 \in 2 .. Len(d)
    BY <1>1, <1>2
  <2> QED
    BY <2>1 DEF Members
<1>6. ASSUME NEW x PROVE x \in Members(d) <=> x \in Members(c) \cup {n}
  BY <1>3, <1>4, <1>5 DEF Members
<1> QED
  BY <1>6 DEF d

(* The same when a node is taken out. *)
LEMMA DeletedMembers ==
  ASSUME NEW c \in Seq(Nodes), NEW p \in 2 .. Len(c),
         \A i, j \in 1 .. Len(c) : c[i] = c[j] => i = j
  PROVE  Members(DeleteNode(c, p)) = Members(c) \ {c[p]}
<1> DEFINE d == DeleteNode(c, p)
<1>1. Len(c) \in Nat /\ Len(d) = Len(c) - 1
  BY Deleted
<1>2. \A i \in 1 .. Len(c) - 1 : d[i] = IF i < p THEN c[i] ELSE c[i + 1]
  BY Deleted
<1> HIDE DEF d
<1>3. ASSUME NEW i \in 2 .. Len(d) PROVE d[i] \in Members(c) \ {c[p]}
  <2>1. CASE i < p
    <3>1. d[i] = c[i] /\ i \in 2 .. Len(c) /\ i # p
      BY <1>1, <1>2, <1>3, <2>1
    <3> QED
      BY <3>1 DEF Members
  <2>2. CASE ~(i < p)
    <3>1. d[i] = c[i + 1] /\ i + 1 \in 2 .. Len(c) /\ i + 1 # p
      BY <1>1, <1>2, <1>3, <2>2
    <3> QED
      BY <3>1 DEF Members
  <2> QED
    BY <2>1, <2>2
<1>4. ASSUME NEW i \in 2 .. Len(c), c[i] # c[p] PROVE c[i] \in Members(d)
  <2>1. CASE i < p
    <3>1. d[i] = c[i] /\ i \in 2 .. Len(d)
      BY <1>1, <1>2, <1>4, <2>1
    <3> QED
      BY <3>1 DEF Members
  <2>2. CASE ~(i < p)
    <3>1. i - 1 \in 1 .. Len(c) - 1 /\ ~(i - 1 < p) /\ (i - 1) + 1 = i /\ i - 1 \in 2 .. Len(d)
      BY <1>1, <1>4, <2>2
    <3>2. d[i - 1] = c[(i - 1) + 1]
      BY <1>2, <3>1
    <3> QED
      BY <3>1, <3>2 DEF Members
  <2> QED
    BY <2>1, <2>2
<1>5. ASSUME NEW x PROVE x \in Members(d) <=> x \in Members(c) \ {c[p]}
  BY <1>3, <1>4 DEF Members
<1> QED
  BY <1>5 DEF d

(* The entries of the map. *)
Entry == [node : Nodes \cup {Null}, locked : BOOLEAN, ref : Nat]

(* A memory, a map, the cached keys and the lists fit together. *)
Sound(m, e, keys, c) ==
  /\ m \in Memories /\ e \in [Keys -> Entry] /\ keys \in SUBSET Keys
  /\ c \in [Lists -> Seq(Nodes)] /\ Consistent(m, e, keys, c)

(* The two lists have no node in common, and neither reaches into the pool. *)
Separate(m, c) ==
  \A l \in Lists :
    /\ Linked(m, l, c[l]) /\ c[l] \in Seq(Nodes) /\ Len(c[l]) \in Nat \ {0}
    /\ c[l][1] = Heads[l]
    /\ \A i \in 1 .. Len(c[l]) : c[l][i] \in Nodes /\ c[l][i] \notin m.pool
    /\ \A i \in 2 .. Len(c[l]) : c[l][i] \in Members(c[l])
    /\ \A o \in Lists : o # l => \A i \in 1 .. Len(c[l]), j \in 1 .. Len(c[o]) : c[l][i] # c[o][j]

(* Consistent lists are separate. *)
LEMMA Apart ==
  ASSUME NEW m \in Memories, NEW e \in [Keys -> Entry], NEW keys \in SUBSET Keys,
         NEW c \in [Lists -> Seq(Nodes)], Consistent(m, e, keys, c)
  PROVE  Separate(m, c)
<1> SUFFICES ASSUME NEW l \in Lists
             PROVE  /\ Linked(m, l, c[l]) /\ c[l] \in Seq(Nodes) /\ Len(c[l]) \in Nat \ {0}
                    /\ c[l][1] = Heads[l]
                    /\ \A i \in 1 .. Len(c[l]) : c[l][i] \in Nodes /\ c[l][i] \notin m.pool
                    /\ \A i \in 2 .. Len(c[l]) : c[l][i] \in Members(c[l])
                    /\ \A o \in Lists : o # l => \A i \in 1 .. Len(c[l]), j \in 1 .. Len(c[o]) : c[l][i] # c[o][j]
  BY DEF Separate
<1>1. ASSUME NEW o \in Lists
      PROVE  /\ Linked(m, o, c[o]) /\ c[o] \in Seq(Nodes) /\ Len(c[o]) \in Nat \ {0}
             /\ c[o][1] = Heads[o]
             /\ \A i \in 1 .. Len(c[o]) : c[o][i] \in Nodes
             /\ \A i \in 2 .. Len(c[o]) : c[o][i] \in Members(c[o])
             /\ \A i \in 1 .. Len(c[o]) : i = 1 \/ i \in 2 .. Len(c[o])
  <2>1. Linked(m, o, c[o]) /\ c[o] \in Seq(Nodes)
    BY DEF Consistent
  <2>2. Len(c[o]) \in Nat \ {0} /\ c[o][1] = Heads[o] /\ \A i \in 1 .. Len(c[o]) : c[o][i] \in Nodes
    BY <2>1, ListFacts
  <2> QED
    BY <2>1, <2>2 DEF Members
<1>2. \A o \in Lists : \A x \in Members(c[o]) :
        x \notin m.pool \cup {FreeHead, LockHead} /\ ListOf(e[m.value[x]]) = o
  BY DEF Consistent
<1>3. /\ {FreeHead, LockHead} \cap m.pool = {}
      /\ \A o \in Lists : Heads[o] \in {FreeHead, LockHead} /\ (o # l => Heads[o] # Heads[l])
  BY NodesAssumption DEF Consistent, Heads, Lists
<1>4. \A i \in 1 .. Len(c[l]) : c[l][i] \notin m.pool
  BY <1>1, <1>2, <1>3
<1>5. ASSUME NEW o \in Lists, o # l, NEW i \in 1 .. Len(c[l]), NEW j \in 1 .. Len(c[o])
      PROVE  c[l][i] # c[o][j]
  <2>1. c[l][i] = Heads[l] \/ c[l][i] \in Members(c[l])
    BY <1>1
  <2>2. c[o][j] = Heads[o] \/ c[o][j] \in Members(c[o])
    BY <1>1
  <2> QED
    BY <1>2, <1>3, <1>5, <2>1, <2>2
<1> QED
  BY <1>1, <1>4, <1>5

(* A key is entered: a node of the pool goes into a list, the map gets the *)
(* key's entry.                                                            *)
LEMMA Entered ==
  ASSUME NEW m, NEW e, NEW keys, NEW c, Sound(m, e, keys, c),
         NEW l \in Lists, NEW p \in 1 .. Len(c[l]), NEW n \in m.pool, NEW k \in Keys \ keys,
         NEW entry \in Entry, entry.node = n, ListOf(entry) = l, entry.locked <=> entry.ref > 0
  PROVE  Sound(EmplaceAfter(m, l, c[l][p], n, k), [e EXCEPT ![k] = entry], keys \cup {k},
               [c EXCEPT ![l] = InsertNode(c[l], p, n)])
<1> DEFINE dest == c[l][p]
           r == EmplaceAfter(m, l, dest, n, k)
           e2 == [e EXCEPT ![k] = entry]
           c2 == [c EXCEPT ![l] = InsertNode(c[l], p, n)]
<1>s. /\ m \in Memories /\ e \in [Keys -> Entry] /\ keys \in SUBSET Keys
      /\ c \in [Lists -> Seq(Nodes)] /\ Consistent(m, e, keys, c)
  BY DEF Sound
<1> USE <1>s
<1>0. \A q \in Lists :
        /\ Linked(m, q, c[q]) /\ c[q] \in Seq(Nodes) /\ Len(c[q]) \in Nat \ {0}
        /\ \A i \in 1 .. Len(c[q]) : c[q][i] \in Nodes /\ c[q][i] \notin m.pool
        /\ \A i \in 2 .. Len(c[q]) : c[q][i] \in Members(c[q])
        /\ \A o \in Lists : o # q => \A i \in 1 .. Len(c[q]), j \in 1 .. Len(c[o]) : c[q][i] # c[o][j]
  <2>1. Separate(m, c)
    BY Apart
  <2> QED
    BY <2>1 DEF Separate
<1>1. c[l] \in Seq(Nodes) /\ dest \in Nodes /\ n \in Nodes
  BY DEF Memories
<1>2. /\ r \in Memories /\ r.value[n] = k /\ r.pool = m.pool \ {n}
      /\ \A x \in Nodes : x # n => r.value[x] = m.value[x]
  <2> HIDE DEF dest
  <2> QED
    BY <1>1, EmplaceFields
<1>3. /\ c2 \in [Lists -> Seq(Nodes)]
      /\ \A o \in Lists : o # l => c2[o] = c[o]
      /\ c2[l] = InsertNode(c[l], p, n)
  BY <1>1, Inserted
<1>4. /\ \A o \in Lists : o # l => Members(c2[o]) = Members(c[o])
      /\ Members(c2[l]) = Members(c[l]) \cup {n}
  BY <1>1, <1>3, InsertedMembers
<1>5. Linked(r, l, c2[l])
  <2> DEFINE d == c[l]
  <2>1. /\ d \in Seq(Nodes) /\ Linked(m, l, d) /\ p \in 1 .. Len(d)
        /\ \A i \in 1 .. Len(d) : d[i] # n
    BY <1>0
  <2>2. \A i, j \in 1 .. Len(d) : d[i] = d[j] => i = j
    BY <2>1, ListFacts
  <2>3. PICK s \in Nodes : s # n /\ \A i \in 1 .. Len(d) : d[i] # s
    <3>1. PICK o \in Lists : o # l
      BY DEF Lists
    <3>2. 1 \in 1 .. Len(c[o]) /\ c[o][1] \in Nodes /\ c[o][1] \notin m.pool
          /\ \A i \in 1 .. Len(c[o]), j \in 1 .. Len(d) : c[o][i] # d[j]
      <4>1. /\ Len(c[o]) \in Nat \ {0}
            /\ \A i \in 1 .. Len(c[o]) : c[o][i] \in Nodes /\ c[o][i] \notin m.pool
            /\ \A q \in Lists : q # o => \A i \in 1 .. Len(c[o]), j \in 1 .. Len(c[q]) : c[o][i] # c[q][j]
        BY <1>0, <3>1
      <4> QED
        BY <3>1, <4>1
    <3> QED
      BY <3>2
  <2> HIDE DEF d
  <2>4. Len(d) < SizeModulus
    BY <1>1, <2>1, <2>2, <2>3, Room
  <2>5. Linked(EmplaceAfter(m, l, d[p], n, k), l, InsertNode(d, p, n))
    BY <1>1, <2>1, <2>4, EmplaceLinked
  <2> QED
    BY <1>3, <2>5 DEF d
<1>6. ASSUME NEW o \in Lists, o # l PROVE Linked(r, o, c2[o])
  <2> DEFINE d == c[o]
  <2>1. /\ d \in Seq(Nodes) /\ Linked(m, o, d) /\ Len(d) \in Nat \ {0}
        /\ \A i \in 1 .. Len(d) : d[i] # n /\ d[i] \in Nodes
        /\ \A i \in 1 .. Len(d), j \in 1 .. Len(c[l]) : d[i] # c[l][j]
    <3>1. /\ c[o] \in Seq(Nodes) /\ Linked(m, o, c[o]) /\ Len(c[o]) \in Nat \ {0}
          /\ \A i \in 1 .. Len(c[o]) : c[o][i] \in Nodes /\ c[o][i] \notin m.pool
          /\ \A q \in Lists : q # o => \A i \in 1 .. Len(c[o]), j \in 1 .. Len(c[q]) : c[o][i] # c[q][j]
      BY <1>0, <1>6
    <3> QED
      BY <1>6, <3>1
  <2>2. m.next[dest] = Null \/ \E j \in 1 .. Len(c[l]) : m.next[dest] = c[l][j]
    <3> DEFINE b == c[l]
    <3>1. Linked(m, l, b) /\ b \in Seq(Nodes)
      BY <1>0
    <3>2. /\ m.next[b[Len(b)]] = Null /\ Len(b) \in Nat \ {0}
          /\ \A i \in 1 .. Len(b) - 1 : m.next[b[i]] = b[i + 1]
      BY <3>1, ListFacts
    <3>3. p = Len(b) \/ (p \in 1 .. Len(b) - 1 /\ p + 1 \in 1 .. Len(b))
      BY <3>2
    <3> QED
      BY <3>2, <3>3
  <2>3. \A i \in 1 .. Len(d) : d[i] # n /\ d[i] # dest /\ d[i] # m.next[dest]
    BY <2>1, <2>2, NodesAssumption
  <2> HIDE DEF d, dest
  <2>4. Linked(r, o, d)
    BY <1>1, <1>6, <2>1, <2>3, EmplaceElsewhere
  <2> QED
    BY <1>3, <1>6, <2>4 DEF d
<1>7. e2[k] = entry /\ \A x \in Keys : x # k => e2[x] = e[x]
  OBVIOUS
<1>8. \A o \in Lists : \A x \in Members(c[o]) : x \in Nodes /\ x # n
  BY <1>0 DEF Members, Consistent
<1>9. m.pool \subseteq Nodes /\ m.value \in [Nodes -> Keys \cup {Null}]
  BY DEF Memories
<1> HIDE DEF dest, r, e2, c2
<1>10. {FreeHead, LockHead} \cap r.pool = {}
  BY <1>2 DEF Consistent
<1>11. n \notin {FreeHead, LockHead}
  BY DEF Consistent
<1>12. ASSUME NEW o \in Lists, NEW x \in Members(c2[o])
       PROVE  /\ x \notin r.pool \cup {FreeHead, LockHead}
              /\ r.value[x] \in keys \cup {k}
              /\ e2[r.value[x]].node = x /\ ListOf(e2[r.value[x]]) = o
  <2>1. CASE x = n
    <3>1. o = l
      BY <1>4, <1>8, <1>12, <2>1
    <3> QED
      BY <1>2, <1>7, <1>11, <2>1, <3>1
  <2>2. CASE x # n
    <3>1. x \in Members(c[o]) /\ x \in Nodes
      BY <1>4, <1>8, <1>12, <2>2
    <3>2. /\ x \notin m.pool \cup {FreeHead, LockHead}
          /\ m.value[x] \in keys
          /\ e[m.value[x]].node = x /\ ListOf(e[m.value[x]]) = o
      BY <3>1 DEF Consistent
    <3>3. r.value[x] = m.value[x] /\ m.value[x] # k /\ e2[m.value[x]] = e[m.value[x]]
      BY <1>2, <1>7, <2>2, <3>1, <3>2
    <3> QED
      BY <1>2, <3>2, <3>3
  <2> QED
    BY <2>1, <2>2
<1>13. ASSUME NEW x \in Nodes \ (r.pool \cup {FreeHead, LockHead})
       PROVE  \E o \in Lists : x \in Members(c2[o])
  <2>1. CASE x = n
    BY <1>4, <2>1
  <2>2. CASE x # n
    <3>1. \E o \in Lists : x \in Members(c[o])
      BY <1>2, <2>2 DEF Consistent
    <3> QED
      BY <1>4, <3>1
  <2> QED
    BY <2>1, <2>2
<1>14. ASSUME NEW x \in keys \cup {k}
       PROVE  /\ e2[x].locked <=> e2[x].ref > 0
              /\ e2[x].node \in Members(c2[ListOf(e2[x])])
              /\ r.value[e2[x].node] = x
  <2>1. CASE x = k
    BY <1>2, <1>4, <1>7, <2>1
  <2>2. CASE x # k
    <3>1. /\ e[x].locked <=> e[x].ref > 0
          /\ e[x].node \in Members(c[ListOf(e[x])])
          /\ m.value[e[x].node] = x
      BY <1>14, <2>2 DEF Consistent
    <3>2. e2[x] = e[x] /\ ListOf(e[x]) \in Lists
      BY <1>7, <1>14, <2>2 DEF ListOf, Lists
    <3>3. e[x].node \in Nodes /\ e[x].node # n /\ e[x].node \in Members(c2[ListOf(e[x])])
      BY <1>4, <1>8, <3>1, <3>2
    <3> QED
      BY <1>2, <3>1, <3>2, <3>3
  <2> QED
    BY <2>1, <2>2
<1>15. \A x \in Keys \ (keys \cup {k}) : e2[x] = NoEntry
  BY <1>7 DEF Consistent
<1>16. \A o \in Lists : Linked(r, o, c2[o])
  BY <1>5, <1>6
<1>17. Consistent(r, e2, keys \cup {k}, c2)
  BY <1>10, <1>12, <1>13, <1>14, <1>15, <1>16 DEF Consistent
<1>18. e2 \in [Keys -> Entry] /\ keys \cup {k} \in SUBSET Keys
  BY DEF e2
<1> QED
  BY <1>2, <1>3, <1>17, <1>18 DEF Sound, r, c2, e2, dest

(* A key is taken out: its node goes back to the pool, its entry is reset. *)
LEMMA TakenOut ==
  ASSUME NEW m, NEW e, NEW keys, NEW c, Sound(m, e, keys, c),
         NEW l \in Lists, NEW p \in 2 .. Len(c[l]), NEW k, k = m.value[c[l][p]]
  PROVE  /\ k \in keys
         /\ Sound(RemoveNode(m, l, c[l][p]), [e EXCEPT ![k] = NoEntry], keys \ {k},
                  [c EXCEPT ![l] = DeleteNode(c[l], p)])
<1> DEFINE n == c[l][p]
           r == RemoveNode(m, l, n)
           e2 == [e EXCEPT ![k] = NoEntry]
           c2 == [c EXCEPT ![l] = DeleteNode(c[l], p)]
           d == c[l]
<1>s. /\ m \in Memories /\ e \in [Keys -> Entry] /\ keys \in SUBSET Keys
      /\ c \in [Lists -> Seq(Nodes)] /\ Consistent(m, e, keys, c)
  BY DEF Sound
<1> USE <1>s
<1>0. \A q \in Lists :
        /\ Linked(m, q, c[q]) /\ c[q] \in Seq(Nodes) /\ Len(c[q]) \in Nat \ {0}
        /\ \A i \in 1 .. Len(c[q]) : c[q][i] \in Nodes /\ c[q][i] \notin m.pool
        /\ \A i \in 2 .. Len(c[q]) : c[q][i] \in Members(c[q])
        /\ \A o \in Lists : o # q => \A i \in 1 .. Len(c[q]), j \in 1 .. Len(c[o]) : c[q][i] # c[o][j]
  <2>1. Separate(m, c)
    BY Apart
  <2> QED
    BY <2>1 DEF Separate
<1>1. /\ d \in Seq(Nodes) /\ Linked(m, l, d) /\ Len(d) \in Nat \ {0} /\ n \in Nodes
      /\ n \in Members(d) /\ n = d[p] /\ p \in 2 .. Len(d) /\ p \in 1 .. Len(d) /\ p - 1 \in 1 .. Len(d)
  <2>1. /\ c[l] \in Seq(Nodes) /\ Linked(m, l, c[l]) /\ Len(c[l]) \in Nat \ {0}
        /\ \A i \in 1 .. Len(c[l]) : c[l][i] \in Nodes
        /\ \A i \in 2 .. Len(c[l]) : c[l][i] \in Members(c[l])
    BY <1>0
  <2>2. p \in 1 .. Len(c[l]) /\ p - 1 \in 1 .. Len(c[l])
    BY <2>1
  <2> QED
    BY <2>1, <2>2
<1>2. /\ \A i, j \in 1 .. Len(d) : d[i] = d[j] => i = j
      /\ m.prev[n] = d[p - 1] /\ m.prev[n] \in Nodes
      /\ m.next[n] = Null \/ \E j \in 1 .. Len(d) : m.next[n] = d[j]
  <2> HIDE DEF n, d
  <2>1. /\ \A i, j \in 1 .. Len(d) : d[i] = d[j] => i = j
        /\ \A i \in 1 .. Len(d) : d[i] \in Nodes
        /\ \A i \in 2 .. Len(d) : m.prev[d[i]] = d[i - 1]
        /\ \A i \in 1 .. Len(d) - 1 : m.next[d[i]] = d[i + 1]
        /\ m.next[d[Len(d)]] = Null
    BY <1>1, ListFacts
  <2>2. p = Len(d) \/ (p \in 1 .. Len(d) - 1 /\ p + 1 \in 1 .. Len(d))
    BY <1>1
  <2> QED
    BY <1>1, <2>1, <2>2
<1>3. r \in Memories /\ r.value = m.value /\ r.pool = m.pool \cup {n}
  <2> HIDE DEF n
  <2> QED
    BY <1>1, <1>2, RemoveFields
<1>4. /\ c2 \in [Lists -> Seq(Nodes)]
      /\ \A o \in Lists : o # l => c2[o] = c[o]
      /\ c2[l] = DeleteNode(d, p)
  BY <1>1, Deleted
<1>5. /\ \A o \in Lists : o # l => Members(c2[o]) = Members(c[o])
      /\ Members(c2[l]) = Members(c[l]) \ {n}
  <2>1. Members(DeleteNode(d, p)) = Members(d) \ {d[p]}
    <3> HIDE DEF d
    <3> QED
      BY <1>1, <1>2, DeletedMembers
  <2> QED
    BY <1>4, <2>1
<1>6. Linked(r, l, c2[l])
  <2>1. Linked(RemoveNode(m, l, d[p]), l, DeleteNode(d, p))
    <3> HIDE DEF d
    <3> QED
      BY <1>1, RemoveLinked
  <2> QED
    BY <1>4, <2>1
<1>7. ASSUME NEW o \in Lists, o # l PROVE Linked(r, o, c2[o])
  <2> DEFINE b == c[o]
  <2>1. /\ b \in Seq(Nodes) /\ Linked(m, o, b) /\ Len(b) \in Nat \ {0}
        /\ \A i \in 1 .. Len(b) : b[i] \in Nodes
        /\ \A i \in 1 .. Len(b), j \in 1 .. Len(d) : b[i] # d[j]
    <3>1. /\ c[o] \in Seq(Nodes) /\ Linked(m, o, c[o]) /\ Len(c[o]) \in Nat \ {0}
          /\ \A i \in 1 .. Len(c[o]) : c[o][i] \in Nodes
          /\ \A q \in Lists : q # o => \A i \in 1 .. Len(c[o]), j \in 1 .. Len(c[q]) : c[o][i] # c[q][j]
      BY <1>0, <1>7
    <3> QED
      BY <1>7, <3>1
  <2> HIDE DEF b, d, n
  <2>2. \A i \in 1 .. Len(b) : b[i] # m.prev[n] /\ b[i] # m.next[n]
    BY <1>1, <1>2, <2>1, NodesAssumption
  <2>3. Linked(r, o, b)
    BY <1>1, <1>2, <1>7, <2>1, <2>2, RemoveElsewhere
  <2> QED
    BY <1>4, <1>7, <2>3 DEF b
<1>8. /\ n \notin m.pool \cup {FreeHead, LockHead}
      /\ k \in keys /\ e[k].node = n /\ ListOf(e[k]) = l
  BY <1>1 DEF Consistent
<1>9. e2[k] = NoEntry /\ \A x \in Keys : x # k => e2[x] = e[x]
  BY <1>8
<1>10. \A o \in Lists : o # l => n \notin Members(c[o])
  BY <1>8 DEF Consistent
<1> HIDE DEF n, r, e2, c2, d
<1>11. {FreeHead, LockHead} \cap r.pool = {}
  BY <1>3, <1>8 DEF Consistent
<1>12. ASSUME NEW o \in Lists, NEW x \in Members(c2[o])
       PROVE  /\ x \notin r.pool \cup {FreeHead, LockHead}
              /\ r.value[x] \in keys \ {k}
              /\ e2[r.value[x]].node = x /\ ListOf(e2[r.value[x]]) = o
  <2>1. x \in Members(c[o]) /\ x # n
    BY <1>5, <1>10, <1>12
  <2>2. /\ x \notin m.pool \cup {FreeHead, LockHead}
        /\ m.value[x] \in keys
        /\ e[m.value[x]].node = x /\ ListOf(e[m.value[x]]) = o
    BY <2>1 DEF Consistent
  <2>3. m.value[x] # k /\ m.value[x] \in Keys
    BY <1>8, <2>1, <2>2
  <2> QED
    BY <1>3, <1>9, <2>1, <2>2, <2>3
<1>13. ASSUME NEW x \in Nodes \ (r.pool \cup {FreeHead, LockHead})
       PROVE  \E o \in Lists : x \in Members(c2[o])
  <2>1. x # n /\ \E o \in Lists : x \in Members(c[o])
    BY <1>3 DEF Consistent
  <2> QED
    BY <1>5, <2>1
<1>14. ASSUME NEW x \in keys \ {k}
       PROVE  /\ e2[x].locked <=> e2[x].ref > 0
              /\ e2[x].node \in Members(c2[ListOf(e2[x])])
              /\ r.value[e2[x].node] = x
  <2>1. /\ e[x].locked <=> e[x].ref > 0
        /\ e[x].node \in Members(c[ListOf(e[x])])
        /\ m.value[e[x].node] = x
    BY <1>14 DEF Consistent
  <2>2. e2[x] = e[x] /\ ListOf(e[x]) \in Lists
    BY <1>9, <1>14 DEF ListOf, Lists
  <2>3. e[x].node # n
    BY <1>8, <1>14, <2>1 DEF n
  <2>4. e[x].node \in Members(c2[ListOf(e[x])])
    BY <1>5, <2>1, <2>2, <2>3
  <2> QED
    BY <1>3, <2>1, <2>2, <2>4
<1>15. \A x \in Keys \ (keys \ {k}) : e2[x] = NoEntry
  BY <1>9 DEF Consistent
<1>16. \A o \in Lists : Linked(r, o, c2[o])
  BY <1>6, <1>7
<1>17. Consistent(r, e2, keys \ {k}, c2)
  BY <1>11, <1>12, <1>13, <1>14, <1>15, <1>16 DEF Consistent
<1>18. e2 \in [Keys -> Entry] /\ keys \ {k} \in SUBSET Keys
  BY DEF e2, NoEntry, Entry
<1> QED
  BY <1>3, <1>4, <1>8, <1>17, <1>18 DEF Sound, r, c2, e2, n, d

-----------------------------------------------------------------------------
(* The inductive invariant.                                                *)

(* Both lists, read off the pointers. *)
Chains == [l \in Lists |-> NodesOf(mem, l)]

(* Sequences that are consistent with the state are the ones read off. *)
LEMMA ReadOff ==
  ASSUME NEW m \in Memories, NEW e, NEW keys,
         NEW c \in [Lists -> Seq(Nodes)], Consistent(m, e, keys, c)
  PROVE  [l \in Lists |-> NodesOf(m, l)] = c
<1>1. ASSUME NEW l \in Lists PROVE NodesOf(m, l) = c[l]
  <2> DEFINE d == c[l]
  <2>1. d \in Seq(Nodes) /\ Linked(m, l, d)
    BY DEF Consistent
  <2> HIDE DEF d
  <2>2. NodesOf(m, l) = d
    BY <2>1, LinkedIsWalk
  <2> QED
    BY <2>2 DEF d
<1> QED
  BY <1>1

(* What the invariant says, with the sequences that are read off. *)
LEMMA StateLists ==
  ASSUME IInv
  PROVE  Sound(mem, ptr, valid, Chains)
<1>1. Consistent(mem, ptr, valid, Chains)
  BY DEF IInv, Chains
<1>2. \A l \in Lists : Chains[l] \in Seq(Nodes)
  BY <1>1 DEF Consistent, Linked
<1>3. Chains = [l \in Lists |-> Chains[l]]
  BY DEF Chains
<1> HIDE DEF Chains
<1> QED
  BY <1>1, <1>2, <1>3 DEF IInv, TypeOK, Entry, Sound

(* Any sequences that are consistent with the new state prove its          *)
(* invariant, because they are the ones that are read off.                 *)
LEMMA Reestablished ==
  ASSUME NEW c, Sound(mem', ptr', valid', c)
  PROVE  IInv' /\ Chains' = c
<1>1. [l \in Lists |-> NodesOf(mem', l)] = c
  BY ReadOff DEF Sound
<1> QED
  BY <1>1 DEF Sound, IInv, TypeOK, Chains, Entry

(* The state before any shard is loaded. *)
LEMMA InitIInv == Init => IInv
<1> SUFFICES ASSUME Init PROVE IInv
  OBVIOUS
<1> DEFINE c == [l \in Lists |-> <<Heads[l]>>]
<1>1. Heads \in [Lists -> Nodes]
  BY NodesAssumption DEF Heads, Lists
<1>2. c \in [Lists -> Seq(Nodes)]
  BY <1>1
<1>3. mem \in Memories
  BY <1>1, SizeArithmetic DEF Init, Memories
<1>4. ASSUME NEW l \in Lists PROVE Linked(mem, l, c[l])
  <2>1. mem.size[l] = 0 /\ mem.tail[l] = Heads[l] /\ Heads[l] \in Nodes /\ mem.next[Heads[l]] = Null
    BY <1>1 DEF Init
  <2>2. c[l] = <<Heads[l]>>
    OBVIOUS
  <2> DEFINE d == <<Heads[l]>>
  <2>3. d \in Seq(Nodes) /\ Len(d) = 1 /\ d[1] = Heads[l]
    BY <2>1
  <2> HIDE DEF d
  <2>4. Linked(mem, l, d)
    BY <2>1, <2>3 DEF Linked
  <2> QED
    BY <2>2, <2>4 DEF d
<1>5. \A l \in Lists : Members(c[l]) = {}
  BY DEF Members
<1>6. ptr \in [Keys -> Entry] /\ valid \in SUBSET Keys
  BY DEF Init, NoEntry, Entry
<1> HIDE DEF c
<1>7. {FreeHead, LockHead} \cap mem.pool = {}
      /\ Nodes \ (mem.pool \cup {FreeHead, LockHead}) = {}
  BY DEF Init
<1>8. valid = {} /\ \A k \in Keys : ptr[k] = NoEntry
  BY DEF Init
<1>9. Consistent(mem, ptr, valid, c)
  BY <1>4, <1>5, <1>7, <1>8 DEF Consistent
<1>10. [l \in Lists |-> NodesOf(mem, l)] = c
  BY <1>2, <1>3, <1>9, ReadOff
<1> QED
  BY <1>3, <1>6, <1>9, <1>10 DEF IInv, TypeOK, Entry

(* The order in which keys are given up, when a node comes or goes.        *)
LEMMA KeysInserted ==
  ASSUME NEW m \in Memories, NEW l \in Lists, NEW dest \in Nodes, NEW n \in Nodes, NEW k \in Keys,
         NEW c \in Seq(Nodes), Len(c) # 0, \A i \in 1 .. Len(c) : c[i] # n,
         \A x \in Members(c) : m.value[x] \in Keys
  PROVE  /\ KeysOf(m, c) \in Seq(Keys)
         /\ KeysOf(EmplaceAfter(m, l, dest, n, k), c) = KeysOf(m, c)
         /\ KeysOf(EmplaceAfter(m, l, dest, n, k), InsertNode(c, Len(c), n)) = Append(KeysOf(m, c), k)
<1> DEFINE r == EmplaceAfter(m, l, dest, n, k)
           d == InsertNode(c, Len(c), n)
           s == KeysOf(m, c)
           t == KeysOf(r, d)
<1>1. r.value[n] = k /\ \A x \in Nodes : x # n => r.value[x] = m.value[x]
  BY EmplaceFields
<1>2. Len(c) \in Nat \ {0} /\ Len(c) \in 1 .. Len(c)
  OBVIOUS
<1>3. /\ Len(d) = Len(c) + 1
      /\ \A i \in 1 .. Len(c) + 1 :
           d[i] = IF i <= Len(c) THEN c[i] ELSE IF i = Len(c) + 1 THEN n ELSE c[i - 1]
  BY <1>2, Inserted
<1> HIDE DEF r, d
<1>4. \A i \in 1 .. Len(c) - 1 : i + 1 \in 1 .. Len(c) /\ i + 1 \in 2 .. Len(c)
  BY <1>2
<1>5. \A i \in 1 .. Len(c) - 1 : c[i + 1] \in Nodes /\ c[i + 1] # n /\ m.value[c[i + 1]] \in Keys
  BY <1>4 DEF Members
<1>6. s \in Seq(Keys) /\ Len(s) = Len(c) - 1 /\ \A i \in 1 .. Len(c) - 1 : s[i] = m.value[c[i + 1]]
  BY <1>2, <1>5 DEF KeysOf
<1>7. KeysOf(r, c) = s
  BY <1>1, <1>5 DEF KeysOf
<1>8. \A i \in 1 .. Len(c) : t[i] = r.value[d[i + 1]]
  BY <1>2, <1>3 DEF KeysOf
<1>9. \A i \in 1 .. Len(c) - 1 : t[i] = s[i]
  BY <1>1, <1>2, <1>3, <1>4, <1>5, <1>6, <1>8, SMTT(30)
<1>10. t[Len(c)] = k
  BY <1>1, <1>2, <1>3, <1>8
<1>11. t \in Seq(Keys) /\ Len(t) = Len(c)
  <2>1. \A i \in 1 .. Len(c) : t[i] \in Keys
    BY <1>2, <1>6, <1>9, <1>10
  <2>2. t = [i \in 1 .. Len(c) |-> t[i]]
    BY <1>2, <1>3 DEF KeysOf
  <2> HIDE DEF t
  <2> QED
    BY <1>2, <2>1, <2>2
<1> HIDE DEF s, t
<1>12. Append(s, k) \in Seq(Keys) /\ Len(Append(s, k)) = Len(c)
       /\ \A i \in 1 .. Len(c) : t[i] = Append(s, k)[i]
  BY <1>2, <1>6, <1>9, <1>10
<1>13. t = Append(s, k)
  BY <1>11, <1>12, SeqEqual
<1> QED
  BY <1>6, <1>7, <1>13 DEF r, d, s, t

(* Taking out a node takes its key out of the order of the keys. *)
LEMMA KeysDeleted ==
  ASSUME NEW m \in Memories, NEW l \in Lists, NEW n \in Nodes,
         NEW c \in Seq(Nodes), NEW p \in 2 .. Len(c),
         \A x \in Members(c) : m.value[x] \in Keys
  PROVE  /\ KeysOf(m, c) \in Seq(Keys) /\ p - 1 \in 1 .. Len(KeysOf(m, c))
         /\ KeysOf(m, c)[p - 1] = m.value[c[p]]
         /\ KeysOf(RemoveNode(m, l, n), c) = KeysOf(m, c)
         /\ KeysOf(RemoveNode(m, l, n), DeleteNode(c, p)) = RemoveAt(KeysOf(m, c), p - 1)
<1> DEFINE r == RemoveNode(m, l, n)
           d == DeleteNode(c, p)
           s == KeysOf(m, c)
           t == KeysOf(r, d)
<1>1. r.value = m.value
  BY DEF RemoveNode
<1>2. /\ Len(c) \in Nat \ {0} /\ p \in 1 .. Len(c) /\ (p - 1) + 1 = p /\ p - 1 \in 1 .. Len(c) - 1
      /\ Len(c) - 2 \in Nat /\ (Len(c) - 1) - 1 = Len(c) - 2
  BY SMTT(30)
<1>3. /\ Len(d) = Len(c) - 1
      /\ \A i \in 1 .. Len(c) - 1 : d[i] = IF i < p THEN c[i] ELSE c[i + 1]
  BY <1>2, Deleted
<1> HIDE DEF r, d
<1>4. \A i \in 1 .. Len(c) - 1 : i + 1 \in 2 .. Len(c)
  BY <1>2
<1>5. \A i \in 1 .. Len(c) - 1 : m.value[c[i + 1]] \in Keys
  BY <1>4 DEF Members
<1>6. s \in Seq(Keys) /\ Len(s) = Len(c) - 1 /\ \A i \in 1 .. Len(c) - 1 : s[i] = m.value[c[i + 1]]
  BY <1>2, <1>5 DEF KeysOf
<1>7. KeysOf(r, c) = s
  BY <1>1 DEF KeysOf
<1>8. /\ t = [i \in 1 .. Len(c) - 2 |-> t[i]]
      /\ \A i \in 1 .. Len(c) - 2 : t[i] = m.value[d[i + 1]]
  BY <1>1, <1>2, <1>3 DEF KeysOf
<1> HIDE DEF s, t
<1>9. s[p - 1] = m.value[c[p]]
  <2>1. s[p - 1] = m.value[c[(p - 1) + 1]]
    BY <1>2, <1>6
  <2> QED
    BY <1>2, <2>1
<1>10. /\ RemoveAt(s, p - 1) \in Seq(Keys) /\ Len(RemoveAt(s, p - 1)) = Len(c) - 2
       /\ \A i \in 1 .. Len(c) - 2 : RemoveAt(s, p - 1)[i] = IF i < p - 1 THEN s[i] ELSE s[i + 1]
  <2>1. p - 1 \in 1 .. Len(s)
    BY <1>2, <1>6
  <2>2. /\ RemoveAt(s, p - 1) \in Seq(Keys) /\ Len(RemoveAt(s, p - 1)) = Len(s) - 1
        /\ \A j \in 1 .. Len(s) - 1 : RemoveAt(s, p - 1)[j] = IF j < p - 1 THEN s[j] ELSE s[j + 1]
    <3> DEFINE q == p - 1
    <3>1. q \in 1 .. Len(s)
      BY <2>1
    <3> HIDE DEF q
    <3>2. /\ RemoveAt(s, q) \in Seq(Keys) /\ Len(RemoveAt(s, q)) = Len(s) - 1
          /\ \A j \in 1 .. Len(s) - 1 : RemoveAt(s, q)[j] = IF j < q THEN s[j] ELSE s[j + 1]
      BY <1>6, <3>1, RemovedAt
    <3> QED
      BY <3>2 DEF q
  <2>3. Len(s) - 1 = Len(c) - 2
    BY <1>2, <1>6
  <2> QED
    BY <2>2, <2>3
<1>11. ASSUME NEW i \in 1 .. Len(c) - 2 PROVE t[i] = RemoveAt(s, p - 1)[i] /\ t[i] \in Keys
  <2>1. i \in 1 .. Len(c) - 1 /\ i + 1 \in 1 .. Len(c) - 1
    BY <1>2
  <2>2. CASE i < p - 1
    <3>1. d[i + 1] = c[i + 1]
      BY <1>2, <1>3, <2>1, <2>2
    <3> QED
      BY <1>5, <1>6, <1>8, <1>10, <2>1, <2>2, <3>1
  <2>3. CASE ~(i < p - 1)
    <3>1. d[i + 1] = c[(i + 1) + 1]
      BY <1>2, <1>3, <2>1, <2>3
    <3>2. s[i + 1] = m.value[c[(i + 1) + 1]] /\ m.value[c[(i + 1) + 1]] \in Keys
      BY <1>5, <1>6, <2>1
    <3> QED
      BY <1>8, <1>10, <2>3, <3>1, <3>2
  <2> QED
    BY <2>2, <2>3
<1>12. t \in Seq(Keys) /\ Len(t) = Len(c) - 2
  BY <1>2, <1>8, <1>11
<1>13. t = RemoveAt(s, p - 1)
  BY <1>10, <1>11, <1>12, SeqEqual
<1> QED
  BY <1>2, <1>6, <1>7, <1>9, <1>13 DEF r, d, s, t

-----------------------------------------------------------------------------
(* The actions.                                                            *)

(* The keys of _free_list, oldest first: the order of LruPolicy. *)
Order == KeysOf(mem, NodesOf(mem, "free"))

(* What every action needs to know of its lists. *)
Shape(m, keys, c) ==
  \A l \in Lists :
    /\ c[l] \in Seq(Nodes) /\ Len(c[l]) \in 1 .. Len(c[l]) /\ 1 \in 1 .. Len(c[l])
    /\ c[l][Len(c[l])] = m.tail[l] /\ c[l][1] = Heads[l]
    /\ Len(c[l]) = m.size[l] + 1
    /\ \A i \in 1 .. Len(c[l]) : c[l][i] \in Nodes /\ c[l][i] \notin m.pool
    /\ \A i \in 1 .. Len(c[l]) - 1 : m.next[c[l][i]] = c[l][i + 1]
    /\ \A x \in Members(c[l]) : m.value[x] \in keys

(* Sound lists have this shape. *)
LEMMA SoundShape ==
  ASSUME NEW m, NEW e, NEW keys, NEW c, Sound(m, e, keys, c)
  PROVE  Shape(m, keys, c)
<1> SUFFICES ASSUME NEW l \in Lists
             PROVE
             /\ c[l] \in Seq(Nodes) /\ Len(c[l]) \in 1 .. Len(c[l]) /\ 1 \in 1 .. Len(c[l])
             /\ c[l][Len(c[l])] = m.tail[l] /\ c[l][1] = Heads[l]
             /\ Len(c[l]) = m.size[l] + 1
             /\ \A i \in 1 .. Len(c[l]) : c[l][i] \in Nodes /\ c[l][i] \notin m.pool
             /\ \A i \in 1 .. Len(c[l]) - 1 : m.next[c[l][i]] = c[l][i + 1]
             /\ \A x \in Members(c[l]) : m.value[x] \in keys
  BY DEF Shape
<1> USE DEF Sound
<1>1. Separate(m, c)
  BY Apart
<1>2. /\ Linked(m, l, c[l]) /\ c[l] \in Seq(Nodes) /\ Len(c[l]) \in Nat \ {0} /\ c[l][1] = Heads[l]
      /\ \A i \in 1 .. Len(c[l]) : c[l][i] \in Nodes /\ c[l][i] \notin m.pool
  BY <1>1 DEF Separate
<1>3. /\ c[l][Len(c[l])] = m.tail[l] /\ Len(c[l]) = m.size[l] + 1
      /\ \A i \in 1 .. Len(c[l]) - 1 : m.next[c[l][i]] = c[l][i + 1]
  BY <1>2 DEF Linked
<1>4. \A x \in Members(c[l]) : m.value[x] \in keys
  BY DEF Consistent
<1>5. Len(c[l]) \in 1 .. Len(c[l]) /\ 1 \in 1 .. Len(c[l])
  BY <1>2
<1> QED
  BY <1>2, <1>3, <1>4, <1>5 DEF Memories

(* add() keeps the invariant and puts the key last (cache_controller.h:99). *)
LEMMA AddStep ==
  ASSUME IInv, NEW k \in Keys, Add(k)
  PROVE  IInv' /\ Order' = Append(Order, k)
<1> DEFINE c == Chains
           f == c["free"]
<1>0. Sound(mem, ptr, valid, c) /\ Shape(mem, valid, c)
  BY StateLists, SoundShape
<1>1. /\ mem \in Memories /\ ptr \in [Keys -> Entry] /\ valid \in SUBSET Keys
      /\ c \in [Lists -> Seq(Nodes)] /\ Consistent(mem, ptr, valid, c)
  BY <1>0 DEF Sound
<1>2. f = NodesOf(mem, "free") /\ "free" \in Lists
  BY DEF Chains, Lists
<1> HIDE DEF c
<1>3. /\ f \in Seq(Nodes) /\ Len(f) \in 1 .. Len(f)
      /\ f[Len(f)] = mem.tail["free"]
      /\ \A i \in 1 .. Len(f) : f[i] \in Nodes /\ f[i] \notin mem.pool
      /\ \A x \in Members(f) : mem.value[x] \in valid
      /\ mem.pool \in SUBSET Nodes
  BY <1>0, <1>1, <1>2 DEF Shape, Memories
<1>4. PICK n \in mem.pool :
        /\ mem' = EmplaceBack(mem, "free", n, k)
        /\ ptr' = [ptr EXCEPT ![k] = [node |-> n, locked |-> FALSE, ref |-> 0]]
  BY DEF Add
<1>5. k \in Keys \ valid /\ valid' = valid \cup {k}
  BY DEF Add
<1> DEFINE entry == [node |-> n, locked |-> FALSE, ref |-> 0]
           c2 == [c EXCEPT !["free"] = InsertNode(c["free"], Len(c["free"]), n)]
<1>6. entry \in Entry /\ entry.node = n /\ ListOf(entry) = "free" /\ (entry.locked <=> entry.ref > 0)
  BY <1>1 DEF Entry, ListOf, Memories
<1>7. mem' = EmplaceAfter(mem, "free", c["free"][Len(c["free"])], n, k)
  BY <1>3, <1>4 DEF EmplaceBack
<1> HIDE DEF entry
<1>8. Sound(mem', [ptr EXCEPT ![k] = entry], valid \cup {k}, c2)
  <2> DEFINE l == "free"
             q == Len(c[l])
  <2>1. l \in Lists /\ q \in 1 .. Len(c[l]) /\ ListOf(entry) = l
    BY <1>2, <1>3, <1>6
  <2>2. mem' = EmplaceAfter(mem, l, c[l][q], n, k) /\ c2 = [c EXCEPT ![l] = InsertNode(c[l], q, n)]
    BY <1>7
  <2> HIDE DEF l, q, c2
  <2>3. Sound(EmplaceAfter(mem, l, c[l][q], n, k), [ptr EXCEPT ![k] = entry], valid \cup {k},
              [c EXCEPT ![l] = InsertNode(c[l], q, n)])
    BY <1>0, <1>5, <1>6, <2>1, Entered
  <2> QED
    BY <2>2, <2>3
<1>9. ptr' = [ptr EXCEPT ![k] = entry]
  BY <1>4 DEF entry
<1>10. IInv' /\ Chains' = c2
  <2> HIDE DEF c2
  <2> QED
    BY <1>5, <1>8, <1>9, Reestablished
<1>11. Chains'["free"] = NodesOf(mem', "free")
  BY <1>2 DEF Chains
<1>12. NodesOf(mem', "free") = InsertNode(f, Len(f), n)
  BY <1>1, <1>2, <1>10, <1>11
<1> HIDE DEF f
<1>13. KeysOf(EmplaceAfter(mem, "free", mem.tail["free"], n, k), InsertNode(f, Len(f), n)) = Append(KeysOf(mem, f), k)
  <2>1. /\ mem.tail["free"] \in Nodes /\ n \in Nodes /\ Len(f) # 0
        /\ \A i \in 1 .. Len(f) : f[i] # n
        /\ \A x \in Members(f) : mem.value[x] \in Keys
    BY <1>1, <1>3
  <2> QED
    BY <1>1, <1>2, <1>3, <2>1, KeysInserted
<1>14. Order' = Append(Order, k)
  BY <1>2, <1>4, <1>12, <1>13 DEF Order, EmplaceBack
<1> QED
  BY <1>10, <1>14

(* evict() keeps the invariant and gives up the key at the front of the    *)
(* order (cache_controller.h:110).                                         *)
LEMMA EvictStep ==
  ASSUME IInv, Evict
  PROVE  IInv' /\ Order # <<>> /\ Order' = Tail(Order) /\ \A k \in Keys : ptr'[k].ref = ptr[k].ref
<1> DEFINE c == Chains
           f == c["free"]
           n == f[2]
           k == mem.value[n]
           c2 == [c EXCEPT !["free"] = DeleteNode(c["free"], 2)]
<1>0. Sound(mem, ptr, valid, c) /\ Shape(mem, valid, c)
  BY StateLists, SoundShape
<1>1. /\ mem \in Memories /\ ptr \in [Keys -> Entry] /\ valid \in SUBSET Keys
      /\ c \in [Lists -> Seq(Nodes)] /\ Consistent(mem, ptr, valid, c)
  BY <1>0 DEF Sound
<1>2. f = NodesOf(mem, "free") /\ "free" \in Lists
  BY DEF Chains, Lists
<1> HIDE DEF c
<1>3. /\ f \in Seq(Nodes) /\ 2 \in 2 .. Len(f)
      /\ mem.next[FreeHead] = n /\ n \in Nodes /\ n \in Members(f)
      /\ \A x \in Members(f) : mem.value[x] \in valid
  <2>2. /\ f \in Seq(Nodes) /\ f[1] = FreeHead
        /\ Len(f) = mem.size["free"] + 1 /\ mem.size["free"] \in Nat /\ mem.size["free"] # 0
        /\ \A i \in 1 .. Len(f) : f[i] \in Nodes
        /\ \A i \in 1 .. Len(f) - 1 : mem.next[f[i]] = f[i + 1]
        /\ \A x \in Members(f) : mem.value[x] \in valid
    BY <1>0, <1>1, <1>2 DEF Shape, Evict, Heads, Memories
  <2>3. 2 \in 2 .. Len(f) /\ 2 \in 1 .. Len(f) /\ 1 \in 1 .. Len(f) - 1 /\ 1 + 1 = 2
    BY <2>2
  <2>4. mem.next[f[1]] = f[1 + 1]
    BY <2>2, <2>3
  <2> QED
    BY <2>2, <2>3, <2>4 DEF Members
<1>4. /\ k \in valid /\ ptr' = [ptr EXCEPT ![k] = NoEntry] /\ valid' = valid \ {k}
      /\ mem' = RemoveNode(mem, "free", n)
  <2>1. Oldest = n
    BY <1>3 DEF Oldest
  <2> QED
    BY <1>3, <2>1 DEF Evict
<1>5. Sound(mem', ptr', valid', c2)
  <2> DEFINE l == "free"
             p == 2
  <2>1. l \in Lists /\ p \in 2 .. Len(c[l]) /\ k = mem.value[c[l][p]]
    BY <1>2, <1>3
  <2>2. mem' = RemoveNode(mem, l, c[l][p]) /\ c2 = [c EXCEPT ![l] = DeleteNode(c[l], p)]
    BY <1>4
  <2> HIDE DEF l, p, c2, k
  <2>3. Sound(RemoveNode(mem, l, c[l][p]), [ptr EXCEPT ![k] = NoEntry], valid \ {k},
              [c EXCEPT ![l] = DeleteNode(c[l], p)])
    BY <1>0, <2>1, TakenOut
  <2> QED
    BY <1>4, <2>2, <2>3
<1>7. IInv' /\ Chains' = c2
  <2> HIDE DEF c2
  <2> QED
    BY <1>5, Reestablished
<1>8. Chains'["free"] = NodesOf(mem', "free")
  BY <1>2 DEF Chains
<1>9. NodesOf(mem', "free") = DeleteNode(f, 2)
  BY <1>1, <1>2, <1>7, <1>8
<1>10. /\ KeysOf(mem, f) \in Seq(Keys) /\ 1 \in 1 .. Len(KeysOf(mem, f))
       /\ KeysOf(RemoveNode(mem, "free", n), DeleteNode(f, 2)) = RemoveAt(KeysOf(mem, f), 1)
  <2> DEFINE p == 2
  <2>1. p \in 2 .. Len(f) /\ \A x \in Members(f) : mem.value[x] \in Keys
    BY <1>1, <1>3
  <2>2. p - 1 = 1
    OBVIOUS
  <2> HIDE DEF p, f, n
  <2>3. /\ KeysOf(mem, f) \in Seq(Keys) /\ p - 1 \in 1 .. Len(KeysOf(mem, f))
        /\ KeysOf(RemoveNode(mem, "free", n), DeleteNode(f, p)) = RemoveAt(KeysOf(mem, f), p - 1)
    BY <1>1, <1>2, <1>3, <2>1, KeysDeleted
  <2> QED
    BY <2>2, <2>3 DEF p
<1>11. Order # <<>> /\ RemoveAt(Order, 1) = Tail(Order)
  <2>1. Order \in Seq(Keys) /\ 1 \in 1 .. Len(Order)
    BY <1>2, <1>10 DEF Order
  <2>2. Order # <<>>
    BY <2>1
  <2>3. /\ RemoveAt(Order, 1) \in Seq(Keys) /\ Len(RemoveAt(Order, 1)) = Len(Order) - 1
        /\ \A j \in 1 .. Len(Order) - 1 : RemoveAt(Order, 1)[j] = IF j < 1 THEN Order[j] ELSE Order[j + 1]
    BY <2>1, RemovedAt
  <2>4. /\ Tail(Order) \in Seq(Keys) /\ Len(Tail(Order)) = Len(Order) - 1
        /\ \A j \in 1 .. Len(Order) - 1 : Tail(Order)[j] = Order[j + 1]
    BY <2>1, <2>2, HeadTailProperties
  <2>5. \A j \in 1 .. Len(Order) - 1 : RemoveAt(Order, 1)[j] = Tail(Order)[j]
    BY <2>1, <2>3, <2>4
  <2> QED
    BY <2>2, <2>3, <2>4, <2>5, SeqEqual
<1>12. Order' = Tail(Order)
  BY <1>2, <1>4, <1>9, <1>10, <1>11 DEF Order
<1>13. ptr[k].ref = 0
  <2>1. ptr[k].node = n /\ ListOf(ptr[k]) = "free" /\ (ptr[k].locked <=> ptr[k].ref > 0)
    BY <1>1, <1>2, <1>3, <1>4 DEF Consistent
  <2> QED
    BY <1>1, <1>4, <2>1 DEF ListOf, Entry
<1>14. \A x \in Keys : ptr'[x].ref = ptr[x].ref
  BY <1>1, <1>4, <1>13 DEF NoEntry
<1> QED
  BY <1>7, <1>11, <1>12, <1>14

(* A cached key moves: out of the list its entry says and into the other,  *)
(* or back into _free_list, in a node of the pool.                         *)
LEMMA Moved ==
  ASSUME IInv, NEW k \in valid, NEW l \in Lists, ListOf(ptr[k]) = l,
         NEW o \in Lists, NEW entry \in Entry, ListOf(entry) = o, entry.locked <=> entry.ref > 0,
         NEW n \in RemoveNode(mem, l, ptr[k].node).pool, entry.node = n,
         \/ o = "free" /\ mem' = EmplaceBack(RemoveNode(mem, l, ptr[k].node), o, n, k)
         \/ o = "lock" /\ mem' = EmplaceFront(RemoveNode(mem, l, ptr[k].node), o, n, k),
         ptr' = [ptr EXCEPT ![k] = entry], valid' = valid
  PROVE  /\ IInv'
         /\ l = "lock" /\ o = "free" => Order' = Append(Order, k)
         /\ l = "free" => \E i \in DOMAIN Order :
                            /\ Order[i] = k
                            /\ o = "lock" => Order' = RemoveAt(Order, i)
                            /\ o = "free" => Order' = Append(RemoveAt(Order, i), k)
<1> DEFINE c == Chains
           x == ptr[k].node
           m1 == RemoveNode(mem, l, x)
           e1 == [ptr EXCEPT ![k] = NoEntry]
<1>1. Sound(mem, ptr, valid, c) /\ Shape(mem, valid, c)
  BY StateLists, SoundShape
<1>2. /\ mem \in Memories /\ ptr \in [Keys -> Entry] /\ valid \in SUBSET Keys
      /\ c \in [Lists -> Seq(Nodes)] /\ Consistent(mem, ptr, valid, c)
  BY <1>1 DEF Sound
<1>3. c["free"] = NodesOf(mem, "free") /\ "free" \in Lists /\ "lock" \in Lists
  BY DEF Chains, Lists
<1> HIDE DEF c
<1>4. PICK p \in 2 .. Len(c[l]) : c[l][p] = x /\ mem.value[x] = k
  BY <1>2 DEF Consistent, Members
<1> DEFINE c1 == [c EXCEPT ![l] = DeleteNode(c[l], p)]
           q == IF o = "free" THEN Len(c1[o]) ELSE 1
           dest == c1[o][q]
           c2 == [c1 EXCEPT ![o] = InsertNode(c1[o], q, n)]
<1>5. Sound(m1, e1, valid \ {k}, c1)
  <2> HIDE DEF x
  <2>1. k = mem.value[c[l][p]]
    BY <1>4
  <2>2. Sound(RemoveNode(mem, l, c[l][p]), [ptr EXCEPT ![k] = NoEntry], valid \ {k},
              [c EXCEPT ![l] = DeleteNode(c[l], p)])
    BY <1>1, <2>1, TakenOut
  <2> QED
    BY <1>4, <2>2
<1>6. /\ m1 \in Memories /\ c1 \in [Lists -> Seq(Nodes)]
      /\ c1[l] = DeleteNode(c[l], p)
      /\ \A b \in Lists : b # l => c1[b] = c[b]
  BY <1>2, <1>5 DEF Sound
<1>7. n \in m1.pool
  OBVIOUS
<1> HIDE DEF m1, e1, c1, x
<1>8. Shape(m1, valid \ {k}, c1)
  BY <1>5, SoundShape
<1>9. q \in 1 .. Len(c1[o]) /\ mem' = EmplaceAfter(m1, o, dest, n, k)
  <2>1. /\ Len(c1[o]) \in 1 .. Len(c1[o]) /\ 1 \in 1 .. Len(c1[o])
        /\ c1[o][Len(c1[o])] = m1.tail[o] /\ c1[o][1] = Heads[o]
    BY <1>8 DEF Shape
  <2>2. CASE o = "free"
    BY <2>1, <2>2 DEF EmplaceBack, m1, x
  <2>3. CASE o = "lock"
    BY <2>1, <2>3 DEF EmplaceFront, m1, x
  <2> QED
    BY <2>2, <2>3 DEF Lists
<1>10. Sound(mem', ptr', valid', c2)
  <2>1. ptr' = [e1 EXCEPT ![k] = entry] /\ valid' = (valid \ {k}) \cup {k}
    BY <1>2 DEF e1
  <2>2. k \in Keys \ (valid \ {k})
    BY <1>2
  <2> HIDE DEF q
  <2>3. Sound(EmplaceAfter(m1, o, c1[o][q], n, k), [e1 EXCEPT ![k] = entry], (valid \ {k}) \cup {k},
              [c1 EXCEPT ![o] = InsertNode(c1[o], q, n)])
    BY <1>5, <1>7, <1>9, <2>2, Entered
  <2> QED
    BY <1>9, <2>1, <2>3
<1>11. IInv' /\ NodesOf(mem', "free") = c2["free"]
  <2>1. IInv' /\ Chains' = c2
    <3> HIDE DEF c2
    <3> QED
      BY <1>10, Reestablished
  <2>2. Chains'["free"] = NodesOf(mem', "free")
    BY <1>3 DEF Chains
  <2> QED
    BY <2>1, <2>2
<1> DEFINE f == c["free"]
           f1 == c1["free"]
<1>12. /\ f \in Seq(Nodes) /\ x \in Nodes /\ \A y \in Members(f) : mem.value[y] \in Keys
       /\ f1 \in Seq(Nodes) /\ Len(f1) # 0 /\ dest \in Nodes /\ n \in Nodes
       /\ \A i \in 1 .. Len(f1) : f1[i] # n
       /\ \A y \in Members(f1) : m1.value[y] \in Keys
  <2>1. x \in Nodes
    BY <1>2, <1>4
  <2>2. f \in Seq(Nodes) /\ \A y \in Members(f) : mem.value[y] \in Keys
    BY <1>1, <1>2, <1>3 DEF Shape
  <2>3. /\ f1 \in Seq(Nodes) /\ Len(f1) \in 1 .. Len(f1)
        /\ \A i \in 1 .. Len(f1) : f1[i] \notin m1.pool
        /\ \A y \in Members(f1) : m1.value[y] \in Keys
    BY <1>2, <1>3, <1>8 DEF Shape
  <2>4. n \in Nodes /\ dest \in Nodes
    BY <1>6, <1>7, <1>9 DEF Memories
  <2> QED
    BY <1>7, <2>1, <2>2, <2>3, <2>4
<1> HIDE DEF f, f1, dest
<1>13. /\ KeysOf(m1, f1) \in Seq(Keys)
       /\ KeysOf(mem', f1) = KeysOf(m1, f1)
       /\ KeysOf(mem', InsertNode(f1, Len(f1), n)) = Append(KeysOf(m1, f1), k)
  <2>1. k \in Keys
    BY <1>2
  <2>2. /\ KeysOf(m1, f1) \in Seq(Keys)
        /\ KeysOf(EmplaceAfter(m1, o, dest, n, k), f1) = KeysOf(m1, f1)
        /\ KeysOf(EmplaceAfter(m1, o, dest, n, k), InsertNode(f1, Len(f1), n)) = Append(KeysOf(m1, f1), k)
    BY <1>6, <1>12, <2>1, KeysInserted, SMTT(30)
  <2> QED
    BY <1>9, <2>2
<1>14. o = "free" => NodesOf(mem', "free") = InsertNode(f1, Len(f1), n)
  BY <1>3, <1>6, <1>11 DEF f1
<1>15. o = "lock" => NodesOf(mem', "free") = f1
  BY <1>3, <1>6, <1>11 DEF f1
<1>16. l = "lock" => KeysOf(m1, f1) = Order
  <2> SUFFICES ASSUME l = "lock" PROVE KeysOf(m1, f1) = Order
    OBVIOUS
  <2>1. f1 = f
    BY <1>3, <1>6 DEF f, f1
  <2>2. m1.value = mem.value
    BY DEF m1, RemoveNode
  <2>3. KeysOf(m1, f) = KeysOf(mem, f)
    BY <2>2 DEF KeysOf
  <2> QED
    BY <1>3, <2>1, <2>3 DEF Order, f
<1>17. l = "free" => /\ p - 1 \in DOMAIN Order /\ Order[p - 1] = k
                     /\ KeysOf(m1, f1) = RemoveAt(Order, p - 1)
  <2> SUFFICES ASSUME l = "free"
               PROVE  /\ p - 1 \in DOMAIN Order /\ Order[p - 1] = k
                      /\ KeysOf(m1, f1) = RemoveAt(Order, p - 1)
    OBVIOUS
  <2>1. f1 = DeleteNode(f, p) /\ p \in 2 .. Len(f) /\ f[p] = x
    BY <1>4, <1>6 DEF f, f1
  <2>2. /\ KeysOf(mem, f) \in Seq(Keys) /\ p - 1 \in 1 .. Len(KeysOf(mem, f))
        /\ KeysOf(mem, f)[p - 1] = mem.value[f[p]]
        /\ KeysOf(RemoveNode(mem, l, x), DeleteNode(f, p)) = RemoveAt(KeysOf(mem, f), p - 1)
    BY <1>2, <1>12, <2>1, KeysDeleted
  <2>3. Order = KeysOf(mem, f)
    BY <1>3 DEF Order, f
  <2> QED
    BY <1>4, <2>1, <2>2, <2>3 DEF m1
<1>18. /\ o = "free" => Order' = Append(KeysOf(m1, f1), k)
       /\ o = "lock" => Order' = KeysOf(m1, f1)
  BY <1>13, <1>14, <1>15 DEF Order
<1> QED
  BY <1>11, <1>16, <1>17, <1>18

(* get() keeps the invariant and moves the key to the end of the order.    *)
LEMMA GetStep ==
  ASSUME IInv, NEW k \in Keys, Get(k)
  PROVE  /\ IInv' /\ \A x \in Keys : ptr'[x].ref = ptr[x].ref
         /\ \E i \in DOMAIN Order : Order[i] = k /\ Order' = Append(RemoveAt(Order, i), k)
<1>1. /\ k \in valid /\ valid' = valid /\ ptr[k] \in Entry /\ ptr \in [Keys -> Entry]
      /\ ListOf(ptr[k]) = "free" /\ (ptr[k].locked <=> ptr[k].ref > 0)
      /\ "free" \in Lists /\ mem.pool \in SUBSET Nodes
  BY StateLists DEF Sound, Consistent, Get, ListOf, Lists, Memories
<1>2. PICK n \in RemoveNode(mem, "free", ptr[k].node).pool :
        /\ mem' = EmplaceBack(RemoveNode(mem, "free", ptr[k].node), "free", n, k)
        /\ ptr' = [ptr EXCEPT ![k].node = n]
  BY DEF Get
<1>3. n \in Nodes
  <2>1. ptr[k].node \in Nodes
    BY <1>1, StateLists DEF Sound, Consistent, Members, Linked
  <2> QED
    BY <1>1, <2>1 DEF RemoveNode
<1> DEFINE entry == [node |-> n, locked |-> ptr[k].locked, ref |-> ptr[k].ref]
<1>4. /\ entry \in Entry /\ entry.node = n /\ ListOf(entry) = "free"
      /\ (entry.locked <=> entry.ref > 0) /\ ptr' = [ptr EXCEPT ![k] = entry]
  <2>1. ptr[k].locked \in BOOLEAN /\ ptr[k].ref \in Nat
    BY <1>1 DEF Entry
  <2>2. entry \in Entry
    BY <1>3, <2>1 DEF Entry
  <2>3. ListOf(entry) = "free" /\ (entry.locked <=> entry.ref > 0)
    BY <1>1 DEF ListOf
  <2>4. [ptr[k] EXCEPT !.node = n] = entry
    BY <1>1 DEF Entry
  <2>5. ptr' = [ptr EXCEPT ![k] = [ptr[k] EXCEPT !.node = n]]
    BY <1>2
  <2> QED
    BY <2>2, <2>3, <2>4, <2>5
<1>5. \A x \in Keys : ptr'[x].ref = ptr[x].ref
  BY <1>1, <1>4
<1> HIDE DEF entry
<1>6. /\ IInv'
      /\ \E i \in DOMAIN Order : Order[i] = k /\ Order' = Append(RemoveAt(Order, i), k)
  BY <1>1, <1>2, <1>4, Moved
<1> QED
  BY <1>5, <1>6

(* The first lock() keeps the invariant and takes the key out of the order. *)
LEMMA LockStep ==
  ASSUME IInv, NEW k \in Keys, Lock(k)
  PROVE  /\ IInv' /\ ptr[k].ref = 0 /\ ptr'[k].ref = 1
         /\ \A x \in Keys : x # k => ptr'[x].ref = ptr[x].ref
         /\ \E i \in DOMAIN Order : Order[i] = k /\ Order' = RemoveAt(Order, i)
<1>1. /\ k \in valid /\ valid' = valid /\ ptr[k] \in Entry /\ ptr \in [Keys -> Entry]
      /\ ListOf(ptr[k]) = "free" /\ (ptr[k].locked <=> ptr[k].ref > 0) /\ ~ptr[k].locked
      /\ "free" \in Lists /\ "lock" \in Lists /\ mem.pool \in SUBSET Nodes
  BY StateLists DEF Sound, Consistent, Lock, ListOf, Lists, Memories
<1>2. PICK n \in RemoveNode(mem, "free", ptr[k].node).pool :
        /\ mem' = EmplaceFront(RemoveNode(mem, "free", ptr[k].node), "lock", n, k)
        /\ ptr' = [ptr EXCEPT ![k] = [node |-> n, locked |-> TRUE, ref |-> 1]]
  BY DEF Lock
<1>3. n \in Nodes
  <2>1. ptr[k].node \in Nodes
    BY <1>1, StateLists, SMTT(30) DEF Sound, Consistent, Members, Linked
  <2> QED
    BY <1>1, <2>1 DEF RemoveNode
<1> DEFINE entry == [node |-> n, locked |-> TRUE, ref |-> 1]
<1>4. /\ entry \in Entry /\ entry.node = n /\ ListOf(entry) = "lock"
      /\ (entry.locked <=> entry.ref > 0) /\ ptr' = [ptr EXCEPT ![k] = entry]
  BY <1>1, <1>2, <1>3 DEF Entry, ListOf
<1>5. ptr'[k].ref = 1 /\ ptr[k].ref = 0 /\ \A x \in Keys : x # k => ptr'[x].ref = ptr[x].ref
  BY <1>1, <1>4 DEF Entry
<1> HIDE DEF entry
<1>6. /\ IInv'
      /\ \E i \in DOMAIN Order : Order[i] = k /\ Order' = RemoveAt(Order, i)
  BY <1>1, <1>2, <1>4, Moved
<1> QED
  BY <1>5, <1>6

(* The last unlock() keeps the invariant and puts the key last.            *)
LEMMA UnlockLastStep ==
  ASSUME IInv, NEW k \in Keys, UnlockLast(k)
  PROVE  /\ IInv' /\ ptr[k].ref = 1 /\ ptr'[k].ref = 0
         /\ \A x \in Keys : x # k => ptr'[x].ref = ptr[x].ref
         /\ Order' = Append(Order, k)
<1>1. /\ k \in valid /\ valid' = valid /\ ptr[k] \in Entry /\ ptr \in [Keys -> Entry]
      /\ ListOf(ptr[k]) = "lock" /\ ptr[k].ref = 1
      /\ "free" \in Lists /\ "lock" \in Lists /\ mem.pool \in SUBSET Nodes
  BY StateLists DEF Sound, UnlockLast, ListOf, Lists, Memories
<1>2. PICK n \in RemoveNode(mem, "lock", ptr[k].node).pool :
        /\ mem' = EmplaceBack(RemoveNode(mem, "lock", ptr[k].node), "free", n, k)
        /\ ptr' = [ptr EXCEPT ![k] = [node |-> n, locked |-> FALSE, ref |-> 0]]
  BY DEF UnlockLast
<1>3. n \in Nodes
  <2>1. ptr[k].node \in Nodes
    BY <1>1, StateLists, SMTT(30) DEF Sound, Consistent, Members, Linked
  <2> QED
    BY <1>1, <2>1 DEF RemoveNode
<1> DEFINE entry == [node |-> n, locked |-> FALSE, ref |-> 0]
<1>4. /\ entry \in Entry /\ entry.node = n /\ ListOf(entry) = "free"
      /\ (entry.locked <=> entry.ref > 0) /\ ptr' = [ptr EXCEPT ![k] = entry]
  BY <1>1, <1>2, <1>3 DEF Entry, ListOf
<1>5. ptr'[k].ref = 0 /\ \A x \in Keys : x # k => ptr'[x].ref = ptr[x].ref
  BY <1>1, <1>4 DEF Entry
<1> HIDE DEF entry
<1>6. IInv' /\ Order' = Append(Order, k)
  BY <1>1, <1>2, <1>4, Moved
<1> QED
  BY <1>1, <1>5, <1>6

(* Counting locks leaves the lists alone. *)
LEMMA CountStep ==
  ASSUME IInv, NEW k \in Keys, LockAgain(k) \/ UnlockOne(k)
  PROVE  /\ IInv' /\ Order' = Order
         /\ ptr[k].ref \in Nat /\ ptr[k].ref > 0
         /\ LockAgain(k) => ptr'[k].ref = ptr[k].ref + 1
         /\ UnlockOne(k) => ptr'[k].ref = ptr[k].ref - 1 /\ ptr[k].ref > 1
         /\ \A x \in Keys : x # k => ptr'[x].ref = ptr[x].ref
<1> DEFINE c == Chains
<1>1. Sound(mem, ptr, valid, c)
  BY StateLists
<1> HIDE DEF c
<1>2. /\ mem \in Memories /\ ptr \in [Keys -> Entry] /\ valid \in SUBSET Keys
      /\ c \in [Lists -> Seq(Nodes)] /\ Consistent(mem, ptr, valid, c)
  BY <1>1 DEF Sound
<1>3. k \in valid /\ ptr[k].locked /\ mem' = mem /\ valid' = valid
  BY DEF LockAgain, UnlockOne
<1>4. ptr[k].ref \in Nat /\ ptr[k].ref > 0
  BY <1>2, <1>3 DEF Consistent, Entry
<1>5. /\ ptr' \in [Keys -> Entry]
      /\ ptr'[k].node = ptr[k].node /\ ptr'[k].locked = ptr[k].locked /\ ptr'[k].ref > 0
      /\ LockAgain(k) => ptr'[k].ref = ptr[k].ref + 1
      /\ UnlockOne(k) => ptr'[k].ref = ptr[k].ref - 1 /\ ptr[k].ref > 1
      /\ \A x \in Keys : x # k => ptr'[x] = ptr[x]
  <2> DEFINE entry(r) == [node |-> ptr[k].node, locked |-> ptr[k].locked, ref |-> r]
  <2>1. ptr[k].node \in Nodes \cup {Null} /\ ptr[k].locked \in BOOLEAN
    BY <1>2 DEF Entry
  <2>2. \A r \in Nat : entry(r) \in Entry /\ [ptr[k] EXCEPT !.ref = r] = entry(r)
    BY <1>2, <2>1 DEF Entry
  <2>3. CASE LockAgain(k)
    <3>1. ptr' = [ptr EXCEPT ![k] = entry(ptr[k].ref + 1)] /\ entry(ptr[k].ref + 1) \in Entry
      <4>1. ptr[k].ref + 1 \in Nat
        BY <1>4
      <4>2. ptr' = [ptr EXCEPT ![k] = [ptr[k] EXCEPT !.ref = ptr[k].ref + 1]]
        BY <2>3 DEF LockAgain
      <4> HIDE DEF entry
      <4> QED
        BY <2>2, <4>1, <4>2
    <3>2. ~UnlockOne(k) \/ ptr[k].ref + 1 = ptr[k].ref - 1
      <4>1. UnlockOne(k) => ptr'[k].ref = ptr[k].ref - 1
        BY <1>2 DEF UnlockOne
      <4>2. ptr'[k].ref = ptr[k].ref + 1
        BY <1>2, <3>1
      <4> QED
        BY <4>1, <4>2
    <3> QED
      BY <1>2, <1>4, <3>1, <3>2
  <2>4. CASE UnlockOne(k)
    <3>1. ptr' = [ptr EXCEPT ![k] = entry(ptr[k].ref - 1)] /\ entry(ptr[k].ref - 1) \in Entry
          /\ ptr[k].ref > 1
      <4>1. ptr[k].ref > 1 /\ ptr[k].ref - 1 \in Nat
        BY <1>4, <2>4 DEF UnlockOne
      <4>2. ptr' = [ptr EXCEPT ![k] = [ptr[k] EXCEPT !.ref = ptr[k].ref - 1]]
        BY <2>4 DEF UnlockOne
      <4> HIDE DEF entry
      <4> QED
        BY <2>2, <4>1, <4>2
    <3>2. ~LockAgain(k)
      <4>1. LockAgain(k) => ptr'[k].ref = ptr[k].ref + 1
        BY <1>2 DEF LockAgain
      <4>2. ptr'[k].ref = ptr[k].ref - 1
        BY <1>2, <3>1
      <4> QED
        BY <1>4, <4>1, <4>2
    <3> QED
      BY <1>2, <1>4, <3>1, <3>2
  <2> QED
    BY <2>3, <2>4
<1>6. \A x \in Keys : ptr'[x].node = ptr[x].node /\ ListOf(ptr'[x]) = ListOf(ptr[x])
  BY <1>5 DEF ListOf
<1>7. \A x \in valid : ptr'[x].locked <=> ptr'[x].ref > 0
  BY <1>2, <1>3, <1>5 DEF Consistent
<1>8. \A x \in Keys \ valid : ptr'[x] = NoEntry
  BY <1>2, <1>3, <1>5 DEF Consistent
<1>9. Consistent(mem, ptr', valid, c)
  BY <1>2, <1>6, <1>7, <1>8 DEF Consistent
<1>10. Sound(mem', ptr', valid', c)
  BY <1>2, <1>3, <1>5, <1>9 DEF Sound
<1>11. IInv'
  BY <1>10, Reestablished
<1>12. Order' = Order
  BY <1>3 DEF Order
<1> QED
  BY <1>4, <1>5, <1>11, <1>12

-----------------------------------------------------------------------------
(* Theorems.                                                               *)

(* Every step preserves the invariant. *)
LEMMA NextStep == IInv /\ [Next]_vars => IInv'
<1> SUFFICES ASSUME IInv, [Next]_vars PROVE IInv'
  OBVIOUS
<1>1. CASE Evict
  BY <1>1, EvictStep
<1>2. ASSUME NEW k \in Keys,
             Add(k) \/ Get(k) \/ LockAgain(k) \/ Lock(k) \/ UnlockOne(k) \/ UnlockLast(k)
      PROVE  IInv'
  BY <1>2, AddStep, GetStep, LockStep, UnlockLastStep, CountStep
<1>3. CASE UNCHANGED vars
  BY <1>3 DEF vars, IInv, TypeOK, Memories
<1> QED
  BY <1>1, <1>2, <1>3 DEF Next

(* However keys are added, used, locked and given up, both lists stay      *)
(* linked in both directions, no node is lost or used twice, and the map   *)
(* points into the list its entry says (lru_cache_policy.h, list_base.h).  *)
THEOREM Invariance == Spec => []IInv
<1> QED
  BY InitIInv, NextStep, PTL DEF Spec

(* The variables of the cache have their types.                            *)
THEOREM TypeCorrect == Spec => []TypeOK
<1>1. IInv => TypeOK
  BY DEF IInv
<1> QED
  BY <1>1, Invariance, PTL

(* Both lists are well linked, closed at the tail and as long as _size.    *)
THEOREM ListsStayLinked == Spec => []ListsLinked
<1>1. ASSUME IInv PROVE ListsLinked
  <2> DEFINE w == Chains
  <2>1. Sound(mem, ptr, valid, w)
    BY <1>1, StateLists
  <2>2. \A l \in Lists : w[l] = NodesOf(mem, l)
    BY DEF Chains
  <2> HIDE DEF w
  <2>3. mem \in Memories /\ \A l \in Lists : w[l] \in Seq(Nodes) /\ Linked(mem, l, w[l])
    BY <2>1 DEF Sound, Consistent
  <2>4. ASSUME NEW l \in Lists, NEW c \in Seq(Nodes), Linked(mem, l, c)
        PROVE  /\ ToSet(c) \subseteq Nodes /\ IsInjective(c)
               /\ Last(c) = mem.tail[l] /\ mem.next[Last(c)] = Null
               /\ \A i \in 2 .. Len(c) : mem.prev[c[i]] = c[i - 1]
    <3>1. /\ mem.next[c[Len(c)]] = Null /\ c[Len(c)] = mem.tail[l]
          /\ \A i \in 2 .. Len(c) : mem.prev[c[i]] = c[i - 1]
          /\ \A i, j \in 1 .. Len(c) : c[i] = c[j] => i = j
      BY <2>3, <2>4, ListFacts
    <3> QED
      BY <3>1 DEF ToSet, IsInjective, Last
  <2>5. ASSUME NEW l \in Lists
        PROVE  LET c == NodesOf(mem, l)
               IN  /\ ToSet(c) \subseteq Nodes /\ IsInjective(c)
                   /\ Last(c) = mem.tail[l] /\ mem.next[Last(c)] = Null
                   /\ \A i \in 2 .. Len(c) : mem.prev[c[i]] = c[i - 1]
    BY <2>2, <2>3, <2>4
  <2> QED
    BY <2>5 DEF ListsLinked
<1> QED
  BY <1>1, Invariance, PTL

(* Every node is a sentinel, in the pool, or the one its key's entry names. *)
THEOREM NodesStayAccounted == Spec => []NodesAccounted
<1>1. ASSUME IInv PROVE NodesAccounted
  <2> DEFINE w == Chains
  <2>1. Sound(mem, ptr, valid, w)
    BY <1>1, StateLists
  <2>2. \A l \in Lists : w[l] = NodesOf(mem, l)
    BY DEF Chains
  <2> HIDE DEF w
  <2>3. valid \in SUBSET Keys /\ Consistent(mem, ptr, valid, w) /\ w \in [Lists -> Seq(Nodes)]
    BY <2>1 DEF Sound
  <2>4. ASSUME NEW n \in Nodes \ (mem.pool \cup {FreeHead, LockHead})
        PROVE  /\ mem.value[n] \in valid
               /\ ptr[mem.value[n]].node = n
               /\ n \in Members(NodesOf(mem, ListOf(ptr[mem.value[n]])))
    <3>1. PICK l \in Lists : n \in Members(w[l])
      BY <2>3 DEF Consistent
    <3> QED
      BY <2>2, <2>3, <3>1 DEF Consistent
  <2>5. ASSUME NEW k \in valid
        PROVE  ptr[k].node # Null /\ ptr[k].node \notin mem.pool /\ mem.value[ptr[k].node] = k
    <3>1. /\ ListOf(ptr[k]) \in Lists /\ ptr[k].node \in Members(w[ListOf(ptr[k])])
          /\ mem.value[ptr[k].node] = k
      BY <2>3 DEF Consistent, ListOf, Lists
    <3>2. ptr[k].node \notin mem.pool /\ ptr[k].node \in Nodes
      BY <2>3, <3>1 DEF Consistent, Members
    <3> QED
      BY <3>1, <3>2, NodesAssumption
  <2>6. \A k \in Keys \ valid : ptr[k].node = Null
    BY <2>3 DEF Consistent, NoEntry
  <2> QED
    BY <2>3, <2>4, <2>5, <2>6 DEF NodesAccounted
<1> QED
  BY <1>1, Invariance, PTL

(* The keys in the order are cached. *)
LEMMA OrderIsValid ==
  ASSUME IInv
  PROVE  Order \in Seq(Keys) /\ \A i \in DOMAIN Order : Order[i] \in valid
<1> DEFINE f == Chains["free"]
<1>1. f = NodesOf(mem, "free") /\ "free" \in Lists
  BY DEF Chains, Lists
<1>2. Sound(mem, ptr, valid, Chains) /\ Shape(mem, valid, Chains)
  BY StateLists, SoundShape
<1>3. f \in Seq(Nodes) /\ Len(f) \in 1 .. Len(f) /\ \A x \in Members(f) : mem.value[x] \in valid
  BY <1>1, <1>2 DEF Shape
<1>4. valid \in SUBSET Keys
  BY <1>2 DEF Sound
<1> HIDE DEF f
<1>5. Order = [i \in 1 .. Len(f) - 1 |-> mem.value[f[i + 1]]]
  BY <1>1 DEF Order, KeysOf
<1>6. \A i \in 1 .. Len(f) - 1 : i + 1 \in 2 .. Len(f)
  BY <1>3
<1>7. \A i \in 1 .. Len(f) - 1 : mem.value[f[i + 1]] \in valid
  BY <1>3, <1>6 DEF Members
<1>8. Len(f) - 1 \in Nat
  BY <1>3
<1> QED
  BY <1>4, <1>5, <1>7, <1>8

(* With all its pointers the cache is the LRU queue of LruPolicy: evict    *)
(* takes the key whose last use is oldest, never a locked one.             *)
THEOREM Refinement == Spec => Implements
<1> DEFINE count == [k \in Keys |-> ptr[k].ref]
<1>1. Init => Policy!Init
  <2> SUFFICES ASSUME Init PROVE Order = <<>> /\ count = [k \in Keys |-> 0]
    BY DEF Policy!Init, Order
  <2>1. IInv
    BY InitIInv
  <2>2. valid = {} /\ count = [k \in Keys |-> 0]
    BY DEF Init, NoEntry
  <2>3. Order \in Seq(Keys) /\ DOMAIN Order = {}
    BY <2>1, <2>2, OrderIsValid
  <2> QED
    BY <2>2, <2>3
<1>2. IInv /\ [Next]_vars => [Policy!Next]_(Policy!vars)
  <2> SUFFICES ASSUME IInv, [Next]_vars
               PROVE  Policy!Next \/ (Order' = Order /\ count' = count)
    BY DEF Policy!vars, Order
  <2>1. ptr \in [Keys -> Entry] /\ \A k \in Keys \ valid : ptr[k] = NoEntry
    BY StateLists DEF Sound, Consistent
  <2>2. Order \in Seq(Keys) /\ \A i \in DOMAIN Order : Order[i] \in valid
    BY OrderIsValid
  <2>3. CASE Evict
    <3>1. Order # <<>> /\ Order' = Tail(Order) /\ count' = count
      BY <2>3, EvictStep
    <3> QED
      BY <3>1 DEF Policy!Next, Policy!Evict, Order
  <2>4. ASSUME NEW k \in Keys, Add(k) PROVE Policy!Add(k)
    <3>1. Order' = Append(Order, k) /\ k \notin valid
      BY <2>4, AddStep DEF Add
    <3>2. ~Contains(Order, k)
      BY <2>2, <3>1 DEF Contains
    <3>3. count' = count /\ count[k] = 0
      BY <2>1, <2>4, <3>1 DEF Add, NoEntry
    <3> QED
      BY <3>1, <3>2, <3>3 DEF Policy!Add, Policy!Cached, Policy!Contains, Contains, Order
  <2>5. ASSUME NEW k \in Keys, Get(k) PROVE Policy!Get(k)
    <3>1. \E i \in DOMAIN Order : Order[i] = k /\ Order' = Append(RemoveAt(Order, i), k)
      BY <2>5, GetStep
    <3>2. count' = count
      BY <2>5, GetStep
    <3> QED
      BY <3>1, <3>2 DEF Policy!Get, Policy!RemoveAt, RemoveAt, Order
  <2>6. ASSUME NEW k \in Keys, Lock(k) PROVE Policy!Lock(k)
    <3>1. \E i \in DOMAIN Order : Order[i] = k /\ Order' = RemoveAt(Order, i)
      BY <2>6, LockStep
    <3>2. count' = [count EXCEPT ![k] = @ + 1]
      <4>1. ptr[k].ref = 0 /\ ptr'[k].ref = 0 + 1 /\ \A x \in Keys : x # k => ptr'[x].ref = ptr[x].ref
        BY <2>6, LockStep
      <4> QED
        BY <4>1
    <3>3. Contains(Order, k)
      BY <2>2, <3>1 DEF Contains
    <3> QED
      BY <3>1, <3>2, <3>3 DEF Policy!Lock, Policy!Cached, Policy!Contains, Contains, Policy!RemoveAt, RemoveAt, Order
  <2>7. ASSUME NEW k \in Keys, LockAgain(k) PROVE Policy!Lock(k)
    <3>1. Order' = Order /\ ptr[k].ref \in Nat /\ count[k] > 0
      BY <2>7, CountStep
    <3>2. count' = [count EXCEPT ![k] = @ + 1]
      BY <2>7, CountStep
    <3> QED
      BY <3>1, <3>2 DEF Policy!Lock, Policy!Cached, Policy!Contains, Contains, Policy!RemoveAt, RemoveAt, Order
  <2>8. ASSUME NEW k \in Keys, UnlockOne(k) PROVE Policy!Unlock(k)
    <3>1. Order' = Order /\ count[k] > 0 /\ count[k] # 1
      BY <2>8, CountStep
    <3>2. count' = [count EXCEPT ![k] = @ - 1]
      BY <2>8, CountStep
    <3> QED
      BY <3>1, <3>2 DEF Policy!Unlock, Order
  <2>9. ASSUME NEW k \in Keys, UnlockLast(k) PROVE Policy!Unlock(k)
    <3>1. Order' = Append(Order, k) /\ count[k] = 1
      BY <2>9, UnlockLastStep
    <3>2. count' = [count EXCEPT ![k] = @ - 1]
      <4>1. ptr[k].ref = 1 /\ ptr'[k].ref = 1 - 1 /\ \A x \in Keys : x # k => ptr'[x].ref = ptr[x].ref
        BY <2>9, UnlockLastStep
      <4> QED
        BY <4>1
    <3> QED
      BY <3>1, <3>2 DEF Policy!Unlock, Order
  <2>10. CASE UNCHANGED vars
    BY <2>10 DEF vars, Order
  <2> QED
    BY <2>3, <2>4, <2>5, <2>6, <2>7, <2>8, <2>9, <2>10 DEF Next, Policy!Next
<1> QED
  BY <1>1, <1>2, Invariance, PTL DEF Spec, Implements, Policy!Spec
=============================================================================

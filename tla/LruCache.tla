------------------------------ MODULE LruCache ------------------------------
(***************************************************************************)
(* lru_cache_controller with its lru_cache_policy, down to the pointers of *)
(* the two doubly linked lists (ash::pooling_list) that share one pool of  *)
(* nodes.  Every list has a sentinel node as head; the policy's map holds  *)
(* for each key a pointer straight to its node, so keys move between the   *)
(* lists without a search.                                                 *)
(*                                                                         *)
(* Abstracted: the pool returns any node that is not in use and never runs *)
(* out (it grows by clusters); values of entities.                         *)
(***************************************************************************)
EXTENDS Naturals, Sequences, FiniteSets, SequencesExt

CONSTANTS
  Keys,         \* the shards' unique ids
  Nodes,        \* the nodes of the pool
  Null,         \* nullptr
  FreeHead,     \* the sentinels of _free_list and _lock_list
  LockHead,
  SizeModulus,  \* the values of size_t
  MaxRef        \* bound on the reference counts explored

ASSUME NodesAssumption ==
  /\ Null \notin Nodes
  /\ {FreeHead, LockHead} \subseteq Nodes /\ FreeHead # LockHead
  /\ IsFiniteSet(Nodes) /\ IsFiniteSet(Keys) /\ Cardinality(Nodes) >= Cardinality(Keys) + 2
ASSUME BoundsAssumption == MaxRef \in Nat \ {0}

(* There are fewer nodes than size_t has values.  In the smallest such     *)
(* instance a list of all the nodes of the pool has the largest size.      *)
ASSUME SizeAssumption == SizeModulus \in Nat /\ Cardinality(Nodes) - 2 < SizeModulus

Lists == {"free", "lock"}

VARIABLES
  valid,        \* the valid bits of _container
  ptr,          \* _ptr_map: the entry of each key, NoEntry if none
  mem           \* the nodes (value, prev, next), the pool, and of both
                \* lists _tail and _size

vars == <<valid, ptr, mem>>

NoEntry == [node |-> Null, locked |-> FALSE, ref |-> 0]

Heads == [l \in Lists |-> IF l = "free" THEN FreeHead ELSE LockHead]

Memories == [value : [Nodes -> Keys \cup {Null}],
             prev  : [Nodes -> Nodes \cup {Null}],
             next  : [Nodes -> Nodes \cup {Null}],
             pool  : SUBSET Nodes,
             tail  : [Lists -> Nodes],
             size  : [Lists -> 0 .. SizeModulus - 1]]

TypeOK ==
  /\ valid \subseteq Keys
  /\ ptr \in [Keys -> [node : Nodes \cup {Null}, locked : BOOLEAN, ref : Nat]]
  /\ mem \in Memories

Init ==
  /\ valid = {}
  /\ ptr = [k \in Keys |-> NoEntry]
  /\ mem = [value |-> [n \in Nodes |-> Null],
            prev  |-> [n \in Nodes |-> Null],
            next  |-> [n \in Nodes |-> Null],
            pool  |-> Nodes \ {FreeHead, LockHead},
            tail  |-> Heads,
            size  |-> [l \in Lists |-> 0]]

-----------------------------------------------------------------------------
(* pooling_list.                                                           *)

(* emplace_back_to: node n with key k after dest, in list l of memory m. *)
EmplaceAfter(m, l, dest, n, k) ==
  LET nxt == m.next[dest]
  IN  [value |-> [m.value EXCEPT ![n] = k],
       prev  |-> [x \in Nodes |-> IF x = n THEN dest ELSE IF x = nxt THEN n ELSE m.prev[x]],
       next  |-> [m.next EXCEPT ![n] = nxt, ![dest] = n],
       pool  |-> m.pool \ {n},
       tail  |-> [m.tail EXCEPT ![l] = IF nxt = Null THEN n ELSE @],
       size  |-> [m.size EXCEPT ![l] = (@ + 1) % SizeModulus]]

EmplaceBack(m, l, n, k) == EmplaceAfter(m, l, m.tail[l], n, k)

EmplaceFront(m, l, n, k) == EmplaceAfter(m, l, Heads[l], n, k)

(* Mutant: _tail is left on the node that goes back to the pool. *)
RemoveNodeKeepsTail(m, l, n) ==
  LET prv == m.prev[n]
      nxt == m.next[n]
  IN  [m EXCEPT
         !.next[prv] = nxt,
         !.prev = [x \in Nodes |-> IF x = nxt THEN prv ELSE @[x]],
         !.pool = @ \cup {n},
         !.size[l] = (@ + SizeModulus - 1) % SizeModulus]

(* Mutant: the node does not go back to the pool. *)
RemoveNodeLeaks(m, l, n) ==
  LET prv == m.prev[n]
      nxt == m.next[n]
  IN  [m EXCEPT
         !.next[prv] = nxt,
         !.prev = [x \in Nodes |-> IF x = nxt THEN prv ELSE @[x]],
         !.tail[l] = IF nxt = Null THEN prv ELSE @,
         !.size[l] = (@ + SizeModulus - 1) % SizeModulus]

(* Mutant: the size is decremented twice. *)
RemoveNodeTwice(m, l, n) ==
  LET prv == m.prev[n]
      nxt == m.next[n]
  IN  [m EXCEPT
         !.next[prv] = nxt,
         !.prev = [x \in Nodes |-> IF x = nxt THEN prv ELSE @[x]],
         !.pool = @ \cup {n},
         !.tail[l] = IF nxt = Null THEN prv ELSE @,
         !.size[l] = @ - 2]

(* remove_node: node n is unlinked from list l and given back. *)
RemoveNode(m, l, n) ==
  LET prv == m.prev[n]
      nxt == m.next[n]
  IN  [value |-> m.value,
       prev  |-> [x \in Nodes |-> IF x = nxt THEN prv ELSE m.prev[x]],
       next  |-> [m.next EXCEPT ![prv] = nxt],
       pool  |-> m.pool \cup {n},
       tail  |-> [m.tail EXCEPT ![l] = IF nxt = Null THEN prv ELSE @],
       size  |-> [m.size EXCEPT ![l] = (@ + SizeModulus - 1) % SizeModulus]]

-----------------------------------------------------------------------------
(* lru_cache_controller, with the lru_cache_policy operation it calls.     *)

(* add(): callers have tested that the key is not valid. *)
Add(k) ==
  /\ k \notin valid
  /\ valid' = valid \cup {k}
  /\ \E n \in mem.pool :
       /\ mem' = EmplaceBack(mem, "free", n, k)
       /\ ptr' = [ptr EXCEPT ![k] = [node |-> n, locked |-> FALSE, ref |-> 0]]

(* Mutant: the newest node is given up. *)
OldestNewest == mem.tail["free"]

(* The oldest node of _free_list. *)
Oldest == mem.next[FreeHead]

(* evict(), unless num_unlocked() is zero. *)
Evict ==
  /\ mem.size["free"] # 0
  /\ Oldest # Null
  /\ LET k == mem.value[Oldest]
     IN  /\ ptr' = [ptr EXCEPT ![k] = NoEntry]
         /\ valid' = valid \ {k}
  /\ mem' = RemoveNode(mem, "free", Oldest)

(* get(): move_back, which takes the key to be in _free_list without       *)
(* looking: it is a precondition that the key is not locked.               *)
Get(k) ==
  /\ k \in valid
  /\ ~ptr[k].locked
  /\ LET m == RemoveNode(mem, "free", ptr[k].node)
     IN  \E n \in m.pool :
           /\ mem' = EmplaceBack(m, "free", n, k)
           /\ ptr' = [ptr EXCEPT ![k].node = n]
  /\ UNCHANGED valid

(* lock() of a key that is locked counts. *)
LockAgain(k) ==
  /\ k \in valid
  /\ ptr[k].locked
  /\ ptr[k].ref < MaxRef
  /\ ptr' = [ptr EXCEPT ![k].ref = @ + 1]
  /\ UNCHANGED <<valid, mem>>

(* lock() of an unlocked key moves it to the front of _lock_list. *)
Lock(k) ==
  /\ k \in valid
  /\ ~ptr[k].locked
  /\ LET m == RemoveNode(mem, "free", ptr[k].node)
     IN  \E n \in m.pool :
           /\ mem' = EmplaceFront(m, "lock", n, k)
           /\ ptr' = [ptr EXCEPT ![k] = [node |-> n, locked |-> TRUE, ref |-> 1]]
  /\ UNCHANGED valid

(* unlock() counts down; the last one moves the key back to _free_list. *)
UnlockOne(k) ==
  /\ k \in valid
  /\ ptr[k].locked
  /\ ptr[k].ref > 1
  /\ ptr' = [ptr EXCEPT ![k].ref = @ - 1]
  /\ UNCHANGED <<valid, mem>>

UnlockLast(k) ==
  /\ k \in valid
  /\ ptr[k].locked
  /\ ptr[k].ref = 1
  /\ LET m == RemoveNode(mem, "lock", ptr[k].node)
     IN  \E n \in m.pool :
           /\ mem' = EmplaceBack(m, "free", n, k)
           /\ ptr' = [ptr EXCEPT ![k] = [node |-> n, locked |-> FALSE, ref |-> 0]]
  /\ UNCHANGED valid

Next ==
  \/ Evict
  \/ \E k \in Keys : \/ Add(k) \/ Get(k) \/ LockAgain(k) \/ Lock(k)
                     \/ UnlockOne(k) \/ UnlockLast(k)

Spec == Init /\ [][Next]_vars

-----------------------------------------------------------------------------
(* Properties.                                                             *)

(* The nodes of list l of memory m, from its sentinel on and as many as    *)
(* its size says.                                                          *)
NodesOf(m, l) ==
  LET walk[i \in 1 .. m.size[l] + 1] ==
        IF i = 1 THEN Heads[l]
        ELSE IF walk[i - 1] = Null THEN Null ELSE m.next[walk[i - 1]]
  IN  walk

(* The nodes of a list that hold keys: all but the sentinel. *)
Members(c) == {c[i] : i \in 2 .. Len(c)}

(* After any sequence of operations both lists are well linked in both     *)
(* directions: as long as their size, closed at the tail, every node       *)
(* pointing back to the one before it.                                     *)
ListsLinked ==
  \A l \in Lists :
    LET c == NodesOf(mem, l)
    IN  /\ ToSet(c) \subseteq Nodes /\ IsInjective(c)
        /\ Last(c) = mem.tail[l] /\ mem.next[Last(c)] = Null
        /\ \A i \in 2 .. Len(c) : mem.prev[c[i]] = c[i - 1]

ListOf(entry) == IF entry.locked THEN "lock" ELSE "free"

(* Nodes are neither lost nor used twice: each is a sentinel, in the pool, *)
(* or the node its key's entry of _ptr_map points to, in the list the      *)
(* entry says; and the map knows exactly the valid keys.                   *)
NodesAccounted ==
  /\ \A n \in Nodes \ (mem.pool \cup {FreeHead, LockHead}) :
       /\ mem.value[n] \in valid
       /\ ptr[mem.value[n]].node = n
       /\ n \in Members(NodesOf(mem, ListOf(ptr[mem.value[n]])))
  /\ \A k \in Keys : k \in valid <=> ptr[k].node # Null
  /\ \A k \in valid : ptr[k].node \notin mem.pool /\ mem.value[ptr[k].node] = k

(* c is list l of memory m, linked in both directions. *)
Linked(m, l, c) ==
  /\ c \in Seq(Nodes)
  /\ Len(c) = m.size[l] + 1
  /\ c[1] = Heads[l]
  /\ c[Len(c)] = m.tail[l] /\ m.next[c[Len(c)]] = Null
  /\ \A i, j \in 1 .. Len(c) : c[i] = c[j] => i = j
  /\ \A i \in 1 .. Len(c) - 1 : m.next[c[i]] = c[i + 1] /\ m.prev[c[i + 1]] = c[i]

(* The lists c of memory m hold the keys, each in the node its entry names *)
(* and in the list its entry says; all other nodes are in the pool.        *)
Consistent(m, entries, keys, c) ==
  /\ {FreeHead, LockHead} \cap m.pool = {}
  /\ \A l \in Lists : Linked(m, l, c[l])
  /\ \A l \in Lists : \A n \in Members(c[l]) :
       /\ n \notin m.pool \cup {FreeHead, LockHead}
       /\ m.value[n] \in keys
       /\ entries[m.value[n]].node = n /\ ListOf(entries[m.value[n]]) = l
  /\ \A n \in Nodes \ (m.pool \cup {FreeHead, LockHead}) :
       \E l \in Lists : n \in Members(c[l])
  /\ \A k \in keys :
       /\ entries[k].locked <=> entries[k].ref > 0
       /\ entries[k].node \in Members(c[ListOf(entries[k])])
       /\ m.value[entries[k].node] = k
  /\ \A k \in Keys \ keys : entries[k] = NoEntry

(* The inductive invariant. *)
IInv == TypeOK /\ Consistent(mem, ptr, valid, [l \in Lists |-> NodesOf(mem, l)])

(* The keys of a list of memory m, in its order. *)
KeysOf(m, c) == [i \in 1 .. Len(c) - 1 |-> m.value[c[i + 1]]]

Policy == INSTANCE LruPolicy WITH
  order <- KeysOf(mem, NodesOf(mem, "free")),
  count <- [k \in Keys |-> ptr[k].ref]

(* With all its pointers the cache is an LRU queue of the unlocked keys.   *)
Implements == Policy!Spec
=============================================================================

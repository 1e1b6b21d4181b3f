----------------------------- MODULE LruPolicy ------------------------------
(***************************************************************************)
(* What lru_cache_controller promises device_manager: unlocked keys are    *)
(* given up in the order of their last use, a locked key never.            *)
(***************************************************************************)
EXTENDS Naturals, Sequences, SequencesExt

CONSTANT Keys

VARIABLES
  order,      \* the cached, unlocked keys, least recently used first
  count       \* count[k]: how often k is locked

vars == <<order, count>>

Cached(k) == Contains(order, k) \/ count[k] > 0

Init ==
  /\ order = <<>>
  /\ count = [k \in Keys |-> 0]

Add(k) ==
  /\ ~Cached(k)
  /\ order' = Append(order, k)
  /\ UNCHANGED count

Evict ==
  /\ order # <<>>
  /\ order' = Tail(order)
  /\ UNCHANGED count

(* A key is used: it becomes the last to be given up. *)
Get(k) ==
  /\ \E i \in DOMAIN order :
       order[i] = k /\ order' = Append(RemoveAt(order, i), k)
  /\ UNCHANGED count

(* A locked key is not in the order, whatever else is used or given up.    *)
Lock(k) ==
  /\ Cached(k)
  /\ \/ count[k] > 0 /\ UNCHANGED order
     \/ \E i \in DOMAIN order : order[i] = k /\ order' = RemoveAt(order, i)
  /\ count' = [count EXCEPT ![k] = @ + 1]

(* The key whose last lock goes is the most recently used one. *)
Unlock(k) ==
  /\ count[k] > 0
  /\ count' = [count EXCEPT ![k] = @ - 1]
  /\ order' = IF count[k] = 1 THEN Append(order, k) ELSE order

Next == Evict \/ \E k \in Keys : Add(k) \/ Get(k) \/ Lock(k) \/ Unlock(k)

Spec == Init /\ [][Next]_vars
=============================================================================

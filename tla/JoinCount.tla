----------------------------- MODULE JoinCount ------------------------------
(***************************************************************************)
(* What a join kernel promises: every match of the subtasks of its task is *)
(* counted exactly once, in any order and any number at a time, and the    *)
(* kernel ends when none is left.                                          *)
(***************************************************************************)
EXTENDS Naturals, FiniteSets

VARIABLES
  left,       \* the matches not counted yet
  counter,    \* the number of those counted
  ended       \* the kernel has ended

vars == <<left, counter, ended>>

Init ==
  /\ IsFiniteSet(left)
  /\ counter = 0
  /\ ended = FALSE

Count ==
  /\ ~ended
  /\ left' \subseteq left
  /\ counter' = counter + Cardinality(left \ left')
  /\ UNCHANGED ended

End ==
  /\ ~ended
  /\ left = {}
  /\ ended' = TRUE
  /\ UNCHANGED <<left, counter>>

Next == Count \/ End

Spec == Init /\ [][Next]_vars
=============================================================================

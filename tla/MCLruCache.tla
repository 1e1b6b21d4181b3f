----------------------------- MODULE MCLruCache -----------------------------
(***************************************************************************)
(* Instances of LruCache for TLC: as many nodes as are ever in use.        *)
(***************************************************************************)
EXTENDS LruCache, TLC

CONSTANTS k1, k2, k3, n1, n2, n3

(* The nodes that are not sentinels are interchangeable: no action or      *)
(* property names one of them.                                             *)
NodeSymmetry == Permutations({n1, n2, n3})
=============================================================================

---------------------------- MODULE MCThreadStore ----------------------------
(***************************************************************************)
(* Small instances of ThreadStore.                                         *)
(***************************************************************************)
EXTENDS ThreadStore, TLC

CONSTANTS p1, p2, a1, a2, own, t1, t2, v1, v2

\* Owners are interchangeable, and so are the threads that are not V0.
Symmetry == Permutations({p1, p2}) \cup Permutations({t1, t2})
=============================================================================

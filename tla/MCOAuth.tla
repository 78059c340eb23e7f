------------------------------- MODULE MCOAuth -------------------------------
(***************************************************************************)
(* Small instances of OAuth.                                               *)
(***************************************************************************)
EXTENDS OAuth, TLC

CONSTANTS p1, a1, a2, own, c1, c2, r1, r2

Symmetry == Permutations({a1, a2}) \cup Permutations({c1, c2}) \cup Permutations({r1, r2})
==============================================================================

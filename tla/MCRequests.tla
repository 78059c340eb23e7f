------------------------------ MODULE MCRequests ------------------------------
(***************************************************************************)
(* Small instances of Requests.                                            *)
(***************************************************************************)
EXTENDS Requests, TLC

CONSTANTS p1, a1, own, t1, t2

Symmetry == Permutations({t1, t2})
==============================================================================

------------------------------ MODULE MCSessions ------------------------------
(***************************************************************************)
(* A small instance of Sessions.  No symmetry: it checks a liveness        *)
(* property.                                                               *)
(***************************************************************************)
EXTENDS Sessions

CONSTANTS p1, p2, l1
==============================================================================

------------------------------ MODULE MCLimiter ------------------------------
(***************************************************************************)
(* A small instance of Limiter: one label more than the table holds.       *)
(***************************************************************************)
EXTENDS Limiter

CONSTANTS k1, k2, k3, r1, r2
==============================================================================

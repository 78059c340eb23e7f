----------------------------- MODULE MCMCPSession -----------------------------
(***************************************************************************)
(* Small instances of MCPSession.                                          *)
(***************************************************************************)
EXTENDS MCPSession, TLC

CONSTANTS p1, a1, own, c1, r1, t1, u1

FirstRedirect == [c \in Clients |-> u1]
==============================================================================

----------------------------- MODULE MCPktSrc -----------------------------
(* Three packets for PktSrc: two of them may be cut in pieces.             *)
EXTENDS PktSrc, TLC

CONSTANTS p1, p2, p3

Lengths == p1 :> 3 @@ p2 :> 2 @@ p3 :> 1
=============================================================================

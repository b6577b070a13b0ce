---------------------------- MODULE MCDiscovery ----------------------------
(* Up to two nodes for Discovery: a has two end points, b has one.         *)
EXTENDS Discovery, TLC

CONSTANTS a, b, p1, p2

JustTwo     == a :> 2
TwoAndOne   == a :> 2 @@ b :> 1     \* end points, or finds, of each node

SomePort    == Permutations({p1, p2})
=============================================================================

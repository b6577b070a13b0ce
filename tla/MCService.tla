------------------------------- MODULE MCService -------------------------------
(* The publication of nodes, and of servers: their services are of different    *)
(* types and cannot collide, so each is checked alone.  publishers is the one   *)
(* of the two that runs.                                                        *)
EXTENDS AvahiService

VARIABLE publishers

vars == <<publishers, serviceVars>>

Init == publishers \in {Nodes, Servers} /\ ServiceInit

Next == PublishersNext(publishers) /\ UNCHANGED publishers

Spec == Init /\ [][Next]_vars

FairSpec == Spec /\ ServiceFairness(Nodes)

\* A node and a server on one host, and the others on another.
HostOfDef == [p \in Publishers |-> IF p \in {"n1", "s1"} THEN "h1" ELSE "h2"]
================================================================================

------------------------------ MODULE NodeFeed ------------------------------
(***************************************************************************)
(* What a management session promises its client: once the client has     *)
(* subscribed, every node the server learns of is told to it, one at a     *)
(* time, each exactly once and in the order the server learned of them,    *)
(* until the connection closes.                                            *)
(***************************************************************************)
EXTENDS Naturals, Sequences

CONSTANT Providers      \* the nodes the server may learn of

VARIABLES known,        \* the nodes the server knows, oldest first
          told,         \* the nodes the client was told of, in that order
          subscribed,   \* the client asked for node reports
          open          \* the connection is up

vars == <<known, told, subscribed, open>>

Init == /\ known = <<>> /\ told = <<>>
        /\ subscribed = FALSE /\ open = TRUE

Learn(p) == /\ open
            /\ known' = Append(known, p)
            /\ UNCHANGED <<told, subscribed, open>>

Subscribe == /\ open
             /\ subscribed' = TRUE
             /\ UNCHANGED <<known, told, open>>

Tell == /\ open /\ subscribed
        /\ Len(told) < Len(known)
        /\ told' = Append(told, known[Len(told) + 1])
        /\ UNCHANGED <<known, subscribed, open>>

Close == /\ open
         /\ open' = FALSE
         /\ UNCHANGED <<known, told, subscribed>>

Next == (\E p \in Providers : Learn(p)) \/ Subscribe \/ Tell \/ Close

Spec == Init /\ [][Next]_vars

FairSpec == Spec /\ WF_vars(Tell)
=============================================================================

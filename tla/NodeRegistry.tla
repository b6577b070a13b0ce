---------------------------- MODULE NodeRegistry ----------------------------
(***************************************************************************)
(* What node discovery promises the rest of the server: however often the *)
(* service browser finds a node at an address, and whatever the network    *)
(* does to the packets exchanged with it, the address is reported ready at *)
(* most once, and only after it was found.                                 *)
(***************************************************************************)
EXTENDS Sequences

CONSTANT Addresses      \* where nodes may be: a host and a UDP port

VARIABLES found,        \* the addresses the service browser found
          exposed       \* the addresses reported ready, in order

vars == <<found, exposed>>

IsExposed(a) == \E i \in DOMAIN exposed : exposed[i] = a

Init == found = {} /\ exposed = <<>>

Find(a) == found' = found \cup {a} /\ UNCHANGED exposed

Expose(a) == /\ a \in found /\ ~IsExposed(a)
             /\ exposed' = Append(exposed, a)
             /\ UNCHANGED found

Next == \E a \in Addresses : Find(a) \/ Expose(a)

Spec == Init /\ [][Next]_vars
=============================================================================

---------------------------- MODULE SessionTypes ----------------------------
(***************************************************************************)
(* The values a GHNodeClient of ClientSession takes: those of its fields,  *)
(* of the records in its NodeList and of the packets it queues.            *)
(***************************************************************************)
EXTENDS ClientSession

CONSTANTS
    Providers,      \* the providers the server may report
    Frames          \* what debug packets carry, where a frame is not its number

Packets ==
    {p \in [type : {"ACK", "NODE", "DEBUG"}, tag : Nat, body : Nat \cup Frames] :
        p.type # "DEBUG" => p.body \in Nat}

NodeRecords == [NodeID : Nat, State : NodeStates, Node : Providers]

Sessions ==
    [State : ClientStates, Report : BOOLEAN, Debug : BOOLEAN, Event : BOOLEAN,
     UpdateNodeCount : Nat, NextNodeID : Nat, NodeList : Seq(NodeRecords),
     UpdatingNode : Nat, NextIOTag : Nat, TxPackets : Seq(Packets)]
=============================================================================

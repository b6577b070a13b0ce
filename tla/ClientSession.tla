---------------------------- MODULE ClientSession ----------------------------
(***************************************************************************)
(* The state of one GHNodeClient, the management server's end of a TCP     *)
(* connection from a browser, and the handlers of hnode-srvobj-client.c as *)
(* operators from one state of the object to the next.  The packet source  *)
(* under the session is seen as what PktSrc.tla shows it to be: a FIFO     *)
(* queue, TxPackets, that reports each packet whose last byte was sent     *)
(* through the tx_packet signal, and may be appended to from that callback.*)
(* The operators are used by HNodeClient (one session) and by HNodeServer  *)
(* (many sessions fed by one server).  A definition commented "Slip:" is    *)
(* not the code: it is a plausible mistake in the operator that follows it,*)
(* kept to see that the properties notice it.                              *)
(***************************************************************************)
EXTENDS Integers, Sequences

\* HNnodeNodeState; HNODE_NODE_FILTERED is never assigned.
NodeStates == {"NEW", "EXPOSING", "ESTABLISHED"}

\* HNodeClientStateEnum; NO_CONNECT is never assigned.
ClientStates == {"STOPPED", "IDLE", "UPDATING"}

\* What a management packet to the client is to this protocol: its type, its
\* IO tag, and the NodeID of a node record or the frame relayed by a debug
\* packet, of which the packet object is shared by all sessions.
AckPkt(tag)      == [type |-> "ACK",   tag |-> tag, body |-> 0]
NodePkt(tag, id) == [type |-> "NODE",  tag |-> tag, body |-> id]
DebugPkt(frame)  == [type |-> "DEBUG", tag |-> 0,   body |-> frame]

\* g_hnode_client_init and g_hnode_client_set_client_source.  EnableFlags is
\* one Boolean per bit; UpdatingNode is an index into NodeList, 0 for NULL.
NewClient ==
    [State |-> "STOPPED", Report |-> FALSE, Debug |-> FALSE, Event |-> FALSE,
     UpdateNodeCount |-> 0, NextNodeID |-> 0, NodeList |-> <<>>,
     UpdatingNode |-> 0, NextIOTag |-> 0, TxPackets |-> <<>>]

\* g_hnode_pktsrc_send_packet on the session's packet source.
SendPacket(c, pkt) == [c EXCEPT !.TxPackets = Append(@, pkt)]

NewNodes(c) == {i \in 1..Len(c.NodeList) : c.NodeList[i].State = "NEW"}

\* Slip: the scan runs from g_list_last.
FirstNewBackwards(c) == CHOOSE i \in NewNodes(c) : \A j \in NewNodes(c) : j <= i

\* The scan of NodeList stops at the first record that needs an update.
FirstNew(c) == CHOOSE i \in NewNodes(c) : \A j \in NewNodes(c) : i <= j

\* Slip: the record is left in HNODE_NODE_STATE_NEW.
ExposeNodeUnmarked(c, i) ==
    [c EXCEPT !.TxPackets    = Append(@, NodePkt(c.NextIOTag, c.NodeList[i].NodeID)),
              !.NextIOTag    = @ + 1,
              !.UpdatingNode = i,
              !.State        = "UPDATING"]

\* Expose the first new record: queue its packet and make it UpdatingNode.
ExposeNode(c, i) ==
    [c EXCEPT !.NodeList[i].State = "EXPOSING",
              !.TxPackets    = Append(@, NodePkt(c.NextIOTag, c.NodeList[i].NodeID)),
              !.NextIOTag    = @ + 1,
              !.UpdatingNode = i,
              !.State        = "UPDATING"]

BuildUpdatePacket(c) ==
    IF c.UpdateNodeCount > 0 /\ NewNodes(c) # {}
    THEN ExposeNode(c, FirstNew(c))
    ELSE c

\* g_hnode_client_add_node: no check that the provider is not yet listed.
AddNode(c, provider) ==
    LET added == [c EXCEPT !.NodeList = Append(@, [NodeID |-> c.NextNodeID,
                                                   State  |-> "NEW",
                                                   Node   |-> provider]),
                           !.NextNodeID      = @ + 1,
                           !.UpdateNodeCount = @ + 1]
    IN  IF c.State = "IDLE" /\ c.Report THEN BuildUpdatePacket(added) ELSE added

StartClient(c) == [c EXCEPT !.State = "IDLE"]

\* Slip: the request is not acknowledged.
RxReqPInfoSilent(c, tag) == [c EXCEPT !.Report = TRUE]

\* g_hnode_client_client_rx, one operator per case of the switch that changes
\* the session.  HNODE_MGMT_SHUTDOWN and unknown types change nothing.
RxReqPInfo(c, tag) == SendPacket([c EXCEPT !.Report = TRUE], AckPkt(tag))
RxDebugCtrl(c)     == [c EXCEPT !.Debug = TRUE]
RxEventCtrl(c)     == [c EXCEPT !.Event = TRUE]

\* Slip: every completed packet is counted as a reported record.
FinishUpdateUnchecked(c) ==
    [c EXCEPT !.UpdateNodeCount = @ - 1,
              !.State           = "IDLE"]

\* Slip: the record stays counted as one to report.
FinishUpdateUncounted(c) ==
    IF c.State = "UPDATING"
    THEN [c EXCEPT !.NodeList[c.UpdatingNode].State = "ESTABLISHED",
                   !.State    = "IDLE"]
    ELSE c

\* The first half of g_hnode_client_client_tx: whatever packet was completed,
\* the record being exposed is taken to be established.
FinishUpdate(c) ==
    IF c.State = "UPDATING"
    THEN [c EXCEPT !.NodeList[c.UpdatingNode].State = "ESTABLISHED",
                   !.UpdateNodeCount = @ - 1,
                   !.State           = "IDLE"]
    ELSE c

\* Slip: the next record waits for the next add_node.
NextUpdateLater(c) == c

\* The second half: go on with the next record.
NextUpdate(c) == IF c.Report /\ c.State = "IDLE" THEN BuildUpdatePacket(c) ELSE c

\* The dispatch that sends the last byte of the packet at the head of the
\* queue: the packet leaves the list, then tx_packet runs client_tx.
TxComplete(c) == NextUpdate(FinishUpdate([c EXCEPT !.TxPackets = Tail(@)]))

\* g_hnode_client_forward_debug_packet.
ForwardDebugPacket(c, frame) ==
    IF c.Debug /\ c.State # "IDLE" THEN SendPacket(c, DebugPkt(frame)) ELSE c
=============================================================================

---------------------------- MODULE HNodeClient ----------------------------
(***************************************************************************)
(* One management session of the server (hnode-srvobj-client.c): the      *)
(* server adds providers to it, the client's requests arrive, debug frames *)
(* are forwarded through it and its packet source completes the packets it *)
(* queued, in any interleaving of these main loop callbacks, until the     *)
(* connection goes down.                                                   *)
(***************************************************************************)
EXTENDS SessionTypes

CONSTANTS
    Tags,        \* the IO tags a client may put in its requests
    MaxNodes,    \* bound: providers added to the session
    MaxQueue,    \* bound: packets queued when a request or a frame arrives
    MaxDebug     \* bound: debug frames the server hands to the session

ASSUME BoundsAssumption == /\ Tags \subseteq Nat
                           /\ MaxNodes \in Nat /\ MaxQueue \in Nat /\ MaxDebug \in Nat

VARIABLES
    session,     \* the GHNodeClientPrivate of the session
    connected,   \* the packet source is alive and the client is in ClientList
    announced,   \* history: the NodeIDs whose packet was sent to the last byte
    offered      \* debug frames handed to the session while its debug was on

vars == <<session, connected, announced, offered>>

Init ==
    /\ session = NewClient
    /\ connected = TRUE
    /\ announced = <<>>
    /\ offered = 0

\* The server calls add_node for each ready provider before it starts the
\* session, and for each provider that becomes ready afterwards.
ServerAddNode(p) ==
    /\ connected
    /\ Len(session.NodeList) < MaxNodes
    /\ session' = AddNode(session, p)
    /\ UNCHANGED <<connected, announced, offered>>

ServerStart ==
    /\ session.State = "STOPPED"
    /\ session' = StartClient(session)
    /\ UNCHANGED <<connected, announced, offered>>

\* The packet source is polled from g_hnode_client_start on.
Running == connected /\ session.State # "STOPPED"

RxRequest ==
    /\ Running
    /\ Len(session.TxPackets) < MaxQueue
    /\ \/ \E tag \in Tags : session' = RxReqPInfo(session, tag)
       \/ session' = RxDebugCtrl(session)
       \/ session' = RxEventCtrl(session)
    /\ UNCHANGED <<connected, announced, offered>>

ServerForwardDebug ==
    /\ Running
    /\ offered < MaxDebug /\ Len(session.TxPackets) < MaxQueue
    /\ session' = ForwardDebugPacket(session, offered)
    /\ offered' = IF session.Debug THEN offered + 1 ELSE offered
    /\ UNCHANGED <<connected, announced>>

SourceTxComplete ==
    /\ Running
    /\ session.TxPackets # <<>>
    /\ session' = TxComplete(session)
    /\ announced' = LET pkt == Head(session.TxPackets)
                    IN  IF pkt.type = "NODE" THEN Append(announced, pkt.body)
                                             ELSE announced
    /\ UNCHANGED <<connected, offered>>

\* g_hnode_client_state, on a hang-up, an error or an empty read of the socket.
SourceDown ==
    /\ Running
    /\ session' = [session EXCEPT !.State = "IDLE"]
    /\ connected' = FALSE
    /\ UNCHANGED <<announced, offered>>

Next ==
    \/ \E p \in Providers : ServerAddNode(p)
    \/ ServerStart
    \/ RxRequest
    \/ ServerForwardDebug
    \/ SourceTxComplete
    \/ SourceDown

Spec == Init /\ [][Next]_vars

\* The main loop dispatches the source whenever the socket takes data, and the
\* peer is assumed to keep reading.
FairSpec == Spec /\ WF_vars(SourceTxComplete)

----------------------------------------------------------------------------
\* The type invariant of the session object and of the histories.
TypeOK ==
    /\ session \in Sessions
    /\ connected \in BOOLEAN
    /\ announced \in Seq(Nat)
    /\ offered \in Nat

\* The records whose state the session takes to be established.
Reported == Len(session.NodeList) - session.UpdateNodeCount

\* The bookkeeping of client_tx and add_node: UpdateNodeCount counts exactly
\* the records not yet established, these are the newest ones, and a session is
\* UPDATING exactly when the oldest of them, UpdatingNode, is being exposed.
UpdateBookkeeping ==
    /\ session.UpdateNodeCount <= Len(session.NodeList)
    /\ \A i \in 1..Len(session.NodeList) :
         session.NodeList[i].State = "ESTABLISHED" <=> i <= Reported
    /\ connected =>
         /\ \A i \in 1..Len(session.NodeList) :
              session.NodeList[i].State = "EXPOSING"
                 <=> session.State = "UPDATING" /\ i = Reported + 1
         /\ session.State = "UPDATING" =>
              /\ session.UpdateNodeCount > 0
              /\ session.UpdatingNode = Reported + 1

\* No stall: node reports are driven only by completions, so whenever a client
\* that asked for them still has an unreported record, a packet must be queued
\* whose completion will go on with it.
ReportsNeverStall ==
    connected /\ session.Report /\ session.UpdateNodeCount > 0
        => session.TxPackets # <<>>

\* The positions of node records in the queue.
QueuedNodes == {k \in DOMAIN session.TxPackets : session.TxPackets[k].type = "NODE"}

\* Whatever mix of acknowledgements and debug frames is completed in between,
\* the NodeIDs sent and then those queued are 0, 1, 2, ... up to the last
\* record exposed: none is announced twice, skipped or out of order.
AnnouncedInOrder ==
    LET id(k) == session.TxPackets[k].body
    IN  /\ \A k \in DOMAIN announced : announced[k] = k - 1
        /\ \A k \in QueuedNodes : id(k) >= Len(announced)
        /\ \A j, k \in QueuedNodes : j < k => id(j) < id(k)
        /\ \A i \in DOMAIN session.NodeList :
             session.NodeList[i].State # "NEW"
                <=> i <= Len(announced) \/ \E k \in QueuedNodes : id(k) = i - 1
        /\ Len(announced) <= Len(session.NodeList)
        /\ \A k \in QueuedNodes : id(k) < Len(session.NodeList)

\* Every record of a client that asked for reports is eventually sent to it.
EveryNodeAnnounced ==
    \A n \in 1..MaxNodes :
        (connected /\ session.Report /\ n <= Len(session.NodeList))
            ~> (~connected \/ n <= Len(announced))

----------------------------------------------------------------------------
\* The session implements NodeFeed: a node is told when the last byte of its
\* packet is sent.  After the connection is down the object is disposed; its
\* last contents stay in session only for this mapping.
Feed == INSTANCE NodeFeed WITH
    known      <- [i \in 1..Len(session.NodeList) |-> session.NodeList[i].Node],
    told       <- [k \in 1..Len(announced) |-> session.NodeList[announced[k] + 1].Node],
    subscribed <- session.Report,
    open       <- connected

\* Refinement: whatever completes in between, a step of the session is a step
\* of the feed, so nodes are told once each, in the order they became ready.
ImplementsFeed == Feed!Spec
=============================================================================

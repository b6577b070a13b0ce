----------------------------- MODULE Discovery -----------------------------
(***************************************************************************)
(* How the management server learns about nodes: the service resolver     *)
(* makes a GHNodeProvider for each service it finds, the provider asks the *)
(* node for its description and its end points over UDP, is claimed by the *)
(* server when it has them all, and becomes ready when the node answers    *)
(* the claim (hnode-provider.c, hnode-srvobj.c).  At the other end the     *)
(* node answers each request (hnode-nodeobj.c).  The same service may be   *)
(* found several times: on several interfaces, or again after the node     *)
(* restarted, since services that go away are ignored.  A node binds port  *)
(* 0, so after a restart it is at whatever port the host gives it.  A      *)
(* definition commented "Slip:" is not the code but a plausible mistake in *)
(* it, kept to see that the properties notice it.                          *)
(***************************************************************************)
EXTENDS Integers, Sequences, FiniteSets

CONSTANTS
    Nodes,           \* the nodes, each on a host of its own
    Ports,           \* the UDP ports a host may give its node
    EndPointCount,   \* the number of end points of each node
    Faults,          \* what the network may do: subset of AllFaults
    MaxFound,        \* bound: times each node is found, at whatever address
    MaxRestarts      \* bound: node restarts

AllFaults == {"lose", "duplicate"}

\* A provider asks for end point 0 before it looks at the count it was given,
\* so a node without end points is outside the protocol.
ASSUME ConstantsAssumption ==
    /\ EndPointCount \in [Nodes -> Nat \ {0}]
    /\ Faults \subseteq AllFaults
    /\ MaxFound \in [Nodes -> Nat] /\ MaxRestarts \in Nat

VARIABLES
    port,            \* the port each node is bound to
    HNodeList,       \* the server's provider records, in the order found
    NextProviderID,  \* the object id of the next claim
    node,            \* the server information each node holds
    net,             \* the UDP datagrams in flight, in no order
    exposed,         \* the addresses for which ADD_PROVIDER was emitted, in order
    restarts         \* the number of node restarts so far

vars == <<port, HNodeList, NextProviderID, node, net, exposed, restarts>>

\* Addresses are compared with their port (g_hnode_address_is_equal).
Addresses == Nodes \X Ports

Address(n) == <<n, port[n]>>

\* The node on the host of address a.
NodeOf(a) == a[1]

\* TxState of a provider between two callbacks.  REQ_PINFO, REQ_EPOINT,
\* WAIT_CLAIM and SEND_SYSINFO are left within the callback that enters them:
\* the tx_request and state_change signals are emitted synchronously.
TxStates == {"WAIT_PINFO_RPY", "WAIT_EPOINT_RPY", "WAIT_SYSINFO_ACK", "READY"}

Requests == {"PINFO_REQ", "EPINFO_REQ", "SYSINFO_REQ"}
Replies  == {"PINFO_RPY", "EPINFO_RPY", "SYSINFO_ACK"}

\* A datagram: addr is the node's end of it, where it goes to or comes from; data is the end point
\* count of a PINFO_RPY, the end point (from 1) an EPINFO_RPY describes, or the
\* object id of a SYSINFO_REQ.  rec is not on the wire: it names the record
\* whose request this is, or answers, so that equal datagrams of two records
\* are two.
Datagram(type, a, rec, tag, ep, data) ==
    [type |-> type, addr |-> a, rec |-> rec, tag |-> tag, ep |-> ep, data |-> data]

\* Delivering a datagram takes it off the network, unless it is duplicated.
Deliver(m, sent) ==
    \/ net' = (net \ {m}) \cup sent
    \/ "duplicate" \in Faults /\ net' = net \cup sent

----------------------------------------------------------------------------
NoServer == [ServerValid |-> FALSE, ServerObjID |-> 0]

Init ==
    /\ port \in [Nodes -> Ports]
    /\ HNodeList = <<>>
    /\ NextProviderID = 0
    /\ node = [n \in Nodes |-> NoServer]
    /\ net = {}
    /\ exposed = <<>>
    /\ restarts = 0

\* The records whose address is a.
Found(a) == {r \in DOMAIN HNodeList : HNodeList[r].addr = a}

\* A started record; EndPoints[i] is the end point whose description was parsed
\* into slot i of EndPointArray, 0 if none was.
NewProvider(a) ==
    [addr |-> a, TxState |-> "WAIT_PINFO_RPY", ReqTag |-> 0, ReqEndPoint |-> 0,
     EndPoints |-> <<>>, ServerObjID |-> 0]

\* Slip: the request names the end point before the one awaited.
TxRequestOffByOne(r, p) ==
    IF p.TxState = "WAIT_EPOINT_RPY"
    THEN {Datagram("EPINFO_REQ", p.addr, r, p.ReqTag, p.ReqEndPoint - 1, 0)}
    ELSE {Datagram("PINFO_REQ", p.addr, r, p.ReqTag, 0, 0)}

\* g_hnode_provider_generate_tx_request: what record r sends on entering the
\* state p.TxState.
TxRequest(r, p) ==
    CASE p.TxState = "WAIT_PINFO_RPY" ->
           {Datagram("PINFO_REQ", p.addr, r, p.ReqTag, 0, 0)}
      [] p.TxState = "WAIT_EPOINT_RPY" ->
           {Datagram("EPINFO_REQ", p.addr, r, p.ReqTag, p.ReqEndPoint, 0)}
      [] p.TxState = "WAIT_SYSINFO_ACK" ->
           {Datagram("SYSINFO_REQ", p.addr, r, p.ReqTag, 0, p.ServerObjID)}
      [] OTHER -> {}

\* AVAHI_RESOLVER_FOUND: every find makes a record, known address or not.
Resolve(n) ==
    /\ Cardinality({r \in DOMAIN HNodeList : NodeOf(HNodeList[r].addr) = n}) < MaxFound[n]
    /\ HNodeList' = Append(HNodeList, NewProvider(Address(n)))
    /\ net' = net \cup TxRequest(Len(HNodeList) + 1, NewProvider(Address(n)))
    /\ UNCHANGED <<port, NextProviderID, node, exposed, restarts>>

----------------------------------------------------------------------------
\* Slip: the node counts end points from one in its replies.
AnswerFromOne(m) ==
    CASE m.type = "PINFO_REQ" ->
           Datagram("PINFO_RPY", m.addr, m.rec, m.tag, 0, EndPointCount[NodeOf(m.addr)])
      [] m.type = "EPINFO_REQ" ->
           Datagram("EPINFO_RPY", m.addr, m.rec, m.tag, m.ep + 1, m.ep + 1)
      [] m.type = "SYSINFO_REQ" ->
           Datagram("SYSINFO_ACK", m.addr, m.rec, m.tag, 0, 0)

\* The node's answer to a request.
Answer(m) ==
    CASE m.type = "PINFO_REQ" ->
           Datagram("PINFO_RPY", m.addr, m.rec, m.tag, 0, EndPointCount[NodeOf(m.addr)])
      [] m.type = "EPINFO_REQ" ->
           Datagram("EPINFO_RPY", m.addr, m.rec, m.tag, m.ep, m.ep + 1)
      [] m.type = "SYSINFO_REQ" ->
           Datagram("SYSINFO_ACK", m.addr, m.rec, m.tag, 0, 0)

\* g_hnode_server_hnoderx of hnode-nodeobj.c; SYSINFO_REQ claims the node.
NodeRx(m) ==
    /\ m.type \in Requests
    /\ m.addr = Address(NodeOf(m.addr))
    /\ Deliver(m, {Answer(m)})
    /\ node' = IF m.type = "SYSINFO_REQ"
               THEN [node EXCEPT ![NodeOf(m.addr)] = [ServerValid |-> TRUE,
                                                      ServerObjID |-> m.data]]
               ELSE node
    /\ UNCHANGED <<port, HNodeList, NextProviderID, exposed, restarts>>

\* A request to a port that its node has left.
NodeGone(m) ==
    /\ m.type \in Requests
    /\ m.addr # Address(NodeOf(m.addr))
    /\ net' = net \ {m}
    /\ UNCHANGED <<port, HNodeList, NextProviderID, node, exposed, restarts>>

\* The node process is started again: it binds port 0, which may give it the port
\* it had, and remembers no server.
NodeRestart(n) ==
    /\ restarts < MaxRestarts
    /\ \E p \in Ports : port' = [port EXCEPT ![n] = p]
    /\ node' = [node EXCEPT ![n] = NoServer]
    /\ restarts' = restarts + 1
    /\ UNCHANGED <<HNodeList, NextProviderID, net, exposed>>

NetLose(m) ==
    /\ "lose" \in Faults
    /\ net' = net \ {m}
    /\ UNCHANGED <<port, HNodeList, NextProviderID, node, exposed, restarts>>

----------------------------------------------------------------------------
\* Slip: any record with the address may take the packet.
ClaimsPacketAny(r, m) == HNodeList[r].addr = m.addr

\* g_hnode_provider_claim_rx_packet: the first record with the address of the
\* sender takes the packet.
ClaimsPacket(r, m) ==
    /\ HNodeList[r].addr = m.addr
    /\ \A s \in Found(m.addr) : r <= s

\* Slip: the provider info is taken in every state.
AwaitsPInfoAlways(p, m) == m.type = "PINFO_RPY"

\* Slip: neither the tag nor the end point of the reply is compared.
AwaitsEPointAnyTag(p, m) ==
    p.TxState = "WAIT_EPOINT_RPY" /\ m.type = "EPINFO_RPY"

\* Slip: a late packet makes a ready provider ready again.
AwaitsAckAgain(p) == p.TxState \in {"WAIT_SYSINFO_ACK", "READY"}

\* What a record waits for in g_hnode_provider_process_rx_reply: replies are
\* told by type, tag and end point, the acknowledgement of a claim by nothing.
AwaitsPInfo(p, m) ==
    p.TxState = "WAIT_PINFO_RPY" /\ m.type = "PINFO_RPY" /\ m.tag = p.ReqTag
AwaitsEPoint(p, m) ==
    /\ p.TxState = "WAIT_EPOINT_RPY" /\ m.type = "EPINFO_RPY"
    /\ m.tag = p.ReqTag /\ m.ep = p.ReqEndPoint
AwaitsAck(p) == p.TxState = "WAIT_SYSINFO_ACK"

\* The record takes its next state and the request of that state is sent.
Step(r, m, p) ==
    /\ HNodeList' = [HNodeList EXCEPT ![r] = p]
    /\ Deliver(m, TxRequest(r, p))

RxPInfoReply(r, m) ==
    /\ AwaitsPInfo(HNodeList[r], m)
    /\ Step(r, m, [HNodeList[r] EXCEPT !.EndPoints = [i \in 1..m.data |-> 0],
                                       !.ReqTag      = @ + 1,
                                       !.ReqEndPoint = 0,
                                       !.TxState     = "WAIT_EPOINT_RPY"])
    /\ UNCHANGED <<NextProviderID, exposed>>

\* The record with the description parsed into its slot, before it goes on.
ParseEPoint(p, m) ==
    [p EXCEPT !.EndPoints   = [@ EXCEPT ![p.ReqEndPoint + 1] = m.data],
              !.ReqTag      = @ + 1,
              !.ReqEndPoint = @ + 1]

\* More end points to ask for, or GHNP_STATE_INFO_COMPLETE, on which the server
\* claims the provider.
RxEPointReply(r, m) ==
    LET p == ParseEPoint(HNodeList[r], m)
    IN  /\ AwaitsEPoint(HNodeList[r], m)
        /\ \/ /\ p.ReqEndPoint < Len(p.EndPoints)
              /\ Step(r, m, p)
              /\ UNCHANGED NextProviderID
           \/ /\ p.ReqEndPoint >= Len(p.EndPoints)
              /\ Step(r, m, [p EXCEPT !.TxState     = "WAIT_SYSINFO_ACK",
                                      !.ServerObjID = NextProviderID])
              /\ NextProviderID' = NextProviderID + 1
        /\ UNCHANGED exposed

\* GHNP_STATE_READY, on which the server tells its listeners and sessions.
RxClaimReply(r, m) ==
    /\ AwaitsAck(HNodeList[r])
    /\ Step(r, m, [HNodeList[r] EXCEPT !.ReqTag = @ + 1, !.TxState = "READY"])
    /\ exposed' = Append(exposed, HNodeList[r].addr)
    /\ UNCHANGED NextProviderID

RxIgnored(r, m) ==
    /\ ~(\/ AwaitsPInfo(HNodeList[r], m)
         \/ AwaitsEPoint(HNodeList[r], m)
         \/ AwaitsAck(HNodeList[r]))
    /\ Deliver(m, {})
    /\ UNCHANGED <<HNodeList, NextProviderID, exposed>>

\* g_hnode_server_hnoderx of hnode-srvobj.c.
ServerRx(m) ==
    /\ m.type \in Replies
    /\ \E r \in DOMAIN HNodeList :
         /\ ClaimsPacket(r, m)
         /\ \/ RxPInfoReply(r, m) \/ RxEPointReply(r, m)
            \/ RxClaimReply(r, m) \/ RxIgnored(r, m)
    /\ UNCHANGED <<port, node, restarts>>

Next ==
    \/ \E n \in Nodes : Resolve(n) \/ NodeRestart(n)
    \/ \E m \in net : NodeRx(m) \/ NodeGone(m) \/ ServerRx(m) \/ NetLose(m)

Spec == Init /\ [][Next]_vars

\* Both main loops go on to read what has arrived.
FairSpec ==
    /\ Spec
    /\ WF_vars(\E m \in net : NodeRx(m))
    /\ WF_vars(\E m \in net : ServerRx(m))

----------------------------------------------------------------------------
Providers ==
    [addr : Addresses, TxState : TxStates, ReqTag : Nat, ReqEndPoint : Nat,
     EndPoints : Seq(Nat), ServerObjID : Nat]

Datagrams == [type : Requests \cup Replies, addr : Addresses, rec : Nat \ {0},
              tag : Nat, ep : Nat, data : Nat]

\* The type invariant of the provider records, the nodes and the network.
TypeOK ==
    /\ port \in [Nodes -> Ports]
    /\ HNodeList \in Seq(Providers)
    /\ NextProviderID \in Nat
    /\ node \in [Nodes -> [ServerValid : BOOLEAN, ServerObjID : Nat]]
    /\ net \in SUBSET Datagrams
    /\ exposed \in Seq(Addresses)
    /\ restarts \in Nat

Claimed(p) == p.TxState \in {"WAIT_SYSINFO_ACK", "READY"}

\* A provider is claimed only with the description of each of its end points in
\* the slot of that end point, however replies were duplicated, delayed or
\* meant for another record of the same address.
EndPointsComplete ==
    \A r \in DOMAIN HNodeList :
        Claimed(HNodeList[r]) =>
            HNodeList[r].EndPoints =
                [i \in 1..EndPointCount[NodeOf(HNodeList[r].addr)] |-> i]

\* However often a node is found at one address, only its first record there gets
\* anywhere: the others wait for their first reply for ever.
OneRecordProgresses ==
    \A r, s \in DOMAIN HNodeList :
        r < s /\ HNodeList[r].addr = HNodeList[s].addr
            => HNodeList[s].TxState = "WAIT_PINFO_RPY"

\* A node and the server agree on its object id, and no two claimed records have
\* the same, so a debug frame names the provider that sent it: a node holds the
\* id the server gave to the record of the address it is at now, across restarts
\* that keep or change its port and duplicated claims.
ClaimAgreement ==
    /\ \A n \in Nodes : node[n].ServerValid =>
         \E r \in Found(Address(n)) :
             /\ Claimed(HNodeList[r])
             /\ HNodeList[r].ServerObjID = node[n].ServerObjID
    /\ \A r, s \in DOMAIN HNodeList :
         /\ Claimed(HNodeList[r]) /\ Claimed(HNodeList[s])
         /\ HNodeList[r].ServerObjID = HNodeList[s].ServerObjID
         => r = s

\* hnode-srvobj.c:475, "Provider has been claimed and is now ready for
\* transactions": the node of a ready provider has accepted the claim.
ReadyMeansClaimed ==
    \A r \in DOMAIN HNodeList :
        HNodeList[r].TxState = "READY" =>
            \A n \in Nodes : Address(n) = HNodeList[r].addr => node[n].ServerValid

IsExposed(a) == \E i \in DOMAIN exposed : exposed[i] = a

\* When no datagram is lost and a node stays where it is, a node found there for the
\* first time is eventually ready, even if replies are taken by another record than
\* the one that asked.
FoundBecomesReady ==
    \A n \in Nodes, p \in Ports :
        [](Found(<<n, p>>) = {} /\ [](port[n] = p)
             => [](Found(<<n, p>>) # {} => <>IsExposed(<<n, p>>)))

----------------------------------------------------------------------------
Registry == INSTANCE NodeRegistry WITH
    found <- {HNodeList[r].addr : r \in DOMAIN HNodeList}

\* Refinement: each address is reported ready at most once, after it was found.  A
\* node that comes back at another port is a provider of its own there, with its own
\* record, claim and report; one that comes back at the same port is not reported
\* again.
ImplementsRegistry == Registry!Spec
=============================================================================

--------------------------------- MODULE Browser -------------------------------
(***************************************************************************)
(* A browser (GHNodeBrowser, with the command line client hmcfg on top),   *)
(* the management servers it finds through Avahi, and the nodes behind     *)
(* them.  Each server found is a management point with a TCP connection of *)
(* its own; the server's end is a session of ClientSession.  Both          *)
(* directions are byte streams, and the reader cuts them by the length at  *)
(* the head of each packet.  A definition commented "Slip:" is not the     *)
(* code but a plausible mistake in it.                                     *)
(***************************************************************************)
EXTENDS ClientSession, NodeRecord, FiniteSets

CONSTANTS
    Services,       \* the services Avahi may report; a server is reported once
                    \* for each interface it is seen on
    Servers,        \* the management servers
    HostOf,         \* the server of each service
    NodeData,       \* the nodes' own data: a sequence, a node is its index
    NodeAddr,       \* the address Avahi resolves for each node
    MaxKnown,       \* bound: providers of one server
    MaxFrames,      \* bound: debug frames sent
    MaxBreaks       \* bound: connections that break

ASSUME BrowserAssumption ==
    /\ HostOf \in [Services -> Servers]
    /\ MaxKnown \in Nat /\ MaxFrames \in Nat /\ MaxBreaks \in Nat /\ BlockSize \in Nat \ {0}

\* The bytes of a node's update packet, at most.
UpdateSize(node) == 42 + UIDLength + Len(node.EndPointArray) * (14 + MimeMax)

\* What the nodes send fits the fields of the packets, and so do the ids of a
\* server's providers and the length of an update.
ASSUME NodesAssumption ==
    /\ DOMAIN NodeData \subseteq Nat /\ Fits(4, MaxKnown)
    /\ \A n \in DOMAIN NodeData :
          /\ NodeFits(NodeData[n]) /\ AddressFits(NodeAddr[n])
          /\ Fits(4, UpdateSize(NodeData[n]))

VARIABLES
    mode,           \* the options of hmcfg: "list" or "debug"
    status,         \* "running", "quit" or "aborted" (by a g_error)
    resolving,      \* the services with a resolver at work
    reported,       \* the services reported to the browser
    ResolveCount, avahi_done,
    MPointList,     \* the management points, oldest first
    HNodeList,      \* the nodes found, oldest first: <<point, index in its NodeList>>
    link,           \* per point: "connecting" until accepted, "up", "down"
    session,        \* per point: the server's GHNodeClient
    toServer,       \* per point: the bytes on their way to the server
    toBrowser,      \* per point: the bytes on their way to the browser
    known,          \* per server: the nodes of its providers, oldest first
    owner,          \* per node: who claimed it last, [server, id], or <<>>
    frames,         \* debug frames on their way from nodes to servers
    sent,           \* the number of debug frames sent
    awaited,        \* history: those reported before all-for-now, not yet points
    enumerated,     \* history: whether the end of the enumeration was signalled
    listed,         \* history: what hmcfg printed
    shown           \* history: the debug frames emitted, [point, index, data]

browserVars == <<mode, status, resolving, reported, ResolveCount, avahi_done,
                 awaited, enumerated, listed>>
pointVars   == <<MPointList, HNodeList, shown>>
linkVars    == <<link, session, toServer, toBrowser>>
nodeVars    == <<known, owner, frames, sent>>
vars == <<browserVars, pointVars, linkVars, nodeVars>>

Points == DOMAIN MPointList
Nodes  == DOMAIN NodeData
ServerOf(m) == HostOf[MPointList[m].service]

\* What a server's provider holds; a server counts its ids from 0.
Records == [n \in Nodes |-> Discovered(NodeData[n], NodeAddr[n])]
ProviderOf(s, k) == claim(Records[known[s][k]], k - 1)

Init ==
    /\ mode \in {"list", "debug"}
    /\ status = "running"
    /\ resolving = {} /\ reported = {} /\ awaited = {}
    /\ ResolveCount = 0 /\ avahi_done = FALSE /\ enumerated = FALSE
    /\ MPointList = <<>> /\ HNodeList = <<>>
    /\ link = <<>> /\ session = <<>> /\ toServer = <<>> /\ toBrowser = <<>>
    /\ known = [s \in Servers |-> <<>>]
    /\ owner = [n \in Nodes |-> <<>>]
    /\ frames = {} /\ sent = 0
    /\ listed = <<>> /\ shown = {}

--------------------------------------------------------------------------------
(* Management packets.                                                     *)

HNODE_MGMT_REQ_PINFO  == 2
HNODE_MGMT_DEBUG_CTRL == 5
HNODE_MGMT_ACK        == 7
HNODE_MGMT_DEBUG_PKT  == 8
HNODE_MGMT_NODE_PKT   == 10

Header == <<<<"Length", 4>>, <<"Type", 4>>, <<"IOTag", 4>>>>

Headed(length, type, tag) ==
    SetFields(NewPacket, Header, [Length |-> length, Type |-> type, IOTag |-> tag])

\* build_update_packet: the length is written when it is known.
UpdatePacket(tag, id, prov) ==
    LET p == BuildClientUpdate(SetInt(Headed(12, HNODE_MGMT_NODE_PKT, tag), 4, id), prov)
    IN  SetInt(Reset(p), 4, DataLength(p))

NodeFrameLayout == <<<<"Type", 2>>, <<"SeqCnt", 2>>, <<"SvrObjID", 4>>,
                     <<"EPIndex", 2>>, <<"DataLength", 2>>>>

DebugLayout == <<<<"Type", 4>>, <<"SeqCnt", 4>>, <<"SvrObjID", 4>>, <<"EPIndex", 4>>,
                 <<"DataLength", 4>>>>

\* g_hnode_send_debug_frame, with the timer's type and end point of the example
\* node; the data name the node.
NodeFrame(n, seq) ==
    SetBytes(SetFields(NewPacket, NodeFrameLayout,
                       [Type |-> 2, SeqCnt |-> seq, SvrObjID |-> owner[n].id,
                        EPIndex |-> 1, DataLength |-> 1]),
             <<n>>)

\* g_hnode_server_debugrx: the packet for the clients.
DebugPacket(frame) ==
    LET p == Reset(frame)
        f == GetFields(p, NodeFrameLayout)
        data == GetBytes(SkipFields(p, NodeFrameLayout), f["DataLength"])
    IN  SetBytes(SetFields(Headed(8 * 4 + Len(data), HNODE_MGMT_DEBUG_PKT, 0),
                           DebugLayout, f),
                 data)

\* The bytes of a packet that a session queued.
Encoded(m, pkt) ==
    CASE pkt.type = "ACK"   -> Headed(12, HNODE_MGMT_ACK, pkt.tag)
      [] pkt.type = "NODE"  ->
            UpdatePacket(pkt.tag, pkt.body,
                         ProviderOf(ServerOf(m), session[m].NodeList[pkt.body + 1].Node))
      [] pkt.type = "DEBUG" -> DebugPacket(pkt.body)

\* The receiver gets the header, and as much as its length says.
Received(stream) ==
    LET head == [NewPacket EXCEPT !.data = SubSeq(stream, 1, 12), !.cap = RoundedUp(12)]
        len  == GetInt(head, 4)
    IN  IF len > 12
        THEN [GetBuffer(head, len) EXCEPT
                !.data = @ \o SubSeq(stream, 13, IF len < Len(stream) THEN len ELSE Len(stream))]
        ELSE head

Rest(stream, p) == SubSeq(stream, DataLength(p) + 1, Len(stream))

--------------------------------------------------------------------------------
(* Finding the servers.                                                    *)

Running == status = "running"

\* enum_cmplt is emitted.
EnumComplete(count, done) == enumerated' = (enumerated \/ (count = 0 /\ done))

\* Slip: a resolver is counted when it answers, not when it is made.
BrowseNewUncounted(svc) ==
    /\ svc \notin reported
    /\ reported' = reported \cup {svc}
    /\ resolving' = resolving \cup {svc}
    /\ UNCHANGED <<mode, status, ResolveCount, avahi_done, awaited, enumerated, listed,
                   pointVars, linkVars, nodeVars>>

\* AVAHI_BROWSER_NEW.
BrowseNew(svc) ==
    /\ svc \notin reported
    /\ reported' = reported \cup {svc}
    /\ resolving' = resolving \cup {svc}
    /\ ResolveCount' = ResolveCount + 1
    /\ UNCHANGED <<mode, status, avahi_done, awaited, enumerated, listed,
                   pointVars, linkVars, nodeVars>>

\* AVAHI_BROWSER_ALL_FOR_NOW.
BrowseAllForNow ==
    /\ ~avahi_done
    /\ avahi_done' = TRUE
    /\ awaited' = resolving
    /\ EnumComplete(ResolveCount, TRUE)
    /\ UNCHANGED <<mode, status, resolving, reported, ResolveCount, listed,
                   pointVars, linkVars, nodeVars>>

\* mpoint_start asks for node reports; hmcfg's mgmt-add asks for debug frames.
Requests ==
    Headed(12, HNODE_MGMT_REQ_PINFO, 0).data \o
    (IF mode = "debug" THEN SetInt(Headed(16, HNODE_MGMT_DEBUG_CTRL, 1), 4, 1).data ELSE <<>>)

\* AVAHI_RESOLVER_FOUND: a new management point, which connects at once.
ResolveFound(svc) ==
    /\ svc \in resolving
    /\ resolving' = resolving \ {svc}
    /\ awaited' = awaited \ {svc}
    /\ MPointList' = Append(MPointList, [service  |-> svc,
                                         CurIOTag |-> IF mode = "debug" THEN 2 ELSE 1,
                                         NodeList |-> <<>>])
    /\ link' = Append(link, "connecting")
    /\ session' = Append(session, NewClient)
    /\ toServer' = Append(toServer, Requests)
    /\ toBrowser' = Append(toBrowser, <<>>)
    /\ ResolveCount' = ResolveCount - 1
    /\ EnumComplete(ResolveCount - 1, avahi_done)
    /\ UNCHANGED <<mode, status, reported, avahi_done, listed,
                   HNodeList, shown, nodeVars>>

\* AVAHI_RESOLVER_FAILURE is a g_error, which aborts.
ResolveFailure(svc) ==
    /\ svc \in resolving
    /\ status' = "aborted"
    /\ UNCHANGED <<mode, resolving, reported, ResolveCount, avahi_done, awaited, enumerated,
                   listed, pointVars, linkVars, nodeVars>>

--------------------------------------------------------------------------------
(* The servers and their nodes.                                            *)

Sessions(s) == {m \in Points : ServerOf(m) = s /\ link[m] = "up"}

\* A node's discovery ends: provider_state INFO_COMPLETE gives it an id, the node
\* takes the server that claims it for its own, and provider_state READY adds it
\* to every session.  Discovery shows the steps between.
NodeDiscovered(s, n) ==
    /\ Len(known[s]) < MaxKnown
    /\ LET id == Len(known[s])
       IN  /\ known' = [known EXCEPT ![s] = Append(@, n)]
           /\ owner' = [owner EXCEPT ![n] = [server |-> s, id |-> id]]
           /\ session' = [m \in Points |-> IF m \in Sessions(s) THEN AddNode(session[m], id + 1)
                                                                 ELSE session[m]]
    /\ UNCHANGED <<browserVars, pointVars, link, toServer, toBrowser, frames, sent>>

\* g_hnode_server_newsrc.
Accept(m) ==
    /\ link[m] = "connecting"
    /\ link' = [link EXCEPT ![m] = "up"]
    /\ session' = [session EXCEPT ![m] =
            StartClient(FoldLeft(AddNode, NewClient, [k \in DOMAIN known[ServerOf(m)] |-> k]))]
    /\ UNCHANGED <<browserVars, pointVars, toServer, toBrowser, nodeVars>>

\* g_hnode_client_client_rx.
ServerRx(m) ==
    /\ link[m] = "up" /\ toServer[m] # <<>>
    /\ LET p == Received(toServer[m])
           h == GetFields(p, Header)
       IN  /\ session' = [session EXCEPT ![m] =
                CASE h["Type"] = HNODE_MGMT_REQ_PINFO  -> RxReqPInfo(@, h["IOTag"])
                  [] h["Type"] = HNODE_MGMT_DEBUG_CTRL -> RxDebugCtrl(@)
                  [] OTHER -> @]
           /\ toServer' = [toServer EXCEPT ![m] = Rest(@, p)]
    /\ UNCHANGED <<browserVars, pointVars, link, toBrowser, nodeVars>>

\* The packet at the head of the session's queue is sent, and client_tx called.
ServerTx(m) ==
    /\ link[m] = "up" /\ session[m].TxPackets # <<>>
    /\ toBrowser' = [toBrowser EXCEPT ![m] = @ \o Encoded(m, Head(session[m].TxPackets)).data]
    /\ session' = [session EXCEPT ![m] = TxComplete(@)]
    /\ UNCHANGED <<browserVars, pointVars, link, toServer, nodeVars>>

\* The example node's debug timer.  Without a browser in debug mode the sessions
\* drop the frames, so no node is taken to send any.
NodeSendDebug(n) ==
    /\ mode = "debug" /\ owner[n] # <<>> /\ sent < MaxFrames
    /\ frames' = frames \cup {[server |-> owner[n].server, pkt |-> NodeFrame(n, sent)]}
    /\ sent' = sent + 1
    /\ UNCHANGED <<browserVars, pointVars, linkVars, known, owner>>

\* g_hnode_server_debugrx, or the datagram is lost.
ServerDebugRx(f) ==
    /\ frames' = frames \ {f}
    /\ \/ session' = [m \in Points |->
                        IF m \in Sessions(f.server) THEN ForwardDebugPacket(session[m], f.pkt)
                                                    ELSE session[m]]
       \/ UNCHANGED session
    /\ UNCHANGED <<browserVars, pointVars, link, toServer, toBrowser, known, owner, sent>>

\* The connection breaks: the server disposes of its session, the browser's
\* source closes, and the point and its nodes stay in the browser's lists.
LinkDown(m) ==
    /\ link[m] # "down" /\ Cardinality({x \in Points : link[x] = "down"}) < MaxBreaks
    /\ link' = [link EXCEPT ![m] = "down"]
    /\ toServer' = [toServer EXCEPT ![m] = <<>>]
    /\ toBrowser' = [toBrowser EXCEPT ![m] = <<>>]
    /\ UNCHANGED <<browserVars, pointVars, session, nodeVars>>

--------------------------------------------------------------------------------
(* The browser's end.                                                      *)

\* HNODE_MGMT_NODE_PKT: mpoint_rxpacket, then the browser's mpoint_hnode_new.
AddHNode(m, p) ==
    LET node == [MPoint |-> m, MPointNodeID |-> GetInt(p, 4),
                 Provider |-> ParseClientUpdate(NewProvider, Skip(p, 4))]
    IN  /\ MPointList' = [MPointList EXCEPT ![m].NodeList = Append(@, node)]
        /\ HNodeList' = Append(HNodeList, <<m, Len(MPointList[m].NodeList) + 1>>)
        /\ UNCHANGED shown

\* Slip: the scan runs over the nodes of every server.
EveryPoint(m) == Points

\* The points whose nodes may be the source of a frame that came to m.
Point(m) == {m}

\* The records that emit a frame: those with the id.
Emitters(m, id) ==
    {h \in Point(m) \X (1..MaxKnown) :
        /\ h[2] \in DOMAIN MPointList[h[1]].NodeList
        /\ has_srvobj_id(MPointList[h[1]].NodeList[h[2]].Provider, id)}

\* HNODE_MGMT_DEBUG_PKT: every node of this point with the id emits the frame.
EmitDebug(m, p) ==
    LET f == GetFields(p, DebugLayout)
        data == GetBytes(SkipFields(p, DebugLayout), f["DataLength"])
    IN  /\ shown' = shown \cup {[point |-> h[1], index |-> h[2], data |-> data] :
                                    h \in Emitters(m, f["SvrObjID"])}
        /\ UNCHANGED <<MPointList, HNodeList>>

\* g_hnode_browser_mpoint_rxpacket.
BrowserRx(m) ==
    /\ Len(toBrowser[m]) >= 12
    /\ LET p == Received(toBrowser[m])
           h == GetFields(p, Header)
           body == SkipFields(p, Header)
       IN  /\ CASE h["Type"] = HNODE_MGMT_NODE_PKT /\ h["Length"] > 12 -> AddHNode(m, body)
                [] h["Type"] = HNODE_MGMT_DEBUG_PKT -> EmitDebug(m, body)
                [] OTHER -> UNCHANGED pointVars
           /\ toBrowser' = [toBrowser EXCEPT ![m] = Rest(@, p)]
    /\ UNCHANGED <<browserVars, link, session, toServer, nodeVars>>

\* The walk of hmcfg_list_timeout with first_hnode and next_hnode.
Listing == [i \in DOMAIN HNodeList |->
              MPointList[HNodeList[i][1]].NodeList[HNodeList[i][2]].Provider]

\* hmcfg_list_timeout prints what was found by then; hmcfg_exit_timeout ends a
\* debug session.  Both quit, and the connections close.
Timeout ==
    /\ status' = "quit"
    /\ listed' = IF mode = "list" THEN Listing ELSE listed
    /\ link' = [m \in Points |-> "down"]
    /\ UNCHANGED <<mode, resolving, reported, ResolveCount, avahi_done, awaited, enumerated,
                   pointVars, session, toServer, toBrowser, nodeVars>>

--------------------------------------------------------------------------------
\* The story ends with the browser's process.
Next ==
  /\ Running
  /\ \/ \E svc \in Services : BrowseNew(svc) \/ ResolveFound(svc) \/ ResolveFailure(svc)
     \/ BrowseAllForNow
     \/ Timeout
     \/ \E s \in Servers, n \in Nodes : NodeDiscovered(s, n)
     \/ \E m \in Points : \/ Accept(m) \/ ServerRx(m) \/ ServerTx(m)
                          \/ BrowserRx(m) \/ LinkDown(m)
     \/ \E n \in Nodes : NodeSendDebug(n)
     \/ \E f \in frames : ServerDebugRx(f)

Spec == Init /\ [][Next]_vars

--------------------------------------------------------------------------------
(* Properties.                                                             *)

\* A provider record tells the truth about a node: every field is the node's own,
\* and its addresses are the node's address with the ports it gave.
Tells(prov, n) ==
    LET d == NodeData[n]
        a == NodeAddr[n]
    IN  /\ prov.AddrObj = a
        /\ prov.ConfigAddrObj = IF d.ConfigPort = 0 THEN NoAddress
                                                    ELSE Address(a.host, d.ConfigPort)
        /\ prov.NodeUID = d.NodeUID
        /\ <<prov.MajorVersion, prov.MinorVersion, prov.MicroVersion>>
             = <<d.MajorVersion, d.MinorVersion, d.MicroVersion>>
        /\ Len(prov.EndPointArray) = Len(d.EndPointArray)
        /\ \A i \in DOMAIN d.EndPointArray :
             LET x == prov.EndPointArray[i]
                 y == d.EndPointArray[i]
             IN  /\ x.AddrObj = Address(a.host, y.Port)
                 /\ <<x.MajorVersion, x.MinorVersion, x.MicroVersion>>
                      = <<y.MajorVersion, y.MinorVersion, y.MicroVersion>>
                 /\ x.AssociateEPIndex = y.AssociateEPIndex
                 /\ x.MimeTypeStr = y.MimeTypeStr

\* The browser's records of a server's nodes are, in order, those its session
\* sent, and each is the node's own data, through two conversions to bytes and
\* back, whatever acknowledgements and debug frames lie between them.
\* (hnode-nodeobj.c, hnode-provider.c, hnode-provider-epoint.c, hnode-browser-mpoint.c)
RecordsAgree ==
    \A m \in Points : \A i \in DOMAIN MPointList[m].NodeList :
        LET node == MPointList[m].NodeList[i]
            k    == session[m].NodeList[i].Node
        IN  /\ node.MPointNodeID = i - 1
            /\ node.Provider.ServerObjID = k - 1
            /\ Tells(node.Provider, known[ServerOf(m)][k])

\* A debug frame is emitted by the record of the node that sent it, although ids
\* are given by each server on its own and a node may be claimed again, or by
\* another server, while the frame is on its way.
\* (hnode-srvobj.c, g_hnode_server_debugrx; hnode-browser-mpoint.c, rxpacket)
DebugFromItsNode ==
    \A e \in shown :
        e.data = <<known[ServerOf(e.point)]
                     [session[e.point].NodeList[e.index].Node]>>

\* When the end of the enumeration has been signalled, every server that Avahi
\* reported before its all-for-now is a management point.
\* (hnode-browser.c, the resolve and the browse callback)
EnumerationCovers ==
    enumerated => awaited = {}

\* Each packet fits the buffer that the setters allocated for it.
\* (hnode-packet.c, g_hnode_packet_get_buffer_ptr)
PacketsFit ==
    \A m \in Points : \A i \in DOMAIN session[m].TxPackets :
        LET p == Encoded(m, session[m].TxPackets[i]) IN DataLength(p) <= p.cap
================================================================================

------------------------------- MODULE NodeRecord ------------------------------
(***************************************************************************)
(* What is known of a node, and how it travels: from the node's own data   *)
(* (GHNode) in its replies to the server, from the server's provider in an *)
(* update packet to the browser, and into the browser's provider           *)
(* (GHNodeProvider, GHNodeEndPoint).  An address is a host and a port, and *)
(* its string the host and the port as two bytes.                          *)
(***************************************************************************)
EXTENDS Packet

CONSTANTS
    UIDLength,      \* bytes of a UID: 16 in the code
    MimeMax         \* bytes of the type string and host name sent: 128 in the code

\* An address object and its string (CreateAddressStr, ResolveAddressStr).
Address(host, port) == [host |-> host, port |-> port]
AddrStr(a) == <<a.host, a.port>>
AddressOf(str) == Address(str[1], str[2])
set_port(a, port) == [a EXCEPT !.port = port % 65536]

NoAddress == Address(0, 0)

Padded(str) == [i \in 1..MimeMax |-> IF i <= Len(str) THEN str[i] ELSE 0]

Version == <<<<"MicroVersion", 2>>, <<"MinorVersion", 1>>, <<"MajorVersion", 1>>>>

\* A record a function gets from the packet, and the packet after it.
Read(p, r) == [pkt |-> p, rec |-> r]

--------------------------------------------------------------------------------
(* The node's replies.                                                     *)

PInfoTail == <<<<"EndPointCount", 4>>, <<"MgmtPort", 2>>, <<"ConfigPort", 2>>,
               <<"HostAddrType", 4>>, <<"HostAddrLength", 4>>>>

HNPKT_PINFO_RPY == 2
HNPKT_EPINFO_RPY == 4

Reply(type, tag) == SetInt(SetInt(NewPacket, 4, type), 4, tag)

\* HNPKT_PINFO_REQ: the host name is sent in its whole buffer.
PInfoReply(node, tag) ==
    LET head == SetBytes(SetFields(Reply(HNPKT_PINFO_RPY, tag), Version, node), node.NodeUID)
        rec  == [EndPointCount |-> Len(node.EndPointArray), MgmtPort |-> node.MgmtPort,
                 ConfigPort |-> node.ConfigPort, HostAddrType |-> 0,
                 HostAddrLength |-> Len(node.HostAddr)]
    IN  SetBytes(SetFields(head, PInfoTail, rec), Padded(node.HostAddr))

EPInfoLayout == <<<<"Port", 2>>, <<"-", 2>>>> \o Version \o
                <<<<"AssociateEPIndex", 4>>, <<"MimeTypeLength", 4>>>>

\* HNPKT_EPINFO_REQ, for the end point at index i.
EPInfoReply(node, tag, i) ==
    LET ep   == node.EndPointArray[i + 1]
        head == SetInt(Reply(HNPKT_EPINFO_RPY, tag), 4, i)
    IN  SetBytes(SetFields(head, EPInfoLayout,
                           [Port |-> ep.Port, MicroVersion |-> ep.MicroVersion,
                            MinorVersion |-> ep.MinorVersion, MajorVersion |-> ep.MajorVersion,
                            AssociateEPIndex |-> ep.AssociateEPIndex,
                            MimeTypeLength |-> Len(ep.MimeTypeStr)]),
                 Padded(ep.MimeTypeStr))

--------------------------------------------------------------------------------
(* The provider.                                                           *)

NoEndPoint ==
    [AddrObj |-> NoAddress, MicroVersion |-> 0, MinorVersion |-> 0, MajorVersion |-> 0,
     AssociateEPIndex |-> 0, MimeTypeStr |-> <<>>]

NewProvider ==
    [AddrObj |-> NoAddress, ConfigAddrObj |-> NoAddress, ConfigPort |-> 0,
     MicroVersion |-> 0, MinorVersion |-> 0, MajorVersion |-> 0,
     NodeUID |-> [i \in 1..UIDLength |-> 0], EndPointArray |-> <<>>, ServerObjID |-> 0]

allocate_endpoint_array(count) == [i \in 1..count |-> NoEndPoint]

update_config_addr(prov) ==
    [prov EXCEPT !.ConfigAddrObj =
        IF prov.ConfigPort = 0 THEN NoAddress
                               ELSE set_port(prov.AddrObj, prov.ConfigPort)]

set_address(prov, str) == update_config_addr([prov EXCEPT !.AddrObj = AddressOf(str)])

\* The reply to GHPROVIDER_TXS_REQ_PINFO, past its type and tag.
ParsePInfo(prov, p) ==
    LET v   == GetFields(p, Version)
        q   == SkipFields(p, Version)
        t   == GetFields(Skip(q, UIDLength), PInfoTail)
    IN  update_config_addr(
            [prov EXCEPT !.MicroVersion = v["MicroVersion"], !.MinorVersion = v["MinorVersion"],
                         !.MajorVersion = v["MajorVersion"],
                         !.NodeUID = GetBytes(q, UIDLength),
                         !.EndPointArray = allocate_endpoint_array(t["EndPointCount"]),
                         !.ConfigPort = t["ConfigPort"]])

\* An end point's fields f, then its type string.
EndPointRead(addr, f, p) ==
    Read(Skip(p, f["MimeTypeLength"]),
         [AddrObj |-> set_port(addr, f["Port"]),
          MicroVersion |-> f["MicroVersion"], MinorVersion |-> f["MinorVersion"],
          MajorVersion |-> f["MajorVersion"], AssociateEPIndex |-> f["AssociateEPIndex"],
          MimeTypeStr |-> GetBytes(p, f["MimeTypeLength"])])

\* g_hnode_endpoint_parse_rx_packet, past type, tag and index.
ParseRxPacket(addr, p) ==
    EndPointRead(addr, GetFields(p, EPInfoLayout), SkipFields(p, EPInfoLayout)).rec

\* The dialogue of Discovery, as far as the record is concerned: what the server
\* knows of a node at the address before it claims it.
Discovered(node, addr) ==
    LET prov == set_address(NewProvider, AddrStr(addr))
        info == ParsePInfo(prov, Skip(Reset(PInfoReply(node, 1)), 8))
    IN  [info EXCEPT
            !.EndPointArray = [i \in DOMAIN @ |->
                ParseRxPacket(addr, Skip(Reset(EPInfoReply(node, 1 + i, i - 1)), 12))]]

\* g_hnode_provider_claim.
claim(prov, id) == [prov EXCEPT !.ServerObjID = id]

--------------------------------------------------------------------------------
(* The update of a client.                                                 *)

UpdateHead == <<<<"ServerObjID", 4>>, <<"Port", 2>>, <<"ConfigPort", 2>>>> \o Version

UpdateTail == <<<<"EndPointCount", 4>>, <<"AddressType", 4>>, <<"AddrStrLen", 4>>>>

EPUpdateLayout == <<<<"Port", 2>>>> \o Version \o
                  <<<<"AssociateEPIndex", 4>>, <<"MimeTypeLength", 4>>>>

\* g_hnode_endpoint_build_client_update.
BuildEndPoint(p, ep) ==
    SetBytes(SetFields(p, EPUpdateLayout,
                       [Port |-> ep.AddrObj.port, MicroVersion |-> ep.MicroVersion,
                        MinorVersion |-> ep.MinorVersion, MajorVersion |-> ep.MajorVersion,
                        AssociateEPIndex |-> ep.AssociateEPIndex,
                        MimeTypeLength |-> Len(ep.MimeTypeStr)]),
             ep.MimeTypeStr)

\* g_hnode_provider_build_client_update.
BuildClientUpdate(p, prov) ==
    LET head == SetFields(p, UpdateHead,
                    [ServerObjID |-> prov.ServerObjID, Port |-> prov.AddrObj.port,
                     ConfigPort |-> prov.ConfigPort, MicroVersion |-> prov.MicroVersion,
                     MinorVersion |-> prov.MinorVersion, MajorVersion |-> prov.MajorVersion])
        tail == SetFields(SetBytes(head, prov.NodeUID), UpdateTail,
                    [EndPointCount |-> Len(prov.EndPointArray), AddressType |-> 0,
                     AddrStrLen |-> Len(AddrStr(prov.AddrObj))])
    IN  FoldLeft(BuildEndPoint, SetBytes(tail, AddrStr(prov.AddrObj)), prov.EndPointArray)

\* Slip: an end point is read as the reply of a node, with its reserved bytes.
ParseEndPointAsReply(addr, p) ==
    EndPointRead(addr, GetFields(p, EPInfoLayout), SkipFields(p, EPInfoLayout))

\* g_hnode_endpoint_parse_client_update.
ParseEndPoint(addr, p) ==
    EndPointRead(addr, GetFields(p, EPUpdateLayout), SkipFields(p, EPUpdateLayout))

\* g_hnode_provider_parse_client_update: set_address makes the configuration
\* address from the port read before.
ParseClientUpdate(prov, p) ==
    LET h     == GetFields(p, UpdateHead)
        q     == SkipFields(p, UpdateHead)
        t     == GetFields(Skip(q, UIDLength), UpdateTail)
        r     == SkipFields(Skip(q, UIDLength), UpdateTail)
        known == set_address(
                    [prov EXCEPT !.ServerObjID = h["ServerObjID"], !.ConfigPort = h["ConfigPort"],
                                 !.MicroVersion = h["MicroVersion"],
                                 !.MinorVersion = h["MinorVersion"],
                                 !.MajorVersion = h["MajorVersion"],
                                 !.NodeUID = GetBytes(q, UIDLength)],
                    GetBytes(r, t["AddrStrLen"]))
        eps   == FoldLeft(LAMBDA acc, ep :
                            LET x == ParseEndPoint(known.AddrObj, acc.pkt)
                            IN  Read(x.pkt, Append(acc.rec, x.rec)),
                          Read(Skip(r, t["AddrStrLen"]), <<>>),
                          allocate_endpoint_array(t["EndPointCount"]))
    IN  [known EXCEPT !.EndPointArray = eps.rec]

has_srvobj_id(prov, id) == prov.ServerObjID = id

supports_config(prov) == prov.ConfigPort # 0

supports_interface(prov, type) ==
    \E i \in DOMAIN prov.EndPointArray : prov.EndPointArray[i].MimeTypeStr = type

--------------------------------------------------------------------------------
(* What the fields hold.                                                   *)

\* A number that w bytes hold: less than 256^w, in numbers that TLC has.
Fits(w, v) == v \in Nat /\ v \div 256 < 256^(w - 1)

\* MimeMax is the size of a buffer, and UIDLength of an array.
ASSUME RecordAssumption ==
    BlockSize \in Nat \ {0} /\ UIDLength \in Nat /\ Fits(4, MimeMax)

AddressFits(a) == a \in [host : Nat, port : Nat] /\ Fits(2, a.port)

VersionFits(r) == Fits(2, r.MicroVersion) /\ Fits(1, r.MinorVersion) /\ Fits(1, r.MajorVersion)

EndPointData ==
    [Port : Nat, MicroVersion : Nat, MinorVersion : Nat, MajorVersion : Nat,
     AssociateEPIndex : Nat, MimeTypeStr : Seq(Nat)]

EndPointFits(ep) ==
    /\ Fits(2, ep.Port) /\ VersionFits(ep) /\ Fits(4, ep.AssociateEPIndex)
    /\ Len(ep.MimeTypeStr) <= MimeMax

NodeFits(node) ==
    /\ VersionFits(node) /\ node.NodeUID \in Seq(Nat) /\ Len(node.NodeUID) = UIDLength
    /\ Fits(2, node.MgmtPort) /\ Fits(2, node.ConfigPort)
    /\ node.HostAddr \in Seq(Nat) /\ Len(node.HostAddr) <= MimeMax
    /\ node.EndPointArray \in Seq(EndPointData) /\ Fits(4, Len(node.EndPointArray))
    /\ \A i \in DOMAIN node.EndPointArray : EndPointFits(node.EndPointArray[i])
================================================================================

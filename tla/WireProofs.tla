------------------------------- MODULE WireProofs -------------------------------
(***************************************************************************)
(* Proofs about the two ways packets take between the programs.  The UDP   *)
(* dialogue in which a server discovers its nodes (Discovery), for any     *)
(* nodes with any numbers of end points, found any number of times, over a *)
(* network that loses, reorders and duplicates datagrams, and with any     *)
(* number of restarts at the same port or another: DiscoveryInv adds to the checked invariants what    *)
(* the datagrams in flight say, how far an unclaimed record is, that       *)
(* object ids are below the next one, and which record made a node ready.  *)
(* And the transmit side of a TCP packet source (PktSrc), for any packets  *)
(* of any length: SourceInv adds that the packets handed over are those    *)
(* completed and then those queued, which is what the refinement of        *)
(* TxChannel rests on, and that G_IO_OUT is not dispatched to an empty     *)
(* queue.                                                                  *)
(***************************************************************************)
EXTENDS Discovery, PktSrc, SequenceTheorems, FiniteSetTheorems, TLAPS

--------------------------------------------------------------------------------
(* The discovery of nodes.                                                 *)

\* The server gave the id to a record of address a.
Knows(a, id) ==
    \E r \in Found(a) : Claimed(HNodeList[r]) /\ HNodeList[r].ServerObjID = id

\* A datagram tells the truth, whatever happened since it was sent.
Says(m) ==
    /\ m.type = "PINFO_RPY" => m.data = EndPointCount[NodeOf(m.addr)]
    /\ m.type = "EPINFO_RPY" => m.data = m.ep + 1
    /\ m.type = "SYSINFO_REQ" => Knows(m.addr, m.data)

WireSays == \A m \in net : Says(m)

\* What a record knows of its node's end points: the first ReqEndPoint of them, then all.
Filled(p) ==
    /\ p.TxState = "WAIT_EPOINT_RPY" =>
         /\ Len(p.EndPoints) = EndPointCount[NodeOf(p.addr)]
         /\ p.ReqEndPoint < EndPointCount[NodeOf(p.addr)]
         /\ \A i \in 1..p.ReqEndPoint : p.EndPoints[i] = i
    /\ Claimed(p) => p.EndPoints = [i \in 1..EndPointCount[NodeOf(p.addr)] |-> i]

RecordsFilled == \A r \in DOMAIN HNodeList : Filled(HNodeList[r])

\* Ids are given once.
IdsGiven ==
    /\ \A r \in DOMAIN HNodeList :
         Claimed(HNodeList[r]) => HNodeList[r].ServerObjID < NextProviderID
    /\ \A r, s \in DOMAIN HNodeList :
         /\ Claimed(HNodeList[r]) /\ Claimed(HNodeList[s])
         /\ HNodeList[r].ServerObjID = HNodeList[s].ServerObjID
         => r = s

\* Each node holds an id of the address it is at.
NodesHold ==
    \A n \in Nodes : node[n].ServerValid => Knows(Address(n), node[n].ServerObjID)

\* An address reported ready has a record that is.
ExposedReady ==
    \A a \in Addresses : IsExposed(a) => \E r \in Found(a) : HNodeList[r].TxState = "READY"

DiscoveryInv ==
    /\ TypeOK /\ WireSays /\ RecordsFilled /\ OneRecordProgresses
    /\ IdsGiven /\ NodesHold /\ ExposedReady

--------------------------------------------------------------------------------
(* The list of records.                                                    *)

LEMMA AddressType ==
    ASSUME TypeOK, NEW n \in Nodes
    PROVE  Address(n) \in Addresses /\ NodeOf(Address(n)) = n
  BY DEF TypeOK, Address, Addresses, NodeOf

LEMMA NodeOfType == \A a \in Addresses : NodeOf(a) \in Nodes
  BY DEF Addresses, NodeOf

LEMMA RecordTypes ==
    ASSUME TypeOK
    PROVE  /\ Len(HNodeList) \in Nat /\ DOMAIN HNodeList = 1..Len(HNodeList)
           /\ \A r \in DOMAIN HNodeList : HNodeList[r] \in Providers
  BY LenProperties, ElementOfSeq DEF TypeOK

\* What stays true of the records from one list to the next.
Grown ==
    /\ \A n : Found(n) \subseteq Found(n)'
    /\ \A r \in DOMAIN HNodeList :
         /\ r \in DOMAIN HNodeList' /\ HNodeList'[r].addr = HNodeList[r].addr
         /\ Claimed(HNodeList[r]) =>
              Claimed(HNodeList'[r]) /\ HNodeList'[r].ServerObjID = HNodeList[r].ServerObjID
         /\ HNodeList[r].TxState = "READY" => HNodeList'[r].TxState = "READY"

LEMMA KnowledgeStays ==
    ASSUME Grown, NEW n, NEW id, Knows(n, id)
    PROVE  Knows(n, id)'
  <1>1. PICK r \in Found(n) : Claimed(HNodeList[r]) /\ HNodeList[r].ServerObjID = id
    BY DEF Knows
  <1>2. r \in DOMAIN HNodeList /\ r \in Found(n)'
    BY DEF Found, Grown
  <1>3. Claimed(HNodeList'[r]) /\ HNodeList'[r].ServerObjID = id
    BY <1>1, <1>2 DEF Grown
  <1>4. Claimed(HNodeList[r])' /\ (HNodeList[r].ServerObjID)' = id
    BY <1>3 DEF Claimed
  <1>. QED  BY <1>2, <1>4 DEF Knows

LEMMA ListUnchanged ==
    ASSUME HNodeList' = HNodeList
    PROVE  /\ Grown
           /\ RecordsFilled => RecordsFilled'
           /\ OneRecordProgresses => OneRecordProgresses'
  BY DEF Grown, Found, RecordsFilled, OneRecordProgresses, Claimed, Filled

\* A record found is put at the end, and has asked for nothing yet.
LEMMA AppendKeeps ==
    ASSUME DiscoveryInv, NEW n \in Addresses, HNodeList' = Append(HNodeList, NewProvider(n))
    PROVE  /\ HNodeList' \in Seq(Providers) /\ Grown
           /\ RecordsFilled' /\ OneRecordProgresses'
           /\ \A r \in DOMAIN HNodeList' :
                Claimed(HNodeList'[r]) => r \in DOMAIN HNodeList /\ HNodeList'[r] = HNodeList[r]
  <1> DEFINE new == NewProvider(n)
             k == Len(HNodeList)
  <1>1. new \in Providers /\ new.addr = n /\ new.TxState = "WAIT_PINFO_RPY"
    BY EmptySeq DEF NewProvider, Providers, TxStates
  <1>2. TypeOK /\ HNodeList \in Seq(Providers) /\ k \in Nat /\ DOMAIN HNodeList = 1..k
    BY RecordTypes DEF DiscoveryInv, TypeOK
  <1>3. /\ HNodeList' \in Seq(Providers) /\ Len(HNodeList') = k + 1
        /\ \A r \in 1..k : HNodeList'[r] = HNodeList[r]
        /\ HNodeList'[k + 1] = new
    <2>1. HNodeList' = Append(HNodeList, new)
      OBVIOUS
    <2>. HIDE DEF new
    <2>. QED  BY <1>1, <1>2, <2>1, AppendProperties
  <1>4. DOMAIN HNodeList' = 1..(k + 1)
    BY <1>3, LenProperties
  <1> HIDE DEF new, k
  <1>5. \A r \in 1..(k + 1) : r \in 1..k \/ r = k + 1
    BY <1>2
  <1>6. Grown
    BY <1>2, <1>3, <1>4 DEF Grown, Found
  <1>7. RecordsFilled'
    <2>1. Filled(new)
      BY <1>1 DEF Filled, Claimed
    <2>2. \A r \in DOMAIN HNodeList' : Filled(HNodeList'[r])
      BY <2>1, <1>2, <1>3, <1>4, <1>5 DEF DiscoveryInv, RecordsFilled
    <2>. QED  BY <2>2 DEF RecordsFilled, Filled, Claimed
  <1>8. OneRecordProgresses'
    <2> SUFFICES ASSUME NEW r \in 1..(k + 1), NEW s \in 1..(k + 1), r < s,
                        HNodeList'[r].addr = HNodeList'[s].addr
                 PROVE  HNodeList'[s].TxState = "WAIT_PINFO_RPY"
      BY <1>4 DEF OneRecordProgresses
    <2>1. CASE s = k + 1
      BY <2>1, <1>1, <1>3
    <2>2. CASE s \in 1..k
      <3>1. r \in 1..k
        BY <2>2, <1>2
      <3>. QED  BY <2>2, <3>1, <1>2, <1>3 DEF DiscoveryInv, OneRecordProgresses
    <2>. QED  BY <2>1, <2>2, <1>5
  <1>9. \A r \in DOMAIN HNodeList' : Claimed(HNodeList'[r]) =>
             r \in DOMAIN HNodeList /\ HNodeList'[r] = HNodeList[r]
    BY <1>1, <1>2, <1>3, <1>4, <1>5 DEF Claimed
  <1>. QED  BY <1>3, <1>6, <1>7, <1>8, <1>9

\* The first record of an address takes another state.
LEMMA ReplaceKeeps ==
    ASSUME DiscoveryInv, NEW r \in DOMAIN HNodeList, NEW p \in Providers,
           HNodeList' = [HNodeList EXCEPT ![r] = p],
           p.addr = HNodeList[r].addr, Filled(p),
           \A s \in Found(p.addr) : r <= s,
           Claimed(HNodeList[r]) =>
             Claimed(p) /\ p.ServerObjID = HNodeList[r].ServerObjID,
           HNodeList[r].TxState # "READY"
    PROVE  /\ HNodeList' \in Seq(Providers) /\ Grown
           /\ DOMAIN HNodeList' = DOMAIN HNodeList /\ \A n : Found(n)' = Found(n)
           /\ HNodeList'[r] = p
           /\ \A s \in DOMAIN HNodeList : s # r => HNodeList'[s] = HNodeList[s]
           /\ RecordsFilled' /\ OneRecordProgresses'
  <1>1. /\ HNodeList \in Seq(Providers) /\ Len(HNodeList) \in Nat
        /\ DOMAIN HNodeList = 1..Len(HNodeList)
        /\ \A s \in DOMAIN HNodeList : HNodeList[s] \in Providers
    BY RecordTypes DEF DiscoveryInv, TypeOK
  <1>2. /\ HNodeList' \in Seq(Providers) /\ DOMAIN HNodeList' = DOMAIN HNodeList
        /\ HNodeList'[r] = p
        /\ \A s \in DOMAIN HNodeList : s # r => HNodeList'[s] = HNodeList[s]
    BY <1>1, ExceptSeq
  <1>3. \A s \in DOMAIN HNodeList : HNodeList'[s].addr = HNodeList[s].addr
    BY <1>2
  <1>4. \A n : Found(n)' = Found(n)
    BY <1>2, <1>3 DEF Found
  <1>5. Grown
    BY <1>2, <1>3, <1>4 DEF Grown
  <1>6. RecordsFilled'
    <2>1. \A s \in DOMAIN HNodeList' : Filled(HNodeList'[s])
      BY <1>2 DEF DiscoveryInv, RecordsFilled
    <2>. QED  BY <2>1 DEF RecordsFilled, Filled, Claimed
  <1>7. OneRecordProgresses'
    <2> SUFFICES ASSUME NEW a \in DOMAIN HNodeList, NEW b \in DOMAIN HNodeList, a < b,
                        HNodeList'[a].addr = HNodeList'[b].addr
                 PROVE  HNodeList'[b].TxState = "WAIT_PINFO_RPY"
      BY <1>2 DEF OneRecordProgresses
    <2>1. HNodeList[a].addr = HNodeList[b].addr
      BY <1>3
    <2>2. b # r
      <3> SUFFICES ASSUME b = r PROVE FALSE
        OBVIOUS
      <3>1. a \in Found(p.addr)
        BY <2>1 DEF Found
      <3>2. r <= a /\ a \in Nat /\ b \in Nat
        BY <3>1, <1>1
      <3>. QED  BY <3>2
    <2>. QED  BY <2>1, <2>2, <1>2 DEF DiscoveryInv, OneRecordProgresses
  <1>. QED  BY <1>2, <1>4, <1>5, <1>6, <1>7

--------------------------------------------------------------------------------
(* The network.                                                            *)

LEMMA DatagramType ==
    ASSUME NEW type \in Requests \cup Replies, NEW n \in Addresses, NEW r \in Nat \ {0},
           NEW tag \in Nat, NEW ep \in Nat, NEW data \in Nat
    PROVE  Datagram(type, n, r, tag, ep, data) \in Datagrams
  BY DEF Datagram, Datagrams

\* What a record sends is a request, and a claim is sent by a claimed record only.
LEMMA RequestSays ==
    ASSUME NEW r \in Nat \ {0}, NEW p \in Providers, NEW m \in TxRequest(r, p)
    PROVE  /\ m \in Datagrams /\ m.type \in Requests /\ m.addr = p.addr
           /\ m.type = "SYSINFO_REQ" =>
                p.TxState = "WAIT_SYSINFO_ACK" /\ m.data = p.ServerObjID
  <1>1. /\ p.addr \in Addresses /\ p.ReqTag \in Nat /\ p.ReqEndPoint \in Nat
        /\ p.ServerObjID \in Nat /\ p.TxState \in TxStates
    BY DEF Providers
  <1>2. CASE p.TxState = "WAIT_PINFO_RPY"
    <2>1. m = Datagram("PINFO_REQ", p.addr, r, p.ReqTag, 0, 0)
      BY <1>2 DEF TxRequest
    <2>. QED  BY <1>1, <2>1, DatagramType DEF Datagram, Requests
  <1>3. CASE p.TxState = "WAIT_EPOINT_RPY"
    <2>1. m = Datagram("EPINFO_REQ", p.addr, r, p.ReqTag, p.ReqEndPoint, 0)
      BY <1>3 DEF TxRequest
    <2>. QED  BY <1>1, <2>1, DatagramType DEF Datagram, Requests
  <1>4. CASE p.TxState = "WAIT_SYSINFO_ACK"
    <2>1. m = Datagram("SYSINFO_REQ", p.addr, r, p.ReqTag, 0, p.ServerObjID)
      BY <1>4 DEF TxRequest
    <2>. QED  BY <1>1, <1>4, <2>1, DatagramType DEF Datagram, Requests
  <1>5. CASE p.TxState = "READY"
    BY <1>5 DEF TxRequest
  <1>. QED  BY <1>1, <1>2, <1>3, <1>4, <1>5 DEF TxStates

\* A node's answer tells what it is asked for.
LEMMA AnswerSays ==
    ASSUME NEW m \in Datagrams, m.type \in Requests
    PROVE  /\ Answer(m) \in Datagrams
           /\ Answer(m).type \in Replies
           /\ Answer(m).type = "PINFO_RPY" => Answer(m).data = EndPointCount[NodeOf(Answer(m).addr)]
           /\ Answer(m).type = "EPINFO_RPY" => Answer(m).data = Answer(m).ep + 1
  <1>1. /\ m.addr \in Addresses /\ m.rec \in Nat \ {0} /\ m.tag \in Nat /\ m.ep \in Nat
        /\ m.ep + 1 \in Nat /\ EndPointCount[NodeOf(m.addr)] \in Nat
    BY NodeOfType, ConstantsAssumption DEF Datagrams
  <1>2. CASE m.type = "PINFO_REQ"
    <2>1. Answer(m) = Datagram("PINFO_RPY", m.addr, m.rec, m.tag, 0,
                             EndPointCount[NodeOf(m.addr)])
      BY <1>2 DEF Answer
    <2>2. Answer(m) \in Datagrams
      BY <1>1, <2>1 DEF Datagram, Datagrams, Replies
    <2>. QED  BY <2>1, <2>2 DEF Datagram, Replies
  <1>3. CASE m.type = "EPINFO_REQ"
    <2>1. Answer(m) = Datagram("EPINFO_RPY", m.addr, m.rec, m.tag, m.ep, m.ep + 1)
      BY <1>3 DEF Answer
    <2>2. Answer(m) \in Datagrams
      BY <1>1, <2>1 DEF Datagram, Datagrams, Replies
    <2>. QED  BY <2>1, <2>2 DEF Datagram, Replies
  <1>4. CASE m.type = "SYSINFO_REQ"
    <2>1. Answer(m) = Datagram("SYSINFO_ACK", m.addr, m.rec, m.tag, 0, 0)
      BY <1>4 DEF Answer
    <2>2. Answer(m) \in Datagrams
      BY <1>1, <2>1 DEF Datagram, Datagrams, Replies
    <2>. QED  BY <2>1, <2>2 DEF Datagram, Replies
  <1>. QED  BY <1>2, <1>3, <1>4 DEF Requests

\* The network after a step: datagrams that were there, and true new ones.
LEMMA WireKeeps ==
    ASSUME DiscoveryInv, Grown, NEW sent, net' \subseteq net \cup sent,
           \A m \in sent : m \in Datagrams /\ Says(m)'
    PROVE  net' \subseteq Datagrams /\ WireSays'
  <1>1. \A m \in net : m \in Datagrams /\ Says(m)
    BY DEF DiscoveryInv, TypeOK, WireSays
  <1>2. ASSUME NEW m \in net PROVE Says(m)'
    BY <1>1, KnowledgeStays DEF Says
  <1>. QED  BY <1>1, <1>2 DEF WireSays

LEMMA WireShrinks ==
    ASSUME DiscoveryInv, Grown, net' \subseteq net
    PROVE  net' \subseteq Datagrams /\ WireSays'
  <1> DEFINE sent == {}
  <1>1. net' \subseteq net \cup sent /\ \A m \in sent : m \in Datagrams /\ Says(m)'
    OBVIOUS
  <1> HIDE DEF sent
  <1>. QED  BY <1>1, WireKeeps

LEMMA DeliverBounds ==
    ASSUME NEW m, NEW sent, Deliver(m, sent)
    PROVE  net' \subseteq net \cup sent
  BY DEF Deliver

--------------------------------------------------------------------------------
(* The steps.                                                              *)

\* What one step does to the registry that the rest of the server sees.
RegistryStep ==
    \/ \E a \in Addresses : Registry!Find(a) \/ Registry!Expose(a)
    \/ UNCHANGED <<{HNodeList[r].addr : r \in DOMAIN HNodeList}, exposed>>

\* The node information after a step in which the records only grew.
LEMMA NodesKeep ==
    ASSUME DiscoveryInv, Grown, node' = node, port' = port
    PROVE  NodesHold'
  <1>1. ASSUME NEW n \in Nodes, node'[n].ServerValid
        PROVE  Knows(Address(n), node[n].ServerObjID)'
    <2>1. Knows(Address(n), node[n].ServerObjID)
      BY <1>1 DEF DiscoveryInv, NodesHold
    <2>2. PICK a, id : a = Address(n) /\ id = node[n].ServerObjID
      OBVIOUS
    <2>3. Knows(a, id)'
      BY <2>1, <2>2, KnowledgeStays
    <2>4. Address(n)' = a /\ node'[n].ServerObjID = id
      BY <2>2 DEF Address
    <2>. QED  BY <2>3, <2>4 DEF Knows, Found
  <1>. QED  BY <1>1 DEF NodesHold

LEMMA ExposedKeep ==
    ASSUME DiscoveryInv, Grown, exposed' = exposed
    PROVE  ExposedReady'
  <1> SUFFICES ASSUME NEW n \in Addresses, IsExposed(n)'
               PROVE  \E r \in Found(n)' : HNodeList'[r].TxState = "READY"
    BY DEF ExposedReady
  <1>1. IsExposed(n)
    BY DEF IsExposed
  <1>2. PICK r \in Found(n) : HNodeList[r].TxState = "READY"
    BY <1>1 DEF DiscoveryInv, ExposedReady
  <1>3. r \in Found(n)' /\ r \in DOMAIN HNodeList
    BY DEF Found, Grown
  <1>. QED  BY <1>2, <1>3 DEF Grown

LEMMA ResolveStep ==
    ASSUME DiscoveryInv, NEW node0 \in Nodes, Resolve(node0)
    PROVE  DiscoveryInv' /\ RegistryStep
  <1>0. PICK n \in Addresses : n = Address(node0)
    BY AddressType DEF DiscoveryInv
  <1>1. /\ HNodeList' = Append(HNodeList, NewProvider(n))
        /\ net' = net \cup TxRequest(Len(HNodeList) + 1, NewProvider(n))
        /\ UNCHANGED <<port, NextProviderID, node, exposed, restarts>>
    BY <1>0 DEF Resolve
  <1>2. /\ HNodeList' \in Seq(Providers) /\ Grown
        /\ RecordsFilled' /\ OneRecordProgresses'
        /\ \A r \in DOMAIN HNodeList' :
             Claimed(HNodeList'[r]) => r \in DOMAIN HNodeList /\ HNodeList'[r] = HNodeList[r]
    BY <1>1, AppendKeeps
  <1>3. TypeOK /\ Len(HNodeList) \in Nat /\ DOMAIN HNodeList = 1..Len(HNodeList)
    BY RecordTypes DEF DiscoveryInv
  <1>4. /\ NewProvider(n) \in Providers /\ NewProvider(n).TxState = "WAIT_PINFO_RPY"
        /\ NewProvider(n).addr = n
    BY EmptySeq DEF NewProvider, Providers, TxStates
  <1>5. net' \subseteq Datagrams /\ WireSays'
    <2>1. ASSUME NEW m \in TxRequest(Len(HNodeList) + 1, NewProvider(n))
          PROVE  m \in Datagrams /\ Says(m)'
      <3>1. /\ m \in Datagrams /\ m.type \in Requests
            /\ m.type = "SYSINFO_REQ" => NewProvider(n).TxState = "WAIT_SYSINFO_ACK"
        BY <1>3, <1>4, RequestSays
      <3>. QED  BY <3>1, <1>4 DEF Says, Requests
    <2>. QED  BY <1>1, <1>2, <2>1, WireKeeps
  <1>6. TypeOK'
    BY <1>1, <1>2, <1>3, <1>5 DEF TypeOK
  <1>7. IdsGiven'
    <2>1. IdsGiven
      BY DEF DiscoveryInv
    <2>. QED  BY <1>1, <1>2, <2>1 DEF IdsGiven, Claimed
  <1>8. NodesHold' /\ ExposedReady'
    BY <1>1, <1>2, NodesKeep, ExposedKeep
  <1>9. Registry!Find(n)
    <2>1. /\ Len(HNodeList') = Len(HNodeList) + 1
          /\ \A r \in 1..Len(HNodeList) : HNodeList'[r] = HNodeList[r]
          /\ HNodeList'[Len(HNodeList) + 1] = NewProvider(n)
      BY <1>1, <1>3, <1>4, AppendProperties DEF TypeOK
    <2>2. DOMAIN HNodeList' = 1..(Len(HNodeList) + 1)
      BY <1>2, <2>1, LenProperties
    <2>3. \A r \in DOMAIN HNodeList' : r \in DOMAIN HNodeList \/ r = Len(HNodeList) + 1
      BY <1>3, <2>2
    <2>4. {HNodeList[r].addr : r \in DOMAIN HNodeList}'
            = {HNodeList[r].addr : r \in DOMAIN HNodeList} \cup {n}
      BY <1>3, <1>4, <2>1, <2>2, <2>3
    <2>. QED  BY <1>1, <2>4 DEF Registry!Find
  <1>. QED  BY <1>2, <1>5, <1>6, <1>7, <1>8, <1>9 DEF DiscoveryInv, RegistryStep

\* A step of the node or of the network leaves the records alone.
LEMMA OutsideStep ==
    ASSUME DiscoveryInv, UNCHANGED <<HNodeList, NextProviderID, exposed>>,
           net' \subseteq Datagrams, WireSays', NodesHold', restarts' \in Nat,
           port' \in [Nodes -> Ports],
           node' \in [Nodes -> [ServerValid : BOOLEAN, ServerObjID : Nat]]
    PROVE  DiscoveryInv' /\ RegistryStep
  <1>1. Grown /\ RecordsFilled' /\ OneRecordProgresses'
    BY ListUnchanged DEF DiscoveryInv
  <1>2. ExposedReady'
    BY <1>1, ExposedKeep
  <1>3. IdsGiven'
    BY DEF DiscoveryInv, IdsGiven, Claimed
  <1>4. TypeOK'
    BY DEF DiscoveryInv, TypeOK
  <1>5. RegistryStep
    BY DEF RegistryStep
  <1>. QED  BY <1>1, <1>2, <1>3, <1>4, <1>5 DEF DiscoveryInv

LEMMA NodeRxStep ==
    ASSUME DiscoveryInv, NEW m \in net, NodeRx(m)
    PROVE  DiscoveryInv' /\ RegistryStep
  <1>1. /\ m \in Datagrams /\ m.type \in Requests /\ Deliver(m, {Answer(m)})
        /\ UNCHANGED <<port, HNodeList, NextProviderID, exposed, restarts>>
        /\ m.addr = Address(NodeOf(m.addr))
    BY DEF NodeRx, DiscoveryInv, TypeOK
  <1>2. Grown
    BY <1>1, ListUnchanged
  <1>3. net' \subseteq Datagrams /\ WireSays'
    <2> DEFINE sent == {Answer(m)}
    <2>1. net' \subseteq net \cup sent
      BY <1>1, DeliverBounds
    <2>2. \A x \in sent : x \in Datagrams /\ Says(x)'
      BY <1>1, AnswerSays DEF Says, Replies
    <2>. HIDE DEF sent
    <2>. QED  BY <1>2, <2>1, <2>2, WireKeeps
  <1>4. /\ node' \in [Nodes -> [ServerValid : BOOLEAN, ServerObjID : Nat]] /\ NodesHold'
    <2>1. CASE m.type # "SYSINFO_REQ"
      <3>1. node' = node
        BY <2>1 DEF NodeRx
      <3>. QED  BY <3>1, <1>1, <1>2, NodesKeep DEF DiscoveryInv, TypeOK
    <2>2. CASE m.type = "SYSINFO_REQ"
      <3>0. PICK k : k = NodeOf(m.addr)
        OBVIOUS
      <3>1. /\ node' = [node EXCEPT ![k] = [ServerValid |-> TRUE, ServerObjID |-> m.data]]
            /\ k \in Nodes /\ m.data \in Nat
        BY <1>1, <2>2, <3>0, NodeOfType DEF NodeRx, Datagrams
      <3>2. node \in [Nodes -> [ServerValid : BOOLEAN, ServerObjID : Nat]]
        BY DEF DiscoveryInv, TypeOK
      <3>3. Knows(m.addr, m.data)
        BY <2>2 DEF DiscoveryInv, WireSays, Says
      <3>4. ASSUME NEW n \in Nodes, node'[n].ServerValid
            PROVE  Knows(Address(n), node'[n].ServerObjID)
        <4>1. CASE n = k
          BY <1>1, <3>0, <3>1, <3>2, <3>3, <4>1
        <4>2. CASE n # k
          <5>1. node'[n] = node[n]
            BY <3>1, <3>2, <4>2
          <5>. QED  BY <3>4, <5>1 DEF DiscoveryInv, NodesHold
        <4>. QED  BY <4>1, <4>2
      <3>5. NodesHold'
        BY <1>1, <3>4 DEF NodesHold, Knows, Found, Claimed, Address
      <3>. QED  BY <3>1, <3>2, <3>5
    <2>. QED  BY <2>1, <2>2
  <1>5. restarts' \in Nat /\ port' \in [Nodes -> Ports]
    BY <1>1 DEF DiscoveryInv, TypeOK
  <1>. QED  BY <1>1, <1>3, <1>4, <1>5, OutsideStep

LEMMA RestartStep ==
    ASSUME DiscoveryInv, NEW n \in Nodes, NodeRestart(n)
    PROVE  DiscoveryInv' /\ RegistryStep
  <1>0. PICK p \in Ports : port' = [port EXCEPT ![n] = p]
    BY DEF NodeRestart
  <1>1. /\ node' = [node EXCEPT ![n] = NoServer]
        /\ restarts' = restarts + 1
        /\ UNCHANGED <<HNodeList, NextProviderID, net, exposed>>
    BY DEF NodeRestart
  <1>2. /\ node \in [Nodes -> [ServerValid : BOOLEAN, ServerObjID : Nat]]
        /\ restarts \in Nat /\ port \in [Nodes -> Ports]
    BY DEF DiscoveryInv, TypeOK
  <1>3. /\ node' \in [Nodes -> [ServerValid : BOOLEAN, ServerObjID : Nat]]
        /\ restarts' \in Nat /\ port' \in [Nodes -> Ports]
    BY <1>0, <1>1, <1>2 DEF NoServer
  <1>4. \A k \in Nodes : node'[k].ServerValid => node'[k] = node[k] /\ port'[k] = port[k]
    BY <1>0, <1>1, <1>2 DEF NoServer
  <1>5. NodesHold'
    <2> SUFFICES ASSUME NEW k \in Nodes, node'[k].ServerValid
                 PROVE  Knows(Address(k), node[k].ServerObjID)'
      BY DEF NodesHold
    <2>1. node'[k] = node[k] /\ Address(k)' = Address(k)
      BY <1>4 DEF Address
    <2>2. Knows(Address(k), node[k].ServerObjID)
      BY <2>1 DEF DiscoveryInv, NodesHold
    <2>. QED  BY <1>1, <2>1, <2>2 DEF Knows, Found, Claimed
  <1>6. Grown
    BY <1>1, ListUnchanged
  <1>7. net' \subseteq Datagrams /\ WireSays'
    BY <1>1, <1>6, WireShrinks
  <1>. QED  BY <1>1, <1>3, <1>5, <1>7, OutsideStep

\* A datagram that gets nowhere: lost, or sent to a port that its node has left.
LEMMA LoseStep ==
    ASSUME DiscoveryInv, NEW m \in net, NetLose(m) \/ NodeGone(m)
    PROVE  DiscoveryInv' /\ RegistryStep
  <1>1. /\ net' \subseteq net
        /\ UNCHANGED <<port, HNodeList, NextProviderID, node, exposed, restarts>>
    BY DEF NetLose, NodeGone
  <1>2. Grown
    BY <1>1, ListUnchanged
  <1>3. net' \subseteq Datagrams /\ WireSays'
    BY <1>1, <1>2, WireShrinks
  <1>4. NodesHold'
    BY <1>1, <1>2, NodesKeep
  <1>. QED  BY <1>1, <1>3, <1>4, OutsideStep DEF DiscoveryInv, TypeOK

--------------------------------------------------------------------------------
(* What the server takes from the network.                                 *)

\* A record that is the first of its address takes another state: what is left to
\* show is what is reported, and that its id is its own.
LEMMA RecordStep ==
    ASSUME DiscoveryInv, NEW m \in net, NEW r \in DOMAIN HNodeList, NEW p \in Providers,
           ClaimsPacket(r, m), Step(r, m, p),
           p.addr = HNodeList[r].addr, Filled(p),
           Claimed(HNodeList[r]) =>
             Claimed(p) /\ p.ServerObjID = HNodeList[r].ServerObjID,
           HNodeList[r].TxState # "READY",
           UNCHANGED <<port, node, restarts>>, NextProviderID' \in Nat, exposed' \in Seq(Addresses)
    PROVE  /\ TypeOK' /\ WireSays' /\ RecordsFilled' /\ OneRecordProgresses' /\ NodesHold'
           /\ Grown /\ DOMAIN HNodeList' = DOMAIN HNodeList /\ \A n : Found(n)' = Found(n)
           /\ HNodeList'[r] = p
           /\ \A s \in DOMAIN HNodeList : s # r => HNodeList'[s] = HNodeList[s]
           /\ {HNodeList[s].addr : s \in DOMAIN HNodeList}'
                = {HNodeList[s].addr : s \in DOMAIN HNodeList}
  <1>1. HNodeList' = [HNodeList EXCEPT ![r] = p] /\ Deliver(m, TxRequest(r, p))
    BY DEF Step
  <1>2. \A s \in Found(p.addr) : r <= s
    BY DEF ClaimsPacket
  <1>3. /\ HNodeList' \in Seq(Providers) /\ Grown
        /\ DOMAIN HNodeList' = DOMAIN HNodeList /\ \A n : Found(n)' = Found(n)
        /\ HNodeList'[r] = p
        /\ \A s \in DOMAIN HNodeList : s # r => HNodeList'[s] = HNodeList[s]
        /\ RecordsFilled' /\ OneRecordProgresses'
    BY <1>1, <1>2, ReplaceKeeps
  <1>4. r \in Nat \ {0} /\ TypeOK
    BY RecordTypes DEF DiscoveryInv
  <1>5. net' \subseteq Datagrams /\ WireSays'
    <2>1. ASSUME NEW x \in TxRequest(r, p) PROVE x \in Datagrams /\ Says(x)'
      <3>1. /\ x \in Datagrams /\ x.type \in Requests /\ x.addr = p.addr
            /\ x.type = "SYSINFO_REQ" =>
                 p.TxState = "WAIT_SYSINFO_ACK" /\ x.data = p.ServerObjID
        BY <1>4, RequestSays
      <3>2. ASSUME x.type = "SYSINFO_REQ" PROVE Knows(x.addr, x.data)'
        <4>1. r \in Found(x.addr)'
          BY <1>3, <3>1 DEF Found
        <4>2. Claimed(HNodeList'[r]) /\ HNodeList'[r].ServerObjID = x.data
          BY <1>3, <3>1, <3>2 DEF Claimed
        <4>. QED  BY <4>1, <4>2 DEF Knows, Claimed
      <3>. QED  BY <3>1, <3>2 DEF Says, Requests
    <2>2. net' \subseteq net \cup TxRequest(r, p)
      BY <1>1, DeliverBounds
    <2>. QED  BY <1>3, <2>1, <2>2, WireKeeps
  <1>6. TypeOK'
    BY <1>3, <1>4, <1>5 DEF TypeOK
  <1>7. NodesHold'
    BY <1>3, NodesKeep
  <1>8. {HNodeList[s].addr : s \in DOMAIN HNodeList}' = {HNodeList[s].addr : s \in DOMAIN HNodeList}
    <2>1. \A s \in DOMAIN HNodeList : HNodeList'[s].addr = HNodeList[s].addr
      BY <1>3
    <2>. QED  BY <1>3, <2>1
  <1>. QED  BY <1>3, <1>5, <1>6, <1>7, <1>8

LEMMA PInfoReplyStep ==
    ASSUME DiscoveryInv, NEW m \in net, NEW r \in DOMAIN HNodeList,
           ClaimsPacket(r, m), RxPInfoReply(r, m), UNCHANGED <<port, node, restarts>>
    PROVE  DiscoveryInv' /\ RegistryStep
  <1> DEFINE q == HNodeList[r]
             p == [q EXCEPT !.EndPoints = [i \in 1..m.data |-> 0],
                            !.ReqTag = @ + 1, !.ReqEndPoint = 0,
                            !.TxState = "WAIT_EPOINT_RPY"]
  <1>1. /\ Step(r, m, p) /\ UNCHANGED <<NextProviderID, exposed>>
        /\ q.TxState = "WAIT_PINFO_RPY" /\ m.type = "PINFO_RPY" /\ q.addr = m.addr
    BY DEF RxPInfoReply, AwaitsPInfo, ClaimsPacket
  <1>2. q \in Providers /\ m \in Datagrams /\ TypeOK
    BY RecordTypes DEF DiscoveryInv, TypeOK
  <1>3. m.data = EndPointCount[NodeOf(q.addr)] /\ m.data \in Nat \ {0}
    <2>1. m.data = EndPointCount[NodeOf(m.addr)]
      BY <1>1 DEF DiscoveryInv, WireSays, Says
    <2>. QED  BY <1>1, <1>2, <2>1, NodeOfType, ConstantsAssumption DEF Providers
  <1>4. [i \in 1..m.data |-> 0] \in Seq(Nat) /\ Len([i \in 1..m.data |-> 0]) = m.data
    BY <1>3
  <1>5. p \in Providers /\ p.addr = q.addr
    <2> DEFINE slots == [i \in 1..m.data |-> 0]
    <2>1. slots \in Seq(Nat) /\ "WAIT_EPOINT_RPY" \in TxStates /\ q.ReqTag + 1 \in Nat
      BY <1>2, <1>4 DEF TxStates, Providers
    <2>2. p = [q EXCEPT !.EndPoints = slots, !.ReqTag = @ + 1, !.ReqEndPoint = 0,
                        !.TxState = "WAIT_EPOINT_RPY"]
      OBVIOUS
    <2>. HIDE DEF slots, q, p
    <2>. QED  BY <1>2, <2>1, <2>2 DEF Providers
  <1>6. Filled(p)
    <2>1. /\ p.TxState = "WAIT_EPOINT_RPY" /\ p.ReqEndPoint = 0 /\ p.addr = q.addr
          /\ p.EndPoints = [i \in 1..m.data |-> 0]
      BY <1>2 DEF Providers
    <2>. HIDE DEF p
    <2>. QED  BY <1>3, <1>4, <2>1 DEF Filled, Claimed
  <1>7. ~Claimed(q) /\ ~Claimed(p) /\ q.TxState # "READY"
    BY <1>1, <1>2 DEF Claimed, Providers
  <1>8. NextProviderID' \in Nat /\ exposed' \in Seq(Addresses)
    BY <1>1, <1>2 DEF TypeOK
  <1> HIDE DEF p
  <1>9. /\ TypeOK' /\ WireSays' /\ RecordsFilled' /\ OneRecordProgresses' /\ NodesHold'
        /\ Grown /\ DOMAIN HNodeList' = DOMAIN HNodeList
        /\ HNodeList'[r] = p
        /\ \A s \in DOMAIN HNodeList : s # r => HNodeList'[s] = HNodeList[s]
        /\ {HNodeList[s].addr : s \in DOMAIN HNodeList}'
             = {HNodeList[s].addr : s \in DOMAIN HNodeList}
    BY <1>1, <1>5, <1>6, <1>7, <1>8, RecordStep
  <1>10. ExposedReady'
    BY <1>1, <1>9, ExposedKeep
  <1>11. IdsGiven'
    <2>1. IdsGiven
      BY DEF DiscoveryInv
    <2>. QED  BY <1>1, <1>7, <1>9, <2>1 DEF IdsGiven, Claimed
  <1>. QED  BY <1>1, <1>9, <1>10, <1>11 DEF DiscoveryInv, RegistryStep

LEMMA EPointReplyStep ==
    ASSUME DiscoveryInv, NEW m \in net, NEW r \in DOMAIN HNodeList,
           ClaimsPacket(r, m), RxEPointReply(r, m), UNCHANGED <<port, node, restarts>>
    PROVE  DiscoveryInv' /\ RegistryStep
  <1> DEFINE q == HNodeList[r]
             N == EndPointCount[NodeOf(q.addr)]
             parsed == ParseEPoint(q, m)
             claim == [parsed EXCEPT !.TxState = "WAIT_SYSINFO_ACK",
                                     !.ServerObjID = NextProviderID]
  <1>1. /\ q.TxState = "WAIT_EPOINT_RPY" /\ m.type = "EPINFO_RPY"
        /\ m.ep = q.ReqEndPoint
        /\ exposed' = exposed
    BY DEF RxEPointReply, AwaitsEPoint
  <1>2. q \in Providers /\ TypeOK /\ NextProviderID \in Nat
    BY RecordTypes DEF DiscoveryInv, TypeOK
  <1>3. m.data = q.ReqEndPoint + 1
    BY <1>1 DEF DiscoveryInv, WireSays, Says
  <1>4. /\ q.EndPoints \in Seq(Nat) /\ q.ReqEndPoint \in Nat /\ N \in Nat
        /\ Len(q.EndPoints) = N /\ q.ReqEndPoint < N
        /\ \A i \in 1..q.ReqEndPoint : q.EndPoints[i] = i
    <2>1. Filled(q)
      BY DEF DiscoveryInv, RecordsFilled
    <2>2. N \in Nat
      BY <1>2, NodeOfType, ConstantsAssumption DEF Providers
    <2>. QED  BY <1>1, <1>2, <2>1, <2>2 DEF Filled, Providers
  <1> DEFINE k == q.ReqEndPoint
             eps == [q.EndPoints EXCEPT ![k + 1] = k + 1]
  <1>5. /\ eps \in Seq(Nat) /\ Len(eps) = N
        /\ \A i \in 1..(k + 1) : eps[i] = i
    <2>1. k + 1 \in 1..Len(q.EndPoints) /\ k + 1 \in Nat
      BY <1>4
    <2>2. /\ eps \in Seq(Nat) /\ Len(eps) = Len(q.EndPoints)
          /\ \A j \in 1..Len(q.EndPoints) : eps[j] = IF j = k + 1 THEN k + 1 ELSE q.EndPoints[j]
      BY <1>4, <2>1, ExceptSeq
    <2>3. \A i \in 1..(k + 1) : i \in 1..Len(q.EndPoints) /\ (i = k + 1 \/ i \in 1..k)
      BY <1>4, <2>1
    <2>. HIDE DEF eps, k, q
    <2>. QED  BY <1>4, <2>2, <2>3 DEF k
  <1>6. /\ parsed \in Providers /\ parsed.addr = q.addr /\ parsed.EndPoints = eps
        /\ parsed.ReqEndPoint = k + 1 /\ parsed.TxState = "WAIT_EPOINT_RPY"
    <2>1. parsed = [q EXCEPT !.EndPoints = eps, !.ReqTag = @ + 1, !.ReqEndPoint = @ + 1]
      BY <1>2, <1>3 DEF ParseEPoint, Providers
    <2>2. q.ReqTag + 1 \in Nat /\ q.ReqEndPoint + 1 \in Nat
      BY <1>2 DEF Providers
    <2>. HIDE DEF eps, parsed, q
    <2>. QED  BY <1>1, <1>2, <1>5, <2>1, <2>2 DEF Providers
  <1> HIDE DEF parsed, eps
  <1>7. ~Claimed(q) /\ q.TxState # "READY" /\ NextProviderID' \in Nat /\ exposed' \in Seq(Addresses)
    BY <1>1, <1>2 DEF Claimed, TypeOK, RxEPointReply
  <1>8. IdsGiven
    BY DEF DiscoveryInv
  <1>9. CASE k + 1 < N
    <2>1. Step(r, m, parsed) /\ NextProviderID' = NextProviderID
      BY <1>5, <1>6, <1>9, <1>4 DEF RxEPointReply, parsed
    <2>2. Filled(parsed) /\ ~Claimed(parsed)
      BY <1>5, <1>6, <1>9 DEF Filled, Claimed
    <2>3. /\ TypeOK' /\ WireSays' /\ RecordsFilled' /\ OneRecordProgresses' /\ NodesHold'
          /\ Grown /\ DOMAIN HNodeList' = DOMAIN HNodeList
          /\ HNodeList'[r] = parsed
          /\ \A s \in DOMAIN HNodeList : s # r => HNodeList'[s] = HNodeList[s]
          /\ {HNodeList[s].addr : s \in DOMAIN HNodeList}'
               = {HNodeList[s].addr : s \in DOMAIN HNodeList}
      BY <1>6, <1>7, <2>1, <2>2, RecordStep
    <2>4. ExposedReady'
      BY <1>1, <2>3, ExposedKeep
    <2>5. IdsGiven'
      BY <1>8, <2>1, <2>2, <2>3 DEF IdsGiven, Claimed
    <2>. QED  BY <1>1, <2>3, <2>4, <2>5 DEF DiscoveryInv, RegistryStep
  <1>10. CASE ~(k + 1 < N)
    <2>1. Step(r, m, claim) /\ NextProviderID' = NextProviderID + 1
      BY <1>5, <1>6, <1>10, <1>4 DEF RxEPointReply, parsed
    <2>2. /\ claim \in Providers /\ claim.addr = q.addr /\ claim.EndPoints = eps
          /\ claim.TxState = "WAIT_SYSINFO_ACK" /\ claim.ServerObjID = NextProviderID
      BY <1>2, <1>6 DEF Providers, TxStates
    <2> HIDE DEF claim
    <2>3. eps = [i \in 1..N |-> i]
      <3>1. k + 1 = N
        BY <1>4, <1>10
      <3>2. [i \in 1..N |-> i] \in Seq(Nat) /\ Len([i \in 1..N |-> i]) = N
        BY <1>4
      <3>3. \A i \in 1..Len(eps) : eps[i] = [j \in 1..N |-> j][i]
        BY <1>5, <3>1
      <3>. QED  BY <1>5, <3>2, <3>3, SeqEqual
    <2>4. Filled(claim) /\ Claimed(claim)
      BY <2>2, <2>3 DEF Filled, Claimed
    <2>5. /\ TypeOK' /\ WireSays' /\ RecordsFilled' /\ OneRecordProgresses' /\ NodesHold'
          /\ Grown /\ DOMAIN HNodeList' = DOMAIN HNodeList
          /\ HNodeList'[r] = claim
          /\ \A s \in DOMAIN HNodeList : s # r => HNodeList'[s] = HNodeList[s]
          /\ {HNodeList[s].addr : s \in DOMAIN HNodeList}'
               = {HNodeList[s].addr : s \in DOMAIN HNodeList}
      BY <1>7, <2>1, <2>2, <2>4, RecordStep
    <2>6. ExposedReady'
      BY <1>1, <2>5, ExposedKeep
    <2>7. IdsGiven'
      <3>1. \A s \in DOMAIN HNodeList : HNodeList[s] \in Providers
        BY <1>2, RecordTypes
      <3>2. \A s \in DOMAIN HNodeList : s # r /\ Claimed(HNodeList'[s]) =>
               HNodeList'[s].ServerObjID < NextProviderID
        BY <1>8, <2>5 DEF IdsGiven
      <3>3. \A s \in DOMAIN HNodeList : HNodeList'[s].ServerObjID \in Nat
        BY <1>2, <2>2, <2>5, <3>1 DEF Providers
      <3>4. \A s \in DOMAIN HNodeList' : Claimed(HNodeList'[s]) =>
               HNodeList'[s].ServerObjID < NextProviderID'
        BY <1>2, <2>1, <2>2, <2>5, <3>2, <3>3
      <3>5. \A s, t \in DOMAIN HNodeList' :
               /\ Claimed(HNodeList'[s]) /\ Claimed(HNodeList'[t])
               /\ HNodeList'[s].ServerObjID = HNodeList'[t].ServerObjID
               => s = t
        BY <1>2, <1>8, <2>2, <2>5, <3>2, <3>3 DEF IdsGiven
      <3>. QED  BY <3>4, <3>5 DEF IdsGiven, Claimed
    <2>. QED  BY <1>1, <2>5, <2>6, <2>7 DEF DiscoveryInv, RegistryStep
  <1>. QED  BY <1>9, <1>10

LEMMA ClaimReplyStep ==
    ASSUME DiscoveryInv, NEW m \in net, NEW r \in DOMAIN HNodeList,
           ClaimsPacket(r, m), RxClaimReply(r, m), UNCHANGED <<port, node, restarts>>
    PROVE  DiscoveryInv' /\ RegistryStep
  <1> DEFINE q == HNodeList[r]
             p == [q EXCEPT !.ReqTag = @ + 1, !.TxState = "READY"]
  <1>1. /\ Step(r, m, p) /\ NextProviderID' = NextProviderID
        /\ exposed' = Append(exposed, q.addr)
        /\ q.TxState = "WAIT_SYSINFO_ACK" /\ q.addr = m.addr
    BY DEF RxClaimReply, AwaitsAck, ClaimsPacket
  <1>2. q \in Providers /\ TypeOK
    BY RecordTypes DEF DiscoveryInv
  <1>3. /\ p \in Providers /\ p.addr = q.addr /\ p.TxState = "READY"
        /\ p.EndPoints = q.EndPoints /\ p.ServerObjID = q.ServerObjID
    <2>1. q.ReqTag + 1 \in Nat
      BY <1>2 DEF Providers
    <2>. HIDE DEF q
    <2>. QED  BY <1>2, <2>1 DEF Providers, TxStates
  <1> HIDE DEF p
  <1>4. Filled(p)
    <2>1. Filled(q)
      BY DEF DiscoveryInv, RecordsFilled
    <2>. QED  BY <1>1, <1>3, <2>1 DEF Filled, Claimed
  <1>5. Claimed(q) /\ Claimed(p) /\ q.TxState # "READY"
    BY <1>1, <1>3 DEF Claimed
  <1>6. /\ exposed \in Seq(Addresses) /\ q.addr \in Addresses
        /\ exposed' \in Seq(Addresses) /\ NextProviderID' \in Nat
    <2>1. exposed \in Seq(Addresses) /\ q.addr \in Addresses
      BY <1>2 DEF TypeOK, Providers
    <2>. QED  BY <1>1, <1>2, <2>1, AppendProperties DEF TypeOK
  <1>7. /\ TypeOK' /\ WireSays' /\ RecordsFilled' /\ OneRecordProgresses' /\ NodesHold'
        /\ Grown /\ DOMAIN HNodeList' = DOMAIN HNodeList /\ \A n : Found(n)' = Found(n)
        /\ HNodeList'[r] = p
        /\ \A s \in DOMAIN HNodeList : s # r => HNodeList'[s] = HNodeList[s]
        /\ {HNodeList[s].addr : s \in DOMAIN HNodeList}'
             = {HNodeList[s].addr : s \in DOMAIN HNodeList}
    BY <1>1, <1>3, <1>4, <1>5, <1>6, RecordStep
  <1>8. IdsGiven'
    <2>1. IdsGiven
      BY DEF DiscoveryInv
    <2>2. \A s \in DOMAIN HNodeList :
             /\ Claimed(HNodeList'[s]) <=> Claimed(HNodeList[s])
             /\ Claimed(HNodeList[s]) => HNodeList'[s].ServerObjID = HNodeList[s].ServerObjID
      BY <1>3, <1>5, <1>7
    <2>. QED  BY <1>1, <1>7, <2>1, <2>2 DEF IdsGiven, Claimed
  <1>9. /\ Len(exposed') = Len(exposed) + 1 /\ Len(exposed) \in Nat
        /\ \A i \in 1..Len(exposed) : exposed'[i] = exposed[i]
        /\ exposed'[Len(exposed) + 1] = q.addr
        /\ DOMAIN exposed = 1..Len(exposed) /\ DOMAIN exposed' = 1..(Len(exposed) + 1)
    BY <1>1, <1>6, AppendProperties, LenProperties
  <1>10. ExposedReady'
    <2> SUFFICES ASSUME NEW n \in Addresses, NEW i \in DOMAIN exposed', exposed'[i] = n
                 PROVE  \E s \in Found(n)' : HNodeList'[s].TxState = "READY"
      BY DEF ExposedReady, IsExposed
    <2>1. CASE n = q.addr
      <3>1. r \in Found(n)
        BY <2>1 DEF Found
      <3>. QED  BY <1>3, <1>7, <3>1
    <2>2. CASE n # q.addr
      <3>1. i \in 1..Len(exposed) /\ exposed[i] = n
        BY <1>9, <2>2
      <3>2. IsExposed(n)
        BY <1>9, <3>1 DEF IsExposed
      <3>3. PICK s \in Found(n) : HNodeList[s].TxState = "READY"
        BY <3>2 DEF DiscoveryInv, ExposedReady
      <3>4. s # r /\ s \in DOMAIN HNodeList
        BY <2>2 DEF Found
      <3>. QED  BY <1>7, <3>3, <3>4
    <2>. QED  BY <2>1, <2>2
  <1>11. ~IsExposed(q.addr)
    <2> SUFFICES ASSUME IsExposed(q.addr) PROVE FALSE
      OBVIOUS
    <2>1. PICK s \in Found(q.addr) : HNodeList[s].TxState = "READY"
      BY <1>6 DEF DiscoveryInv, ExposedReady
    <2>2. s \in DOMAIN HNodeList /\ HNodeList[s].addr = q.addr /\ s # r
      BY <1>1, <2>1 DEF Found
    <2>3. s < r \/ r < s
      BY <1>2, <2>2, RecordTypes
    <2>4. OneRecordProgresses
      BY DEF DiscoveryInv
    <2>5. HNodeList[r].TxState = "WAIT_PINFO_RPY" \/ HNodeList[s].TxState = "WAIT_PINFO_RPY"
      BY <2>2, <2>3, <2>4 DEF OneRecordProgresses
    <2>. QED  BY <1>1, <2>1, <2>5
  <1>12. Registry!Expose(q.addr)
    <2>1. ~Registry!IsExposed(q.addr)
      BY <1>11 DEF IsExposed, Registry!IsExposed
    <2>. QED  BY <1>1, <1>7, <2>1 DEF Registry!Expose
  <1>. QED  BY <1>6, <1>7, <1>8, <1>10, <1>12 DEF DiscoveryInv, RegistryStep

LEMMA IgnoredStep ==
    ASSUME DiscoveryInv, NEW m \in net, NEW r \in DOMAIN HNodeList,
           RxIgnored(r, m), UNCHANGED <<port, node, restarts>>
    PROVE  DiscoveryInv' /\ RegistryStep
  <1>1. net' \subseteq net /\ UNCHANGED <<HNodeList, NextProviderID, exposed>>
    BY DeliverBounds DEF RxIgnored
  <1>2. Grown
    BY <1>1, ListUnchanged
  <1>3. net' \subseteq Datagrams /\ WireSays'
    BY <1>1, <1>2, WireShrinks
  <1>4. NodesHold'
    BY <1>2, NodesKeep
  <1>. QED  BY <1>1, <1>3, <1>4, OutsideStep DEF DiscoveryInv, TypeOK

LEMMA InitDiscoveryInv == Init => DiscoveryInv
  <1> SUFFICES ASSUME Init PROVE DiscoveryInv
    OBVIOUS
  <1>1. /\ HNodeList = <<>> /\ DOMAIN HNodeList = {} /\ net = {} /\ exposed = <<>>
        /\ DOMAIN exposed = {}
    BY DEF Init
  <1>2. TypeOK
    BY EmptySeq DEF Init, TypeOK, NoServer
  <1>3. NodesHold
    BY DEF Init, NodesHold, NoServer
  <1>. QED  BY <1>1, <1>2, <1>3 DEF DiscoveryInv, WireSays, RecordsFilled, OneRecordProgresses,
                                    IdsGiven, ExposedReady, IsExposed

LEMMA StepDiscoveryInv == DiscoveryInv /\ [Next]_vars => DiscoveryInv' /\ RegistryStep
  <1> SUFFICES ASSUME DiscoveryInv, [Next]_vars PROVE DiscoveryInv' /\ RegistryStep
    OBVIOUS
  <1>1. CASE UNCHANGED vars
    <2>1. /\ UNCHANGED <<HNodeList, NextProviderID, exposed>>
          /\ node' = node /\ net' \subseteq net /\ restarts' = restarts
          /\ port' = port
      BY <1>1 DEF vars
    <2>2. Grown
      BY <2>1, ListUnchanged
    <2>3. net' \subseteq Datagrams /\ WireSays'
      BY <2>1, <2>2, WireShrinks
    <2>4. NodesHold'
      BY <2>1, <2>2, NodesKeep
    <2>. QED  BY <2>1, <2>3, <2>4, OutsideStep DEF DiscoveryInv, TypeOK
  <1>2. ASSUME NEW n \in Nodes, Resolve(n) PROVE DiscoveryInv' /\ RegistryStep
    BY <1>2, ResolveStep
  <1>3. ASSUME NEW n \in Nodes, NodeRestart(n) PROVE DiscoveryInv' /\ RegistryStep
    BY <1>3, RestartStep
  <1>4. ASSUME NEW m \in net, NodeRx(m) PROVE DiscoveryInv' /\ RegistryStep
    BY <1>4, NodeRxStep
  <1>5. ASSUME NEW m \in net, NetLose(m) \/ NodeGone(m) PROVE DiscoveryInv' /\ RegistryStep
    BY <1>5, LoseStep
  <1>6. ASSUME NEW m \in net, ServerRx(m) PROVE DiscoveryInv' /\ RegistryStep
    <2>1. PICK r \in DOMAIN HNodeList :
             /\ ClaimsPacket(r, m)
             /\ \/ RxPInfoReply(r, m) \/ RxEPointReply(r, m)
                \/ RxClaimReply(r, m) \/ RxIgnored(r, m)
      BY <1>6 DEF ServerRx
    <2>2. UNCHANGED <<port, node, restarts>>
      BY <1>6 DEF ServerRx
    <2>. QED  BY <2>1, <2>2, PInfoReplyStep, EPointReplyStep, ClaimReplyStep, IgnoredStep
  <1>. QED  BY <1>1, <1>2, <1>3, <1>4, <1>5, <1>6 DEF Next

--------------------------------------------------------------------------------
\* The inductive invariant of discovery.
THEOREM DiscoveryInvariant == Spec => []DiscoveryInv
  <1>1. DiscoveryInv /\ [Next]_vars => DiscoveryInv'
    BY StepDiscoveryInv
  <1>. QED  BY <1>1, InitDiscoveryInv, PTL DEF Spec

\* Handlers of requests and replies keep records, nodes and datagrams within their types
\* (hnode-provider.c, hnode-nodeobj.c), for any faults and restarts.
THEOREM DiscoveryTypes == Spec => []TypeOK
  <1>1. DiscoveryInv => TypeOK
    BY DEF DiscoveryInv
  <1>. QED  BY <1>1, DiscoveryInvariant, PTL

\* For any nodes, a provider is claimed only with each end point in its own slot, through
\* replies lost, duplicated, late, or meant for another record (hnode-provider.c,
\* g_hnode0provider_process_rx_reply).
THEOREM ClaimedComplete == Spec => []EndPointsComplete
  <1>1. DiscoveryInv => EndPointsComplete
    BY DEF DiscoveryInv, RecordsFilled, Filled, EndPointsComplete
  <1>. QED  BY <1>1, DiscoveryInvariant, PTL

\* However many records an address has, one gets beyond its first request
\* (hnode-provider.c, g_hnode0provider_claim_rx_packet).
THEOREM FirstRecordOnly == Spec => []OneRecordProgresses
  <1>1. DiscoveryInv => OneRecordProgresses
    BY DEF DiscoveryInv
  <1>. QED  BY <1>1, DiscoveryInvariant, PTL

\* A node holds an id that the server gave to a record of the address the node is at,
\* and no two records have one id, across restarts and claims that arrive late or twice
\* (hnode-srvobj.c, the state callback of a provider; hnode-nodeobj.c, SYSINFO_REQ).
THEOREM IdsAgree == Spec => []ClaimAgreement
  <1>1. DiscoveryInv => ClaimAgreement
    BY DEF DiscoveryInv, NodesHold, Knows, IdsGiven, ClaimAgreement
  <1>. QED  BY <1>1, DiscoveryInvariant, PTL

\* Discovery implements the registry: an address is reported ready at most once, after a
\* node was found there, however often that is and through restarts that keep the port;
\* a node back at another port is an address of its own (hnode-srvobj.c,
\* hnode-provider.c; hnode-pktsrc.c:443 and hnode-pktaddr.c:495 for what an address is).
THEOREM DiscoveryIsRegistry == Spec => ImplementsRegistry
  <1>1. Init => Registry!Init
    BY DEF Init, Registry!Init
  <1>2. RegistryStep => [Registry!Next]_(Registry!vars)
    BY DEF RegistryStep, Registry!Next, Registry!vars
  <1>3. DiscoveryInv /\ [Next]_vars => [Registry!Next]_(Registry!vars)
    BY <1>2, StepDiscoveryInv
  <1>. QED  BY <1>1, <1>3, DiscoveryInvariant, PTL DEF Spec, ImplementsRegistry, Registry!Spec

--------------------------------------------------------------------------------
(* The packet source.                                                      *)

Sources == [TxPackets : Seq(Packets), CurTx : Packets \cup {NoPacket},
            CurTxOffset : Nat, OutOn : BOOLEAN, Attached : BOOLEAN]

\* The source s, when acc was handed over and c completed: nothing handed over is lost
\* or overtaken, G_IO_OUT is on while packets are queued, and CurTx is the head.
InOrder(s, acc, c) ==
    /\ s \in Sources /\ acc \in Seq(Packets) /\ c \in Seq(Packets)
    /\ acc = c \o s.TxPackets
    /\ s.OutOn <=> s.TxPackets # <<>>
    /\ s.CurTx # NoPacket =>
         /\ s.TxPackets # <<>> /\ s.CurTx = Head(s.TxPackets)
         /\ s.CurTxOffset < Length[s.CurTx]

\* A selection finds a packet.
OutHasWork == "OUT" \in revents => src.TxPackets # <<>>

SourceInv == InOrder(src, accepted, completed) /\ OutHasWork

--------------------------------------------------------------------------------
(* Flattening a sequence of sequences.                                     *)

\* A property of 0, and of n + 1 whenever of n, is one of every number.
LEMMA LeastOf ==
    ASSUME NEW T \in SUBSET Nat, NEW n \in T
    PROVE  \E m \in T : \A k \in T : ~(k < m)
  <1> DEFINE Below(m) == 1..m
             B == {Below(m) : m \in T}
  <1>1. B \subseteq FiniteSubsetsOf(Nat)
    <2>1. \A m \in T : IsFiniteSet(Below(m)) /\ Below(m) \in SUBSET Nat
      BY FS_Interval
    <2>. QED  BY <2>1 DEF FiniteSubsetsOf
  <1>2. B # {}
    OBVIOUS
  <1>3. \E x \in B : \A y \in B : ~(<<y, x>> \in StrictSubsetOrdering(Nat))
    <2>. HIDE DEF B
    <2>. QED  BY <1>1, <1>2, FS_StrictSubsetOrderingWellFounded, WFMin
  <1>4. PICK m \in T : \A k \in T : ~(<<Below(k), Below(m)>> \in StrictSubsetOrdering(Nat))
    BY <1>3
  <1>5. ASSUME NEW k \in T, k < m
        PROVE  FALSE
    <2>1. Below(k) \subseteq Below(m) /\ m \in Below(m) /\ m \notin Below(k)
      BY <1>5
    <2>2. Below(k) \in SUBSET Nat /\ Below(m) \in SUBSET Nat
      OBVIOUS
    <2>. HIDE DEF Below
    <2>3. <<Below(k), Below(m)>> \in (SUBSET Nat) \X (SUBSET Nat)
      BY <2>2
    <2>4. <<Below(k), Below(m)>> \in StrictSubsetOrdering(Nat)
      BY <2>1, <2>3 DEF StrictSubsetOrdering
    <2>. QED  BY <1>4, <2>4
  <1>. QED  BY <1>5

LEMMA Induction ==
    ASSUME NEW S \in SUBSET Nat, 0 \in S, \A n \in Nat : n \in S => n + 1 \in S
    PROVE  S = Nat
  <1> SUFFICES ASSUME Nat \ S # {}
               PROVE  FALSE
    OBVIOUS
  <1>1. PICK m \in Nat \ S : \A k \in Nat \ S : ~(k < m)
    BY LeastOf
  <1>2. m - 1 \in Nat /\ m - 1 < m
    BY <1>1
  <1>3. m - 1 \in S
    BY <1>1, <1>2
  <1>. QED  BY <1>1, <1>2, <1>3

\* The beginnings of a flattened sequence ss, each from the one before it in g.
Flattened(ss, n, g) ==
    [i \in 1..n |-> IF i = 1 THEN ss[i] ELSE g[i - 1] \o ss[i]]

\* The library's recursion is well defined.
LEMMA FlattenIsDefined ==
    ASSUME NEW ss, NEW n \in Nat
    PROVE  \E g : g = Flattened(ss, n, g)
  <1> DEFINE Flat(g, k) == IF k = 1 THEN ss[k] ELSE g[k - 1] \o ss[k]
             Scan(g, m) == g = [k \in 1..m |-> Flat(g, k)]
             S == {m \in Nat : \E g : Scan(g, m)}
  <1>1. 0 \in S
    <2> DEFINE g == [k \in 1..0 |-> k]
    <2>1. Scan(g, 0)
      OBVIOUS
    <2>. QED  BY <2>1
  <1>2. ASSUME NEW m \in Nat, m \in S
        PROVE  m + 1 \in S
    <2>1. PICK g : Scan(g, m)
      BY <1>2
    <2> DEFINE h == [k \in 1..(m + 1) |-> IF k \in 1..m THEN g[k] ELSE Flat(g, k)]
    <2>2. ASSUME NEW k \in 1..(m + 1)
          PROVE  h[k] = Flat(h, k)
      <3>1. h[k] = Flat(g, k)
        <4>1. k \in 1..m => g[k] = Flat(g, k)
          BY <2>1
        <4>. QED  BY <4>1
      <3>2. CASE k = 1
        BY <3>1, <3>2
      <3>3. CASE k # 1
        <4>1. k - 1 \in 1..m /\ k - 1 \in 1..(m + 1)
          BY <3>3
        <4>2. h[k - 1] = g[k - 1]
          BY <4>1
        <4>. HIDE DEF h
        <4>. QED  BY <3>1, <3>3, <4>2
      <3>. QED  BY <3>2, <3>3
    <2>3. Scan(h, m + 1)
      <3> DEFINE H == [k \in 1..(m + 1) |-> Flat(h, k)]
      <3>1. h = [k \in 1..(m + 1) |-> h[k]]
        OBVIOUS
      <3>. HIDE DEF h, Step
      <3>2. h = H
        BY <2>2, <3>1
      <3>. QED  BY <3>2
    <2>4. m + 1 \in Nat
      OBVIOUS
    <2>. HIDE DEF Scan, h
    <2>. QED  BY <2>3, <2>4
  <1>3. S = Nat
    <2>. HIDE DEF S
    <2>1. S \in SUBSET Nat
      BY DEF S
    <2>. QED  BY <1>1, <1>2, <2>1, Induction
  <1>4. n \in S
    BY <1>3
  <1>. QED  BY <1>4 DEF Flattened

\* Two sequences that begin alike have flattened beginnings that are alike, and
\* these are sequences.
BeginAlike(S, ss, tt, n) == \A i \in 1..n : ss[i] = tt[i] /\ ss[i] \in Seq(S)

LEMMA FlattenBegins ==
    ASSUME NEW S, NEW n \in Nat, NEW m \in Nat, n <= m, NEW ss, NEW tt,
           BeginAlike(S, ss, tt, n),
           NEW f, f = Flattened(ss, n, f), NEW g, g = Flattened(tt, m, g)
    PROVE  BeginAlike(S, f, g, n)
  <1> SUFFICES \A i \in 1..n : f[i] = g[i] /\ f[i] \in Seq(S)
    BY DEF BeginAlike
  <1> DEFINE T == {k \in Nat : k \in 1..n => f[k] = g[k] /\ f[k] \in Seq(S)}
  <1>1. 0 \in T
    OBVIOUS
  <1>2. ASSUME NEW k \in Nat, k \in T
        PROVE  k + 1 \in T
    <2> SUFFICES ASSUME k + 1 \in 1..n
                 PROVE  f[k + 1] = g[k + 1] /\ f[k + 1] \in Seq(S)
      OBVIOUS
    <2>1. /\ k + 1 \in 1..n /\ k + 1 \in 1..m /\ (k + 1) - 1 = k
          /\ ss[k + 1] = tt[k + 1] /\ ss[k + 1] \in Seq(S)
      BY DEF BeginAlike
    <2>2. /\ f[k + 1] = IF k + 1 = 1 THEN ss[k + 1] ELSE f[k] \o ss[k + 1]
          /\ g[k + 1] = IF k + 1 = 1 THEN tt[k + 1] ELSE g[k] \o tt[k + 1]
      BY <2>1 DEF Flattened
    <2>3. CASE k = 0
      BY <2>1, <2>2, <2>3
    <2>4. CASE k # 0
      <3>1. k \in 1..n /\ k + 1 # 1
        BY <2>1, <2>4
      <3>2. f[k] = g[k] /\ f[k] \in Seq(S)
        BY <1>2, <3>1
      <3>. QED  BY <2>1, <2>2, <3>1, <3>2, ConcatProperties
    <2>. QED  BY <2>3, <2>4
  <1>3. T = Nat
    <2>. HIDE DEF T
    <2>1. T \in SUBSET Nat
      BY DEF T
    <2>. QED  BY <1>1, <1>2, <2>1, Induction
  <1>. QED  BY <1>3

\* One more sequence at the end.
LEMMA FlattenAppend ==
    ASSUME NEW S, NEW ss \in Seq(Seq(S)), NEW s \in Seq(S)
    PROVE  /\ FlattenSeq(ss) \in Seq(S)
           /\ FlattenSeq(Append(ss, s)) = FlattenSeq(ss) \o s
  <1> DEFINE n  == Len(ss)
             tt == Append(ss, s)
             f  == CHOOSE h : h = Flattened(ss, n, h)
             m  == Len(tt)
             g  == CHOOSE h : h = Flattened(tt, m, h)
  <1>0. n \in Nat /\ m \in Nat /\ m = n + 1
    BY AppendProperties, LenProperties
  <1>1. /\ tt \in Seq(Seq(S))
        /\ \A i \in 1..n : ss[i] = tt[i] /\ ss[i] \in Seq(S)
        /\ tt[m] = s
    BY AppendProperties, LenProperties, ElementOfSeq
  <1>2. f = Flattened(ss, n, f)
    <2>1. \E h : h = Flattened(ss, n, h)
      BY <1>0, FlattenIsDefined
    <2>. QED  BY <2>1
  <1>3. g = Flattened(tt, m, g)
    <2>1. \E h : h = Flattened(tt, m, h)
      BY <1>0, FlattenIsDefined
    <2>. QED  BY <2>1
  <1>4. FlattenSeq(tt) = g[m]
    <2>1. m # 0
      BY <1>0
    <2>. QED  BY <2>1 DEF FlattenSeq, Flattened
  <1>5. FlattenSeq(ss) = IF n = 0 THEN ss ELSE f[n]
    BY DEF FlattenSeq, Flattened
  <1>. HIDE DEF f, g, n, m, tt
  <1>6. \A i \in 1..n : f[i] = g[i] /\ f[i] \in Seq(S)
    <2>1. n <= m /\ BeginAlike(S, ss, tt, n)
      BY <1>0, <1>1 DEF BeginAlike
    <2>2. BeginAlike(S, f, g, n)
      BY <1>0, <1>2, <1>3, <2>1, FlattenBegins
    <2>. QED  BY <2>2 DEF BeginAlike
  <1>7. g[m] = IF m = 1 THEN s ELSE g[n] \o s
    <2>1. m \in 1..m /\ m - 1 = n
      BY <1>0
    <2>. QED  BY <1>1, <1>3, <2>1 DEF Flattened
  <1>8. CASE n = 0
    <2>1. ss = <<>>
      BY <1>8, EmptySeq DEF n
    <2>2. <<>> \o s = s /\ <<>> \in Seq(S)
      BY ConcatEmptySeq, EmptySeq
    <2>. QED  BY <1>0, <1>4, <1>5, <1>7, <1>8, <2>1, <2>2 DEF tt
  <1>9. CASE n # 0
    <2>1. n \in 1..n /\ m # 1
      BY <1>0, <1>9
    <2>. QED  BY <1>4, <1>5, <1>6, <1>7, <1>9, <2>1 DEF tt
  <1>. QED  BY <1>8, <1>9

--------------------------------------------------------------------------------
(* The operators on a source.                                              *)

LEMMA HandedIsSeq ==
    ASSUME NEW acc, NEW ps \in Handed(acc)
    PROVE  ps \in Seq(Packets) /\ ps \in Channel!AtMostOne
  <1>1. CASE ps = <<>>
    BY <1>1, EmptySeq DEF Channel!AtMostOne
  <1>2. CASE ps # <<>>
    <2>1. PICK p \in Packets : ps = <<p>>
      BY <1>2 DEF Handed
    <2>. QED  BY <2>1 DEF Channel!AtMostOne
  <1>. QED  BY <1>1, <1>2

LEMMA Associative ==
    \A s, t, u \in Seq(Packets) : (s \o t) \o u = s \o (t \o u)
  <1> SUFFICES ASSUME NEW s \in Seq(Packets), NEW t \in Seq(Packets), NEW u \in Seq(Packets)
               PROVE  (s \o t) \o u = s \o (t \o u)
    OBVIOUS
  <1>. QED  BY ConcatAssociative

\* What send_packet does: the head stays the head.
LEMMA EnqueueKeeps ==
    ASSUME NEW s, NEW acc, NEW c, InOrder(s, acc, c), NEW ps \in Seq(Packets),
           NEW s2, s2 = Enqueue(s, ps)
    PROVE  /\ InOrder(s2, acc \o ps, c)
           /\ s2.CurTx = s.CurTx /\ s2.CurTxOffset = s.CurTxOffset
           /\ s2.Attached = s.Attached
           /\ s.TxPackets # <<>> => s2.TxPackets # <<>>
  <1> DEFINE q == s.TxPackets
             n == q \o ps
             on == s.OutOn \/ ps # <<>>
  <1>1. /\ s \in Sources /\ q \in Seq(Packets)
        /\ acc \in Seq(Packets) /\ c \in Seq(Packets) /\ acc = c \o q
        /\ s.OutOn <=> q # <<>>
    BY DEF InOrder, Sources
  <1>2. /\ n \in Seq(Packets) /\ Len(n) = Len(q) + Len(ps)
        /\ \A i \in 1..Len(q) : n[i] = q[i]
    <2>1. /\ n \in Seq(Packets) /\ Len(n) = Len(q) + Len(ps)
          /\ \A i \in 1..(Len(q) + Len(ps)) : n[i] = IF i <= Len(q) THEN q[i] ELSE ps[i - Len(q)]
      BY <1>1, ConcatProperties
    <2>2. Len(q) \in Nat /\ Len(ps) \in Nat
      BY <1>1, LenProperties
    <2>. HIDE DEF q, n
    <2>. QED  BY <2>1, <2>2
  <1>3. n # <<>> <=> on
    <2>1. /\ n # <<>> <=> Len(n) # 0
          /\ q # <<>> <=> Len(q) # 0
          /\ ps # <<>> <=> Len(ps) # 0
          /\ Len(q) \in Nat /\ Len(ps) \in Nat
      <3>. HIDE DEF n, q
      <3>. QED  BY <1>1, <1>2, EmptySeq, LenProperties
    <2>. HIDE DEF n, q
    <2>. QED  BY <1>1, <1>2, <2>1
  <1>4. q # <<>> => n # <<>> /\ Head(n) = Head(q)
    <2>. HIDE DEF n, q
    <2>. QED  BY <1>1, <1>2, <1>3, EmptySeq, LenProperties
  <1>5. acc \o ps = c \o n /\ acc \o ps \in Seq(Packets)
    <2>1. (c \o q) \o ps = c \o n
      BY <1>1, Associative, ZenonT(60)
    <2>2. acc \o ps \in Seq(Packets)
      BY <1>1, ConcatProperties
    <2>. HIDE DEF n, q
    <2>. QED  BY <1>1, <2>1, <2>2
  <1>6. /\ s2 \in Sources /\ s2.TxPackets = n /\ s2.OutOn = on
        /\ s2.CurTx = s.CurTx /\ s2.CurTxOffset = s.CurTxOffset
        /\ s2.Attached = s.Attached
    <2>1. s2 = [s EXCEPT !.TxPackets = n, !.OutOn = on]
      BY <1>1 DEF Enqueue, Sources
    <2>2. on \in BOOLEAN
      BY <1>1 DEF Sources
    <2>. HIDE DEF n, on
    <2>. QED  BY <1>1, <1>2, <2>1, <2>2 DEF Sources
  <1>7. s2.CurTx # NoPacket =>
            /\ s2.TxPackets # <<>> /\ s2.CurTx = Head(s2.TxPackets)
            /\ s2.CurTxOffset < Length[s2.CurTx]
    <2>. HIDE DEF n, on
    <2>. QED  BY <1>4, <1>6 DEF InOrder
  <1>8. InOrder(s2, acc \o ps, c)
    <2>. HIDE DEF n, on
    <2>. QED  BY <1>1, <1>3, <1>5, <1>6, <1>7 DEF InOrder
  <1>. HIDE DEF n, on
  <1>. QED  BY <1>4, <1>6, <1>8

\* The packet being sent is the oldest that is not completed.
LEMMA CurTxIsOldest ==
    ASSUME NEW s, NEW acc, NEW c, InOrder(s, acc, c), s.CurTx # NoPacket
    PROVE  s.CurTx = acc[Len(c) + 1] /\ Len(c) < Len(acc)
  <1> DEFINE q == s.TxPackets
  <1>1. /\ q \in Seq(Packets) /\ q # <<>> /\ s.CurTx = Head(q)
        /\ c \in Seq(Packets) /\ acc = c \o q
    BY DEF InOrder, Sources
  <1>2. Len(q) \in Nat \ {0} /\ Head(q) = q[1] /\ Len(c) \in Nat
    BY <1>1, EmptySeq, LenProperties
  <1>3. /\ Len(acc) = Len(c) + Len(q)
        /\ \A i \in 1..(Len(c) + Len(q)) : acc[i] =
             IF i <= Len(c) THEN c[i] ELSE q[i - Len(c)]
    BY <1>1, ConcatProperties
  <1>4. /\ Len(c) + 1 \in 1..(Len(c) + Len(q))
        /\ ~(Len(c) + 1 <= Len(c))
        /\ (Len(c) + 1) - Len(c) = 1
    BY <1>2
  <1>5. acc[Len(c) + 1] = q[1]
    <2>. HIDE DEF q
    <2>. QED  BY <1>3, <1>4
  <1>. QED  BY <1>1, <1>2, <1>3, <1>5

\* What the end of a packet does: the head moves from the queue to the completed.
LEMMA CompleteKeeps ==
    ASSUME NEW s, NEW acc, NEW c, InOrder(s, acc, c), s.CurTx # NoPacket,
           NEW ps \in Seq(Packets), NEW s2, s2 = Complete(s, ps)
    PROVE  /\ InOrder(s2, acc \o ps, Append(c, s.CurTx))
           /\ s2.CurTx = NoPacket /\ s2.Attached = s.Attached
  <1> DEFINE q == s.TxPackets
             n == Tail(q) \o ps
             d == Append(c, s.CurTx)
  <1>1. /\ s \in Sources /\ q \in Seq(Packets)
        /\ acc \in Seq(Packets) /\ c \in Seq(Packets)
        /\ acc = c \o q
    BY DEF InOrder, Sources
  <1>2. q # <<>> /\ s.CurTx = Head(q) /\ s.CurTx \in Packets
    BY <1>1 DEF InOrder, Sources
  <1>3. Tail(q) \in Seq(Packets) /\ n \in Seq(Packets)
    BY <1>1, <1>2, HeadTailProperties, ConcatProperties
  <1>4. <<Head(q)>> \in Seq(Packets) /\ q = <<Head(q)>> \o Tail(q)
    <2>1. <<Head(q)>> \in Seq(Packets) /\ Len(<<Head(q)>>) = 1 /\ <<Head(q)>>[1] = Head(q)
      BY <1>2
    <2>2. Len(q) \in Nat \ {0} /\ Head(q) = q[1]
      BY <1>1, <1>2, EmptySeq
    <2>3. Len(Tail(q)) = Len(q) - 1 /\ \A i \in 1..Len(Tail(q)) : Tail(q)[i] = q[i+1]
      BY <1>1, <1>2, HeadTailProperties
    <2>4. /\ <<Head(q)>> \o Tail(q) \in Seq(Packets)
          /\ Len(<<Head(q)>> \o Tail(q)) = Len(q)
          /\ \A i \in 1..Len(q) : (<<Head(q)>> \o Tail(q))[i] =
                IF i <= 1 THEN <<Head(q)>>[i] ELSE Tail(q)[i - 1]
      <3>1. /\ <<Head(q)>> \o Tail(q) \in Seq(Packets)
            /\ Len(<<Head(q)>> \o Tail(q)) = 1 + Len(Tail(q))
            /\ \A i \in 1..(1 + Len(Tail(q))) : (<<Head(q)>> \o Tail(q))[i] =
                  IF i <= 1 THEN <<Head(q)>>[i] ELSE Tail(q)[i - 1]
        BY <1>3, <2>1, ConcatProperties
      <3>2. 1 + Len(Tail(q)) = Len(q)
        BY <2>2, <2>3
      <3>. QED  BY <3>1, <3>2
    <2>5. \A i \in 1..Len(q) : q[i] = (<<Head(q)>> \o Tail(q))[i]
      <3> SUFFICES ASSUME NEW i \in 1..Len(q)
                   PROVE  q[i] = IF i <= 1 THEN <<Head(q)>>[i] ELSE Tail(q)[i - 1]
        BY <2>4
      <3>1. CASE i = 1
        BY <3>1, <2>1, <2>2
      <3>2. CASE i # 1
        <4>1. i - 1 \in 1..Len(Tail(q)) /\ (i - 1) + 1 = i
          BY <3>2, <2>2, <2>3
        <4>. QED  BY <4>1, <3>2, <2>3
      <3>. QED  BY <3>1, <3>2
    <2>. QED  BY <1>1, <2>1, <2>4, <2>5, SeqEqual
  <1>5. acc \o ps = d \o n /\ d \in Seq(Packets) /\ acc \o ps \in Seq(Packets)
    <2>1. d = c \o <<Head(q)>> /\ d \in Seq(Packets)
      BY <1>1, <1>2, AppendIsConcat, AppendProperties
    <2>2. (c \o q) \o ps = c \o (q \o ps)
      BY <1>1, Associative, ZenonT(60)
    <2>3. q \o ps = <<Head(q)>> \o n
      <3>1. (<<Head(q)>> \o Tail(q)) \o ps = <<Head(q)>> \o n
        BY <1>1, <1>3, <1>4, Associative, ZenonT(60)
      <3>. HIDE DEF n
      <3>. QED  BY <1>4, <3>1, Zenon
    <2>4. c \o (<<Head(q)>> \o n) = (c \o <<Head(q)>>) \o n
      <3>. HIDE DEF n
      <3>1. c \in Seq(Packets) /\ <<Head(q)>> \in Seq(Packets) /\ n \in Seq(Packets)
        BY <1>1, <1>3, <1>4
      <3>. QED  BY <3>1, Associative, Zenon
    <2>5. acc \o ps = d \o n
      <3>. HIDE DEF n, q, d
      <3>. QED  BY <1>1, <2>1, <2>2, <2>3, <2>4
    <2>6. acc \o ps \in Seq(Packets)
      BY <1>1, ConcatProperties
    <2>. QED  BY <2>1, <2>5, <2>6
  <1>6. s2 = [s EXCEPT !.TxPackets = n, !.CurTx = NoPacket, !.OutOn = (n # <<>>)]
    BY DEF Complete
  <1>7. /\ s2 \in Sources /\ s2.TxPackets = n /\ s2.CurTx = NoPacket
        /\ s2.OutOn = (n # <<>>) /\ s2.Attached = s.Attached
    <2>. HIDE DEF n
    <2>. QED  BY <1>1, <1>3, <1>6 DEF Sources
  <1>8. InOrder(s2, acc \o ps, d)
    <2>. HIDE DEF n, d
    <2>. QED  BY <1>5, <1>7 DEF InOrder
  <1>. QED  BY <1>7, <1>8

LEMMA SelectKeeps ==
    ASSUME NEW s, NEW acc, NEW c, InOrder(s, acc, c), s.TxPackets # <<>>,
           NEW s2, s2 = Select(s)
    PROVE  /\ InOrder(s2, acc, c) /\ s2.Attached = s.Attached
           /\ s2.CurTx = Head(s.TxPackets) /\ s2.CurTx \in Packets /\ s2.CurTxOffset = 0
  <1>1. s \in Sources /\ Head(s.TxPackets) \in Packets
    BY HeadTailProperties DEF InOrder, Sources
  <1>2. /\ s2 \in Sources /\ s2.TxPackets = s.TxPackets /\ s2.OutOn = s.OutOn
        /\ s2.CurTx = Head(s.TxPackets) /\ s2.CurTxOffset = 0
        /\ s2.Attached = s.Attached
    BY <1>1 DEF Select, Sources
  <1>3. 0 < Length[Head(s.TxPackets)]
    BY <1>1, LengthAssumption
  <1>. QED  BY <1>1, <1>2, <1>3 DEF InOrder

LEMMA AdvanceKeeps ==
    ASSUME NEW s, NEW acc, NEW c, InOrder(s, acc, c), s.CurTx # NoPacket,
           NEW n \in 1..(BytesLeft(s) - 1), NEW s2, s2 = Advance(s, n)
    PROVE  /\ InOrder(s2, acc, c) /\ s2.Attached = s.Attached
           /\ s2.CurTx = s.CurTx /\ s2.CurTxOffset = s.CurTxOffset + n
  <1>1. /\ s \in Sources /\ s.CurTx \in Packets
        /\ s.CurTxOffset \in Nat /\ Length[s.CurTx] \in Nat
    BY LengthAssumption DEF InOrder, Sources
  <1>2. /\ s.CurTxOffset + n \in Nat
        /\ s.CurTxOffset + n < Length[s.CurTx]
    BY <1>1 DEF BytesLeft
  <1>3. /\ s2 \in Sources /\ s2.TxPackets = s.TxPackets /\ s2.OutOn = s.OutOn
        /\ s2.CurTx = s.CurTx /\ s2.CurTxOffset = s.CurTxOffset + n
        /\ s2.Attached = s.Attached
    BY <1>1, <1>2 DEF Advance, Sources
  <1>. QED  BY <1>2, <1>3 DEF InOrder

--------------------------------------------------------------------------------
(* The steps.                                                              *)

LEMMA InitSourceInv == SourceInit => SourceInv
  <1> SUFFICES ASSUME SourceInit PROVE SourceInv
    OBVIOUS
  <1>1. src \in Sources /\ accepted \in Seq(Packets) /\ completed \in Seq(Packets)
    BY EmptySeq DEF SourceInit, Sources
  <1>2. accepted = completed \o src.TxPackets
    <2>1. completed = <<>> /\ src.TxPackets = <<>> /\ accepted = <<>>
      BY DEF SourceInit
    <2>2. <<>> \o <<>> = <<>>
      BY EmptySeq, ConcatEmptySeq, Zenon
    <2>. QED  BY <2>1, <2>2, Zenon
  <1>. QED  BY <1>1, <1>2 DEF SourceInit, SourceInv, InOrder, OutHasWork

\* What one step does to the channel that the object above sees.
ChannelStep ==
    \/ \E p \in Packets : Channel!Accept(p)
    \/ Channel!Complete \/ Channel!Down
    \/ UNCHANGED <<accepted, completed, Alive>>

\* A step that leaves the queue and what was handed over alone.
LEMMA QueueUntouched ==
    ASSUME SourceInv, src' = src, accepted' = accepted, completed' = completed,
           process' = process, "OUT" \in revents' => src.OutOn
    PROVE  SourceInv' /\ ChannelStep
  <1>1. "OUT" \in revents' => src'.TxPackets # <<>>
    BY DEF SourceInv, InOrder
  <1>2. SourceInv'
    BY <1>1 DEF SourceInv, InOrder, OutHasWork
  <1>3. Alive' = Alive
    BY DEF Alive
  <1>. QED  BY <1>2, <1>3 DEF ChannelStep

\* The channel takes nothing, or one packet.
LEMMA Taken ==
    ASSUME Alive, Alive' = Alive, NEW acc, NEW ps \in Handed(acc),
           accepted \in Seq(Packets), accepted' = accepted \o ps, completed' = completed
    PROVE  ChannelStep
  <1>1. CASE ps = <<>>
    <2>1. accepted' = accepted
      BY <1>1, ConcatEmptySeq, Zenon
    <2>. QED  BY <2>1 DEF ChannelStep
  <1>2. CASE ps # <<>>
    <2>1. PICK p \in Packets : ps = <<p>>
      BY <1>2 DEF Handed
    <2>2. accepted' = Append(accepted, p)
      BY <2>1, AppendIsConcat
    <2>3. Channel!Accept(p)
      BY <2>2 DEF Channel!Accept
    <2>. QED  BY <2>3 DEF ChannelStep
  <1>. QED  BY <1>1, <1>2

\* A packet handed over, by another source's callback or in answer to a packet.
LEMMA HandOver ==
    ASSUME SourceInv, Alive, NEW acc, NEW ps \in Handed(acc), src' = Enqueue(src, ps),
           accepted' = accepted \o ps, completed' = completed,
           process' = process, revents' = {}
    PROVE  SourceInv' /\ ChannelStep
  <1>1. InOrder(src, accepted, completed) /\ ps \in Seq(Packets)
    BY HandedIsSeq DEF SourceInv
  <1>2. InOrder(src', accepted \o ps, completed) /\ src'.Attached = src.Attached
    BY <1>1, EnqueueKeeps
  <1>3. SourceInv'
    BY <1>2 DEF SourceInv, OutHasWork
  <1>4. Alive' = Alive
    BY <1>2 DEF Alive
  <1>. QED  BY <1>1, <1>3, <1>4, Taken DEF InOrder

\* The G_IO_OUT part of a dispatch, after the callback handed over ps.
LEMMA TransmitStep ==
    ASSUME SourceInv, Alive, "OUT" \in revents, revents' = {},
           NEW ps \in Handed(accepted), NEW s, s = Enqueue(src, ps),
           NEW acc, acc = accepted \o ps, Transmit(s, acc)
    PROVE  SourceInv' /\ ChannelStep
  <1>0. /\ InOrder(src, accepted, completed) /\ ps \in Seq(Packets)
        /\ ps \in Channel!AtMostOne
        /\ src.TxPackets # <<>> /\ OutHasWork'
        /\ accepted \in Seq(Packets)
    BY HandedIsSeq DEF SourceInv, InOrder, OutHasWork
  <1>1. /\ InOrder(s, acc, completed) /\ s.TxPackets # <<>>
        /\ s.CurTx = src.CurTx /\ s.Attached = src.Attached
    BY <1>0, EnqueueKeeps
  <1>2. CASE TransmitSelect(s, acc)
    <2>1. InOrder(src', acc, completed) /\ src'.Attached = s.Attached
      BY <1>1, <1>2, SelectKeeps DEF TransmitSelect
    <2>2. accepted' = acc /\ completed' = completed /\ process' = process
      BY <1>2 DEF TransmitSelect
    <2>3. SourceInv' /\ Alive' = Alive
      BY <1>0, <1>1, <2>1, <2>2 DEF SourceInv, Alive
    <2>. QED  BY <1>0, <2>2, <2>3, Taken
  <1>3. CASE TransmitPart(s, acc)
    <2>0. PICK n \in 1..(BytesLeft(s) - 1) : src' = Advance(s, n)
      BY <1>3 DEF TransmitPart
    <2>1. InOrder(src', acc, completed) /\ src'.Attached = s.Attached
      BY <1>1, <1>3, <2>0, AdvanceKeeps DEF TransmitPart
    <2>2. accepted' = acc /\ completed' = completed /\ process' = process
      BY <1>3 DEF TransmitPart
    <2>3. SourceInv' /\ Alive' = Alive
      BY <1>0, <1>1, <2>1, <2>2 DEF SourceInv, Alive
    <2>. QED  BY <1>0, <2>2, <2>3, Taken
  <1>4. CASE TransmitRest(s, acc)
    <2>0. PICK qs \in Handed(acc) : src' = Complete(s, qs) /\ accepted' = acc \o qs
      BY <1>4 DEF TransmitRest
    <2>1. /\ s.CurTx # NoPacket /\ completed' = Append(completed, s.CurTx)
          /\ process' = process
      BY <1>4 DEF TransmitRest
    <2>2. qs \in Seq(Packets) /\ qs \in Channel!AtMostOne
      BY HandedIsSeq
    <2>3. /\ InOrder(src', acc \o qs, Append(completed, s.CurTx))
          /\ src'.Attached = s.Attached
      BY <1>1, <2>0, <2>1, <2>2, CompleteKeeps
    <2>4. SourceInv' /\ Alive' = Alive
      BY <1>0, <1>1, <2>0, <2>1, <2>3 DEF SourceInv, Alive
    <2>5. src.CurTx = accepted[Len(completed) + 1] /\ Len(completed) < Len(accepted)
      BY <1>0, <1>1, <2>1, CurTxIsOldest
    <2>6. Channel!Complete
      BY <1>0, <1>1, <2>0, <2>1, <2>2, <2>4, <2>5 DEF Channel!Complete
    <2>. QED  BY <2>4, <2>6 DEF ChannelStep
  <1>5. CASE TransmitFails(s, acc)
    <2>1. src' = s /\ accepted' = acc /\ completed' = completed
      BY <1>5 DEF TransmitFails
    <2>2. SourceInv'
      BY <1>0, <1>1, <2>1 DEF SourceInv
    <2>3. ~Alive'
      BY <1>5 DEF TransmitFails, Alive
    <2>4. Channel!Down
      BY <1>0, <2>1, <2>3 DEF Channel!Down
    <2>. QED  BY <2>2, <2>4 DEF ChannelStep
  <1>. QED  BY <1>2, <1>3, <1>4, <1>5 DEF Transmit

\* The two halves of DispatchIO.
LEMMA DispatchedIO ==
    ASSUME DispatchIO
    PROVE  /\ revents' = {}
           /\ \E ps \in Handed(accepted) :
                \/ "OUT" \in revents /\ Transmit(Enqueue(src, ps), accepted \o ps)
                \/ /\ src' = Enqueue(src, ps) /\ accepted' = accepted \o ps
                   /\ process' = process /\ completed' = completed /\ wire' = wire
  <1>1. <<>> \in Handed(accepted)
    BY DEF Handed
  <1>2. PICK ps \in IF "IN" \in revents THEN Handed(accepted) ELSE {<<>>} :
            IF "OUT" \in revents
            THEN Transmit(Enqueue(src, ps), accepted \o ps)
            ELSE /\ src' = Enqueue(src, ps) /\ accepted' = accepted \o ps
                 /\ UNCHANGED <<process, completed, wire>>
    BY DEF DispatchIO
  <1>3. ps \in Handed(accepted)
    BY <1>1
  <1>4. \/ "OUT" \in revents /\ Transmit(Enqueue(src, ps), accepted \o ps)
        \/ /\ src' = Enqueue(src, ps) /\ accepted' = accepted \o ps
           /\ process' = process /\ completed' = completed /\ wire' = wire
    BY <1>2
  <1>5. revents' = {}
    BY DEF DispatchIO
  <1>. QED  BY <1>3, <1>4, <1>5

LEMMA StepSourceInv == SourceInv /\ [SourceNext]_sourceVars => SourceInv' /\ ChannelStep
  <1> SUFFICES ASSUME SourceInv, [SourceNext]_sourceVars PROVE SourceInv' /\ ChannelStep
    OBVIOUS
  <1>0. InOrder(src, accepted, completed) /\ ("OUT" \in revents => src.OutOn)
    BY DEF SourceInv, OutHasWork, InOrder
  <1>1. CASE UNCHANGED sourceVars
    BY <1>0, <1>1, QueueUntouched DEF sourceVars
  <1>2. ASSUME Alive, PeerDown PROVE SourceInv' /\ ChannelStep
    BY <1>0, <1>2, QueueUntouched DEF PeerDown
  <1>3. ASSUME Alive, Poll PROVE SourceInv' /\ ChannelStep
    BY <1>3, QueueUntouched DEF Poll
  <1>4. ASSUME Alive, NEW p \in Packets \ Range(accepted), SendPacket(p)
        PROVE  SourceInv' /\ ChannelStep
    <2>1. <<p>> \in Handed(accepted)
      BY DEF Handed
    <2>2. accepted' = accepted \o <<p>>
      BY <1>0, <1>4, AppendIsConcat DEF SendPacket, InOrder
    <2>. QED  BY <1>4, <2>1, <2>2, HandOver DEF SendPacket
  <1>5. ASSUME Alive, DispatchNothing PROVE SourceInv' /\ ChannelStep
    BY <1>5, QueueUntouched DEF DispatchNothing
  <1>6. ASSUME Alive, DispatchDown PROVE SourceInv' /\ ChannelStep
    <2>1. src' = [src EXCEPT !.Attached = FALSE] /\ src \in Sources
      BY <1>0, <1>6 DEF DispatchDown, InOrder
    <2>2. /\ src' \in Sources /\ src'.TxPackets = src.TxPackets /\ src'.OutOn = src.OutOn
          /\ src'.CurTx = src.CurTx /\ src'.CurTxOffset = src.CurTxOffset
          /\ src'.Attached = FALSE
      BY <2>1 DEF Sources
    <2>3. accepted' = accepted /\ completed' = completed /\ revents' = revents
      BY <1>6 DEF DispatchDown
    <2>4. SourceInv'
      BY <2>2, <2>3 DEF SourceInv, InOrder, OutHasWork
    <2>5. ~Alive'
      BY <2>2 DEF Alive
    <2>6. accepted' = accepted \o <<>> /\ <<>> \in Channel!AtMostOne
      BY <1>0, <2>3, ConcatEmptySeq, Zenon DEF InOrder, Channel!AtMostOne
    <2>7. Channel!Down
      <3>1. \E answer \in Channel!AtMostOne : accepted' = accepted \o answer
        BY <2>6
      <3>2. Alive' = FALSE
        BY <2>5 DEF Alive
      <3>. QED  BY <1>6, <2>3, <3>1, <3>2 DEF Channel!Down
    <2>. QED  BY <2>4, <2>7 DEF ChannelStep
  <1>7. ASSUME Alive, DispatchIO PROVE SourceInv' /\ ChannelStep
    <2>1. revents' = {}
      BY <1>7, DispatchedIO
    <2>2. PICK ps \in Handed(accepted) :
                \/ "OUT" \in revents /\ Transmit(Enqueue(src, ps), accepted \o ps)
                \/ /\ src' = Enqueue(src, ps) /\ accepted' = accepted \o ps
                   /\ process' = process /\ completed' = completed /\ wire' = wire
      BY <1>7, DispatchedIO
    <2>3. CASE "OUT" \in revents /\ Transmit(Enqueue(src, ps), accepted \o ps)
      BY <1>7, <2>1, <2>3, TransmitStep
    <2>4. CASE /\ src' = Enqueue(src, ps) /\ accepted' = accepted \o ps
               /\ process' = process /\ completed' = completed /\ wire' = wire
      BY <1>7, <2>1, <2>4, HandOver
    <2>. QED  BY <2>2, <2>3, <2>4
  <1>. QED  BY <1>1, <1>2, <1>3, <1>4, <1>5, <1>6, <1>7 DEF SourceNext, Dispatch

--------------------------------------------------------------------------------
(* The bytes on the wire.                                                  *)

Octets == Packets \X Nat

\* The packets c, each whole.
Whole(c) == [k \in 1..Len(c) |-> Bytes(c[k], Length[c[k]])]

LEMMA BytesAreSeq ==
    ASSUME NEW p \in Packets, NEW n \in Nat
    PROVE  /\ Bytes(p, n) \in Seq(Octets) /\ Len(Bytes(p, n)) = n
           /\ \A i \in 1..n : Bytes(p, n)[i] = <<p, i>>
  <1>1. \A i \in 1..n : <<p, i>> \in Octets
    BY DEF Octets
  <1>. QED  BY <1>1 DEF Bytes

\* What a send takes continues what was taken before.
LEMMA BytesContinue ==
    ASSUME NEW p \in Packets, NEW off \in Nat, NEW n \in Nat,
           NEW t, t = [i \in 1..n |-> <<p, off + i>>]
    PROVE  t \in Seq(Octets) /\ Bytes(p, off) \o t = Bytes(p, off + n)
  <1> DEFINE a == Bytes(p, off)
             b == Bytes(p, off + n)
  <1>1. t \in Seq(Octets) /\ Len(t) = n /\ \A i \in 1..n : t[i] = <<p, off + i>>
    <2>1. \A i \in 1..n : t[i] = <<p, off + i>> /\ off + i \in Nat
      OBVIOUS
    <2>2. \A i \in 1..n : t[i] \in Octets
      BY <2>1 DEF Octets
    <2>3. t = [i \in 1..n |-> t[i]]
      OBVIOUS
    <2>4. t \in [1..n -> Octets] /\ DOMAIN t = 1..n
      BY <2>2, <2>3
    <2>5. t \in Seq(Octets) /\ Len(t) = n
      <3>. HIDE DEF Octets
      <3>1. n \in Nat /\ t \in [1..n -> Octets]
        BY <2>4
      <3>. QED  BY ONLY <3>1, SMT
    <2>. QED  BY <2>1, <2>5, Zenon
  <1>2. /\ a \in Seq(Octets) /\ Len(a) = off /\ \A i \in 1..off : a[i] = <<p, i>>
        /\ off + n \in Nat
        /\ b \in Seq(Octets) /\ Len(b) = off + n /\ \A i \in 1..(off + n) : b[i] = <<p, i>>
    <2>1. PICK m \in Nat : m = off + n
      OBVIOUS
    <2>2. /\ Bytes(p, m) \in Seq(Octets) /\ Len(Bytes(p, m)) = m
          /\ \A i \in 1..m : Bytes(p, m)[i] = <<p, i>>
      BY BytesAreSeq
    <2>3. /\ a \in Seq(Octets) /\ Len(a) = off
          /\ \A i \in 1..off : a[i] = <<p, i>>
      BY BytesAreSeq
    <2>4. /\ off + n \in Nat
          /\ b \in Seq(Octets) /\ Len(b) = off + n /\ \A i \in 1..(off + n) : b[i] = <<p, i>>
      BY <2>1, <2>2, ZenonT(60)
    <2>. QED  BY <2>3, <2>4, ZenonT(60)
  <1>. HIDE DEF a, b
  <1> DEFINE ab == a \o t
  <1>3. /\ ab \in Seq(Octets) /\ Len(ab) = off + n
        /\ \A i \in 1..(off + n) : ab[i] = IF i <= off THEN a[i] ELSE t[i - off]
    <2>1. /\ ab \in Seq(Octets) /\ Len(ab) = Len(a) + Len(t)
          /\ \A i \in 1..(Len(a) + Len(t)) : ab[i] = IF i <= Len(a) THEN a[i] ELSE t[i - Len(a)]
      BY <1>1, <1>2, ConcatProperties, ZenonT(60)
    <2>2. Len(a) = off
      BY <1>2, Zenon
    <2>3. Len(t) = n
      BY <1>1, Zenon
    <2>. HIDE DEF ab
    <2>. QED  BY <2>1, <2>2, <2>3, Zenon
  <1>. HIDE DEF ab
  <1>4. ASSUME NEW i \in 1..(off + n)
        PROVE  ab[i] = b[i]
    <2>1. CASE i <= off
      <3>1. i \in 1..off
        BY <2>1
      <3>. QED  BY <1>2, <1>3, <2>1, <3>1
    <2>2. CASE ~(i <= off)
      <3>1. i - off \in 1..n /\ off + (i - off) = i
        BY <2>2
      <3>. QED  BY <1>1, <1>2, <1>3, <2>2, <3>1, ZenonT(60)
    <2>. QED  BY <2>1, <2>2
  <1>5. ab = b
    BY <1>2, <1>3, <1>4, SeqEqual
  <1>. QED  BY <1>1, <1>5 DEF a, b, ab

LEMMA WholeIsSeq ==
    ASSUME NEW c \in Seq(Packets)
    PROVE  /\ Whole(c) \in Seq(Seq(Octets)) /\ Len(Whole(c)) = Len(c)
           /\ \A k \in 1..Len(c) : Whole(c)[k] = Bytes(c[k], Length[c[k]])
  <1>1. Len(c) \in Nat
    BY LenProperties
  <1>2. \A k \in 1..Len(c) : Bytes(c[k], Length[c[k]]) \in Seq(Octets)
    BY ElementOfSeq, LengthAssumption, BytesAreSeq
  <1>. QED  BY <1>1, <1>2 DEF Whole

LEMMA WholeAppends ==
    ASSUME NEW c \in Seq(Packets), NEW p \in Packets
    PROVE  Whole(Append(c, p)) = Append(Whole(c), Bytes(p, Length[p]))
  <1> DEFINE n == Len(c)
             d == Append(c, p)
             e == Bytes(p, Length[p])
             w == Whole(c)
             x == Whole(d)
             y == Append(w, e)
  <1>1. /\ n \in Nat /\ d \in Seq(Packets) /\ Len(d) = n + 1
        /\ \A k \in 1..n : d[k] = c[k]
        /\ d[n + 1] = p
    BY AppendProperties, LenProperties
  <1>2. e \in Seq(Octets)
    BY BytesAreSeq, LengthAssumption
  <1>3. /\ w \in Seq(Seq(Octets)) /\ Len(w) = n
        /\ \A k \in 1..n : w[k] = Bytes(c[k], Length[c[k]])
    BY WholeIsSeq
  <1>. HIDE DEF d
  <1>4. /\ x \in Seq(Seq(Octets)) /\ Len(x) = n + 1
        /\ \A k \in 1..(n + 1) : x[k] = Bytes(d[k], Length[d[k]])
    BY <1>1, WholeIsSeq
  <1>. HIDE DEF w, x, n, e
  <1>5. /\ y \in Seq(Seq(Octets)) /\ Len(y) = n + 1
        /\ \A k \in 1..n : y[k] = w[k]
        /\ y[n + 1] = e
    BY <1>2, <1>3, AppendProperties
  <1>. HIDE DEF y
  <1>6. ASSUME NEW k \in 1..(n + 1)
        PROVE  x[k] = y[k]
    <2>1. k \in 1..n \/ k = n + 1
      BY <1>1
    <2>2. CASE k \in 1..n
      <3>1. x[k] = Bytes(d[k], Length[d[k]]) /\ y[k] = w[k]
        BY <1>4, <1>5, <2>2
      <3>2. d[k] = c[k] /\ w[k] = Bytes(c[k], Length[c[k]])
        BY <1>1, <1>3, <2>2
      <3>. QED  BY <3>1, <3>2, Zenon
    <2>3. CASE k = n + 1
      <3>1. x[k] = Bytes(d[k], Length[d[k]]) /\ d[k] = p
        BY <1>1, <1>4, <2>3
      <3>. QED  BY <1>5, <2>3, <3>1 DEF e
    <2>. QED  BY <2>1, <2>2, <2>3
  <1>7. x = y
    BY <1>4, <1>5, <1>6, SeqEqual
  <1>. QED  BY <1>7 DEF x, y, w, d, e

\* WireIsPackets, of what was completed and the current packet.
OnWire(w, c, cur, off) ==
    w = FlattenSeq(Whole(c)) \o IF cur = NoPacket THEN <<>> ELSE Bytes(cur, off)

LEMMA WireFolds == WireIsPackets <=> OnWire(wire, completed, src.CurTx, src.CurTxOffset)
  BY DEF WireIsPackets, OnWire, Whole

\* A packet is selected, some of it is taken, and the rest of it.
LEMMA WireSelects ==
    ASSUME NEW w, NEW c, NEW off, OnWire(w, c, NoPacket, off), NEW p \in Packets
    PROVE  OnWire(w, c, p, 0)
  <1>1. Bytes(p, 0) = <<>>
    BY DEF Bytes
  <1>. QED  BY <1>1 DEF OnWire

LEMMA WireTakes ==
    ASSUME NEW c \in Seq(Packets), NEW p \in Packets, NEW off \in Nat, NEW n \in Nat,
           NEW w, OnWire(w, c, p, off), NEW t, t = [i \in 1..n |-> <<p, off + i>>]
    PROVE  OnWire(w \o t, c, p, off + n)
  <1> DEFINE all == FlattenSeq(Whole(c))
             b   == Bytes(p, off)
  <1>1. all \in Seq(Octets)
    <2>1. Whole(c) \in Seq(Seq(Octets)) /\ <<>> \in Seq(Octets)
      BY WholeIsSeq
    <2>. QED  BY <2>1, FlattenAppend
  <1>2. b \in Seq(Octets) /\ t \in Seq(Octets) /\ b \o t = Bytes(p, off + n)
    BY BytesAreSeq, BytesContinue
  <1>3. w = all \o b /\ p # NoPacket
    BY LengthAssumption DEF OnWire
  <1>4. (all \o b) \o t = all \o (b \o t)
    <2>. HIDE DEF all, b
    <2>1. \A x, y, z \in Seq(Octets) : (x \o y) \o z = x \o (y \o z)
      BY ConcatAssociative
    <2>. QED  BY <1>1, <1>2, <2>1, Zenon
  <1>. HIDE DEF b
  <1>. QED  BY <1>2, <1>3, <1>4 DEF OnWire

LEMMA WireCompletes ==
    ASSUME NEW c \in Seq(Packets), NEW p \in Packets,
           NEW w, OnWire(w, c, p, Length[p]), NEW off
    PROVE  OnWire(w, Append(c, p), NoPacket, off)
  <1> DEFINE b   == Bytes(p, Length[p])
             all == FlattenSeq(Whole(c))
             new == FlattenSeq(Append(Whole(c), b))
  <1>1. b \in Seq(Octets)
    BY BytesAreSeq, LengthAssumption
  <1>2. Whole(c) \in Seq(Seq(Octets))
    BY WholeIsSeq
  <1>3. all \in Seq(Octets) /\ new = all \o b
    <2>. HIDE DEF b
    <2>. QED  BY <1>1, <1>2, FlattenAppend
  <1>4. w = all \o b
    BY LengthAssumption DEF OnWire
  <1>5. Whole(Append(c, p)) = Append(Whole(c), b)
    BY WholeAppends
  <1>6. w \o <<>> = w
    <2>. HIDE DEF all, b
    <2>1. all \o b \in Seq(Octets)
      BY <1>1, <1>3, ConcatProperties
    <2>. QED  BY <1>4, <2>1, ConcatEmptySeq
  <1>. HIDE DEF b
  <1>. QED  BY <1>3, <1>4, <1>5, <1>6 DEF OnWire

\* A step that leaves what OnWire is about alone.
LEMMA WireUntouched ==
    ASSUME WireIsPackets, wire' = wire, completed' = completed,
           src'.CurTx = src.CurTx, src'.CurTxOffset = src.CurTxOffset
    PROVE  WireIsPackets'
  BY DEF WireIsPackets

LEMMA EnqueueLeavesCurTx ==
    ASSUME src \in Sources, NEW ps, src' = Enqueue(src, ps)
    PROVE  src'.CurTx = src.CurTx /\ src'.CurTxOffset = src.CurTxOffset
  BY DEF Enqueue, Sources

LEMMA TransmitWire ==
    ASSUME NEW s, NEW acc, InOrder(s, acc, completed), s.TxPackets # <<>>,
           OnWire(wire, completed, s.CurTx, s.CurTxOffset), Transmit(s, acc)
    PROVE  WireIsPackets'
  <1> DEFINE c   == completed
             p   == s.CurTx
             off == s.CurTxOffset
  <1>1. /\ s \in Sources /\ c \in Seq(Packets) /\ off \in Nat
        /\ OnWire(wire, c, p, off)
    BY DEF InOrder, Sources
  <1>2. WireIsPackets' <=> OnWire(wire', completed', src'.CurTx, src'.CurTxOffset)
    BY DEF WireIsPackets, OnWire, Whole
  <1>3. CASE TransmitSelect(s, acc)
    <2>1. src'.CurTx \in Packets /\ src'.CurTxOffset = 0
      BY <1>1, <1>3, SelectKeeps DEF TransmitSelect
    <2>2. wire' = wire /\ completed' = c /\ p = NoPacket
      BY <1>3 DEF TransmitSelect
    <2>. QED  BY <1>1, <1>2, <2>1, <2>2, WireSelects
  <1>4. ASSUME p # NoPacket
        PROVE  p \in Packets /\ Length[p] \in Nat /\ off < Length[p]
    BY <1>1, <1>4, LengthAssumption DEF Sources, InOrder
  <1>5. CASE TransmitPart(s, acc)
    <2>0. p \in Packets /\ Length[p] \in Nat /\ off < Length[p]
      BY <1>4, <1>5 DEF TransmitPart
    <2>1. PICK n \in 1..(BytesLeft(s) - 1) :
                  src' = Advance(s, n) /\ wire' = wire \o Took(s, n)
      BY <1>5 DEF TransmitPart
    <2>2. n \in Nat
      BY <1>1, <2>0 DEF BytesLeft
    <2>3. src'.CurTx = p /\ src'.CurTxOffset = off + n
      BY <1>1, <2>1 DEF Advance, Sources
    <2>4. Took(s, n) = [i \in 1..n |-> <<p, off + i>>]
      BY DEF Took
    <2>5. OnWire(wire \o Took(s, n), c, p, off + n)
      <3>. HIDE DEF c, p, off
      <3>. QED  BY <1>1, <2>0, <2>2, <2>4, WireTakes
    <2>6. completed' = c
      BY <1>5 DEF TransmitPart
    <2>. QED  BY <1>2, <2>1, <2>3, <2>5, <2>6
  <1>6. CASE TransmitRest(s, acc)
    <2>0. p \in Packets /\ Length[p] \in Nat /\ off < Length[p]
      BY <1>4, <1>6 DEF TransmitRest
    <2>1. PICK ps \in Handed(acc) : src' = Complete(s, ps)
      BY <1>6 DEF TransmitRest
    <2> DEFINE n == BytesLeft(s)
    <2>2. n \in Nat /\ off + n = Length[p]
      BY <1>1, <2>0 DEF BytesLeft
    <2>3. src'.CurTx = NoPacket
      BY <1>1, <2>1 DEF Complete, Sources
    <2>4. Took(s, n) = [i \in 1..n |-> <<p, off + i>>]
      BY DEF Took
    <2>5. OnWire(wire \o Took(s, n), c, p, off + n)
      <3>. HIDE DEF c, p, off, n
      <3>. QED  BY <1>1, <2>0, <2>2, <2>4, WireTakes
    <2>6. wire' = wire \o Took(s, n) /\ completed' = Append(c, p)
      BY <1>6 DEF TransmitRest
    <2>7. OnWire(wire', Append(c, p), NoPacket, src'.CurTxOffset)
      <3>. HIDE DEF c, p, off, n
      <3>. QED  BY <1>1, <2>0, <2>2, <2>5, <2>6, WireCompletes
    <2>. QED  BY <1>2, <2>3, <2>6, <2>7
  <1>7. CASE TransmitFails(s, acc)
    BY <1>2, <1>7 DEF TransmitFails
  <1>. QED  BY <1>3, <1>5, <1>6, <1>7 DEF Transmit

LEMMA InitWire == SourceInit => WireIsPackets
  <1> SUFFICES ASSUME SourceInit PROVE WireIsPackets
    OBVIOUS
  <1>1. completed = <<>> /\ wire = <<>> /\ src.CurTx = NoPacket
    BY DEF SourceInit
  <1>2. Whole(<<>>) = <<>> /\ Len(<<>>) = 0
    BY DEF Whole
  <1>3. FlattenSeq(<<>>) = <<>>
    BY <1>2 DEF FlattenSeq
  <1>4. <<>> \o <<>> = <<>>
    BY EmptySeq, ConcatEmptySeq, Zenon
  <1>. QED  BY <1>1, <1>2, <1>3, <1>4, WireFolds DEF OnWire

LEMMA StepWire == SourceInv /\ WireIsPackets /\ [SourceNext]_sourceVars => WireIsPackets'
  <1> SUFFICES ASSUME SourceInv, WireIsPackets, [SourceNext]_sourceVars PROVE WireIsPackets'
    OBVIOUS
  <1>0. InOrder(src, accepted, completed) /\ src \in Sources
    BY DEF SourceInv, InOrder
  <1>1. CASE UNCHANGED sourceVars
    BY <1>1, WireUntouched DEF sourceVars
  <1>2. CASE PeerDown \/ Poll \/ DispatchNothing
    BY <1>2, WireUntouched DEF PeerDown, Poll, DispatchNothing
  <1>3. ASSUME NEW p, SendPacket(p) PROVE WireIsPackets'
    <2>1. src'.CurTx = src.CurTx /\ src'.CurTxOffset = src.CurTxOffset
      BY <1>0, <1>3, EnqueueLeavesCurTx DEF SendPacket
    <2>. QED  BY <1>3, <2>1, WireUntouched DEF SendPacket
  <1>4. CASE DispatchDown
    <2>1. src'.CurTx = src.CurTx /\ src'.CurTxOffset = src.CurTxOffset
      BY <1>0, <1>4 DEF DispatchDown, Sources
    <2>. QED  BY <1>4, <2>1, WireUntouched DEF DispatchDown
  <1>5. CASE DispatchIO
    <2>1. PICK ps \in Handed(accepted) :
                \/ "OUT" \in revents /\ Transmit(Enqueue(src, ps), accepted \o ps)
                \/ /\ src' = Enqueue(src, ps) /\ accepted' = accepted \o ps
                   /\ process' = process /\ completed' = completed /\ wire' = wire
      BY <1>5, DispatchedIO
    <2>2. ps \in Seq(Packets)
      BY HandedIsSeq
    <2>3. PICK s : s = Enqueue(src, ps)
      OBVIOUS
    <2>4. /\ InOrder(s, accepted \o ps, completed)
          /\ s.CurTx = src.CurTx /\ s.CurTxOffset = src.CurTxOffset
          /\ src.TxPackets # <<>> => s.TxPackets # <<>>
      BY <1>0, <2>2, <2>3, EnqueueKeeps
    <2>5. CASE "OUT" \in revents /\ Transmit(s, accepted \o ps)
      <3>1. s.TxPackets # <<>>
        BY <2>4, <2>5 DEF SourceInv, OutHasWork
      <3>2. OnWire(wire, completed, s.CurTx, s.CurTxOffset)
        BY <2>4, WireFolds
      <3>. QED  BY <2>4, <2>5, <3>1, <3>2, TransmitWire
    <2>6. CASE src' = s /\ completed' = completed /\ wire' = wire
      BY <2>4, <2>6, WireUntouched
    <2>. QED  BY <2>1, <2>3, <2>5, <2>6
  <1>. QED  BY <1>1, <1>2, <1>3, <1>4, <1>5 DEF SourceNext, Dispatch

--------------------------------------------------------------------------------
\* The inductive invariant of a packet source.
THEOREM SourceInvariant == SourceSpec => []SourceInv
  <1>1. SourceInit => SourceInv
    BY InitSourceInv
  <1>2. SourceInv /\ [SourceNext]_sourceVars => SourceInv'
    BY StepSourceInv
  <1>. QED  BY <1>1, <1>2, PTL DEF SourceSpec

\* For any packets, G_IO_OUT is asked for exactly while packets are queued: no packet
\* waits for a wake-up that does not come (hnode-pktsrc.c, pktsrc_DispatchFunc).
THEOREM NoLostWakeUp == SourceSpec => []OutWhileQueued
  <1>1. SourceInv => OutWhileQueued
    BY DEF SourceInv, InOrder, OutWhileQueued
  <1>. QED  BY <1>1, SourceInvariant, PTL

\* For any packets, the one being sent stays at the head of the queue while others
\* are appended, so that list_remove takes off the packet that was sent
\* (hnode-pktsrc.c, pktsrc_DispatchFunc and g_hnode0pktsrc_send_packet).
THEOREM SendsTheHead == SourceSpec => []CurTxIsHead
  <1>1. SourceInv => CurTxIsHead
    BY DEF SourceInv, InOrder, CurTxIsHead
  <1>. QED  BY <1>1, SourceInvariant, PTL

\* For any packets of any length, what the socket took is the completed packets, whole
\* and in order, and the beginning of the one being sent, wherever sends were cut and
\* whatever was handed over in between (hnode-pktsrc.c, pktsrc_DispatchFunc).
THEOREM WireInOrder == SourceSpec => []WireIsPackets
  <1>1. SourceInv /\ WireIsPackets /\ [SourceNext]_sourceVars => WireIsPackets'
    BY StepWire
  <1>. QED  BY <1>1, InitWire, SourceInvariant, PTL DEF SourceSpec

\* For any packets of any length, the source is a FIFO channel: each step takes a packet,
\* completes the oldest that was handed over (taking at most an answer before and one
\* packet from the callback after), ends the channel, or shows nothing, also when one
\* dispatch does several of these (hnode-pktsrc.c, pktsrc_DispatchFunc).
THEOREM SourceIsChannel == SourceSpec => ImplementsChannel
  <1>1. SourceInit => Channel!Init
    BY DEF SourceInit, Channel!Init, Alive
  <1>2. ChannelStep => [Channel!Next]_(Channel!vars)
    BY DEF ChannelStep, Channel!Next, Channel!vars
  <1>3. SourceInv /\ [SourceNext]_sourceVars => [Channel!Next]_(Channel!vars)
    BY <1>2, StepSourceInv
  <1>. QED  BY <1>1, <1>3, SourceInvariant, PTL DEF SourceSpec, ImplementsChannel, Channel!Spec
================================================================================

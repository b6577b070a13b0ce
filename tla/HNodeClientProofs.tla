-------------------------- MODULE HNodeClientProofs --------------------------
(***************************************************************************)
(* Proofs about one management session, for any number of providers, tags, *)
(* records and queued packets.  The inductive invariant SessionInv adds to  *)
(* the checked invariants what they rest on: NodeIDs are positions in       *)
(* NodeList, a session that is UPDATING has a packet queued, and a session  *)
(* that was not started has no reports to make.  That the session           *)
(* implements NodeFeed takes one more fact, that no record is queued before *)
(* the client has asked for reports.                                       *)
(***************************************************************************)
EXTENDS HNodeClient, SessionProofs

\* The inductive invariant.  Once the connection is down nothing changes the
\* session any more, and what is claimed of its last contents is kept.
SessionInv ==
    /\ TypeOK
    /\ connected => Sound(session, announced)
    /\ ~connected => /\ session.State # "STOPPED"
                     /\ UpdateBookkeeping /\ AnnouncedInOrder

LEMMA SoundImplies ==
    ASSUME TypeOK, Sound(session, announced)
    PROVE  UpdateBookkeeping /\ AnnouncedInOrder /\ ReportsNeverStall
  <1>1. /\ Bookkept(session)
        /\ session.NodeList \in Seq(NodeRecords)
        /\ Len(session.NodeList) \in Nat
        /\ DOMAIN session.NodeList = 1..Len(session.NodeList)
        /\ Len(announced) \in Nat
        /\ session.TxPackets \in Seq(Packets)
    BY LenProperties DEF TypeOK, Sound, Bookkept, Sessions
  <1>2. UpdateBookkeeping
    BY <1>1 DEF Bookkept, UpdateBookkeeping, Rep, Reported
  <1>3. ReportsNeverStall
    BY DEF Sound, Driven, ReportsNeverStall
  <1>4. AnnouncedInOrder
    <2>. DEFINE q == session.TxPackets
                m == Shown(session)
    <2>1. /\ m \in Nat /\ m <= Len(session.NodeList)
          /\ \A i \in DOMAIN session.NodeList :
                session.NodeList[i].State # "NEW" <=> i <= m
      BY <1>1, ShownIsNat
    <2>. HIDE DEF m
    <2>2. SentInOrder(announced, q, m)
      BY DEF Sound, m
    <2>3. QueuedNodes = NodesIn(q)
      BY DEF QueuedNodes, NodesIn
    <2>4. \A k \in NodesIn(q) : q[k].body \in Nat
      <3>1. \A k \in DOMAIN q : q[k] \in Packets
        BY <1>1, ElementOfSeq, LenProperties
      <3>. QED BY <3>1 DEF NodesIn, Packets
    <2>5. ASSUME NEW i \in DOMAIN session.NodeList
          PROVE  session.NodeList[i].State # "NEW"
                    <=> i <= Len(announced) \/ \E k \in NodesIn(q) : q[k].body = i - 1
      <3>1. i \in Nat /\ i >= 1 /\ i - 1 \in Nat
        BY <1>1
      <3>2. ASSUME i <= m, ~(i <= Len(announced))
            PROVE  \E k \in NodesIn(q) : q[k].body = i - 1
        <4>1. Len(announced) <= i - 1 /\ i - 1 < m
          BY <1>1, <2>1, <3>1, <3>2
        <4>. QED BY <2>2, <3>1, <4>1 DEF SentInOrder
      <3>3. ASSUME i <= Len(announced)
            PROVE  i <= m
        BY <1>1, <2>1, <2>2, <3>1, <3>3 DEF SentInOrder
      <3>4. ASSUME NEW k \in NodesIn(q), q[k].body = i - 1
            PROVE  i <= m
        <4>1. q[k].body < m
          BY <2>2 DEF SentInOrder
        <4>. QED BY <2>1, <3>1, <3>4, <4>1
      <3>. QED BY <2>1, <3>2, <3>3, <3>4
    <2>6. /\ Len(announced) <= Len(session.NodeList)
          /\ \A k \in NodesIn(q) : q[k].body < Len(session.NodeList)
      <3>1. /\ Len(announced) <= m
            /\ \A k \in NodesIn(q) : q[k].body < m
        BY <2>2 DEF SentInOrder
      <3>. QED BY <1>1, <2>1, <2>4, <3>1
    <2>7. /\ \A k \in DOMAIN announced : announced[k] = k - 1
          /\ \A k \in NodesIn(q) : q[k].body >= Len(announced)
          /\ \A j, k \in NodesIn(q) : j < k => q[j].body < q[k].body
      <3>1. \A k \in NodesIn(q) : Len(announced) <= q[k].body
        BY <2>2 DEF SentInOrder
      <3>2. \A k \in NodesIn(q) : q[k].body >= Len(announced)
        BY <1>1, <2>4, <3>1
      <3>. QED BY <2>2, <3>2 DEF SentInOrder
    <2>. QED BY <2>3, <2>5, <2>6, <2>7 DEF AnnouncedInOrder
  <1>. QED BY <1>2, <1>3, <1>4

LEMMA InitSound ==
    ASSUME Init
    PROVE  SessionInv
  <1>1. /\ session \in Sessions /\ session.NodeList = <<>> /\ session.TxPackets = <<>>
        /\ session.UpdateNodeCount = 0 /\ session.NextNodeID = 0
        /\ session.State = "STOPPED" /\ ~session.Report
    BY EmptySeq DEF Init, NewClient, Sessions, ClientStates
  <1>2. TypeOK
    BY <1>1, EmptySeq DEF Init, TypeOK
  <1>3. Bookkept(session) /\ Shown(session) = 0
    BY <1>1, EmptySeq DEF Bookkept, Rep, Shown
  <1>4. SentInOrder(announced, session.TxPackets, 0)
    BY <1>1, EmptySeq DEF Init, SentInOrder, NodesIn
  <1>5. Sound(session, announced)
    BY <1>1, <1>3, <1>4 DEF Sound, Driven
  <1>. QED BY <1>2, <1>5, SoundImplies DEF SessionInv, Init

\* Every step of the session keeps the invariant.
LEMMA StepSound ==
    ASSUME SessionInv, [Next]_vars
    PROVE  SessionInv'
  <1>1. /\ connected => Sound(session, announced) /\ session \in Sessions
        /\ TypeOK /\ UpdateBookkeeping /\ AnnouncedInOrder
    BY SoundImplies DEF SessionInv, TypeOK
  <1>2. ASSUME NEW p \in Providers, ServerAddNode(p)
        PROVE  SessionInv'
    <2>1. Sound(session', announced)
      BY <1>1, <1>2, AddNodeIsSound DEF ServerAddNode, SessionInv, TypeOK
    <2>2. session' \in Sessions
      BY <2>1 DEF Sound, Bookkept
    <2>. QED BY <1>2, <2>1, <2>2 DEF ServerAddNode, SessionInv, TypeOK
  <1>3. ASSUME ServerStart
        PROVE  SessionInv'
    <2>1. connected /\ Sound(session, announced)
      BY <1>1, <1>3 DEF ServerStart, SessionInv
    <2>2. /\ session' \in Sessions
          /\ session'.NodeList = session.NodeList
          /\ session'.UpdateNodeCount = session.UpdateNodeCount
          /\ session'.NextNodeID = session.NextNodeID
          /\ session'.UpdatingNode = session.UpdatingNode
          /\ session'.TxPackets = session.TxPackets
          /\ session'.Report = session.Report
          /\ session'.State = "IDLE" /\ session.State = "STOPPED"
      BY <1>1, <1>3, <2>1 DEF ServerStart, StartClient, Sessions, ClientStates
    <2>3. Bookkept(session') /\ Shown(session') = Shown(session)
      BY <2>1, <2>2 DEF Sound, Bookkept, Shown, Rep
    <2>4. Sound(session', announced)
      BY <2>1, <2>2, <2>3 DEF Sound, Driven
    <2>. QED BY <1>3, <2>1, <2>2, <2>4 DEF ServerStart, SessionInv, TypeOK
  <1>4. ASSUME RxRequest
        PROVE  SessionInv'
    <2>1. connected /\ Sound(session, announced) /\ session.State # "STOPPED"
      BY <1>1, <1>4 DEF RxRequest, Running
    <2>2. session \in Sessions /\ announced \in Seq(Nat)
      BY DEF SessionInv, TypeOK
    <2>3. ASSUME NEW tag \in Tags, session' = RxReqPInfo(session, tag)
          PROVE  Sound(session', announced)
      <3>1. AckPkt(tag) \in Packets /\ AckPkt(tag).type # "NODE"
        BY BoundsAssumption DEF AckPkt, Packets
      <3>2. Append(session.TxPackets, AckPkt(tag)) \in Seq(Packets)
        BY <2>2, <3>1, AppendProperties DEF Sessions
      <3>3. /\ session' \in Sessions
            /\ session'.NodeList = session.NodeList
            /\ session'.UpdateNodeCount = session.UpdateNodeCount
            /\ session'.NextNodeID = session.NextNodeID
            /\ session'.State = session.State
            /\ session'.UpdatingNode = session.UpdatingNode
            /\ session'.TxPackets = Append(session.TxPackets, AckPkt(tag))
        BY <2>2, <2>3, <3>2 DEF RxReqPInfo, SendPacket, Sessions
      <3>. QED BY <2>1, <2>2, <3>1, <3>3, SendIsSound
    <2>4. ASSUME session' = RxDebugCtrl(session) \/ session' = RxEventCtrl(session)
          PROVE  Sound(session', announced)
      <3>1. /\ session' \in Sessions
            /\ session'.NodeList = session.NodeList
            /\ session'.UpdateNodeCount = session.UpdateNodeCount
            /\ session'.NextNodeID = session.NextNodeID
            /\ session'.State = session.State /\ session'.Report = session.Report
            /\ session'.UpdatingNode = session.UpdatingNode
            /\ session'.TxPackets = session.TxPackets
        BY <2>2, <2>4 DEF RxDebugCtrl, RxEventCtrl, Sessions
      <3>2. Bookkept(session') /\ Shown(session') = Shown(session)
        BY <2>1, <3>1 DEF Sound, Bookkept, Shown, Rep
      <3>. QED BY <2>1, <3>1, <3>2 DEF Sound, Driven
    <2>5. Sound(session', announced)
      BY <1>4, <2>3, <2>4 DEF RxRequest
    <2>6. session' \in Sessions
      BY <2>5 DEF Sound, Bookkept
    <2>. QED BY <1>4, <2>1, <2>5, <2>6 DEF RxRequest, SessionInv, TypeOK
  <1>5. ASSUME ServerForwardDebug
        PROVE  SessionInv'
    <2>1. connected /\ Sound(session, announced) /\ session.State # "STOPPED"
      BY <1>1, <1>5 DEF ServerForwardDebug, Running
    <2>2. session \in Sessions /\ announced \in Seq(Nat) /\ offered \in Nat
      BY DEF SessionInv, TypeOK
    <2>3. DebugPkt(offered) \in Packets /\ DebugPkt(offered).type # "NODE"
      BY <2>2 DEF DebugPkt, Packets
    <2>4. ASSUME session' = SendPacket(session, DebugPkt(offered))
          PROVE  Sound(session', announced)
      <3>1. Append(session.TxPackets, DebugPkt(offered)) \in Seq(Packets)
        BY <2>2, <2>3, AppendProperties DEF Sessions
      <3>2. /\ session' \in Sessions
            /\ session'.NodeList = session.NodeList
            /\ session'.UpdateNodeCount = session.UpdateNodeCount
            /\ session'.NextNodeID = session.NextNodeID
            /\ session'.State = session.State
            /\ session'.UpdatingNode = session.UpdatingNode
            /\ session'.TxPackets = Append(session.TxPackets, DebugPkt(offered))
        BY <2>2, <2>4, <3>1 DEF SendPacket, Sessions
      <3>. QED BY <2>1, <2>2, <2>3, <3>2, SendIsSound
    <2>5. Sound(session', announced)
      BY <1>5, <2>1, <2>4 DEF ServerForwardDebug, ForwardDebugPacket
    <2>6. session' \in Sessions
      BY <2>5 DEF Sound, Bookkept
    <2>7. offered' \in Nat
      BY <1>5, <2>2 DEF ServerForwardDebug
    <2>. QED BY <1>5, <2>1, <2>5, <2>6, <2>7 DEF ServerForwardDebug, SessionInv, TypeOK
  <1>6. ASSUME SourceTxComplete
        PROVE  SessionInv'
    <2>1. /\ connected /\ Sound(session, announced) /\ session.State # "STOPPED"
          /\ session.TxPackets # <<>> /\ announced \in Seq(Nat)
      BY <1>1, <1>6 DEF SourceTxComplete, Running, SessionInv, TypeOK
    <2>2. announced' = IF Head(session.TxPackets).type = "NODE"
                       THEN Append(announced, Head(session.TxPackets).body)
                       ELSE announced
      BY <1>6 DEF SourceTxComplete
    <2>3. announced' \in Seq(Nat) /\ Sound(session', announced')
      BY <1>6, <2>1, <2>2, CompleteIsSound DEF SourceTxComplete
    <2>4. session' \in Sessions
      BY <2>3 DEF Sound, Bookkept
    <2>. QED BY <1>6, <2>1, <2>3, <2>4 DEF SourceTxComplete, SessionInv, TypeOK
  <1>7. ASSUME SourceDown
        PROVE  SessionInv'
    <2>1. /\ session' \in Sessions /\ connected' = FALSE /\ session'.State = "IDLE"
          /\ session'.NodeList = session.NodeList
          /\ session'.UpdateNodeCount = session.UpdateNodeCount
          /\ session'.TxPackets = session.TxPackets
          /\ UNCHANGED <<announced, offered>>
      BY <1>7 DEF SourceDown, SessionInv, TypeOK, Sessions, ClientStates
    <2>2. TypeOK'
      BY <2>1 DEF SessionInv, TypeOK
    <2>3. UpdateBookkeeping'
      BY <1>1, <2>1 DEF UpdateBookkeeping, Reported
    <2>4. AnnouncedInOrder'
      BY <1>1, <2>1 DEF AnnouncedInOrder, QueuedNodes
    <2>. QED BY <2>1, <2>2, <2>3, <2>4 DEF SessionInv
  <1>8. CASE UNCHANGED vars
    <2>1. TypeOK' /\ UpdateBookkeeping' /\ AnnouncedInOrder'
      BY <1>1, <1>8 DEF vars, TypeOK, UpdateBookkeeping, Reported,
                        AnnouncedInOrder, QueuedNodes
    <2>. QED BY <1>8, <2>1 DEF vars, SessionInv
  <1>. QED BY <1>2, <1>3, <1>4, <1>5, <1>6, <1>7, <1>8 DEF Next

\* Every reachable state of a session satisfies the invariant.
THEOREM SessionInvariant == Spec => []SessionInv
  <1>1. Init => SessionInv
    BY InitSound
  <1>2. SessionInv /\ [Next]_vars => SessionInv'
    BY StepSound
  <1>. QED BY <1>1, <1>2, PTL DEF Spec

\* g_hnode_client_rx, client_tx, add_node and forward_debug keep the session
\* object within its types, the unsigned UpdateNodeCount among them.
THEOREM SessionTypes == Spec => []TypeOK
  <1>1. SessionInv => TypeOK
    BY DEF SessionInv
  <1>. QED BY <1>1, SessionInvariant, PTL

\* UpdateNodeCount counts exactly the records client_tx has not established,
\* and UpdatingNode is the oldest of them.
THEOREM BookkeepingHolds == Spec => []UpdateBookkeeping
  <1>1. SessionInv => UpdateBookkeeping
    BY SoundImplies DEF SessionInv
  <1>. QED BY <1>1, SessionInvariant, PTL

\* The completions that drive node reports never run out before the records.
THEOREM ReportsGoOn == Spec => []ReportsNeverStall
  <1>1. SessionInv => ReportsNeverStall
    BY SoundImplies DEF SessionInv, ReportsNeverStall
  <1>. QED BY <1>1, SessionInvariant, PTL

\* A client is told of NodeIDs 0, 1, 2, ... once each and in that order, for
\* any number of records, acknowledgements and debug frames in between.
THEOREM OrderHolds == Spec => []AnnouncedInOrder
  <1>1. SessionInv => AnnouncedInOrder
    BY SoundImplies DEF SessionInv
  <1>. QED BY <1>1, SessionInvariant, PTL

----------------------------------------------------------------------------
(* The refinement of NodeFeed.                                             *)

\* No record is queued before the client has asked for reports.
FeedInv == SessionInv /\ (connected => AskedFirst(session))

\* What one step of the session does to the feed.
FeedStep ==
    \/ \E p \in Providers : Feed!Learn(p)
    \/ Feed!Subscribe \/ Feed!Tell \/ Feed!Close
    \/ /\ UNCHANGED <<connected, session.Report>>
       /\ UNCHANGED <<KnownBy(session), ToldBy(announced, session)>>

\* Steps that tell nothing leave what was told alone, as it is a prefix of what
\* is known.
LEMMA ToldStays ==
    ASSUME NEW ann \in Seq(Nat), NEW c, NEW d, Sound(c, ann), Sound(d, ann),
           \A i \in 1..Len(c.NodeList) : KnownBy(d)[i] = KnownBy(c)[i]
    PROVE  ToldBy(ann, d) = ToldBy(ann, c)
  <1>1. \A k \in 1..Len(ann) : k \in 1..Len(c.NodeList)
    BY ToldIsPrefix, KnownIsSeq DEF Sound
  <1>2. \A k \in 1..Len(ann) : ToldBy(ann, d)[k] = ToldBy(ann, c)[k]
    BY <1>1, ToldIsPrefix
  <1>. QED  BY <1>2, ToldIsPrefix, SeqEqual

LEMMA LearnStep ==
    ASSUME FeedInv, NEW p \in Providers, ServerAddNode(p)
    PROVE  AskedFirst(session') /\ Feed!Learn(p)
  <1>1. /\ connected /\ connected' = connected /\ announced' = announced
        /\ Sound(session, announced) /\ AskedFirst(session) /\ announced \in Seq(Nat)
        /\ session' = AddNode(session, p)
    BY DEF ServerAddNode, FeedInv, SessionInv, TypeOK
  <1>2. Sound(session', announced)
    BY <1>1, AddNodeIsSound
  <1>3. /\ KnownBy(session') = Append(KnownBy(session), p)
        /\ session'.Report = session.Report /\ AskedFirst(session')
    BY <1>1, AddLearns DEF Sound
  <1>4. \A i \in 1..Len(session.NodeList) : KnownBy(session')[i] = KnownBy(session)[i]
    BY <1>1, <1>3, KnownIsSeq, AppendProperties DEF Sound
  <1>5. ToldBy(announced, session') = ToldBy(announced, session)
    BY <1>1, <1>2, <1>4, ToldStays
  <1>. QED  BY <1>1, <1>3, <1>5 DEF Feed!Learn, KnownBy, ToldBy

LEMMA TellStep ==
    ASSUME FeedInv, SourceTxComplete
    PROVE  AskedFirst(session') /\ FeedStep
  <1>1. /\ connected /\ connected' = connected /\ session.State # "STOPPED"
        /\ Sound(session, announced) /\ AskedFirst(session) /\ announced \in Seq(Nat)
        /\ session.TxPackets # <<>> /\ session' = TxComplete(session)
    BY DEF SourceTxComplete, Running, FeedInv, SessionInv, TypeOK
  <1>2. announced' = IF Head(session.TxPackets).type = "NODE"
                     THEN Append(announced, Head(session.TxPackets).body)
                     ELSE announced
    BY DEF SourceTxComplete
  <1>3. announced' \in Seq(Nat) /\ Sound(session', announced')
    BY <1>1, <1>2, CompleteIsSound
  <1>4. /\ KnownBy(session') = KnownBy(session)
        /\ session'.Report = session.Report /\ AskedFirst(session')
        /\ Head(session.TxPackets).type = "NODE" => session.Report
    BY <1>1, CompleteKeepsNodes DEF Sound
  <1>5. CASE Head(session.TxPackets).type # "NODE"
    <2>1. ToldBy(announced', session') = ToldBy(announced, session)
      BY <1>1, <1>2, <1>3, <1>4, <1>5, ToldStays
    <2>. QED  BY <1>1, <1>4, <2>1 DEF FeedStep
  <1>6. CASE Head(session.TxPackets).type = "NODE"
    <2>. DEFINE k  == KnownBy(session)
                o  == ToldBy(announced, session)
                oo == ToldBy(announced', session')
                n  == Len(announced)
    <2>1. n \in Nat /\ Len(announced') = n + 1
      <3>1. Head(session.TxPackets) \in Packets
        BY <1>1, HeadTailProperties DEF Sound, Bookkept, Sessions
      <3>2. Head(session.TxPackets).body \in Nat
        BY <1>6, <3>1 DEF Packets
      <3>. QED  BY <1>1, <1>2, <1>6, <3>2, AppendProperties, LenProperties
    <2>2. /\ o \in Seq(Providers) /\ Len(o) = n
          /\ \A i \in 1..n : o[i] = k[i]
      BY <1>1, ToldIsPrefix
    <2>3. /\ oo \in Seq(Providers) /\ Len(oo) = n + 1
          /\ n + 1 <= Len(session'.NodeList)
          /\ \A i \in 1..(n + 1) : oo[i] = k[i]
      BY <1>3, <1>4, <2>1, ToldIsPrefix
    <2>4. Len(k) = Len(session'.NodeList) /\ Len(k) \in Nat /\ k \in Seq(Providers)
      BY <1>3, <1>4, KnownIsSeq DEF Sound
    <2>. HIDE DEF k, o, oo, n
    <2>5. n < Len(k) /\ k[n + 1] \in Providers
      BY <2>1, <2>3, <2>4, ElementOfSeq
    <2>6. oo = Append(o, k[n + 1])
      <3>1. /\ Append(o, k[n + 1]) \in Seq(Providers)
            /\ Len(Append(o, k[n + 1])) = n + 1
            /\ \A i \in 1..n : Append(o, k[n + 1])[i] = o[i]
            /\ Append(o, k[n + 1])[n + 1] = k[n + 1]
        BY <2>2, <2>5, AppendProperties
      <3>2. ASSUME NEW i \in 1..(n + 1)
            PROVE  oo[i] = Append(o, k[n + 1])[i]
        <4>1. CASE i \in 1..n
          BY <2>1, <2>2, <2>3, <3>1, <4>1
        <4>2. CASE i = n + 1
          BY <2>1, <2>3, <3>1, <4>2
        <4>3. i \in 1..n \/ i = n + 1
          BY <2>1
        <4>. QED  BY <4>1, <4>2, <4>3
      <3>. QED  BY <2>3, <3>1, <3>2, SeqEqual
    <2>7. Len(o) < Len(k) /\ oo = Append(o, k[Len(o) + 1])
      BY <2>2, <2>5, <2>6
    <2>8. KnownBy(session') = k
      BY <1>4 DEF k
    <2>9. Feed!Tell
      BY <1>1, <1>4, <1>6, <2>7, <2>8 DEF Feed!Tell, KnownBy, ToldBy, k, o, oo
    <2>. QED  BY <1>4, <2>9 DEF FeedStep
  <1>. QED  BY <1>5, <1>6

LEMMA RequestStep ==
    ASSUME FeedInv, RxRequest
    PROVE  AskedFirst(session') /\ FeedStep
  <1>1. /\ connected /\ connected' = connected /\ announced' = announced
        /\ AskedFirst(session) /\ session \in Sessions
    BY DEF RxRequest, Running, FeedInv, SessionInv, TypeOK
  <1>2. ASSUME NEW tag \in Tags, session' = RxReqPInfo(session, tag)
        PROVE  AskedFirst(session') /\ FeedStep
    <2>1. session'.Report = TRUE /\ session'.NodeList = session.NodeList
      BY <1>1, <1>2 DEF RxReqPInfo, SendPacket, Sessions
    <2>2. Feed!Subscribe
      BY <1>1, <2>1 DEF Feed!Subscribe
    <2>. QED  BY <2>1, <2>2 DEF AskedFirst, FeedStep
  <1>3. ASSUME session' = RxDebugCtrl(session) \/ session' = RxEventCtrl(session)
        PROVE  AskedFirst(session') /\ FeedStep
    <2>1. /\ session'.Report = session.Report /\ session'.NodeList = session.NodeList
          /\ session'.TxPackets = session.TxPackets
      BY <1>1, <1>3 DEF RxDebugCtrl, RxEventCtrl, Sessions
    <2>. QED  BY <1>1, <2>1 DEF AskedFirst, FeedStep, KnownBy, ToldBy
  <1>. QED  BY <1>2, <1>3 DEF RxRequest

LEMMA DebugStep ==
    ASSUME FeedInv, ServerForwardDebug
    PROVE  AskedFirst(session') /\ FeedStep
  <1>1. /\ connected /\ connected' = connected /\ announced' = announced
        /\ AskedFirst(session) /\ session \in Sessions
        /\ session' = ForwardDebugPacket(session, offered) /\ offered \in Nat
    BY DEF ServerForwardDebug, Running, FeedInv, SessionInv, TypeOK
  <1>2. session.TxPackets \in Seq(Packets)
    BY <1>1 DEF Sessions
  <1>3. DebugPkt(offered) \in Packets /\ DebugPkt(offered).type # "NODE"
    BY <1>1 DEF DebugPkt, Packets
  <1>4. /\ session'.Report = session.Report /\ session'.NodeList = session.NodeList
        /\ \/ session'.TxPackets = session.TxPackets
           \/ session'.TxPackets = Append(session.TxPackets, DebugPkt(offered))
    BY <1>1 DEF ForwardDebugPacket, SendPacket, Sessions
  <1>5. AskedFirst(session')
    BY <1>1, <1>2, <1>3, <1>4, OtherUnasked DEF AskedFirst
  <1>. QED  BY <1>1, <1>4, <1>5 DEF FeedStep, KnownBy, ToldBy

\* Every step keeps the invariant and is a step of the feed, or shows nothing.
LEMMA StepFeed ==
    ASSUME FeedInv, [Next]_vars
    PROVE  FeedInv' /\ FeedStep
  <1>1. SessionInv'
    BY StepSound DEF FeedInv
  <1>2. session \in Sessions
    BY DEF FeedInv, SessionInv, TypeOK
  <1>3. (connected' => AskedFirst(session')) /\ FeedStep
    <2>1. ASSUME NEW p \in Providers, ServerAddNode(p)
          PROVE  AskedFirst(session') /\ FeedStep
      BY <2>1, LearnStep DEF FeedStep
    <2>2. CASE ServerStart
      <3>1. /\ session'.Report = session.Report /\ session'.NodeList = session.NodeList
            /\ session'.TxPackets = session.TxPackets
            /\ connected' = connected /\ announced' = announced
        BY <1>2, <2>2 DEF ServerStart, StartClient, Sessions
      <3>. QED  BY <3>1 DEF FeedInv, AskedFirst, FeedStep, KnownBy, ToldBy
    <2>3. CASE RxRequest
      BY <2>3, RequestStep
    <2>4. CASE ServerForwardDebug
      BY <2>4, DebugStep
    <2>5. CASE SourceTxComplete
      BY <2>5, TellStep
    <2>6. CASE SourceDown
      <3>1. /\ session'.Report = session.Report /\ session'.NodeList = session.NodeList
            /\ connected /\ connected' = FALSE /\ announced' = announced
        BY <1>2, <2>6 DEF SourceDown, Running, Sessions
      <3>2. Feed!Close
        BY <3>1 DEF Feed!Close
      <3>. QED  BY <3>1, <3>2 DEF FeedStep
    <2>7. CASE UNCHANGED vars
      BY <2>7 DEF vars, FeedInv, AskedFirst, FeedStep, KnownBy, ToldBy
    <2>. QED  BY <2>1, <2>2, <2>3, <2>4, <2>5, <2>6, <2>7 DEF Next
  <1>. QED  BY <1>1, <1>3 DEF FeedInv

LEMMA InitFeed ==
    ASSUME Init
    PROVE  FeedInv /\ Feed!Init
  <1>1. /\ session.NodeList = <<>> /\ session.TxPackets = <<>> /\ ~session.Report
        /\ connected /\ announced = <<>>
    BY DEF Init, NewClient
  <1>2. AskedFirst(session)
    BY <1>1, EmptySeq DEF AskedFirst, NodesIn
  <1>3. Feed!Init
    BY <1>1, EmptySeq DEF Feed!Init, Init, NewClient
  <1>. QED  BY <1>2, <1>3, InitSound DEF FeedInv

\* For any providers, requests and frames, a session tells its client of the nodes
\* the server knows once each and in the order they became ready, and of none
\* before the client asked (hnode-srvobj-client.c, add_node to client_tx).
THEOREM SessionIsFeed == Spec => ImplementsFeed
  <1>1. FeedStep => [Feed!Next]_(Feed!vars)
    BY DEF FeedStep, Feed!Next, Feed!vars, KnownBy, ToldBy
  <1>2. FeedInv /\ [Next]_vars => FeedInv' /\ [Feed!Next]_(Feed!vars)
    BY <1>1, StepFeed
  <1>. QED  BY <1>2, InitFeed, PTL DEF Spec, ImplementsFeed, Feed!Spec
============================================================================

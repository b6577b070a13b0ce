---------------------------- MODULE ServerProofs ----------------------------
(***************************************************************************)
(* Proofs about the management server with all its clients, for any number *)
(* of providers, clients, connections, debug frames and queued packets.    *)
(* The inductive invariant ServerInv says what every connected session     *)
(* keeps (Serves: SessionProofs' Sound, the ready providers listed once    *)
(* each, what the client was told a prefix of that list, no frame queued   *)
(* twice) and that the reference counts cover the users, of which a        *)
(* provider has at most one record in each session.                        *)
(***************************************************************************)
EXTENDS HNodeServer, SessionProofs, FiniteSetTheorems

\* The NodeIDs of the first n records.
Numbers(n) == [k \in 1..n |-> k - 1]

\* A session lists the providers P, once each, and no other.
ListsOnce(c, P) ==
    /\ \A i, j \in 1..Len(c.NodeList) : KnownBy(c)[i] = KnownBy(c)[j] => i = j
    /\ \A p \in P : \E i \in 1..Len(c.NodeList) : KnownBy(c)[i] = p
    /\ \A i \in 1..Len(c.NodeList) : KnownBy(c)[i] \in P

\* What holds of a session c whose client was told t, when the providers P are
\* ready and the debug frames F were received; and of a connected one.
Lists(c, t, P, F) ==
    /\ Sound(c, Numbers(Len(t))) /\ AskedFirst(c)
    /\ \A k \in 1..Len(t) : t[k] = KnownBy(c)[k]
    /\ ListsOnce(c, P)
    /\ FramesOnce(c.TxPackets) /\ FramesIn(c.TxPackets) \subseteq F

Serves(c, t, P, F) == Lists(c, t, P, F) /\ c.State # "STOPPED"

LEMMA NumbersAreSeq ==
    ASSUME NEW n \in Nat
    PROVE  /\ Numbers(n) \in Seq(Nat) /\ Len(Numbers(n)) = n
           /\ Append(Numbers(n), n) = Numbers(n + 1)
  <1>1. \A m \in Nat : Numbers(m) \in Seq(Nat) /\ Len(Numbers(m)) = m
                       /\ \A k \in 1..m : Numbers(m)[k] = k - 1
    <2> SUFFICES ASSUME NEW m \in Nat
                 PROVE  /\ Numbers(m) \in Seq(Nat) /\ Len(Numbers(m)) = m
                        /\ \A k \in 1..m : Numbers(m)[k] = k - 1
      OBVIOUS
    <2>1. \A k \in 1..m : k - 1 \in Nat
      OBVIOUS
    <2>. QED  BY <2>1 DEF Numbers
  <1> DEFINE a == Append(Numbers(n), n)
             b == Numbers(n + 1)
  <1>2. /\ a \in Seq(Nat) /\ Len(a) = n + 1
        /\ \A k \in 1..n : a[k] = Numbers(n)[k]
        /\ a[n + 1] = n
    <2> DEFINE s == Numbers(n)
    <2>1. s \in Seq(Nat) /\ Len(s) = n /\ n \in Nat
      BY <1>1
    <2>. HIDE DEF s
    <2>2. /\ Append(s, n) \in Seq(Nat) /\ Len(Append(s, n)) = n + 1
          /\ \A k \in 1..n : Append(s, n)[k] = s[k]
          /\ Append(s, n)[n + 1] = n
      BY <2>1, AppendProperties
    <2>. QED  BY <2>2 DEF s
  <1>3. b \in Seq(Nat) /\ Len(b) = n + 1 /\ \A k \in 1..(n + 1) : b[k] = k - 1
    BY <1>1
  <1>. HIDE DEF a, b
  <1>4. ASSUME NEW k \in 1..(n + 1)
        PROVE  a[k] = b[k]
    <2>1. CASE k \in 1..n
      BY <1>1, <1>2, <1>3, <2>1
    <2>2. CASE k = n + 1
      BY <1>2, <1>3, <2>2
    <2>. QED  BY <2>1, <2>2
  <1>5. a = b
    BY <1>2, <1>3, <1>4, SeqEqual
  <1>. QED  BY <1>1, <1>5 DEF a, b

\* What was told is the beginning of the list, and no longer than it.
LEMMA ToldWithin ==
    ASSUME NEW t \in Seq(Providers), NEW c, Sound(c, Numbers(Len(t)))
    PROVE  /\ Bookkept(c) /\ c \in Sessions
           /\ Len(t) \in Nat /\ Len(c.NodeList) \in Nat
           /\ Len(t) <= Len(c.NodeList)
           /\ KnownBy(c) \in Seq(Providers) /\ Len(KnownBy(c)) = Len(c.NodeList)
           /\ \A i \in 1..Len(c.NodeList) : KnownBy(c)[i] = c.NodeList[i].Node
           /\ \A i \in 1..Len(c.NodeList) : c.NodeList[i].NodeID = i - 1
  <1>1. Len(t) \in Nat
    OBVIOUS
  <1>2. Numbers(Len(t)) \in Seq(Nat) /\ Len(Numbers(Len(t))) = Len(t)
    BY <1>1, NumbersAreSeq
  <1>3. Bookkept(c) /\ c \in Sessions
    BY DEF Sound, Bookkept
  <1>4. Len(t) <= Len(c.NodeList)
    BY <1>2, ToldIsPrefix
  <1>. QED  BY <1>1, <1>3, <1>4, KnownIsSeq DEF Bookkept

\* g_hnode_client_add_node: the session lists one provider more.
LEMMA AddLists ==
    ASSUME NEW t \in Seq(Providers), NEW P \in SUBSET Providers, NEW F,
           NEW c, Lists(c, t, P, F), NEW p \in Providers, p \notin P,
           NEW d, d = AddNode(c, p)
    PROVE  /\ Lists(d, t, P \cup {p}, F)
           /\ FramesIn(d.TxPackets) = FramesIn(c.TxPackets)
           /\ d.Report = c.Report
           /\ d.State = "STOPPED" <=> c.State = "STOPPED"
           /\ c.State = "STOPPED" => d.TxPackets = c.TxPackets
  <1> DEFINE m == Len(c.NodeList)
  <1>1. /\ Bookkept(c) /\ Len(t) \in Nat /\ m \in Nat /\ Len(t) <= m
        /\ KnownBy(c) \in Seq(Providers) /\ Len(KnownBy(c)) = m
        /\ Numbers(Len(t)) \in Seq(Nat)
    BY ToldWithin, NumbersAreSeq DEF Lists
  <1>2. Sound(d, Numbers(Len(t)))
    BY <1>1, AddNodeIsSound DEF Lists
  <1>3. AskedFirst(d) /\ KnownBy(d) = Append(KnownBy(c), p)
        /\ d.Report = c.Report
    BY <1>1, AddLearns DEF Lists
  <1>4. /\ FramesOnce(d.TxPackets) /\ FramesIn(d.TxPackets) = FramesIn(c.TxPackets)
        /\ d.State = "STOPPED" <=> c.State = "STOPPED"
        /\ c.State = "STOPPED" => d.TxPackets = c.TxPackets
    BY <1>1, AddKeepsFrames DEF Lists
  <1>5. /\ Len(d.NodeList) = m + 1
        /\ \A i \in 1..m : KnownBy(d)[i] = KnownBy(c)[i]
        /\ KnownBy(d)[m + 1] = p
    <2>1. Len(KnownBy(d)) = Len(d.NodeList)
      BY <1>2, ToldWithin
    <2>. QED  BY <1>1, <1>3, <2>1, AppendProperties
  <1>. HIDE DEF m
  <1>6. \A k \in 1..Len(t) : t[k] = KnownBy(d)[k]
    BY <1>1, <1>5 DEF Lists
  <1>7. ListsOnce(d, P \cup {p})
    <2>0. /\ \A i \in 1..m : KnownBy(c)[i] \in P
          /\ \A i, j \in 1..m : KnownBy(c)[i] = KnownBy(c)[j] => i = j
          /\ \A x \in P : \E i \in 1..m : KnownBy(c)[i] = x
      BY DEF Lists, ListsOnce, m
    <2>1. \A i \in 1..(m + 1) : i \in 1..m \/ i = m + 1
      BY <1>1
    <2>2. \A i, j \in 1..(m + 1) : KnownBy(d)[i] = KnownBy(d)[j] => i = j
      BY <1>5, <2>0, <2>1
    <2>3. \A i \in 1..(m + 1) : KnownBy(d)[i] \in P \cup {p}
      BY <1>5, <2>0, <2>1
    <2>4. \A x \in P \cup {p} : \E i \in 1..(m + 1) : KnownBy(d)[i] = x
      BY <1>1, <1>5, <2>0
    <2>. QED  BY <1>5, <2>2, <2>3, <2>4 DEF ListsOnce
  <1>. QED  BY <1>2, <1>3, <1>4, <1>6, <1>7 DEF Lists

\* GHNP_STATE_READY, for a connected session.
LEMMA AddServes ==
    ASSUME NEW t \in Seq(Providers), NEW P \in SUBSET Providers, NEW F,
           NEW c, Serves(c, t, P, F), NEW p \in Providers, p \notin P,
           NEW d, d = AddNode(c, p)
    PROVE  Serves(d, t, P \cup {p}, F) /\ FramesIn(d.TxPackets) = FramesIn(c.TxPackets)
  <1>1. Lists(c, t, P, F) /\ c.State # "STOPPED"
    BY DEF Serves
  <1>2. /\ Lists(d, t, P \cup {p}, F)
        /\ FramesIn(d.TxPackets) = FramesIn(c.TxPackets)
        /\ d.State = "STOPPED" <=> c.State = "STOPPED"
    BY <1>1, AddLists
  <1>. QED  BY <1>1, <1>2 DEF Serves

\* Requests and debug frames leave the list alone.
LEMMA SameListServes ==
    ASSUME NEW t \in Seq(Providers), NEW P, NEW F, NEW G,
           NEW c, Serves(c, t, P, F), NEW d, Sound(d, Numbers(Len(t))), AskedFirst(d),
           d.State = c.State, d.NodeList = c.NodeList,
           FramesOnce(d.TxPackets), FramesIn(d.TxPackets) \subseteq G
    PROVE  Serves(d, t, P, G)
  <1>1. KnownBy(d) = KnownBy(c)
    BY DEF KnownBy
  <1>. QED  BY <1>1 DEF Serves, Lists, ListsOnce

\* From session c to session d, one packet is queued and the list left alone.
Sends(c, d, pkt) ==
    /\ d \in Sessions
    /\ d.NodeList = c.NodeList /\ d.UpdateNodeCount = c.UpdateNodeCount
    /\ d.NextNodeID = c.NextNodeID /\ d.State = c.State
    /\ d.UpdatingNode = c.UpdatingNode /\ (c.Report => d.Report)
    /\ d.TxPackets = Append(c.TxPackets, pkt)

LEMMA SendIsAsked ==
    ASSUME NEW t \in Seq(Providers), NEW P, NEW F, NEW c, Serves(c, t, P, F),
           NEW pkt \in Packets, pkt.type # "NODE", NEW d, Sends(c, d, pkt)
    PROVE  /\ Sound(d, Numbers(Len(t))) /\ AskedFirst(d)
           /\ c.TxPackets \in Seq(Packets)
  <1>1. /\ Bookkept(c) /\ c \in Sessions /\ Numbers(Len(t)) \in Seq(Nat)
        /\ c.TxPackets \in Seq(Packets)
    <2>1. Sound(c, Numbers(Len(t)))
      BY DEF Serves, Lists
    <2>2. Bookkept(c) /\ c \in Sessions /\ Numbers(Len(t)) \in Seq(Nat)
      BY <2>1, ToldWithin, NumbersAreSeq
    <2>. QED  BY <2>2 DEF Sessions
  <1>2. Sound(d, Numbers(Len(t)))
    BY <1>1, SendIsSound DEF Serves, Lists, Sends
  <1>3. AskedFirst(d)
    BY <1>1, OtherUnasked DEF Serves, Lists, AskedFirst, Sends
  <1>. QED  BY <1>1, <1>2, <1>3

\* An acknowledgement is queued.
LEMMA AckServes ==
    ASSUME NEW t \in Seq(Providers), NEW P, NEW F, NEW c, Serves(c, t, P, F),
           NEW pkt \in Packets, pkt.type = "ACK", NEW d, Sends(c, d, pkt)
    PROVE  Serves(d, t, P, F) /\ FramesIn(d.TxPackets) = FramesIn(c.TxPackets)
  <1>1. /\ Sound(d, Numbers(Len(t))) /\ AskedFirst(d)
        /\ c.TxPackets \in Seq(Packets)
    BY SendIsAsked
  <1>2. /\ d.TxPackets = Append(c.TxPackets, pkt)
        /\ d.NodeList = c.NodeList /\ d.State = c.State
    BY DEF Sends
  <1>3. FramesOnce(c.TxPackets) /\ FramesIn(c.TxPackets) \subseteq F
    BY DEF Serves, Lists
  <1>4. FramesOnce(d.TxPackets) /\ FramesIn(d.TxPackets) = FramesIn(c.TxPackets)
    BY <1>1, <1>2, <1>3, OtherAmongFrames
  <1>. QED  BY <1>1, <1>2, <1>3, <1>4, SameListServes

\* With a debug packet, the frames F received become G.
Receives(pkt, F, G) ==
    /\ pkt \in Packets /\ pkt.type = "DEBUG"
    /\ F \subseteq G /\ pkt.body \in G \ F

\* A debug frame that was not received before is queued.
LEMMA FrameServes ==
    ASSUME NEW t \in Seq(Providers), NEW P, NEW F, NEW c, Serves(c, t, P, F),
           NEW G, NEW pkt, Receives(pkt, F, G), NEW d, Sends(c, d, pkt)
    PROVE  /\ Serves(d, t, P, G)
           /\ FramesIn(d.TxPackets) = FramesIn(c.TxPackets) \cup {pkt.body}
  <1>0. /\ pkt \in Packets /\ pkt.type = "DEBUG"
        /\ F \subseteq G /\ pkt.body \in G \ F
    BY DEF Receives
  <1>1. /\ Sound(d, Numbers(Len(t))) /\ AskedFirst(d)
        /\ c.TxPackets \in Seq(Packets)
    BY <1>0, SendIsAsked
  <1>2. /\ d.TxPackets = Append(c.TxPackets, pkt)
        /\ d.NodeList = c.NodeList /\ d.State = c.State
    BY DEF Sends
  <1>3. FramesOnce(c.TxPackets) /\ FramesIn(c.TxPackets) \subseteq F
    BY DEF Serves, Lists
  <1>4. pkt.body \notin FramesIn(c.TxPackets)
    BY <1>0, <1>3
  <1>5. /\ FramesOnce(d.TxPackets)
        /\ FramesIn(d.TxPackets) = FramesIn(c.TxPackets) \cup {pkt.body}
    BY <1>0, <1>1, <1>2, <1>3, <1>4, FrameQueued
  <1>6. FramesIn(d.TxPackets) \subseteq G
    BY <1>0, <1>3, <1>5
  <1>. QED  BY <1>1, <1>2, <1>5, <1>6, SameListServes

\* Frames that pass a session by.
LEMMA LaterServes ==
    ASSUME NEW t, NEW P, NEW F, NEW c, Serves(c, t, P, F), NEW G, F \subseteq G
    PROVE  Serves(c, t, P, G)
  BY DEF Serves, Lists

\* HNODE_MGMT_REQ_PINFO and HNODE_MGMT_DEBUG_CTRL.
LEMMA RequestServes ==
    ASSUME NEW t \in Seq(Providers), NEW P, NEW F, NEW c, Serves(c, t, P, F),
           NEW d, d = RxReqPInfo(c, 0) \/ d = RxDebugCtrl(c)
    PROVE  Serves(d, t, P, F) /\ FramesIn(d.TxPackets) = FramesIn(c.TxPackets)
  <1>1. /\ Bookkept(c) /\ c \in Sessions /\ c.TxPackets \in Seq(Packets)
    <2>1. Sound(c, Numbers(Len(t)))
      BY DEF Serves, Lists
    <2>2. Bookkept(c) /\ c \in Sessions
      BY <2>1, ToldWithin
    <2>. QED  BY <2>2 DEF Sessions
  <1>2. CASE d = RxReqPInfo(c, 0)
    <2>1. AckPkt(0) \in Packets /\ AckPkt(0).type = "ACK"
      BY DEF AckPkt, Packets
    <2>2. Append(c.TxPackets, AckPkt(0)) \in Seq(Packets)
      BY <1>1, <2>1, AppendProperties
    <2>3. Sends(c, d, AckPkt(0))
      BY <1>1, <1>2, <2>2 DEF RxReqPInfo, SendPacket, Sessions, Sends
    <2>. QED  BY <2>1, <2>3, AckServes
  <1>3. CASE d = RxDebugCtrl(c)
    <2>1. /\ d \in Sessions
          /\ d.NodeList = c.NodeList /\ d.UpdateNodeCount = c.UpdateNodeCount
          /\ d.NextNodeID = c.NextNodeID /\ d.State = c.State /\ d.Report = c.Report
          /\ d.UpdatingNode = c.UpdatingNode /\ d.TxPackets = c.TxPackets
      BY <1>1, <1>3 DEF RxDebugCtrl, Sessions
    <2>2. Bookkept(d) /\ Shown(d) = Shown(c)
      BY <1>1, <2>1, SameBooks DEF Shown, Rep
    <2>3. Sound(d, Numbers(Len(t))) /\ AskedFirst(d)
      BY <2>1, <2>2 DEF Serves, Lists, Sound, Driven, AskedFirst
    <2>4. FramesOnce(d.TxPackets) /\ FramesIn(d.TxPackets) \subseteq F
      BY <2>1 DEF Serves, Lists
    <2>. QED  BY <2>1, <2>3, <2>4, SameListServes
  <1>. QED  BY <1>2, <1>3

\* The frame f is added to the frames F received, which gives G.
Arrives(f, F, G) == f \in Nat /\ F \subseteq G /\ f \in G \ F

\* The frames queued in d are those in c and, if the session takes it, f.
AddsFrame(c, f, d) ==
    FramesIn(d.TxPackets) =
        IF ForwardDebugPacket(c, 0) # c THEN FramesIn(c.TxPackets) \cup {f}
                                        ELSE FramesIn(c.TxPackets)

\* g_hnode_client_forward_debug_packet: the frame is queued, or nothing changes.
LEMMA ForwardServes ==
    ASSUME NEW t \in Seq(Providers), NEW P, NEW F, NEW c, Serves(c, t, P, F),
           NEW f, NEW G, Arrives(f, F, G), NEW d, d = ForwardDebugPacket(c, f)
    PROVE  Serves(d, t, P, G) /\ AddsFrame(c, f, d)
  <1>0. f \in Nat /\ F \subseteq G /\ f \in G \ F
    BY DEF Arrives
  <1>1. /\ Bookkept(c) /\ c \in Sessions /\ c.TxPackets \in Seq(Packets)
    <2>1. Sound(c, Numbers(Len(t)))
      BY DEF Serves, Lists
    <2>2. Bookkept(c) /\ c \in Sessions
      BY <2>1, ToldWithin
    <2>. QED  BY <2>2 DEF Sessions
  <1>2. CASE c.Debug /\ c.State # "IDLE"
    <2>1. DebugPkt(0) \in Packets /\ DebugPkt(f) \in Packets
      BY <1>0 DEF DebugPkt, Packets
    <2>2. /\ Append(c.TxPackets, DebugPkt(f)) \in Seq(Packets)
          /\ Append(c.TxPackets, DebugPkt(0)) # c.TxPackets
      <3>1. Len(c.TxPackets) \in Nat
        BY <1>1
      <3>2. Len(Append(c.TxPackets, DebugPkt(0))) = Len(c.TxPackets) + 1
        BY <1>1, <2>1, AppendProperties
      <3>. QED  BY <1>1, <2>1, <3>1, <3>2, AppendProperties
    <2>3. /\ Sends(c, d, DebugPkt(f))
          /\ ForwardDebugPacket(c, 0).TxPackets = Append(c.TxPackets, DebugPkt(0))
      BY <1>1, <1>2, <2>2 DEF ForwardDebugPacket, SendPacket, Sessions, Sends
    <2>4. ForwardDebugPacket(c, 0) # c
      BY <2>2, <2>3
    <2>5. DebugPkt(f).type = "DEBUG" /\ DebugPkt(f).body = f
      BY DEF DebugPkt
    <2>6. /\ Serves(d, t, P, G)
          /\ FramesIn(d.TxPackets) = FramesIn(c.TxPackets) \cup {f}
      <3>1. PICK pkt \in Packets : pkt = DebugPkt(f)
        BY <2>1
      <3>2. Sends(c, d, pkt) /\ pkt.type = "DEBUG" /\ pkt.body = f
        BY <2>3, <2>5, <3>1
      <3>3. Receives(pkt, F, G)
        BY <1>0, <3>2 DEF Receives
      <3>4. /\ Serves(d, t, P, G)
            /\ FramesIn(d.TxPackets) = FramesIn(c.TxPackets) \cup {pkt.body}
        BY <3>2, <3>3, FrameServes
      <3>. QED  BY <3>2, <3>4
    <2>. QED  BY <2>4, <2>6 DEF AddsFrame
  <1>3. CASE ~(c.Debug /\ c.State # "IDLE")
    <2>1. d = c /\ ForwardDebugPacket(c, 0) = c
      BY <1>3 DEF ForwardDebugPacket
    <2>. QED  BY <1>0, <2>1, LaterServes DEF AddsFrame
  <1>. QED  BY <1>2, <1>3

\* The session c has the packet pkt at the head of its queue; when it is sent,
\* the session is d, and what the client was told, t, becomes u.
Completes(c, t, pkt, d, u) ==
    /\ c.TxPackets # <<>> /\ pkt = Head(c.TxPackets) /\ d = TxComplete(c)
    /\ u = IF pkt.type = "NODE" THEN Append(t, c.NodeList[pkt.body + 1].Node) ELSE t

\* The frames queued in d are those in c but the one of the packet.
TakesFrame(c, pkt, d) ==
    /\ pkt.type = "DEBUG" => /\ pkt.body \in FramesIn(c.TxPackets)
                             /\ FramesIn(d.TxPackets)
                                  = FramesIn(c.TxPackets) \ {pkt.body}
    /\ pkt.type # "DEBUG" => FramesIn(d.TxPackets) = FramesIn(c.TxPackets)

\* The last byte of a packet is sent: a record told is the next of the list.
LEMMA CompleteServes ==
    ASSUME NEW t \in Seq(Providers), NEW P, NEW F, NEW c, Serves(c, t, P, F),
           NEW pkt, NEW d, NEW u, Completes(c, t, pkt, d, u)
    PROVE  u \in Seq(Providers) /\ Serves(d, u, P, F) /\ TakesFrame(c, pkt, d)
  <1>0. /\ c.TxPackets # <<>> /\ pkt = Head(c.TxPackets) /\ d = TxComplete(c)
        /\ u = IF pkt.type = "NODE" THEN Append(t, c.NodeList[pkt.body + 1].Node) ELSE t
    BY DEF Completes
  <1> DEFINE l == Len(t)
             k == KnownBy(c)
             a == IF pkt.type = "NODE" THEN Append(Numbers(l), pkt.body) ELSE Numbers(l)
  <1>1. /\ Sound(c, Numbers(l)) /\ AskedFirst(c) /\ c.State # "STOPPED"
        /\ FramesOnce(c.TxPackets) /\ FramesIn(c.TxPackets) \subseteq F
        /\ ListsOnce(c, P) /\ \A i \in 1..l : t[i] = k[i]
    BY DEF Serves, Lists
  <1>2. /\ Bookkept(c) /\ c \in Sessions /\ l \in Nat
        /\ Len(k) = Len(c.NodeList) /\ Len(k) \in Nat /\ k \in Seq(Providers)
        /\ \A i \in 1..Len(k) : k[i] = c.NodeList[i].Node
        /\ Numbers(l) \in Seq(Nat) /\ Len(Numbers(l)) = l
        /\ Append(Numbers(l), l) = Numbers(l + 1)
    BY <1>1, ToldWithin, NumbersAreSeq
  <1>3. c.TxPackets \in Seq(Packets)
    BY <1>2 DEF Sessions
  <1>4. a \in Seq(Nat) /\ Sound(d, a)
    BY <1>0, <1>1, <1>2, CompleteIsSound
  <1>5. KnownBy(d) = k /\ AskedFirst(d)
    BY <1>0, <1>1, <1>2, CompleteKeepsNodes
  <1>6. /\ FramesOnce(d.TxPackets) /\ FramesIn(d.TxPackets) = FramesIn(Tail(c.TxPackets))
        /\ d.State # "STOPPED"
    BY <1>0, <1>1, <1>2, CompleteTakesHead
  <1>7. /\ FramesIn(Tail(c.TxPackets)) = IF pkt.type = "DEBUG"
                                         THEN FramesIn(c.TxPackets) \ {pkt.body}
                                         ELSE FramesIn(c.TxPackets)
        /\ pkt.type = "DEBUG" => pkt.body \in FramesIn(c.TxPackets)
    BY <1>0, <1>1, <1>3, FramesOfTail
  <1>. HIDE DEF l, k, a
  <1>8. u \in Seq(Providers) /\ a = Numbers(Len(u)) /\ \A i \in 1..Len(u) : u[i] = k[i]
    <2>1. CASE pkt.type # "NODE"
      BY <1>0, <1>1, <1>2, <2>1 DEF a, l
    <2>2. CASE pkt.type = "NODE"
      <3>1. pkt.body = l
        <4>1. SentInOrder(Numbers(l), c.TxPackets, Shown(c))
          BY <1>1 DEF Sound
        <4>. QED  BY <1>0, <1>2, <1>3, <2>2, <4>1, HeadIsNext, ShownIsNat
      <3>2. a = Numbers(l + 1)
        BY <1>2, <2>2, <3>1 DEF a
      <3>3. l + 1 \in 1..Len(k)
        <4>1. Len(Numbers(l + 1)) <= Len(d.NodeList)
          <5>1. Len(Numbers(l + 1)) = l + 1 /\ Numbers(l + 1) \in Seq(Nat)
            BY <1>2, NumbersAreSeq
          <5>. QED  BY <1>4, <3>2, <5>1, ToldIsPrefix
        <4>2. Len(Numbers(l + 1)) = l + 1
          BY <1>2, NumbersAreSeq
        <4>3. Len(d.NodeList) = Len(k)
          <5>1. Bookkept(d)
            BY <1>4 DEF Sound
          <5>2. Len(KnownBy(d)) = Len(d.NodeList)
            BY <5>1, KnownIsSeq
          <5>. QED  BY <1>5, <5>2
        <4>. QED  BY <1>2, <4>1, <4>2, <4>3
      <3>4. u = Append(t, k[l + 1]) /\ k[l + 1] \in Providers
        BY <1>0, <1>2, <2>2, <3>1, <3>3, ElementOfSeq
      <3>5. /\ u \in Seq(Providers) /\ Len(u) = l + 1
            /\ \A i \in 1..l : u[i] = t[i]
            /\ u[l + 1] = k[l + 1]
        BY <3>4, AppendProperties DEF l
      <3>6. \A i \in 1..(l + 1) : i \in 1..l \/ i = l + 1
        BY <1>2
      <3>. QED  BY <1>1, <3>2, <3>5, <3>6
    <2>. QED  BY <2>1, <2>2
  <1>9. ListsOnce(d, P)
    <2>1. Bookkept(d)
      BY <1>4 DEF Sound
    <2>2. Len(d.NodeList) = Len(c.NodeList)
      BY <1>2, <1>5, <2>1, KnownIsSeq
    <2>. QED  BY <1>1, <1>5, <2>2 DEF ListsOnce, k
  <1>10. FramesIn(d.TxPackets) \subseteq F
    BY <1>1, <1>6, <1>7
  <1>11. Serves(d, u, P, F)
    BY <1>4, <1>5, <1>6, <1>8, <1>9, <1>10 DEF Serves, Lists
  <1>. QED  BY <1>6, <1>7, <1>8, <1>11 DEF TakesFrame

----------------------------------------------------------------------------
\* A property of 0, and of n + 1 whenever of n, is one of every number.
LEMMA LeastOf ==
    ASSUME NEW T \in SUBSET Nat, NEW n \in T
    PROVE  \E m \in T : \A k \in T : ~(k < m)
  <1> DEFINE Below(m) == 1..m
             B == {Below(m) : m \in T}
  <1>1. B \subseteq FiniteSubsetsOf(Nat)
    <2>1. \A m \in T : IsFiniteSet(Below(m)) /\ Below(m) \in SUBSET Nat
      BY FS_Interval
    <2>. QED  BY <2>1 DEF FiniteSubsetsOf
  <1>2. B # {}
    OBVIOUS
  <1>3. \E x \in B : \A y \in B : ~(<<y, x>> \in StrictSubsetOrdering(Nat))
    <2>. HIDE DEF B
    <2>. QED  BY <1>1, <1>2, FS_StrictSubsetOrderingWellFounded, WFMin
  <1>4. PICK m \in T : \A k \in T : ~(<<Below(k), Below(m)>> \in StrictSubsetOrdering(Nat))
    BY <1>3
  <1>5. ASSUME NEW k \in T, k < m
        PROVE  FALSE
    <2>1. Below(k) \subseteq Below(m) /\ m \in Below(m) /\ m \notin Below(k)
      BY <1>5
    <2>2. Below(k) \in SUBSET Nat /\ Below(m) \in SUBSET Nat
      OBVIOUS
    <2>. HIDE DEF Below
    <2>3. <<Below(k), Below(m)>> \in (SUBSET Nat) \X (SUBSET Nat)
      BY <2>2
    <2>4. <<Below(k), Below(m)>> \in StrictSubsetOrdering(Nat)
      BY <2>1, <2>3 DEF StrictSubsetOrdering
    <2>. QED  BY <1>4, <2>4
  <1>. QED  BY <1>5

LEMMA Induction ==
    ASSUME NEW S \in SUBSET Nat, 0 \in S, \A n \in Nat : n \in S => n + 1 \in S
    PROVE  S = Nat
  <1> SUFFICES ASSUME Nat \ S # {}
               PROVE  FALSE
    OBVIOUS
  <1>1. PICK m \in Nat \ S : \A k \in Nat \ S : ~(k < m)
    BY LeastOf
  <1>2. m - 1 \in Nat /\ m - 1 < m
    BY <1>1
  <1>3. m - 1 \in S
    BY <1>1, <1>2
  <1>. QED  BY <1>1, <1>2, <1>3

\* The sessions after 0, 1, ..., n steps of the scan of a list l of which the
\* providers R are ready, each from the one before it in g.
Scanned(l, R, n, g) ==
    [k \in 0..n |-> IF k = 0 THEN NewClient
                    ELSE IF l[k] \in R THEN AddNode(g[k - 1], l[k])
                    ELSE g[k - 1]]

\* The scan of HNodeList for a new session is well defined: there is a sequence
\* of sessions, each made of the one before it as the code's loop does.
LEMMA ScanIsDefined ==
    ASSUME NEW l \in Seq(Providers), NEW R, NEW n \in Nat
    PROVE  \E g : g = Scanned(l, R, n, g)
  <1> DEFINE Step(g, k) == IF k = 0 THEN NewClient
                           ELSE IF l[k] \in R THEN AddNode(g[k - 1], l[k])
                           ELSE g[k - 1]
             Scan(g, m) == g = [k \in 0..m |-> Step(g, k)]
             S == {m \in Nat : \E g : Scan(g, m)}
  <1>1. 0 \in S
    <2> DEFINE g == [k \in 0..0 |-> NewClient]
    <2>1. \A k \in 0..0 : Step(g, k) = NewClient
      OBVIOUS
    <2>2. Scan(g, 0)
      BY <2>1
    <2>. QED  BY <2>2
  <1>2. ASSUME NEW m \in Nat, m \in S
        PROVE  m + 1 \in S
    <2>1. PICK g : Scan(g, m)
      BY <1>2
    <2> DEFINE h == [k \in 0..(m + 1) |-> IF k \in 0..m THEN g[k] ELSE Step(g, k)]
    <2>2. ASSUME NEW k \in 0..(m + 1)
          PROVE  h[k] = Step(h, k)
      <3>1. CASE k = 0
        <4>1. h[k] = g[0] /\ g[0] = NewClient
          BY <2>1, <3>1
        <4>. QED  BY <3>1, <4>1
      <3>2. CASE k # 0
        <4>1. k - 1 \in 0..m /\ k - 1 \in 0..(m + 1)
          BY <3>2
        <4>2. h[k - 1] = g[k - 1]
          BY <4>1
        <4>3. h[k] = Step(g, k)
          <5>1. k \in 0..m => g[k] = Step(g, k)
            BY <2>1
          <5>. QED  BY <5>1
        <4>. HIDE DEF h
        <4>. QED  BY <4>2, <4>3
      <3>. QED  BY <3>1, <3>2
    <2>3. Scan(h, m + 1)
      <3> DEFINE H == [k \in 0..(m + 1) |-> Step(h, k)]
      <3>1. h = [k \in 0..(m + 1) |-> h[k]]
        OBVIOUS
      <3>. HIDE DEF h, Step
      <3>2. h = H
        BY <2>2, <3>1
      <3>. QED  BY <3>2
    <2>4. m + 1 \in Nat
      OBVIOUS
    <2>. HIDE DEF Scan, h
    <2>. QED  BY <2>3, <2>4
  <1>3. S = Nat
    <2>. HIDE DEF S
    <2>1. S \in SUBSET Nat
      BY DEF S
    <2>. QED  BY <1>1, <1>2, <2>1, Induction
  <1>4. n \in S
    BY <1>3
  <1>. QED  BY <1>4 DEF Scanned

\* What holds of a session that is not started, when the scan gave it Q.
Fresh(c, Q) ==
    /\ Lists(c, <<>>, Q, {})
    /\ c.State = "STOPPED" /\ c.Report = FALSE /\ c.TxPackets = <<>>

\* A session that was just created.
LEMMA NewClientIsFresh == Fresh(NewClient, {})
  <1> DEFINE c == NewClient
  <1>1. /\ c \in Sessions /\ c.NodeList = <<>> /\ c.TxPackets = <<>>
        /\ c.State = "STOPPED" /\ c.Report = FALSE
        /\ c.UpdateNodeCount = 0 /\ c.NextNodeID = 0
    BY DEF NewClient, Sessions, ClientStates
  <1>2. /\ Len(<<>>) = 0 /\ DOMAIN <<>> = {} /\ 1..0 = {}
        /\ <<>> \in Seq(Nat)
    OBVIOUS
  <1>. HIDE DEF c
  <1>3. Bookkept(c) /\ Shown(c) = 0
    BY <1>1, <1>2 DEF Bookkept, Shown, Rep
  <1>4. Driven(c)
    BY <1>1 DEF Driven
  <1>5. NodesIn(<<>>) = {} /\ DebugIn(<<>>) = {}
    BY DEF NodesIn, DebugIn
  <1>6. FramesOnce(<<>>) /\ FramesIn(<<>>) = {}
    BY <1>5 DEF FramesOnce, FramesIn
  <1>7. Len(Numbers(0)) = 0 /\ DOMAIN Numbers(0) = {}
    <2>1. Numbers(0) \in Seq(Nat) /\ Len(Numbers(0)) = 0
      BY NumbersAreSeq
    <2>. QED  BY <2>1, LenProperties
  <1>8. SentInOrder(Numbers(0), <<>>, 0)
    BY <1>5, <1>7 DEF SentInOrder
  <1>9. Sound(c, Numbers(Len(<<>>))) /\ AskedFirst(c)
    BY <1>1, <1>2, <1>3, <1>4, <1>5, <1>8 DEF Sound, AskedFirst
  <1>10. ListsOnce(c, {})
    BY <1>1, <1>2 DEF ListsOnce
  <1>11. Lists(c, <<>>, {}, {})
    BY <1>1, <1>2, <1>6, <1>9, <1>10 DEF Lists
  <1>. QED  BY <1>1, <1>11 DEF c, Fresh

LEMMA FreshAdds ==
    ASSUME NEW Q \in SUBSET Providers, NEW c, Fresh(c, Q),
           NEW p \in Providers, p \notin Q, NEW d, d = AddNode(c, p)
    PROVE  Fresh(d, Q \cup {p})
  <1>1. PICK t \in Seq(Providers) : t = <<>>
    <2>1. <<>> \in Seq(Providers)
      OBVIOUS
    <2>. QED  BY <2>1, Zenon
  <1>2. PICK F : F = {}
    OBVIOUS
  <1>3. Lists(c, t, Q, F)
    BY <1>1, <1>2 DEF Fresh
  <1>4. /\ Lists(d, t, Q \cup {p}, F) /\ d.Report = c.Report
        /\ d.State = "STOPPED" <=> c.State = "STOPPED"
        /\ c.State = "STOPPED" => d.TxPackets = c.TxPackets
    BY <1>3, AddLists
  <1>5. c.State = "STOPPED" /\ c.Report = FALSE /\ c.TxPackets = <<>>
    BY DEF Fresh
  <1>. QED  BY <1>1, <1>2, <1>4, <1>5 DEF Fresh

\* g_hnode_client_start on such a session.
LEMMA StartServes ==
    ASSUME NEW P, NEW c, Fresh(c, P), NEW F, NEW d, d = StartClient(c)
    PROVE  Serves(d, <<>>, P, F) /\ FramesIn(d.TxPackets) = {}
  <1>1. /\ Sound(c, Numbers(Len(<<>>))) /\ AskedFirst(c) /\ ListsOnce(c, P)
        /\ FramesOnce(c.TxPackets) /\ FramesIn(c.TxPackets) \subseteq {}
        /\ c.State = "STOPPED" /\ c.Report = FALSE /\ c.TxPackets = <<>>
    BY DEF Fresh, Lists
  <1>2. Bookkept(c) /\ c \in Sessions
    BY <1>1 DEF Sound, Bookkept
  <1>3. /\ d \in Sessions /\ d.State = "IDLE" /\ d.Report = c.Report
        /\ d.NodeList = c.NodeList /\ d.TxPackets = c.TxPackets
        /\ d.UpdateNodeCount = c.UpdateNodeCount /\ d.NextNodeID = c.NextNodeID
    BY <1>2 DEF StartClient, Sessions, ClientStates
  <1>4. Bookkept(d) /\ Shown(d) = Shown(c)
    BY <1>1, <1>2, <1>3 DEF Bookkept, Shown, Rep
  <1>5. Sound(d, Numbers(Len(<<>>))) /\ AskedFirst(d)
    BY <1>1, <1>3, <1>4 DEF Sound, Driven, AskedFirst
  <1>6. ListsOnce(d, P)
    <2>1. KnownBy(d) = KnownBy(c)
      BY <1>3 DEF KnownBy
    <2>. QED  BY <1>1, <1>3, <2>1 DEF ListsOnce
  <1>7. \A k \in 1..Len(<<>>) : FALSE
    OBVIOUS
  <1>. QED  BY <1>1, <1>3, <1>5, <1>6, <1>7 DEF Serves, Lists

\* g_hnode_server_newsrc: the scan gives a session the ready providers.
LEMMA NewSessionServes ==
    ASSUME HNodeList \in Seq(Providers), ready \in SUBSET Providers,
           \A p \in ready : InHNodeList(p),
           \A i, j \in 1..Len(HNodeList) : HNodeList[i] = HNodeList[j] => i = j,
           NEW F
    PROVE  Serves(NewSession, <<>>, ready, F) /\ FramesIn(NewSession.TxPackets) = {}
  <1> DEFINE L == Len(HNodeList)
             given == CHOOSE g : g = Scanned(HNodeList, ready, L, g)
             P(n) == {p \in ready : \E i \in 1..n : HNodeList[i] = p}
             S == {n \in Nat : n <= L => Fresh(given[n], P(n))}
  <1>1. L \in Nat /\ DOMAIN HNodeList = 1..L
    BY LenProperties
  <1>2. \A k \in 1..L : HNodeList[k] \in Providers
    BY ElementOfSeq
  <1>3. NewSession = StartClient(given[L])
    BY DEF NewSession, IsReady, Scanned
  <1>4. given = Scanned(HNodeList, ready, L, given)
    <2>1. \E g : g = Scanned(HNodeList, ready, L, g)
      BY <1>1, ScanIsDefined
    <2>. QED  BY <2>1
  <1>. HIDE DEF given
  <1>5. /\ given[0] = NewClient
        /\ \A k \in 1..L : given[k] = IF HNodeList[k] \in ready
                                      THEN AddNode(given[k - 1], HNodeList[k])
                                      ELSE given[k - 1]
    <2>1. given[0] = NewClient
      BY <1>1, <1>4 DEF Scanned
    <2>2. \A k \in 1..L : k \in 0..L /\ k # 0
      BY <1>1
    <2>. QED  BY <1>4, <2>1, <2>2 DEF Scanned
  <1>. HIDE DEF L
  <1>6. 0 \in S
    <2>1. P(0) = {}
      OBVIOUS
    <2>. HIDE DEF P
    <2>2. Fresh(given[0], P(0))
      BY <1>5, <2>1, NewClientIsFresh
    <2>. QED  BY <2>2
  <1>7. ASSUME NEW n \in Nat, n \in S
        PROVE  n + 1 \in S
    <2> SUFFICES ASSUME n + 1 <= L
                 PROVE  Fresh(given[n + 1], P(n + 1))
      OBVIOUS
    <2>1. n <= L /\ n + 1 \in 1..L /\ (n + 1) - 1 = n
      BY <1>1
    <2>2. Fresh(given[n], P(n))
      BY <1>7, <2>1
    <2> DEFINE c == given[n]
               d == given[n + 1]
               p == HNodeList[n + 1]
    <2>3. d = IF p \in ready THEN AddNode(c, p) ELSE c
      BY <1>5, <2>1
    <2>4. p \in Providers
      BY <1>2, <2>1
    <2>5. P(n + 1) = IF p \in ready THEN P(n) \cup {p} ELSE P(n)
      <3>1. \A i : i \in 1..(n + 1) <=> i \in 1..n \/ i = n + 1
        OBVIOUS
      <3>. QED  BY <3>1
    <2>6. p \notin P(n) /\ P(n) \in SUBSET Providers
      <3>1. \A i \in 1..n : i # n + 1 /\ i \in 1..L
        BY <1>1, <2>1
      <3>2. \A i \in 1..n : HNodeList[i] # p
        BY <2>1, <3>1 DEF L
      <3>. QED  BY <3>2
    <2>. HIDE DEF c, d, p, P
    <2>8. Fresh(c, P(n))
      BY <2>2 DEF c
    <2>9. Fresh(d, P(n + 1))
      <3>1. CASE p \notin ready
        BY <2>3, <2>5, <2>8, <3>1
      <3>2. CASE p \in ready
        <4>1. d = AddNode(c, p) /\ P(n + 1) = P(n) \cup {p}
          BY <2>3, <2>5, <3>2
        <4>2. Fresh(d, P(n) \cup {p})
          BY <2>4, <2>6, <2>8, <4>1, FreshAdds
        <4>. QED  BY <4>1, <4>2
      <3>. QED  BY <3>1, <3>2
    <2>. QED  BY <2>9 DEF d
  <1>8. S = Nat
    <2>. HIDE DEF S
    <2>1. S \in SUBSET Nat
      BY DEF S
    <2>. QED  BY <1>6, <1>7, <2>1, Induction
  <1>9. Fresh(given[L], P(L))
    <2>1. L \in S
      BY <1>1, <1>8
    <2>. HIDE DEF P
    <2>. QED  BY <1>1, <2>1
  <1>10. P(L) = ready
    BY <1>1 DEF InHNodeList, L
  <1>. HIDE DEF P
  <1>11. Fresh(given[L], ready)
    BY <1>9, <1>10
  <1>12. NewSession = StartClient(given[L])
    BY <1>3
  <1>. QED  BY <1>11, <1>12, StartServes

----------------------------------------------------------------------------
\* The clients of C whose session in s has the debug frame f queued.
QueueIn(C, s, f) == {c \in C : f \in FramesIn(s[c].TxPackets)}

ServerInv ==
    /\ TypeOK
    /\ \A i, j \in 1..Len(HNodeList) : HNodeList[i] = HNodeList[j] => i = j
    /\ \A i, j \in 1..Len(ClientList) : ClientList[i] = ClientList[j] => i = j
    /\ \A p \in ready : InHNodeList(p)
    /\ \A c \in Connected : Serves(session[c], told[c], ready, DOMAIN frameRefs)
    /\ \A p \in Providers : InHNodeList(p) =>
            refs[p] >= 1 + (IF p \in ready THEN Len(ClientList) ELSE 0)
    /\ \A f \in DOMAIN frameRefs :
            frameRefs[f] >= Cardinality(QueueIn(Connected, session, f))

LEMMA InitInv == Init => ServerInv
  <1> SUFFICES ASSUME Init
               PROVE  ServerInv
    OBVIOUS
  <1>1. /\ HNodeList = <<>> /\ ready = {} /\ ClientList = <<>> /\ frameRefs = <<>>
        /\ session = [c \in Clients |-> NewClient]
        /\ refs = [p \in Providers |-> 0]
        /\ told = [c \in Clients |-> <<>>] /\ connects = 0
    BY DEF Init
  <1>2. NewClient \in Sessions
    BY NewClientIsFresh DEF Fresh, Lists, Sound, Bookkept
  <1>3. TypeOK
    <2>1. /\ <<>> \in Seq(Providers) /\ <<>> \in Seq(Clients) /\ <<>> \in Seq(Nat)
      OBVIOUS
    <2>2. session \in [Clients -> Sessions]
      BY <1>1, <1>2
    <2>3. told \in [Clients -> Seq(Providers)]
      BY <1>1, <2>1
    <2>. QED  BY <1>1, <2>1, <2>2, <2>3 DEF TypeOK
  <1>4. DOMAIN HNodeList = {} /\ DOMAIN ClientList = {} /\ DOMAIN frameRefs = {}
    BY <1>1
  <1>5. 1..Len(HNodeList) = {} /\ 1..Len(ClientList) = {} /\ Connected = {}
    BY <1>1, <1>4 DEF Connected
  <1>6. \A p : ~InHNodeList(p)
    BY <1>4 DEF InHNodeList
  <1>. QED  BY <1>1, <1>3, <1>4, <1>5, <1>6 DEF ServerInv

\* What the steps take from the invariant.
LEMMA InvFacts ==
    ASSUME ServerInv
    PROVE  /\ HNodeList \in Seq(Providers) /\ Len(HNodeList) \in Nat
           /\ DOMAIN HNodeList = 1..Len(HNodeList)
           /\ ClientList \in Seq(Clients) /\ Len(ClientList) \in Nat
           /\ DOMAIN ClientList = 1..Len(ClientList)
           /\ frameRefs \in Seq(Nat) /\ Len(frameRefs) \in Nat
           /\ DOMAIN frameRefs = 1..Len(frameRefs)
           /\ Connected \subseteq Clients /\ IsFiniteSet(Connected)
           /\ \A c \in Connected : /\ session[c] \in Sessions
                                   /\ told[c] \in Seq(Providers)
                                   /\ Serves(session[c], told[c], ready, DOMAIN frameRefs)
           /\ ready \in SUBSET Providers /\ refs \in [Providers -> Nat]
           /\ session \in [Clients -> Sessions] /\ connects \in Nat
           /\ told \in [Clients -> Seq(Providers)]
           /\ \A f : /\ IsFiniteSet(QueueIn(Connected, session, f))
                     /\ Cardinality(QueueIn(Connected, session, f)) \in Nat
  <1>1. TypeOK
    BY DEF ServerInv
  <1>2. /\ HNodeList \in Seq(Providers) /\ ClientList \in Seq(Clients)
        /\ frameRefs \in Seq(Nat) /\ ready \in SUBSET Providers
        /\ session \in [Clients -> Sessions] /\ told \in [Clients -> Seq(Providers)]
        /\ refs \in [Providers -> Nat] /\ connects \in Nat
    BY <1>1 DEF TypeOK
  <1>3. /\ Len(HNodeList) \in Nat /\ DOMAIN HNodeList = 1..Len(HNodeList)
        /\ Len(ClientList) \in Nat /\ DOMAIN ClientList = 1..Len(ClientList)
        /\ Len(frameRefs) \in Nat /\ DOMAIN frameRefs = 1..Len(frameRefs)
    BY <1>2, LenProperties
  <1>4. Connected \subseteq Clients
    BY <1>2, <1>3, ElementOfSeq DEF Connected
  <1>5. IsFiniteSet(Connected)
    <2>1. IsFiniteSet(1..Len(ClientList))
      BY <1>3, FS_Interval
    <2>2. Connected = {ClientList[i] : i \in 1..Len(ClientList)}
      BY <1>3 DEF Connected
    <2>3. ClientList \in Surjection(1..Len(ClientList), Connected)
      <3>1. ClientList \in [1..Len(ClientList) -> Connected]
        BY <1>2, <1>3, <2>2
      <3>2. \A c \in Connected : \E i \in 1..Len(ClientList) : ClientList[i] = c
        BY <2>2
      <3>. QED  BY <3>1, <3>2 DEF Surjection
    <2>. QED  BY <2>1, <2>3, FS_Surjection
  <1>6. \A f : /\ IsFiniteSet(QueueIn(Connected, session, f))
               /\ Cardinality(QueueIn(Connected, session, f)) \in Nat
    <2>1. \A f : QueueIn(Connected, session, f) \subseteq Connected
      BY DEF QueueIn
    <2>. QED  BY <1>5, <2>1, FS_Subset, FS_CardinalityType
  <1>7. \A c \in Connected : Serves(session[c], told[c], ready, DOMAIN frameRefs)
    BY DEF ServerInv
  <1>8. \A c \in Connected : session[c] \in Sessions /\ told[c] \in Seq(Providers)
    BY <1>2, <1>4
  <1>. QED  BY <1>2, <1>3, <1>4, <1>5, <1>6, <1>7, <1>8

\* AVAHI_RESOLVER_FOUND: a provider more, not ready.
LEMMA FoundKeepsInv ==
    ASSUME ServerInv, NEW p \in Providers, ProviderFound(p)
    PROVE  ServerInv'
  <1>1. /\ HNodeList \in Seq(Providers) /\ Len(HNodeList) \in Nat
        /\ DOMAIN HNodeList = 1..Len(HNodeList) /\ refs \in [Providers -> Nat]
    BY InvFacts
  <1>2. /\ ~InHNodeList(p)
        /\ HNodeList' = Append(HNodeList, p) /\ refs' = [refs EXCEPT ![p] = 1]
        /\ ready' = ready /\ ClientList' = ClientList /\ session' = session
        /\ frameRefs' = frameRefs /\ told' = told /\ connects' = connects
    BY DEF ProviderFound
  <1> DEFINE n == Len(HNodeList)
  <1>3. /\ HNodeList' \in Seq(Providers) /\ Len(HNodeList') = n + 1
        /\ DOMAIN HNodeList' = 1..(n + 1)
        /\ \A i \in 1..n : HNodeList'[i] = HNodeList[i]
        /\ HNodeList'[n + 1] = p
    BY <1>1, <1>2, AppendProperties, LenProperties
  <1>4. TypeOK'
    <2>1. refs' \in [Providers -> Nat]
      BY <1>1, <1>2
    <2>. QED  BY <1>2, <1>3, <2>1 DEF ServerInv, TypeOK
  <1>5. \A i \in 1..(n + 1) : i \in 1..n \/ i = n + 1
    BY <1>1
  <1>6. \A i \in 1..n : HNodeList[i] # p
    BY <1>1, <1>2 DEF InHNodeList
  <1>. HIDE DEF n
  <1>7. \A i, j \in 1..(n + 1) : HNodeList'[i] = HNodeList'[j] => i = j
    <2>1. \A i, j \in 1..n : HNodeList[i] = HNodeList[j] => i = j
      BY DEF ServerInv, n
    <2>. QED  BY <1>3, <1>5, <1>6, <2>1
  <1>8. \A q \in Providers : InHNodeList(q)' <=> InHNodeList(q) \/ q = p
    <2>1. \A q : InHNodeList(q)' <=> \E i \in 1..(n + 1) : HNodeList'[i] = q
      BY <1>3 DEF InHNodeList
    <2>2. \A q : InHNodeList(q) <=> \E i \in 1..n : HNodeList[i] = q
      BY <1>1 DEF InHNodeList, n
    <2>3. n + 1 \in 1..(n + 1) /\ \A i \in 1..n : i \in 1..(n + 1)
      BY <1>1 DEF n
    <2>. QED  BY <1>3, <1>5, <2>1, <2>2, <2>3
  <1>9. p \notin ready
    BY <1>2 DEF ServerInv
  <1>10. \A q \in ready' : InHNodeList(q)'
    <2>1. \A q \in ready : q \in Providers /\ InHNodeList(q)
      BY InvFacts DEF ServerInv
    <2>. QED  BY <1>2, <1>8, <2>1
  <1>11. \A q \in Providers : InHNodeList(q)' =>
            refs'[q] >= 1 + (IF q \in ready' THEN Len(ClientList') ELSE 0)
    <2> SUFFICES ASSUME NEW q \in Providers, InHNodeList(q)'
                 PROVE  refs'[q] >= 1 + (IF q \in ready THEN Len(ClientList) ELSE 0)
      BY <1>2
    <2>1. CASE q = p
      BY <1>1, <1>2, <1>9, <2>1
    <2>2. CASE q # p
      <3>1. InHNodeList(q) /\ refs'[q] = refs[q]
        BY <1>1, <1>2, <1>8, <2>2
      <3>. QED  BY <3>1 DEF ServerInv
    <2>. QED  BY <2>1, <2>2
  <1>12. Connected' = Connected
    BY <1>2 DEF Connected
  <1>. QED  BY <1>2, <1>3, <1>4, <1>7, <1>10, <1>11, <1>12 DEF ServerInv

\* A step that only replaces the sessions, by ones with the same frames.
LEMMA SameQueues ==
    ASSUME NEW C, NEW s, NEW t,
           \A c \in C : FramesIn(t[c].TxPackets) = FramesIn(s[c].TxPackets), NEW f
    PROVE  QueueIn(C, t, f) = QueueIn(C, s, f)
  BY DEF QueueIn

\* GHNP_STATE_READY.
LEMMA ReadyKeepsInv ==
    ASSUME ServerInv, NEW p \in Providers, ProviderReady(p)
    PROVE  ServerInv'
  <1>1. /\ refs \in [Providers -> Nat] /\ session \in [Clients -> Sessions]
        /\ ready \in SUBSET Providers /\ Len(ClientList) \in Nat
        /\ Connected \subseteq Clients
        /\ \A c \in Connected : /\ told[c] \in Seq(Providers)
                                /\ Serves(session[c], told[c], ready, DOMAIN frameRefs)
    BY InvFacts
  <1>2. /\ InHNodeList(p) /\ p \notin ready /\ ready' = ready \cup {p}
        /\ session' = [c \in Clients |-> IF c \in Connected THEN AddNode(session[c], p)
                                                            ELSE session[c]]
        /\ refs' = [refs EXCEPT ![p] = refs[p] + Len(ClientList)]
        /\ HNodeList' = HNodeList /\ ClientList' = ClientList
        /\ frameRefs' = frameRefs /\ told' = told /\ connects' = connects
    BY <1>1 DEF ProviderReady, Held
  <1>3. Connected' = Connected
    BY <1>2 DEF Connected
  <1>4. ASSUME NEW c \in Connected
        PROVE  /\ Serves(session'[c], told[c], ready \cup {p}, DOMAIN frameRefs)
               /\ FramesIn(session'[c].TxPackets) = FramesIn(session[c].TxPackets)
    <2>1. session'[c] = AddNode(session[c], p)
      BY <1>1, <1>2
    <2>2. told[c] \in Seq(Providers) /\ Serves(session[c], told[c], ready, DOMAIN frameRefs)
      BY <1>1
    <2>3. ready \in SUBSET Providers /\ p \notin ready
      BY <1>1, <1>2
    <2>4. PICK t, F, a, d :
              /\ t \in Seq(Providers)
              /\ t = told[c] /\ F = DOMAIN frameRefs /\ a = session[c] /\ d = session'[c]
      BY <2>2
    <2>5. t \in Seq(Providers) /\ Serves(a, t, ready, F) /\ d = AddNode(a, p)
      BY <2>1, <2>2, <2>4
    <2>6. Serves(d, t, ready \cup {p}, F) /\ FramesIn(d.TxPackets) = FramesIn(a.TxPackets)
      BY <2>3, <2>5, AddServes
    <2>. QED  BY <2>4, <2>6
  <1>5. session' \in [Clients -> Sessions]
    <2>1. \A c \in Connected : AddNode(session[c], p) \in Sessions
      <3> SUFFICES ASSUME NEW c \in Connected
                   PROVE  AddNode(session[c], p) \in Sessions
        OBVIOUS
      <3>1. session'[c] = AddNode(session[c], p)
        BY <1>1, <1>2
      <3>. QED  BY <1>4, <3>1 DEF Serves, Lists, Sound, Bookkept
    <2>. QED  BY <1>1, <1>2, <2>1
  <1>6. TypeOK'
    <2>1. refs' \in [Providers -> Nat]
      BY <1>1, <1>2
    <2>. QED  BY <1>2, <1>5, <2>1 DEF ServerInv, TypeOK
  <1>7. \A q \in Providers : InHNodeList(q)' <=> InHNodeList(q)
    BY <1>2 DEF InHNodeList
  <1>8. \A q \in ready' : InHNodeList(q)'
    <2>1. \A q \in ready : q \in Providers /\ InHNodeList(q)
      BY InvFacts DEF ServerInv
    <2>. QED  BY <1>2, <1>7, <2>1
  <1>9. \A q \in Providers : InHNodeList(q)' =>
            refs'[q] >= 1 + (IF q \in ready' THEN Len(ClientList') ELSE 0)
    <2> SUFFICES ASSUME NEW q \in Providers, InHNodeList(q)
                 PROVE  refs'[q] >= 1 + (IF q \in ready \cup {p} THEN Len(ClientList) ELSE 0)
      BY <1>2, <1>7
    <2>1. refs[q] >= 1 + (IF q \in ready THEN Len(ClientList) ELSE 0) /\ refs[q] \in Nat
      BY <1>1 DEF ServerInv
    <2>2. CASE q = p
      BY <1>1, <1>2, <2>1, <2>2
    <2>3. CASE q # p
      BY <1>1, <1>2, <2>1, <2>3
    <2>. QED  BY <2>2, <2>3
  <1>10. \A c \in Connected' : Serves(session'[c], told'[c], ready', DOMAIN frameRefs')
    BY <1>2, <1>3, <1>4
  <1>11. \A f \in DOMAIN frameRefs' :
            frameRefs'[f] >= Cardinality(QueueIn(Connected', session', f))
    <2>1. \A f : QueueIn(Connected, session', f) = QueueIn(Connected, session, f)
      BY <1>4, SameQueues
    <2>. QED  BY <1>2, <1>3, <2>1 DEF ServerInv
  <1>. QED  BY <1>2, <1>6, <1>8, <1>9, <1>10, <1>11 DEF ServerInv

\* HNODE_MGMT_REQ_PINFO and HNODE_MGMT_DEBUG_CTRL of one client.
LEMMA ClientRequestKeepsInv ==
    ASSUME ServerInv, NEW c \in Clients, ClientRequest(c)
    PROVE  ServerInv'
  <1>1. /\ session \in [Clients -> Sessions]
        /\ \A b \in Connected : /\ told[b] \in Seq(Providers)
                                /\ Serves(session[b], told[b], ready, DOMAIN frameRefs)
    BY InvFacts
  <1>2. /\ c \in Connected
        /\ HNodeList' = HNodeList /\ ClientList' = ClientList /\ ready' = ready
        /\ refs' = refs /\ frameRefs' = frameRefs /\ told' = told /\ connects' = connects
    BY DEF ClientRequest
  <1>3. \/ session' = [session EXCEPT ![c] = RxReqPInfo(session[c], 0)]
        \/ session' = [session EXCEPT ![c] = RxDebugCtrl(session[c])]
    BY DEF ClientRequest
  <1>4. Connected' = Connected
    BY <1>2 DEF Connected
  <1>5. session'[c] = RxReqPInfo(session[c], 0) \/ session'[c] = RxDebugCtrl(session[c])
    BY <1>1, <1>3
  <1>6. /\ Serves(session'[c], told[c], ready, DOMAIN frameRefs)
        /\ FramesIn(session'[c].TxPackets) = FramesIn(session[c].TxPackets)
    <2>1. told[c] \in Seq(Providers) /\ Serves(session[c], told[c], ready, DOMAIN frameRefs)
      BY <1>1, <1>2
    <2>2. PICK t, F, a, d :
              /\ t \in Seq(Providers) /\ t = told[c]
              /\ F = DOMAIN frameRefs /\ a = session[c] /\ d = session'[c]
      BY <2>1
    <2>3. t \in Seq(Providers) /\ Serves(a, t, ready, F) /\ (d = RxReqPInfo(a, 0) \/ d = RxDebugCtrl(a))
      BY <1>5, <2>1, <2>2
    <2>4. Serves(d, t, ready, F) /\ FramesIn(d.TxPackets) = FramesIn(a.TxPackets)
      BY <2>3, RequestServes
    <2>. QED  BY <2>2, <2>4
  <1>7. session'[c] \in Sessions
    BY <1>6 DEF Serves, Lists, Sound, Bookkept
  <1>8. \A b \in Clients : b # c => session'[b] = session[b]
    BY <1>1, <1>3
  <1>9. TypeOK'
    <2>1. session' \in [Clients -> Sessions]
      BY <1>1, <1>3, <1>7
    <2>. QED  BY <1>2, <2>1 DEF ServerInv, TypeOK
  <1>10. \A b \in Connected : b \in Clients
    BY InvFacts
  <1>11. \A b \in Connected : Serves(session'[b], told[b], ready, DOMAIN frameRefs)
    BY <1>1, <1>6, <1>8, <1>10
  <1>12. \A f : QueueIn(Connected, session', f) = QueueIn(Connected, session, f)
    <2>1. \A b \in Connected :
             FramesIn(session'[b].TxPackets) = FramesIn(session[b].TxPackets)
      BY <1>6, <1>8, <1>10
    <2>. QED  BY <2>1, SameQueues
  <1>13. \A p : InHNodeList(p)' <=> InHNodeList(p)
    BY <1>2 DEF InHNodeList
  <1>. QED  BY <1>2, <1>4, <1>9, <1>11, <1>12, <1>13 DEF ServerInv

\* A debug frame of a node: it is queued for the sessions that take it.
LEMMA DebugrxKeepsInv ==
    ASSUME ServerInv, ServerDebugrx
    PROVE  ServerInv'
  <1> DEFINE n == Len(frameRefs)
             F == DOMAIN frameRefs
             T == {c \in Connected : Takes(c)}
  <1>1. /\ session \in [Clients -> Sessions] /\ Connected \subseteq Clients
        /\ \A b \in Connected : /\ told[b] \in Seq(Providers)
                                /\ Serves(session[b], told[b], ready, F)
        /\ frameRefs \in Seq(Nat) /\ n \in Nat /\ F = 1..n
        /\ IsFiniteSet(Connected)
    BY InvFacts
  <1>2. /\ session' = [c \in Clients |-> IF c \in Connected
                                         THEN ForwardDebugPacket(session[c], n + 1)
                                         ELSE session[c]]
        /\ frameRefs' = Append(frameRefs, Cardinality(T))
        /\ HNodeList' = HNodeList /\ ClientList' = ClientList /\ ready' = ready
        /\ refs' = refs /\ told' = told /\ connects' = connects
    BY DEF ServerDebugrx
  <1>3. Connected' = Connected
    BY <1>2 DEF Connected
  <1>4. Cardinality(T) \in Nat
    <2>1. T \subseteq Connected
      OBVIOUS
    <2>. QED  BY <1>1, <2>1, FS_Subset, FS_CardinalityType
  <1>. HIDE DEF T, n
  <1>5. /\ frameRefs' \in Seq(Nat) /\ DOMAIN frameRefs' = 1..(n + 1)
        /\ \A f \in 1..n : frameRefs'[f] = frameRefs[f]
        /\ frameRefs'[n + 1] = Cardinality(T)
    BY <1>1, <1>2, <1>4, AppendProperties, LenProperties DEF n
  <1>6. ASSUME NEW c \in Connected
        PROVE  /\ Serves(session'[c], told[c], ready, DOMAIN frameRefs')
               /\ FramesIn(session'[c].TxPackets) =
                    IF Takes(c) THEN FramesIn(session[c].TxPackets) \cup {n + 1}
                                ELSE FramesIn(session[c].TxPackets)
    <2>1. session'[c] = ForwardDebugPacket(session[c], n + 1)
      BY <1>1, <1>2
    <2>2. told[c] \in Seq(Providers) /\ Serves(session[c], told[c], ready, F)
      BY <1>1
    <2>3. F \subseteq 1..(n + 1) /\ n + 1 \in 1..(n + 1) /\ n + 1 \notin F /\ n + 1 \in Nat
      BY <1>1
    <2>4. PICK t, E, G, a, d, f :
              /\ t \in Seq(Providers) /\ t = told[c] /\ E = F /\ G = DOMAIN frameRefs' /\ f = n + 1
              /\ a = session[c] /\ d = session'[c]
      BY <2>2
    <2>5. Arrives(f, E, G)
      BY <1>5, <2>3, <2>4 DEF Arrives
    <2>6. t \in Seq(Providers) /\ Serves(a, t, ready, E) /\ d = ForwardDebugPacket(a, f)
      BY <2>1, <2>2, <2>4
    <2>7. Serves(d, t, ready, G) /\ AddsFrame(a, f, d)
      BY <2>5, <2>6, ForwardServes
    <2>8. Takes(c) <=> ForwardDebugPacket(a, 0) # a
      BY <2>4 DEF Takes
    <2>9. FramesIn(d.TxPackets) = IF Takes(c) THEN FramesIn(a.TxPackets) \cup {f}
                                               ELSE FramesIn(a.TxPackets)
      BY <2>7, <2>8 DEF AddsFrame
    <2>. QED  BY <2>4, <2>7, <2>9
  <1>7. TypeOK'
    <2>1. \A c \in Connected : session'[c] \in Sessions
      BY <1>6 DEF Serves, Lists, Sound, Bookkept
    <2>2. \A c \in Clients : session'[c] \in Sessions
      BY <1>1, <1>2, <2>1
    <2>3. session' \in [Clients -> Sessions]
      BY <1>2, <2>2
    <2>. QED  BY <1>2, <1>5, <2>3 DEF ServerInv, TypeOK
  <1>8. \A c \in Connected' : Serves(session'[c], told'[c], ready', DOMAIN frameRefs')
    BY <1>2, <1>3, <1>6
  <1>9. \A c \in Connected : FramesIn(session[c].TxPackets) \subseteq 1..n
    BY <1>1 DEF Serves, Lists
  <1>10. ASSUME NEW f \in 1..(n + 1)
         PROVE  frameRefs'[f] >= Cardinality(QueueIn(Connected, session', f))
    <2>1. CASE f = n + 1
      <3>1. \A c \in Connected : f \in FramesIn(session'[c].TxPackets) <=> Takes(c)
        <4>1. f \notin 1..n
          BY <1>1, <2>1
        <4>. QED  BY <1>6, <1>9, <2>1, <4>1
      <3>2. QueueIn(Connected, session', f) = T
        BY <3>1 DEF QueueIn, T
      <3>. QED  BY <1>4, <1>5, <2>1, <3>2
    <2>2. CASE f \in 1..n
      <3>1. f # n + 1
        BY <1>1, <2>2
      <3>2. \A c \in Connected : f \in FramesIn(session'[c].TxPackets)
                                  <=> f \in FramesIn(session[c].TxPackets)
        BY <1>6, <3>1
      <3>3. QueueIn(Connected, session', f) = QueueIn(Connected, session, f)
        BY <3>2 DEF QueueIn
      <3>4. frameRefs[f] >= Cardinality(QueueIn(Connected, session, f))
        BY <1>1, <2>2 DEF ServerInv
      <3>. QED  BY <1>5, <2>2, <3>3, <3>4
    <2>. QED  BY <1>1, <2>1, <2>2
  <1>11. \A f \in DOMAIN frameRefs' :
            frameRefs'[f] >= Cardinality(QueueIn(Connected', session', f))
    BY <1>3, <1>5, <1>10
  <1>12. \A p : InHNodeList(p)' <=> InHNodeList(p)
    BY <1>2 DEF InHNodeList
  <1>. QED  BY <1>2, <1>7, <1>8, <1>11, <1>12 DEF ServerInv

\* The last byte of a packet went to one client.
LEMMA ClientTxCompleteKeepsInv ==
    ASSUME ServerInv, NEW c \in Clients, ClientTxComplete(c)
    PROVE  ServerInv'
  <1> DEFINE pkt == Head(session[c].TxPackets)
             F == DOMAIN frameRefs
  <1>1. /\ session \in [Clients -> Sessions] /\ told \in [Clients -> Seq(Providers)]
        /\ \A b \in Connected : /\ told[b] \in Seq(Providers)
                                /\ Serves(session[b], told[b], ready, F)
        /\ Connected \subseteq Clients /\ IsFiniteSet(Connected)
        /\ frameRefs \in Seq(Nat) /\ Len(frameRefs) \in Nat /\ F = 1..Len(frameRefs)
        /\ \A f : /\ IsFiniteSet(QueueIn(Connected, session, f))
                  /\ Cardinality(QueueIn(Connected, session, f)) \in Nat
    BY InvFacts
  <1>2. /\ c \in Connected /\ session[c].TxPackets # <<>>
        /\ session' = [session EXCEPT ![c] = TxComplete(session[c])]
        /\ frameRefs' = IF pkt.type = "DEBUG"
                        THEN [frameRefs EXCEPT ![pkt.body] = frameRefs[pkt.body] - 1]
                        ELSE frameRefs
        /\ told' = IF pkt.type = "NODE"
                   THEN [told EXCEPT ![c] =
                           Append(told[c], session[c].NodeList[pkt.body + 1].Node)]
                   ELSE told
        /\ HNodeList' = HNodeList /\ ClientList' = ClientList /\ ready' = ready
        /\ refs' = refs /\ connects' = connects
    BY DEF ClientTxComplete
  <1>3. Connected' = Connected
    BY <1>2 DEF Connected
  <1>4. /\ session'[c] = TxComplete(session[c])
        /\ told'[c] = IF pkt.type = "NODE"
                      THEN Append(told[c], session[c].NodeList[pkt.body + 1].Node)
                      ELSE told[c]
        /\ \A b \in Clients : b # c => session'[b] = session[b] /\ told'[b] = told[b]
    BY <1>1, <1>2
  <1>5. /\ told'[c] \in Seq(Providers) /\ Serves(session'[c], told'[c], ready, F)
        /\ TakesFrame(session[c], pkt, session'[c])
    <2>1. told[c] \in Seq(Providers) /\ Serves(session[c], told[c], ready, F)
      BY <1>1, <1>2
    <2>2. PICK t, E, a, d, u, q :
              /\ t \in Seq(Providers) /\ t = told[c] /\ E = F /\ a = session[c] /\ d = session'[c]
              /\ u = told'[c] /\ q = pkt
      BY <2>1
    <2>3. t \in Seq(Providers) /\ Serves(a, t, ready, E) /\ Completes(a, t, q, d, u)
      BY <1>2, <1>4, <2>1, <2>2 DEF Completes
    <2>4. u \in Seq(Providers) /\ Serves(d, u, ready, E) /\ TakesFrame(a, q, d)
      BY <2>3, CompleteServes
    <2>. QED  BY <2>2, <2>4
  <1>. HIDE DEF pkt, F
  <1>6. pkt.type = "DEBUG" => pkt.body \in F /\ pkt.body \in FramesIn(session[c].TxPackets)
    <2>1. FramesIn(session[c].TxPackets) \subseteq F
      BY <1>1, <1>2 DEF Serves, Lists
    <2>. QED  BY <1>5, <2>1 DEF TakesFrame
  <1>7. \A f \in F : frameRefs[f] >= Cardinality(QueueIn(Connected, session, f))
                     /\ frameRefs[f] \in Nat
    BY <1>1, ElementOfSeq DEF ServerInv, F
  <1>8. ASSUME pkt.type = "DEBUG"
        PROVE  /\ QueueIn(Connected, session', pkt.body)
                    = QueueIn(Connected, session, pkt.body) \ {c}
               /\ c \in QueueIn(Connected, session, pkt.body)
               /\ \A f : f # pkt.body => QueueIn(Connected, session', f)
                                          = QueueIn(Connected, session, f)
    <2>1. \A f : \A b \in Connected : b # c =>
             (f \in FramesIn(session'[b].TxPackets) <=> f \in FramesIn(session[b].TxPackets))
      BY <1>1, <1>4
    <2>2. \A f : f \in FramesIn(session'[c].TxPackets)
                  <=> f \in FramesIn(session[c].TxPackets) /\ f # pkt.body
      BY <1>5, <1>8 DEF TakesFrame
    <2>3. c \in Connected /\ pkt.body \in FramesIn(session[c].TxPackets)
      BY <1>2, <1>6, <1>8
    <2>4. \A b, f : b \in QueueIn(Connected, session, f)
                     <=> b \in Connected /\ f \in FramesIn(session[b].TxPackets)
      BY DEF QueueIn
    <2>5. \A b, f : b \in QueueIn(Connected, session', f)
                     <=> b \in Connected /\ f \in FramesIn(session'[b].TxPackets)
      BY DEF QueueIn
    <2>6. \A b : b \in QueueIn(Connected, session', pkt.body)
                  <=> b \in QueueIn(Connected, session, pkt.body) /\ b # c
      BY <2>1, <2>2, <2>4, <2>5
    <2>7. \A f : f # pkt.body => \A b : b \in QueueIn(Connected, session', f)
                                         <=> b \in QueueIn(Connected, session, f)
      BY <2>1, <2>2, <2>4, <2>5
    <2>8. QueueIn(Connected, session', pkt.body)
            = QueueIn(Connected, session, pkt.body) \ {c}
      BY <2>6
    <2>9. ASSUME NEW f, f # pkt.body
          PROVE  QueueIn(Connected, session', f) = QueueIn(Connected, session, f)
      BY <2>7, <2>9
    <2>. QED  BY <2>3, <2>4, <2>8, <2>9
  <1>9. /\ frameRefs' \in Seq(Nat) /\ DOMAIN frameRefs' = F
        /\ \A f \in F : frameRefs'[f] >= Cardinality(QueueIn(Connected, session', f))
    <2>1. CASE pkt.type # "DEBUG"
      <3>1. \A b \in Connected :
               FramesIn(session'[b].TxPackets) = FramesIn(session[b].TxPackets)
        BY <1>1, <1>4, <1>5, <2>1 DEF TakesFrame
      <3>2. \A f : QueueIn(Connected, session', f) = QueueIn(Connected, session, f)
        BY <3>1, SameQueues
      <3>3. frameRefs' = frameRefs
        BY <1>2, <2>1 DEF pkt
      <3>. QED  BY <1>1, <1>7, <3>2, <3>3 DEF F
    <2>2. CASE pkt.type = "DEBUG"
      <3> DEFINE e == pkt.body
                 A == QueueIn(Connected, session, e)
                 r == frameRefs[e] - 1
      <3>1. e \in F /\ e \in 1..Len(frameRefs)
        BY <1>1, <1>6, <2>2 DEF F
      <3>2. /\ QueueIn(Connected, session', e) = A \ {c} /\ c \in A
            /\ \A f : f # e => QueueIn(Connected, session', f)
                                = QueueIn(Connected, session, f)
        BY <1>8, <2>2
      <3>3. IsFiniteSet(A) /\ Cardinality(A) \in Nat
        BY <1>1
      <3>. HIDE DEF A
      <3>4. Cardinality(A \ {c}) = Cardinality(A) - 1 /\ Cardinality(A) >= 1
        <4>1. Cardinality(A \ {c}) = Cardinality(A) - 1
          BY <3>2, <3>3, FS_RemoveElement
        <4>2. Cardinality(A) # 0
          BY <3>2, <3>3, FS_EmptySet
        <4>. QED  BY <3>3, <4>1, <4>2
      <3>5. frameRefs[e] >= Cardinality(A) /\ frameRefs[e] \in Nat
        BY <1>7, <3>1 DEF A
      <3>6. r \in Nat /\ r >= Cardinality(A \ {c})
        BY <3>3, <3>4, <3>5
      <3>7. frameRefs' = [frameRefs EXCEPT ![e] = r]
        BY <1>2, <2>2 DEF pkt
      <3>. HIDE DEF e, r
      <3>8. /\ frameRefs' \in Seq(Nat) /\ Len(frameRefs') = Len(frameRefs)
            /\ \A f \in 1..Len(frameRefs) :
                  frameRefs'[f] = IF f = e THEN r ELSE frameRefs[f]
        BY <1>1, <3>1, <3>6, <3>7, ExceptSeq
      <3>9. DOMAIN frameRefs' = F
        BY <1>1, <3>8, LenProperties
      <3>10. ASSUME NEW f \in F
             PROVE  frameRefs'[f] >= Cardinality(QueueIn(Connected, session', f))
        <4>1. frameRefs'[f] = IF f = e THEN r ELSE frameRefs[f]
          BY <1>1, <3>8
        <4>2. CASE f = e
          BY <3>2, <3>6, <4>1, <4>2
        <4>3. CASE f # e
          BY <1>7, <3>2, <4>1, <4>3
        <4>. QED  BY <4>2, <4>3
      <3>. QED  BY <3>8, <3>9, <3>10
    <2>. QED  BY <2>1, <2>2
  <1>10. TypeOK'
    <2>1. session'[c] \in Sessions
      BY <1>5 DEF Serves, Lists, Sound, Bookkept
    <2>2. session' \in [Clients -> Sessions]
      BY <1>1, <1>2, <1>4, <2>1
    <2>3. told' \in [Clients -> Seq(Providers)]
      <3>1. \A b \in Clients : told'[b] \in Seq(Providers)
        BY <1>1, <1>4, <1>5
      <3>2. DOMAIN told' = Clients /\ told' = [b \in Clients |-> told'[b]]
        BY <1>1, <1>2
      <3>. QED  BY <3>1, <3>2
    <2>. QED  BY <1>2, <1>9, <2>2, <2>3 DEF ServerInv, TypeOK
  <1>11. \A b \in Connected' : Serves(session'[b], told'[b], ready', DOMAIN frameRefs')
    <2>1. \A b \in Connected : b # c => session'[b] = session[b] /\ told'[b] = told[b]
      BY <1>1, <1>4
    <2>. QED  BY <1>1, <1>2, <1>3, <1>5, <1>9, <2>1
  <1>12. \A p : InHNodeList(p)' <=> InHNodeList(p)
    BY <1>2 DEF InHNodeList
  <1>. QED  BY <1>2, <1>3, <1>9, <1>10, <1>11, <1>12 DEF ServerInv

\* A client connects.
LEMMA ServerNewsrcKeepsInv ==
    ASSUME ServerInv, NEW c \in Clients, ServerNewsrc(c)
    PROVE  ServerInv'
  <1> DEFINE n == Len(ClientList)
             F == DOMAIN frameRefs
  <1>1. /\ session \in [Clients -> Sessions] /\ told \in [Clients -> Seq(Providers)]
        /\ HNodeList \in Seq(Providers) /\ ready \in SUBSET Providers
        /\ ClientList \in Seq(Clients) /\ n \in Nat /\ DOMAIN ClientList = 1..n
        /\ refs \in [Providers -> Nat] /\ connects \in Nat
        /\ Connected \subseteq Clients
        /\ \A b \in Connected : Serves(session[b], told[b], ready, F)
    BY InvFacts
  <1>2. /\ c \notin Connected /\ ClientList' = Append(ClientList, c)
        /\ session' = [session EXCEPT ![c] = NewSession]
        /\ refs' = [p \in Providers |-> refs[p] + (IF p \in ready THEN 1 ELSE 0)]
        /\ told' = [told EXCEPT ![c] = <<>>]
        /\ connects' = connects + 1
        /\ HNodeList' = HNodeList /\ ready' = ready /\ frameRefs' = frameRefs
    BY DEF ServerNewsrc, Held, IsReady
  <1>3. /\ ClientList' \in Seq(Clients) /\ Len(ClientList') = n + 1
        /\ DOMAIN ClientList' = 1..(n + 1)
        /\ \A i \in 1..n : ClientList'[i] = ClientList[i]
        /\ ClientList'[n + 1] = c
    BY <1>1, <1>2, AppendProperties, LenProperties
  <1>4. \A i \in 1..(n + 1) : i \in 1..n \/ i = n + 1
    BY <1>1
  <1>5. Connected' = Connected \cup {c}
    <2>1. \A b : b \in Connected <=> \E i \in 1..n : ClientList[i] = b
      BY <1>1 DEF Connected
    <2>2. \A b : b \in Connected' <=> \E i \in 1..(n + 1) : ClientList'[i] = b
      BY <1>3 DEF Connected
    <2>3. n + 1 \in 1..(n + 1) /\ \A i \in 1..n : i \in 1..(n + 1)
      BY <1>1
    <2>. HIDE DEF n
    <2>4. \A b : b \in Connected' <=> b \in Connected \/ b = c
      BY <1>3, <1>4, <2>1, <2>2, <2>3
    <2>. QED  BY <2>4
  <1>6. Serves(NewSession, <<>>, ready, F) /\ FramesIn(NewSession.TxPackets) = {}
    BY <1>1, NewSessionServes DEF ServerInv
  <1>7. /\ session'[c] = NewSession /\ told'[c] = <<>>
        /\ \A b \in Connected : session'[b] = session[b] /\ told'[b] = told[b]
    BY <1>1, <1>2
  <1>8. TypeOK'
    <2>1. NewSession \in Sessions
      BY <1>6 DEF Serves, Lists, Sound, Bookkept
    <2>2. session' \in [Clients -> Sessions]
      BY <1>1, <1>2, <2>1
    <2>3. <<>> \in Seq(Providers)
      OBVIOUS
    <2>4. told' \in [Clients -> Seq(Providers)]
      BY <1>1, <1>2, <2>3
    <2>5. refs' \in [Providers -> Nat]
      BY <1>1, <1>2
    <2>6. connects' \in Nat
      BY <1>1, <1>2
    <2>. QED  BY <1>2, <1>3, <2>2, <2>4, <2>5, <2>6 DEF ServerInv, TypeOK
  <1>9. \A i, j \in 1..(n + 1) : ClientList'[i] = ClientList'[j] => i = j
    <2>1. \A i \in 1..n : ClientList[i] # c
      BY <1>1, <1>2 DEF Connected
    <2>2. \A i, j \in 1..n : ClientList[i] = ClientList[j] => i = j
      BY DEF ServerInv
    <2>. HIDE DEF n
    <2>. QED  BY <1>3, <1>4, <2>1, <2>2
  <1>10. \A b \in Connected' : Serves(session'[b], told'[b], ready', DOMAIN frameRefs')
    BY <1>1, <1>2, <1>5, <1>6, <1>7
  <1>11. \A p \in Providers : InHNodeList(p)' =>
            refs'[p] >= 1 + (IF p \in ready' THEN Len(ClientList') ELSE 0)
    <2> SUFFICES ASSUME NEW p \in Providers, InHNodeList(p)
                 PROVE  refs'[p] >= 1 + (IF p \in ready THEN n + 1 ELSE 0)
      BY <1>2, <1>3 DEF InHNodeList
    <2>1. refs[p] >= 1 + (IF p \in ready THEN n ELSE 0) /\ refs[p] \in Nat
      BY <1>1 DEF ServerInv
    <2>2. refs'[p] = refs[p] + (IF p \in ready THEN 1 ELSE 0)
      BY <1>2
    <2>. HIDE DEF n
    <2>. QED  BY <1>1, <2>1, <2>2
  <1>12. \A f : QueueIn(Connected', session', f) = QueueIn(Connected, session, f)
    <2>1. \A b, f : b \in QueueIn(Connected', session', f)
                     <=> b \in QueueIn(Connected, session, f)
      BY <1>2, <1>5, <1>6, <1>7 DEF QueueIn
    <2>. QED  BY <2>1
  <1>13. \A p : InHNodeList(p)' <=> InHNodeList(p)
    BY <1>2 DEF InHNodeList
  <1>. QED  BY <1>2, <1>3, <1>8, <1>9, <1>10, <1>11, <1>12, <1>13 DEF ServerInv

\* What g_list_remove leaves of a list.
LEMMA RemoveAtProperties ==
    ASSUME NEW S, NEW s \in Seq(S), NEW k \in 1..Len(s)
    PROVE  /\ RemoveAt(s, k) \in Seq(S) /\ Len(RemoveAt(s, k)) = Len(s) - 1
           /\ \A i \in 1..(Len(s) - 1) :
                RemoveAt(s, k)[i] = IF i < k THEN s[i] ELSE s[i + 1]
  <1> DEFINE n == Len(s)
             a == SubSeq(s, 1, k - 1)
             b == SubSeq(s, k + 1, n)
  <1>1. n \in Nat /\ k \in Nat /\ k >= 1 /\ k <= n /\ \A i \in 1..n : s[i] \in S
    BY LenProperties, ElementOfSeq
  <1>2. /\ a \in Seq(S) /\ Len(a) = k - 1
        /\ \A i \in 1..(k - 1) : a[i] = s[i]
    <2>1. /\ 1 \in Int /\ k - 1 \in Int
          /\ \A i \in 1..(k - 1) : s[i] \in S
      BY <1>1
    <2>2. /\ a \in Seq(S) /\ Len(a) = IF 1 <= k - 1 THEN (k - 1) - 1 + 1 ELSE 0
          /\ \A i \in 1..((k - 1) - 1 + 1) : a[i] = s[1 + i - 1]
      BY <2>1, SubSeqProperties
    <2>. HIDE DEF a
    <2>. QED  BY <1>1, <2>2
  <1>3. /\ b \in Seq(S) /\ Len(b) = n - k
        /\ \A i \in 1..(n - k) : b[i] = s[k + i]
    <2>1. /\ k + 1 \in Int /\ n \in Int
          /\ \A i \in (k + 1)..n : s[i] \in S
      BY <1>1
    <2>2. /\ b \in Seq(S) /\ Len(b) = IF k + 1 <= n THEN n - (k + 1) + 1 ELSE 0
          /\ \A i \in 1..(n - (k + 1) + 1) : b[i] = s[(k + 1) + i - 1]
      BY <2>1, SubSeqProperties
    <2>. HIDE DEF b, n
    <2>. QED  BY <1>1, <2>2
  <1> DEFINE r == a \o b
  <1>4. RemoveAt(s, k) = r
    BY DEF RemoveAt
  <1>. HIDE DEF a, b, n
  <1>5. /\ r \in Seq(S) /\ Len(r) = Len(a) + Len(b)
        /\ \A i \in 1..(Len(a) + Len(b)) :
              r[i] = IF i <= Len(a) THEN a[i] ELSE b[i - Len(a)]
    BY <1>2, <1>3, ConcatProperties
  <1>. HIDE DEF r
  <1>6. Len(r) = n - 1
    BY <1>1, <1>2, <1>3, <1>5
  <1>7. ASSUME NEW i \in 1..(n - 1)
        PROVE  r[i] = IF i < k THEN s[i] ELSE s[i + 1]
    <2>1. r[i] = IF i <= k - 1 THEN a[i] ELSE b[i - (k - 1)]
      BY <1>1, <1>2, <1>3, <1>5
    <2>2. CASE i < k
      BY <1>1, <1>2, <2>1, <2>2
    <2>3. CASE ~(i < k)
      <3>1. i - (k - 1) \in 1..(n - k) /\ k + (i - (k - 1)) = i + 1
        BY <1>1, <2>3
      <3>2. b[i - (k - 1)] = s[k + (i - (k - 1))]
        BY <1>3, <3>1
      <3>3. r[i] = b[i - (k - 1)]
        BY <1>1, <2>1, <2>3
      <3>. QED  BY <2>3, <3>1, <3>2, <3>3
    <2>. QED  BY <2>2, <2>3
  <1>. QED  BY <1>4, <1>5, <1>6, <1>7 DEF n

\* A client disconnects: the counts only grow, and its packets stay counted.
LEMMA ClientStateKeepsInv ==
    ASSUME ServerInv, NEW c \in Clients, ClientState(c)
    PROVE  ServerInv'
  <1> DEFINE n == Len(ClientList)
             k == PositionOf(c)
  <1>1. /\ session \in [Clients -> Sessions] /\ ClientList \in Seq(Clients)
        /\ n \in Nat /\ DOMAIN ClientList = 1..n
        /\ refs \in [Providers -> Nat] /\ Connected \subseteq Clients
        /\ \A b \in Connected : Serves(session[b], told[b], ready, DOMAIN frameRefs)
        /\ \A f : IsFiniteSet(QueueIn(Connected, session, f))
        /\ frameRefs \in Seq(Nat) /\ DOMAIN frameRefs = 1..Len(frameRefs)
    BY InvFacts
  <1>2. /\ c \in Connected /\ ClientList' = RemoveAt(ClientList, k)
        /\ session' = [session EXCEPT ![c] = NewClient]
        /\ refs' = [p \in Providers |-> refs[p] + Uses(c, p)]
        /\ HNodeList' = HNodeList /\ ready' = ready /\ frameRefs' = frameRefs
        /\ told' = told /\ connects' = connects
    BY DEF ClientState, Held
  <1>3. k \in 1..n /\ ClientList[k] = c
    BY <1>1, <1>2 DEF PositionOf, Connected
  <1>. HIDE DEF k
  <1>4. /\ ClientList' \in Seq(Clients) /\ Len(ClientList') = n - 1
        /\ DOMAIN ClientList' = 1..(n - 1)
        /\ \A i \in 1..(n - 1) :
              ClientList'[i] = IF i < k THEN ClientList[i] ELSE ClientList[i + 1]
    <2>1. /\ RemoveAt(ClientList, k) \in Seq(Clients)
          /\ Len(RemoveAt(ClientList, k)) = n - 1
          /\ \A i \in 1..(n - 1) : RemoveAt(ClientList, k)[i]
                                     = IF i < k THEN ClientList[i] ELSE ClientList[i + 1]
      BY <1>1, <1>3, RemoveAtProperties
    <2>2. DOMAIN ClientList' = 1..Len(ClientList')
      BY <1>2, <2>1, LenProperties
    <2>. HIDE DEF n
    <2>3. ClientList' \in Seq(Clients) /\ Len(ClientList') = n - 1
      BY <1>2, <2>1
    <2>4. \A i \in 1..(n - 1) :
             ClientList'[i] = IF i < k THEN ClientList[i] ELSE ClientList[i + 1]
      BY <1>2, <2>1, Zenon
    <2>5. DOMAIN ClientList' = 1..(n - 1)
      BY <2>2, <2>3, Zenon
    <2>. QED  BY <2>3, <2>4, <2>5, ZenonT(60)
  <1>. HIDE DEF n
  <1>5. \A i, j \in 1..n : ClientList[i] = ClientList[j] => i = j
    BY DEF ServerInv, n
  <1> DEFINE old(i) == IF i < k THEN i ELSE i + 1
  <1>6. \A i \in 1..(n - 1) : /\ old(i) \in 1..n /\ old(i) # k
                              /\ ClientList'[i] = ClientList[old(i)]
    BY <1>1, <1>3, <1>4
  <1>7. \A i, j \in 1..(n - 1) : old(i) = old(j) => i = j
    BY <1>1, <1>3
  <1>. HIDE DEF old
  <1>8. \A i, j \in 1..(n - 1) : ClientList'[i] = ClientList'[j] => i = j
    <2> SUFFICES ASSUME NEW i \in 1..(n - 1), NEW j \in 1..(n - 1),
                        ClientList'[i] = ClientList'[j]
                 PROVE  i = j
      OBVIOUS
    <2>1. old(i) = old(j)
      BY <1>5, <1>6
    <2>. QED  BY <1>7, <2>1
  <1>9. \A b \in Connected' : b \in Connected /\ b # c
    <2>1. ASSUME NEW i \in 1..(n - 1)
          PROVE  ClientList'[i] \in Connected /\ ClientList'[i] # c
      <3>1. old(i) \in 1..n /\ old(i) # k /\ ClientList'[i] = ClientList[old(i)]
        BY <1>6
      <3>. QED  BY <1>1, <1>3, <1>5, <3>1 DEF Connected
    <2>. QED  BY <1>4, <2>1 DEF Connected
  <1>u. \A p : Uses(c, p) \in Nat
    <2>1. session[c] \in Sessions
      BY <1>1
    <2>2. session[c].NodeList \in Seq(NodeRecords)
      BY <2>1 DEF Sessions
    <2>3. /\ DOMAIN session[c].NodeList = 1..Len(session[c].NodeList)
          /\ Len(session[c].NodeList) \in Nat
      BY <2>2, LenProperties
    <2>4. IsFiniteSet(1..Len(session[c].NodeList))
      BY <2>3, FS_Interval
    <2>5. \A p : Listings(c, p) \subseteq 1..Len(session[c].NodeList)
      BY <2>3 DEF Listings
    <2>. QED  BY <2>4, <2>5, FS_Subset, FS_CardinalityType DEF Uses
  <1>10. TypeOK'
    <2>1. NewClient \in Sessions
      BY NewClientIsFresh DEF Fresh, Lists, Sound, Bookkept
    <2>2. session' \in [Clients -> Sessions]
      BY <1>1, <1>2, <2>1
    <2>3. \A p \in Providers : Uses(c, p) \in Nat
      BY <1>u
    <2>4. refs' \in [Providers -> Nat]
      BY <1>1, <1>2, <2>3
    <2>. QED  BY <1>2, <1>4, <2>2, <2>4 DEF ServerInv, TypeOK
  <1>11. \A p : InHNodeList(p)' <=> InHNodeList(p)
    BY <1>2 DEF InHNodeList
  <1>12. \A p \in Providers : InHNodeList(p)' =>
            refs'[p] >= 1 + (IF p \in ready' THEN Len(ClientList') ELSE 0)
    <2> SUFFICES ASSUME NEW p \in Providers, InHNodeList(p)
                 PROVE  refs'[p] >= 1 + (IF p \in ready THEN n - 1 ELSE 0)
      BY <1>2, <1>4, <1>11
    <2>1. refs[p] >= 1 + (IF p \in ready THEN n ELSE 0) /\ refs[p] \in Nat
      BY <1>1 DEF ServerInv, n
    <2>2. refs'[p] = refs[p] + Uses(c, p) /\ refs'[p] \in Nat
      BY <1>2, <1>10 DEF TypeOK
    <2>3. Uses(c, p) \in Nat
      BY <1>u
    <2>. QED  BY <1>1, <2>1, <2>2, <2>3
  <1>13. \A b \in Connected' : Serves(session'[b], told'[b], ready', DOMAIN frameRefs')
    BY <1>1, <1>2, <1>9
  <1>14. ASSUME NEW f \in DOMAIN frameRefs
         PROVE  frameRefs[f] >= Cardinality(QueueIn(Connected', session', f))
    <2> DEFINE A == QueueIn(Connected, session, f)
               B == QueueIn(Connected', session', f)
    <2>1. B \subseteq A
      BY <1>1, <1>2, <1>9 DEF QueueIn
    <2>2. IsFiniteSet(A)
      BY <1>1
    <2>3. frameRefs[f] >= Cardinality(A) /\ frameRefs[f] \in Nat
      BY <1>1, ElementOfSeq DEF ServerInv
    <2>. HIDE DEF A, B
    <2>4. Cardinality(B) <= Cardinality(A) /\ Cardinality(A) \in Nat /\ Cardinality(B) \in Nat
      BY <2>1, <2>2, FS_Subset, FS_CardinalityType
    <2>5. frameRefs[f] >= Cardinality(B)
      BY <2>3, <2>4
    <2>. QED  BY <2>5 DEF B
  <1>. QED  BY <1>2, <1>4, <1>8, <1>10, <1>11, <1>12, <1>13, <1>14 DEF ServerInv

\* Whatever the clients, the nodes and the network do, and in whatever order,
\* every connected session serves the ready providers and the counts cover
\* their users.
THEOREM ServerInvariant == Spec => []ServerInv
  <1>1. Init => ServerInv
    BY InitInv
  <1>2. ServerInv /\ [Next]_vars => ServerInv'
    <2> SUFFICES ASSUME ServerInv, [Next]_vars
                 PROVE  ServerInv'
      OBVIOUS
    <2>1. ASSUME NEW p \in Providers, ProviderFound(p)
          PROVE  ServerInv'
      BY <2>1, FoundKeepsInv
    <2>2. ASSUME NEW p \in Providers, ProviderReady(p)
          PROVE  ServerInv'
      BY <2>2, ReadyKeepsInv
    <2>3. ASSUME NEW c \in Clients, ServerNewsrc(c)
          PROVE  ServerInv'
      BY <2>3, ServerNewsrcKeepsInv
    <2>4. ASSUME NEW c \in Clients, ClientRequest(c)
          PROVE  ServerInv'
      BY <2>4, ClientRequestKeepsInv
    <2>5. ASSUME NEW c \in Clients, ClientTxComplete(c)
          PROVE  ServerInv'
      BY <2>5, ClientTxCompleteKeepsInv
    <2>6. ASSUME NEW c \in Clients, ClientState(c)
          PROVE  ServerInv'
      BY <2>6, ClientStateKeepsInv
    <2>7. ASSUME ServerDebugrx
          PROVE  ServerInv'
      BY <2>7, DebugrxKeepsInv
    <2>8. ASSUME UNCHANGED vars
          PROVE  ServerInv'
      <3>1. /\ HNodeList' = HNodeList /\ ready' = ready /\ ClientList' = ClientList
            /\ session' = session /\ refs' = refs /\ frameRefs' = frameRefs
            /\ told' = told /\ connects' = connects
        BY <2>8 DEF vars
      <3>2. Connected' = Connected /\ \A p : InHNodeList(p)' <=> InHNodeList(p)
        BY <3>1 DEF Connected, InHNodeList
      <3>3. TypeOK'
        BY <3>1 DEF ServerInv, TypeOK
      <3>. QED  BY <3>1, <3>2, <3>3 DEF ServerInv
    <2>. QED  BY <2>1, <2>2, <2>3, <2>4, <2>5, <2>6, <2>7, <2>8 DEF Next
  <1>. QED  BY <1>1, <1>2, PTL DEF Spec

\* TypeOK for any number of providers and clients.
THEOREM ServerTypes == Spec => []TypeOK
  <1>1. ServerInv => TypeOK
    BY DEF ServerInv
  <1>. QED  BY <1>1, ServerInvariant, PTL

\* A session that lists the ready providers once each lists as many as are ready.
LEMMA ServesLists ==
    ASSUME ServerInv, NEW c \in Connected
    PROVE  LET list == session[c].NodeList
           IN  /\ {list[i].Node : i \in DOMAIN list} = ready
               /\ Len(list) = Cardinality(ready)
               /\ \A i \in DOMAIN list : list[i].NodeID = i - 1
               /\ \A i, j \in DOMAIN list : list[i].Node = list[j].Node => i = j
               /\ DOMAIN list = 1..Len(list) /\ Len(list) \in Nat
               /\ Len(told[c]) \in Nat /\ Len(told[c]) <= Len(list)
               /\ DOMAIN told[c] = 1..Len(told[c])
               /\ \A k \in 1..Len(told[c]) : told[c][k] = list[k].Node
  <1> DEFINE list == session[c].NodeList
             n == Len(list)
             K == KnownBy(session[c])
             t == told[c]
  <1>1. t \in Seq(Providers) /\ Lists(session[c], t, ready, DOMAIN frameRefs)
    BY InvFacts DEF Serves
  <1>2. /\ Sound(session[c], Numbers(Len(t))) /\ ListsOnce(session[c], ready)
        /\ \A k \in 1..Len(t) : t[k] = K[k]
    BY <1>1 DEF Lists
  <1>3. /\ session[c] \in Sessions /\ n \in Nat /\ Len(t) \in Nat /\ Len(t) <= n
        /\ K \in Seq(Providers) /\ Len(K) = n
        /\ \A i \in 1..n : K[i] = list[i].Node
        /\ \A i \in 1..n : list[i].NodeID = i - 1
    BY <1>1, <1>2, ToldWithin
  <1>4. DOMAIN list = 1..n /\ DOMAIN t = 1..Len(t) /\ DOMAIN K = 1..n
    <2>1. list \in Seq(NodeRecords)
      BY <1>3 DEF Sessions
    <2>. QED  BY <1>1, <1>3, <2>1, LenProperties
  <1>5. /\ \A i, j \in 1..n : K[i] = K[j] => i = j
        /\ \A p \in ready : \E i \in 1..n : K[i] = p
        /\ \A i \in 1..n : K[i] \in ready
    BY <1>2 DEF ListsOnce
  <1>. HIDE DEF list, n, K, t
  <1>6. {list[i].Node : i \in DOMAIN list} = ready
    <2>1. \A p : p \in {list[i].Node : i \in DOMAIN list}
                   <=> \E i \in 1..n : list[i].Node = p
      BY <1>4
    <2>2. ASSUME NEW i \in 1..n
          PROVE  list[i].Node \in ready
      BY <1>3, <1>5
    <2>3. ASSUME NEW p \in ready
          PROVE  \E i \in 1..n : list[i].Node = p
      <3>1. PICK i \in 1..n : K[i] = p
        BY <1>5
      <3>2. list[i].Node = p
        BY <1>3, <3>1
      <3>. QED  BY <3>2
    <2>. QED  BY <2>1, <2>2, <2>3
  <1>7. Cardinality(ready) = n
    <2>1. K \in [1..n -> ready]
      <3>1. K = [i \in 1..n |-> K[i]]
        BY <1>3, <1>4
      <3>. QED  BY <1>5, <3>1
    <2>2. K \in Bijection(1..n, ready)
      BY <1>5, <2>1 DEF Bijection, Injection, Surjection, IsInjective
    <2>3. ExistsBijection(1..n, ready)
      BY <2>2 DEF ExistsBijection
    <2>. QED  BY <1>3, <2>3, FS_CountingElements
  <1>8. \A i, j \in DOMAIN list : list[i].Node = list[j].Node => i = j
    BY <1>3, <1>4, <1>5
  <1>9. \A k \in 1..Len(t) : t[k] = list[k].Node
    <2>1. \A k \in 1..Len(t) : k \in 1..n
      BY <1>3
    <2>. QED  BY <1>2, <1>3, <2>1 DEF t, K
  <1>. QED  BY <1>3, <1>4, <1>6, <1>7, <1>8, <1>9 DEF list, n, t

\* Each session lists each ready provider once and no other, whenever its
\* client connected: the scan of g_hnode_server_newsrc and the state callback of
\* the provider leave no gap and no overlap.
THEOREM EverySessionComplete == Spec => []SessionsComplete
  <1>1. ServerInv => SessionsComplete
    BY ServesLists DEF SessionsComplete
  <1>. QED  BY <1>1, ServerInvariant, PTL

\* A client is told of a provider only when it is ready, and once.
THEOREM ToldOnce == Spec => []ToldEachOnce
  <1>1. ServerInv => ToldEachOnce
    <2> SUFFICES ASSUME ServerInv, NEW c \in Connected
                 PROVE  IsInjective(told[c]) /\ Range(told[c]) \subseteq ready
      BY DEF ToldEachOnce
    <2> DEFINE list == session[c].NodeList
               t == told[c]
    <2>1. /\ {list[i].Node : i \in DOMAIN list} = ready
          /\ \A i, j \in DOMAIN list : list[i].Node = list[j].Node => i = j
          /\ DOMAIN list = 1..Len(list) /\ Len(list) \in Nat
          /\ Len(t) \in Nat /\ Len(t) <= Len(list) /\ DOMAIN t = 1..Len(t)
          /\ \A k \in 1..Len(t) : t[k] = list[k].Node
      BY ServesLists
    <2>. HIDE DEF list, t
    <2>2. \A k \in DOMAIN t : k \in DOMAIN list /\ t[k] = list[k].Node
      BY <2>1
    <2>3. IsInjective(t)
      BY <2>1, <2>2 DEF IsInjective
    <2>4. Range(t) \subseteq ready
      BY <2>1, <2>2 DEF Range
    <2>. QED  BY <2>3, <2>4 DEF t
  <1>. QED  BY <1>1, ServerInvariant, PTL

\* A provider of the list is held by the list and by every session that lists it.
THEOREM ProvidersHeld == Spec => []NoProviderFreedEarly
  <1>1. ServerInv => NoProviderFreedEarly
    <2> SUFFICES ASSUME ServerInv, NEW p \in Providers, InHNodeList(p)
                 PROVE  refs[p] >= 1 + Users(p)
      BY DEF NoProviderFreedEarly
    <2> DEFINE U == UNION {{c} \X Listings(c, p) : c \in Connected}
               n == Len(ClientList)
    <2>1. /\ refs[p] >= 1 + (IF p \in ready THEN n ELSE 0) /\ refs[p] \in Nat
          /\ n \in Nat /\ DOMAIN ClientList = 1..n
      BY InvFacts DEF ServerInv
    <2>2. \A u : u \in U <=> \E c \in Connected : \E i \in Listings(c, p) : u = <<c, i>>
      OBVIOUS
    <2>3. Users(p) = Cardinality(U)
      BY DEF Users
    <2>4. \A c \in Connected : \A i \in Listings(c, p) : p \in ready
      <3> SUFFICES ASSUME NEW c \in Connected, NEW i \in Listings(c, p)
                   PROVE  p \in ready
        OBVIOUS
      <3> DEFINE list == session[c].NodeList
      <3>1. {list[j].Node : j \in DOMAIN list} = ready
        BY ServesLists
      <3>2. i \in DOMAIN list /\ list[i].Node = p
        BY DEF Listings
      <3>. QED  BY <3>1, <3>2
    <2>5. \A c \in Connected : \A i, j \in Listings(c, p) : i = j
      <3> SUFFICES ASSUME NEW c \in Connected, NEW i \in Listings(c, p),
                          NEW j \in Listings(c, p)
                   PROVE  i = j
        OBVIOUS
      <3> DEFINE list == session[c].NodeList
      <3>1. \A k, l \in DOMAIN list : list[k].Node = list[l].Node => k = l
        BY ServesLists
      <3>2. /\ i \in DOMAIN list /\ list[i].Node = p
            /\ j \in DOMAIN list /\ list[j].Node = p
        BY DEF Listings
      <3>. QED  BY <3>1, <3>2
    <2>. HIDE DEF U, n
    <2>6. CASE p \notin ready
      <3>1. U = {}
        BY <2>2, <2>4, <2>6
      <3>2. Cardinality(U) = 0
        BY <3>1, FS_EmptySet
      <3>. QED  BY <2>1, <2>3, <2>6, <3>2
    <2>7. CASE p \in ready
      <3> DEFINE at(c) == CHOOSE i : i \in Listings(c, p)
                 f == [i \in 1..n |-> <<ClientList[i], at(ClientList[i])>>]
      <3>1. \A i \in 1..n : ClientList[i] \in Connected
        BY <2>1 DEF Connected
      <3>2. \A c \in Connected : at(c) \in Listings(c, p)
        <4> SUFFICES ASSUME NEW c \in Connected
                     PROVE  \E i : i \in Listings(c, p)
          OBVIOUS
        <4> DEFINE list == session[c].NodeList
        <4>1. {list[j].Node : j \in DOMAIN list} = ready
          BY ServesLists
        <4>2. PICK i \in DOMAIN list : list[i].Node = p
          BY <2>7, <4>1
        <4>. QED  BY <4>2 DEF Listings
      <3>. HIDE DEF at
      <3>3. f \in [1..n -> U]
        BY <2>2, <3>1, <3>2
      <3>4. \A u \in U : \E i \in 1..n : f[i] = u
        <4> SUFFICES ASSUME NEW u \in U
                     PROVE  \E i \in 1..n : f[i] = u
          OBVIOUS
        <4>1. PICK c \in Connected : \E j \in Listings(c, p) : u = <<c, j>>
          BY <2>2
        <4>2. u = <<c, at(c)>>
          BY <2>5, <3>2, <4>1
        <4>3. PICK i \in 1..n : ClientList[i] = c
          BY <2>1 DEF Connected
        <4>. QED  BY <4>2, <4>3
      <3>5. ExistsSurjection(1..n, U)
        BY <3>3, <3>4 DEF ExistsSurjection, Surjection
      <3>6. Cardinality(U) <= n
        BY <2>1, <3>5, FS_SurjCardinalityBound
      <3>7. Cardinality(U) \in Nat
        <4>1. IsFiniteSet(1..n)
          BY <2>1, FS_Interval
        <4>2. f \in Surjection(1..n, U)
          BY <3>3, <3>4 DEF Surjection
        <4>. HIDE DEF f
        <4>. QED  BY <4>1, <4>2, FS_Surjection, FS_CardinalityType
      <3>. QED  BY <2>1, <2>3, <2>7, <3>6, <3>7
    <2>. QED  BY <2>6, <2>7
  <1>. QED  BY <1>1, ServerInvariant, PTL

\* The packet of a debug frame is held for every client that has it queued.
THEOREM FramesHeld == Spec => []NoFrameFreedEarly
  <1>1. ServerInv => NoFrameFreedEarly
    <2> SUFFICES ASSUME ServerInv, NEW f \in DOMAIN frameRefs
                 PROVE  frameRefs[f] >= Cardinality(Queues(f))
      BY DEF NoFrameFreedEarly
    <2>1. \A c \in Connected :
             f \in FramesIn(session[c].TxPackets)
                <=> \E i \in DOMAIN session[c].TxPackets :
                      /\ session[c].TxPackets[i].type = "DEBUG"
                      /\ session[c].TxPackets[i].body = f
      BY DEF FramesIn, DebugIn
    <2>2. Queues(f) = QueueIn(Connected, session, f)
      BY <2>1 DEF Queues, QueueIn
    <2>. QED  BY <2>2 DEF ServerInv
  <1>. QED  BY <1>1, ServerInvariant, PTL
=============================================================================

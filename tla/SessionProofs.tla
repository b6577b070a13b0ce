--------------------------- MODULE SessionProofs ---------------------------
(***************************************************************************)
(* What the operators of ClientSession keep, for any session, providers    *)
(* and packets.  These lemmas carry the proofs about one session           *)
(* (HNodeClientProofs) and about the server with all of them               *)
(* (ServerProofs).  Bookkept is the session's own record keeping, Sound     *)
(* adds the order of what was sent and what is queued, and KnownBy is the  *)
(* sequence of nodes the session lists, which handlers leave alone.        *)
(***************************************************************************)
EXTENDS SessionTypes, SequenceTheorems, TLAPS

\* The number of records of c taken to be established.
Rep(c) == Len(c.NodeList) - c.UpdateNodeCount

\* UpdateBookkeeping and TypeOK of a session c that is connected, and NodeID.
Bookkept(c) ==
    /\ c \in Sessions
    /\ c.UpdateNodeCount <= Len(c.NodeList)
    /\ c.NextNodeID = Len(c.NodeList)
    /\ \A i \in 1..Len(c.NodeList) :
         /\ c.NodeList[i].NodeID = i - 1
         /\ c.NodeList[i].State = "ESTABLISHED" <=> i <= Rep(c)
         /\ c.NodeList[i].State = "EXPOSING"
               <=> c.State = "UPDATING" /\ i = Rep(c) + 1
    /\ c.State = "UPDATING" => /\ c.UpdateNodeCount > 0
                               /\ c.UpdatingNode = Rep(c) + 1

\* When nothing is being exposed, the next record to expose is the oldest that
\* is not established.
LEMMA BuildUpdateExposes ==
    ASSUME NEW c, Bookkept(c), c.State # "UPDATING", c.UpdateNodeCount > 0
    PROVE  /\ Rep(c) + 1 \in 1..Len(c.NodeList)
           /\ BuildUpdatePacket(c) = ExposeNode(c, Rep(c) + 1)
  <1>1. /\ Len(c.NodeList) \in Nat /\ c.UpdateNodeCount \in Nat
        /\ c.UpdateNodeCount <= Len(c.NodeList)
        /\ c.NodeList \in Seq(NodeRecords)
    BY DEF Bookkept, Sessions
  <1>2. Rep(c) + 1 \in 1..Len(c.NodeList)
    BY <1>1 DEF Rep
  <1>3. \A i \in 1..Len(c.NodeList) : c.NodeList[i].State \in NodeStates
    <2>1. \A i \in 1..Len(c.NodeList) : c.NodeList[i] \in NodeRecords
      BY <1>1, ElementOfSeq
    <2>. QED BY <2>1 DEF NodeRecords
  <1>4. \A i \in 1..Len(c.NodeList) :
            /\ c.NodeList[i].State # "EXPOSING"
            /\ c.NodeList[i].State = "ESTABLISHED" <=> i <= Rep(c)
    BY DEF Bookkept
  <1>5. \A i \in 1..Len(c.NodeList) : c.NodeList[i].State = "NEW" <=> i > Rep(c)
    BY <1>1, <1>3, <1>4 DEF NodeStates, Rep
  <1>6. \A i : i \in NewNodes(c) <=> i \in 1..Len(c.NodeList) /\ i > Rep(c)
    BY <1>5 DEF NewNodes
  <1>7. Rep(c) + 1 \in NewNodes(c)
    BY <1>1, <1>2, <1>6 DEF Rep
  <1>8. \A i \in NewNodes(c) : i \in Int /\ Rep(c) + 1 <= i
    BY <1>1, <1>6 DEF Rep
  <1>9. \A j \in NewNodes(c) : (\A i \in NewNodes(c) : j <= i) => j = Rep(c) + 1
    BY <1>1, <1>7, <1>8 DEF Rep
  <1>10. FirstNew(c) = Rep(c) + 1
    BY <1>7, <1>8, <1>9 DEF FirstNew
  <1>. QED BY <1>2, <1>7, <1>10 DEF BuildUpdatePacket

\* Exposing that record keeps the bookkeeping.
LEMMA ExposeKeepsBooks ==
    ASSUME NEW c, Bookkept(c), c.State # "UPDATING", c.UpdateNodeCount > 0
    PROVE  Bookkept(ExposeNode(c, Rep(c) + 1))
  <1>. DEFINE n == Rep(c) + 1
              r == [c.NodeList[n] EXCEPT !.State = "EXPOSING"]
              d == ExposeNode(c, n)
  <1>1. n \in 1..Len(c.NodeList)
    BY BuildUpdateExposes
  <1>2. /\ c.NodeList \in Seq(NodeRecords) /\ c.NodeList[n] \in NodeRecords
        /\ c.TxPackets \in Seq(Packets) /\ c.NextIOTag \in Nat
        /\ c.UpdateNodeCount \in Nat
    BY <1>1, ElementOfSeq DEF Bookkept, Sessions
  <1>3. /\ r \in NodeRecords /\ r.State = "EXPOSING" /\ r.NodeID = c.NodeList[n].NodeID
    BY <1>2 DEF NodeRecords, NodeStates
  <1>4. NodePkt(c.NextIOTag, c.NodeList[n].NodeID) \in Packets
    BY <1>2 DEF NodePkt, Packets, NodeRecords
  <1>5. /\ d.NodeList = [c.NodeList EXCEPT ![n] = r]
        /\ d.TxPackets = Append(c.TxPackets, NodePkt(c.NextIOTag, c.NodeList[n].NodeID))
        /\ d.NextIOTag = c.NextIOTag + 1
        /\ d.UpdatingNode = n /\ d.State = "UPDATING"
        /\ d.UpdateNodeCount = c.UpdateNodeCount /\ d.NextNodeID = c.NextNodeID
    BY DEF ExposeNode, Bookkept, Sessions
  <1>6. n \in Nat
    BY <1>1
  <1>. HIDE DEF d, r, n
  <1>7. /\ d.NodeList \in Seq(NodeRecords)
        /\ Len(d.NodeList) = Len(c.NodeList)
        /\ \A j \in 1..Len(c.NodeList) :
              d.NodeList[j] = IF j = n THEN r ELSE c.NodeList[j]
    BY <1>1, <1>2, <1>3, <1>5, ExceptSeq
  <1>8. d.TxPackets \in Seq(Packets)
    BY <1>2, <1>4, <1>5
  <1>9. d \in Sessions
    <2>1. d = [c EXCEPT !.NodeList = d.NodeList, !.TxPackets = d.TxPackets,
                        !.NextIOTag = d.NextIOTag, !.UpdatingNode = n,
                        !.State = "UPDATING"]
      BY <1>5 DEF d, ExposeNode, Bookkept, Sessions
    <2>2. d.NextIOTag \in Nat
      BY <1>2, <1>5
    <2>. QED BY <1>6, <1>7, <1>8, <2>1, <2>2, ZenonT(60) DEF Bookkept, Sessions, ClientStates
  <1>10. Rep(d) = Rep(c)
    BY <1>5, <1>7 DEF Rep
  <1>11. ASSUME NEW i \in 1..Len(d.NodeList)
         PROVE  /\ d.NodeList[i].NodeID = i - 1
                /\ d.NodeList[i].State = "ESTABLISHED" <=> i <= Rep(d)
                /\ d.NodeList[i].State = "EXPOSING"
                      <=> d.State = "UPDATING" /\ i = Rep(d) + 1
    <2>1. /\ Rep(c) \in Int /\ i \in Int /\ n = Rep(c) + 1 /\ i \in 1..Len(c.NodeList)
      BY <1>2, <1>7 DEF Bookkept, Sessions, Rep, n
    <2>2. /\ c.NodeList[i].NodeID = i - 1
          /\ c.NodeList[i].State = "ESTABLISHED" <=> i <= Rep(c)
          /\ c.NodeList[i].State # "EXPOSING"
      BY <2>1 DEF Bookkept
    <2>. QED BY <1>3, <1>5, <1>7, <1>10, <2>1, <2>2
  <1>12. /\ d.UpdateNodeCount <= Len(d.NodeList)
         /\ d.NextNodeID = Len(d.NodeList)
         /\ d.UpdateNodeCount > 0
         /\ d.UpdatingNode = Rep(d) + 1
    BY <1>5, <1>7, <1>10 DEF Bookkept, n
  <1>. QED BY <1>9, <1>11, <1>12 DEF Bookkept, d, n

\* A step that leaves the list, its counters and the state alone.
LEMMA SameBooks ==
    ASSUME NEW c, NEW d \in Sessions, Bookkept(c),
           d.NodeList = c.NodeList, d.UpdateNodeCount = c.UpdateNodeCount,
           d.NextNodeID = c.NextNodeID, d.State = c.State,
           d.UpdatingNode = c.UpdatingNode
    PROVE  Bookkept(d)
  BY DEF Bookkept, Rep

\* Completing the exposed record keeps the bookkeeping, and ends the update.
LEMMA FinishKeepsBooks ==
    ASSUME NEW c, Bookkept(c), NEW d, d = FinishUpdate(c)
    PROVE  /\ Bookkept(d)
           /\ d.State = IF c.State = "UPDATING" THEN "IDLE" ELSE c.State
           /\ d.Report = c.Report
           /\ d.TxPackets = c.TxPackets
           /\ Len(d.NodeList) = Len(c.NodeList)
           /\ \A i \in 1..Len(c.NodeList) :
                d.NodeList[i].State = "NEW" <=> c.NodeList[i].State = "NEW"
  <1>1. CASE c.State # "UPDATING"
    BY <1>1 DEF FinishUpdate
  <1>2. CASE c.State = "UPDATING"
    <2>. DEFINE n == c.UpdatingNode
                r == [c.NodeList[n] EXCEPT !.State = "ESTABLISHED"]
    <2>1. /\ c \in Sessions /\ c.NodeList \in Seq(NodeRecords)
          /\ Len(c.NodeList) \in Nat /\ c.UpdateNodeCount \in Nat
          /\ c.UpdateNodeCount > 0 /\ c.UpdateNodeCount <= Len(c.NodeList)
          /\ n = Rep(c) + 1 /\ c.NextNodeID = Len(c.NodeList)
      BY <1>2 DEF Bookkept, Sessions
    <2>2. n \in 1..Len(c.NodeList)
      BY <2>1 DEF Rep
    <2>3. c.NodeList[n] \in NodeRecords
      BY <2>1, <2>2, ElementOfSeq
    <2>4. /\ r \in NodeRecords /\ r.State = "ESTABLISHED"
          /\ r.NodeID = c.NodeList[n].NodeID
      BY <2>3 DEF NodeRecords, NodeStates
    <2>5. /\ d.NodeList = [c.NodeList EXCEPT ![n] = r]
          /\ d.UpdateNodeCount = c.UpdateNodeCount - 1
          /\ d.NextNodeID = c.NextNodeID /\ d.State = "IDLE"
          /\ d.Report = c.Report /\ d.TxPackets = c.TxPackets
          /\ d = [c EXCEPT !.NodeList = d.NodeList, !.State = "IDLE",
                           !.UpdateNodeCount = d.UpdateNodeCount]
      BY <1>2, <2>1 DEF FinishUpdate, Sessions
    <2>. HIDE DEF r, n
    <2>6. /\ d.NodeList \in Seq(NodeRecords)
          /\ Len(d.NodeList) = Len(c.NodeList)
          /\ \A j \in 1..Len(c.NodeList) :
                d.NodeList[j] = IF j = n THEN r ELSE c.NodeList[j]
      BY <2>1, <2>2, <2>4, <2>5, ExceptSeq
    <2>7. d \in Sessions
      <3>1. d.UpdateNodeCount \in Nat
        BY <2>1, <2>5
      <3>. QED BY <2>1, <2>5, <2>6, <3>1 DEF Sessions, ClientStates
    <2>8. Rep(d) = Rep(c) + 1 /\ Rep(c) \in Int
      BY <2>1, <2>5, <2>6 DEF Rep
    <2>9. ASSUME NEW i \in 1..Len(d.NodeList)
          PROVE  /\ d.NodeList[i].NodeID = i - 1
                 /\ d.NodeList[i].State = "ESTABLISHED" <=> i <= Rep(d)
                 /\ d.NodeList[i].State # "EXPOSING"
                 /\ d.NodeList[i].State = "NEW" <=> c.NodeList[i].State = "NEW"
      <3>1. /\ c.NodeList[i].NodeID = i - 1
            /\ c.NodeList[i].State = "ESTABLISHED" <=> i <= Rep(c)
            /\ c.NodeList[i].State = "EXPOSING" <=> i = Rep(c) + 1
            /\ i \in Int /\ i \in 1..Len(c.NodeList)
        BY <1>2, <2>6 DEF Bookkept
      <3>. QED BY <2>1, <2>4, <2>6, <2>8, <3>1
    <2>. QED BY <2>1, <2>5, <2>6, <2>7, <2>8, <2>9, <1>2 DEF Bookkept
  <1>. QED BY <1>1, <1>2

\* The record that add_node appends.
NewRecord(c, p) == [NodeID |-> c.NextNodeID, State |-> "NEW", Node |-> p]

\* The session add_node has made before it looks whether to expose the record.
Added(c, p) == [c EXCEPT !.NodeList = Append(@, NewRecord(c, p)),
                         !.NextNodeID = @ + 1, !.UpdateNodeCount = @ + 1]

LEMMA AddedKeepsBooks ==
    ASSUME NEW c, Bookkept(c), NEW p \in Providers, NEW d, d = Added(c, p)
    PROVE  /\ Bookkept(d)
           /\ d.State = c.State /\ d.Report = c.Report /\ d.TxPackets = c.TxPackets
           /\ d.UpdateNodeCount > 0
           /\ Len(d.NodeList) = Len(c.NodeList) + 1
           /\ \A i \in 1..Len(c.NodeList) : d.NodeList[i] = c.NodeList[i]
           /\ d.NodeList[Len(c.NodeList) + 1] = NewRecord(c, p)
  <1>1. /\ c \in Sessions /\ c.NodeList \in Seq(NodeRecords)
        /\ Len(c.NodeList) \in Nat /\ c.UpdateNodeCount \in Nat
        /\ c.NextNodeID = Len(c.NodeList)
        /\ c.UpdateNodeCount <= Len(c.NodeList)
    BY DEF Bookkept, Sessions
  <1>2. /\ NewRecord(c, p) \in NodeRecords
        /\ NewRecord(c, p).NodeID = Len(c.NodeList)
        /\ NewRecord(c, p).State = "NEW"
    BY <1>1 DEF NewRecord, NodeRecords, NodeStates
  <1>3. /\ d.NodeList = Append(c.NodeList, NewRecord(c, p))
        /\ d.NextNodeID = c.NextNodeID + 1
        /\ d.UpdateNodeCount = c.UpdateNodeCount + 1
        /\ d.State = c.State /\ d.Report = c.Report /\ d.TxPackets = c.TxPackets
        /\ d.UpdatingNode = c.UpdatingNode
        /\ d = [c EXCEPT !.NodeList = d.NodeList, !.NextNodeID = d.NextNodeID,
                         !.UpdateNodeCount = d.UpdateNodeCount]
    BY <1>1 DEF Added, Sessions
  <1>. HIDE DEF NewRecord
  <1>4. /\ d.NodeList \in Seq(NodeRecords)
        /\ Len(d.NodeList) = Len(c.NodeList) + 1
        /\ \A i \in 1..Len(c.NodeList) : d.NodeList[i] = c.NodeList[i]
        /\ d.NodeList[Len(c.NodeList) + 1] = NewRecord(c, p)
    BY <1>1, <1>2, <1>3, AppendProperties
  <1>5. d \in Sessions
    <2>1. d.UpdateNodeCount \in Nat /\ d.NextNodeID \in Nat
      BY <1>1, <1>3
    <2>. QED BY <1>1, <1>3, <1>4, <2>1 DEF Sessions
  <1>6. Rep(d) = Rep(c) /\ Rep(c) \in Int /\ Rep(c) <= Len(c.NodeList)
    BY <1>1, <1>3, <1>4 DEF Rep
  <1>7. c.State = "UPDATING" => c.UpdateNodeCount > 0 /\ c.UpdatingNode = Rep(c) + 1
    BY DEF Bookkept
  <1>8. ASSUME NEW i \in 1..Len(d.NodeList)
        PROVE  /\ d.NodeList[i].NodeID = i - 1
               /\ d.NodeList[i].State = "ESTABLISHED" <=> i <= Rep(d)
               /\ d.NodeList[i].State = "EXPOSING"
                     <=> d.State = "UPDATING" /\ i = Rep(d) + 1
    <2>1. CASE i \in 1..Len(c.NodeList)
      BY <1>3, <1>4, <1>6, <2>1 DEF Bookkept
    <2>2. CASE i = Len(c.NodeList) + 1
      <3>1. ~(d.State = "UPDATING" /\ i = Rep(d) + 1)
        BY <1>1, <1>3, <1>6, <1>7, <2>2 DEF Rep
      <3>. QED BY <1>1, <1>2, <1>4, <1>6, <2>2, <3>1
    <2>. QED BY <1>1, <1>4, <2>1, <2>2
  <1>. QED BY <1>1, <1>3, <1>4, <1>5, <1>6, <1>7, <1>8 DEF Bookkept

----------------------------------------------------------------------------
\* The positions of node records in a queue of packets.
NodesIn(q) == {k \in DOMAIN q : q[k].type = "NODE"}

\* Of the records 0 .. m-1 that left the NEW state, the first ones were sent, as
\* ann tells, and the others are queued, in order.
SentInOrder(ann, q, m) ==
    /\ \A k \in DOMAIN ann : ann[k] = k - 1
    /\ Len(ann) <= m
    /\ \A k \in NodesIn(q) : Len(ann) <= q[k].body /\ q[k].body < m
    /\ \A j, k \in NodesIn(q) : j < k => q[j].body < q[k].body
    /\ \A n \in Nat : Len(ann) <= n /\ n < m => \E k \in NodesIn(q) : q[k].body = n

\* Queueing an acknowledgement or a debug frame changes nothing to that.
LEMMA OtherQueued ==
    ASSUME NEW ann \in Seq(Nat), NEW q \in Seq(Packets), NEW m \in Nat,
           SentInOrder(ann, q, m), NEW pkt \in Packets, pkt.type # "NODE"
    PROVE  SentInOrder(ann, Append(q, pkt), m)
  <1>1. /\ DOMAIN q = 1..Len(q) /\ Len(q) \in Nat
        /\ DOMAIN Append(q, pkt) = 1..(Len(q) + 1)
        /\ \A k \in 1..Len(q) : Append(q, pkt)[k] = q[k]
        /\ Append(q, pkt)[Len(q) + 1] = pkt
    BY AppendProperties, LenProperties
  <1>2. \A k : k \in NodesIn(Append(q, pkt)) <=> k \in NodesIn(q)
    BY <1>1 DEF NodesIn
  <1>3. \A k \in NodesIn(q) : Append(q, pkt)[k] = q[k]
    BY <1>1 DEF NodesIn
  <1>. QED BY <1>2, <1>3 DEF SentInOrder

\* Queueing the record of the next position extends the order by one.
LEMMA NodeQueued ==
    ASSUME NEW ann \in Seq(Nat), NEW q \in Seq(Packets), NEW m \in Nat,
           SentInOrder(ann, q, m), NEW pkt \in Packets,
           pkt.type = "NODE", pkt.body = m
    PROVE  SentInOrder(ann, Append(q, pkt), m + 1)
  <1>. DEFINE qq == Append(q, pkt)
              e  == Len(q) + 1
  <1>1. /\ DOMAIN q = 1..Len(q) /\ Len(q) \in Nat
        /\ DOMAIN qq = 1..e
        /\ \A k \in 1..Len(q) : qq[k] = q[k]
        /\ qq[e] = pkt
    BY AppendProperties, LenProperties
  <1>2. Len(ann) \in Nat
    BY LenProperties
  <1>3. \A k \in NodesIn(q) : q[k].body \in Nat
    <2>1. \A k \in DOMAIN q : q[k] \in Packets
      BY ElementOfSeq, <1>1
    <2>. QED BY <2>1 DEF NodesIn, Packets
  <1>. HIDE DEF qq
  <1>4. \A k : k \in NodesIn(qq) <=> k \in NodesIn(q) \/ k = e
    BY <1>1 DEF NodesIn
  <1>5. \A k \in NodesIn(q) : qq[k] = q[k] /\ k \in Int /\ k < e
    BY <1>1 DEF NodesIn
  <1>6. \A k \in NodesIn(qq) : Len(ann) <= qq[k].body /\ qq[k].body < m + 1
    BY <1>1, <1>2, <1>3, <1>4, <1>5 DEF SentInOrder
  <1>7. \A j, k \in NodesIn(qq) : j < k => qq[j].body < qq[k].body
    <2>. SUFFICES ASSUME NEW j \in NodesIn(qq), NEW k \in NodesIn(qq), j < k
                  PROVE  qq[j].body < qq[k].body
      OBVIOUS
    <2>1. j \in NodesIn(q)
      BY <1>1, <1>4, <1>5
    <2>2. CASE k \in NodesIn(q)
      BY <1>5, <2>1, <2>2 DEF SentInOrder
    <2>3. CASE k = e
      BY <1>1, <1>5, <2>1, <2>3 DEF SentInOrder
    <2>. QED BY <1>4, <2>2, <2>3
  <1>8. ASSUME NEW n \in Nat, Len(ann) <= n, n < m + 1
        PROVE  \E k \in NodesIn(qq) : qq[k].body = n
    <2>1. CASE n = m
      BY <1>1, <1>4, <2>1
    <2>2. CASE n < m
      BY <1>4, <1>5, <1>8, <2>2 DEF SentInOrder
    <2>. QED BY <1>8, <2>1, <2>2
  <1>9. Len(ann) <= m + 1 /\ \A k \in DOMAIN ann : ann[k] = k - 1
    BY <1>2 DEF SentInOrder
  <1>. QED BY <1>6, <1>7, <1>8, <1>9 DEF SentInOrder, qq

\* The queue behind the packet whose last byte was sent.
LEMMA TailNodes ==
    ASSUME NEW q \in Seq(Packets), q # <<>>
    PROVE  /\ \A k \in Nat : k \in NodesIn(Tail(q)) <=> k >= 1 /\ k + 1 \in NodesIn(q)
           /\ \A k \in NodesIn(Tail(q)) : k \in Nat /\ Tail(q)[k] = q[k + 1]
           /\ \A k \in NodesIn(q) : k \in Nat /\ k >= 1 /\ q[k].body \in Nat
           /\ 1 \in NodesIn(q) <=> Head(q).type = "NODE"
           /\ Head(q) = q[1]
  <1>1. /\ Tail(q) \in Seq(Packets) /\ Len(q) \in Nat /\ Len(q) >= 1
        /\ DOMAIN q = 1..Len(q) /\ Len(Tail(q)) = Len(q) - 1
        /\ DOMAIN Tail(q) = 1..(Len(q) - 1)
        /\ \A k \in 1..(Len(q) - 1) : Tail(q)[k] = q[k + 1]
        /\ Head(q) = q[1]
    BY HeadTailProperties, LenProperties, EmptySeq
  <1>2. \A k \in DOMAIN q : q[k] \in Packets
    BY ElementOfSeq, <1>1
  <1>. QED BY <1>1, <1>2 DEF NodesIn, Packets

\* Completing an acknowledgement or a debug frame.
LEMMA OtherSent ==
    ASSUME NEW ann \in Seq(Nat), NEW q \in Seq(Packets), NEW m \in Nat,
           SentInOrder(ann, q, m), q # <<>>, Head(q).type # "NODE"
    PROVE  SentInOrder(ann, Tail(q), m)
  <1>1. \A k \in NodesIn(Tail(q)) : k \in Nat /\ k + 1 \in NodesIn(q) /\ Tail(q)[k] = q[k + 1]
    BY TailNodes
  <1>2. ASSUME NEW j \in NodesIn(q)
        PROVE  j - 1 \in NodesIn(Tail(q)) /\ Tail(q)[j - 1] = q[j]
    <2>1. j \in Nat /\ j >= 1 /\ j # 1
      BY TailNodes
    <2>2. j - 1 \in Nat /\ j - 1 >= 1 /\ (j - 1) + 1 = j
      BY <2>1
    <2>3. j - 1 \in NodesIn(Tail(q))
      BY <2>2, TailNodes
    <2>. QED BY <2>2, <2>3, TailNodes
  <1>3. \A k \in NodesIn(Tail(q)) : Len(ann) <= Tail(q)[k].body /\ Tail(q)[k].body < m
    BY <1>1 DEF SentInOrder
  <1>4. ASSUME NEW j \in NodesIn(Tail(q)), NEW k \in NodesIn(Tail(q)), j < k
        PROVE  Tail(q)[j].body < Tail(q)[k].body
    <2>1. j + 1 < k + 1
      BY <1>1, <1>4
    <2>. QED BY <1>1, <2>1 DEF SentInOrder
  <1>5. \A n \in Nat : Len(ann) <= n /\ n < m
            => \E k \in NodesIn(Tail(q)) : Tail(q)[k].body = n
    <2> SUFFICES ASSUME NEW n \in Nat, Len(ann) <= n /\ n < m
                 PROVE  \E k \in NodesIn(Tail(q)) : Tail(q)[k].body = n
      OBVIOUS
    <2>1. PICK j \in NodesIn(q) : q[j].body = n
      BY DEF SentInOrder
    <2>. QED BY <1>2, <2>1, Zenon
  <1>. QED BY <1>3, <1>4, <1>5, ZenonT(60) DEF SentInOrder

\* The first record in the queue is the first of those not yet sent.
LEMMA HeadIsNext ==
    ASSUME NEW ann \in Seq(Nat), NEW q \in Seq(Packets), NEW m \in Nat,
           SentInOrder(ann, q, m), q # <<>>, Head(q).type = "NODE"
    PROVE  Head(q).body = Len(ann) /\ Len(ann) < m
  <1>1. /\ Len(ann) \in Nat
        /\ 1 \in NodesIn(q) /\ Head(q) = q[1] /\ q[1].body \in Nat
        /\ \A k \in NodesIn(q) : k \in Nat /\ k >= 1 /\ q[k].body \in Nat
    BY TailNodes, LenProperties
  <1>2. Len(ann) <= q[1].body /\ q[1].body < m
    BY <1>1 DEF SentInOrder
  <1>3. Len(ann) < m
    BY <1>1, <1>2
  <1>4. PICK k \in NodesIn(q) : q[k].body = Len(ann)
    BY <1>1, <1>3 DEF SentInOrder
  <1>5. k # 1 => q[1].body < q[k].body
    BY <1>1 DEF SentInOrder
  <1>. QED BY <1>1, <1>2, <1>4, <1>5

\* Completing a node record: it is the first of those not yet sent.
LEMMA NodeSent ==
    ASSUME NEW ann \in Seq(Nat), NEW q \in Seq(Packets), NEW m \in Nat,
           SentInOrder(ann, q, m), q # <<>>, Head(q).type = "NODE"
    PROVE  SentInOrder(Append(ann, Head(q).body), Tail(q), m)
  <1>. DEFINE a == Append(ann, Head(q).body)
              t == Tail(q)
  <1>1. /\ Len(ann) \in Nat /\ DOMAIN ann = 1..Len(ann)
        /\ 1 \in NodesIn(q) /\ Head(q) = q[1] /\ q[1].body \in Nat
        /\ \A k \in NodesIn(q) : k \in Nat /\ k >= 1 /\ q[k].body \in Nat
    BY TailNodes, LenProperties
  <1>2. \A k \in NodesIn(t) : k \in Nat /\ k >= 1 /\ k + 1 \in NodesIn(q) /\ t[k] = q[k + 1]
    BY TailNodes
  <1>3. ASSUME NEW j \in NodesIn(q), j # 1
        PROVE  j - 1 \in NodesIn(t) /\ t[j - 1] = q[j]
    <2>1. j - 1 \in Nat /\ j - 1 >= 1 /\ (j - 1) + 1 = j
      BY <1>1, <1>3
    <2>2. j - 1 \in NodesIn(t)
      BY <2>1, TailNodes
    <2>. QED BY <2>1, <2>2, TailNodes
  <1>4. Head(q).body = Len(ann) /\ Len(ann) < m
    BY HeadIsNext
  <1>5. /\ a \in Seq(Nat) /\ Len(a) = Len(ann) + 1 /\ DOMAIN a = 1..(Len(ann) + 1)
        /\ \A k \in 1..Len(ann) : a[k] = ann[k]
        /\ a[Len(ann) + 1] = Head(q).body
    BY <1>1, AppendProperties, LenProperties
  <1>. HIDE DEF a, t
  <1>6. ASSUME NEW k \in DOMAIN a
        PROVE  a[k] = k - 1
    <2>1. CASE k \in 1..Len(ann)
      BY <1>1, <1>5, <2>1 DEF SentInOrder
    <2>2. CASE k = Len(ann) + 1
      BY <1>1, <1>4, <1>5, <2>2
    <2>. QED BY <1>1, <1>5, <2>1, <2>2
  <1>7. Len(a) <= m
    BY <1>1, <1>4, <1>5
  <1>8. ASSUME NEW k \in NodesIn(t)
        PROVE  Len(a) <= t[k].body /\ t[k].body < m
    <2>1. k \in Nat /\ 1 < k + 1 /\ k + 1 \in NodesIn(q) /\ t[k] = q[k + 1]
      BY <1>2
    <2>2. q[1].body < q[k + 1].body /\ q[k + 1].body < m /\ q[k + 1].body \in Nat
      BY <1>1, <2>1 DEF SentInOrder
    <2>. QED BY <1>1, <1>4, <1>5, <2>1, <2>2
  <1>9. ASSUME NEW j \in NodesIn(t), NEW k \in NodesIn(t), j < k
        PROVE  t[j].body < t[k].body
    <2>1. j + 1 < k + 1
      BY <1>2, <1>9
    <2>. QED BY <1>2, <2>1 DEF SentInOrder
  <1>10. ASSUME NEW n \in Nat, Len(a) <= n, n < m
         PROVE  \E k \in NodesIn(t) : t[k].body = n
    <2>0. Len(ann) <= n
      BY <1>1, <1>5, <1>10
    <2>1. PICK j \in NodesIn(q) : q[j].body = n
      BY <1>10, <2>0 DEF SentInOrder
    <2>2. j # 1
      BY <1>1, <1>4, <1>5, <1>10, <2>1
    <2>. QED BY <1>3, <2>1, <2>2
  <1>. QED BY <1>6, <1>7, <1>8, <1>9, <1>10 DEF SentInOrder, a, t

----------------------------------------------------------------------------
\* The number of records of c that have left the NEW state.
Shown(c) == IF c.State = "UPDATING" THEN Rep(c) + 1 ELSE Rep(c)

\* A packet is queued whenever one must be: while a record is being exposed, and
\* while a client that asked for the records has not been told all of them.
Driven(c) ==
    /\ c.State = "UPDATING" => c.TxPackets # <<>>
    /\ c.State = "STOPPED" => ~c.Report
    /\ c.Report /\ c.UpdateNodeCount > 0 => c.TxPackets # <<>>

\* What every step of a connected session keeps.
Sound(c, ann) ==
    Bookkept(c) /\ Driven(c) /\ SentInOrder(ann, c.TxPackets, Shown(c))

LEMMA ShownIsNat ==
    ASSUME NEW c, Bookkept(c)
    PROVE  /\ Shown(c) \in Nat /\ Shown(c) <= Len(c.NodeList)
           /\ \A i \in DOMAIN c.NodeList : c.NodeList[i].State # "NEW" <=> i <= Shown(c)
  <1>1. /\ Len(c.NodeList) \in Nat /\ c.UpdateNodeCount \in Nat
        /\ c.UpdateNodeCount <= Len(c.NodeList)
        /\ c.NodeList \in Seq(NodeRecords)
        /\ DOMAIN c.NodeList = 1..Len(c.NodeList)
        /\ c.State = "UPDATING" => c.UpdateNodeCount > 0
    BY LenProperties DEF Bookkept, Sessions
  <1>2. ASSUME NEW i \in DOMAIN c.NodeList
        PROVE  c.NodeList[i].State # "NEW" <=> i <= Shown(c)
    <2>1. c.NodeList[i] \in NodeRecords /\ i \in Nat /\ i \in 1..Len(c.NodeList)
      BY <1>1, ElementOfSeq
    <2>2. c.NodeList[i].State \in {"NEW", "EXPOSING", "ESTABLISHED"}
      BY <2>1 DEF NodeRecords, NodeStates
    <2>3. /\ c.NodeList[i].State = "ESTABLISHED" <=> i <= Rep(c)
          /\ c.NodeList[i].State = "EXPOSING"
                <=> c.State = "UPDATING" /\ i = Rep(c) + 1
      BY <2>1 DEF Bookkept
    <2>4. Rep(c) \in Nat
      BY <1>1 DEF Rep
    <2>. QED BY <2>1, <2>2, <2>3, <2>4 DEF Shown
  <1>. QED BY <1>1, <1>2 DEF Shown, Rep

\* Going on with the next record keeps the session sound.
LEMMA BuildIsSound ==
    ASSUME NEW ann \in Seq(Nat), NEW c, Bookkept(c), c.State = "IDLE",
           SentInOrder(ann, c.TxPackets, Shown(c))
    PROVE  Sound(BuildUpdatePacket(c), ann)
  <1>1. CASE c.UpdateNodeCount = 0
    BY <1>1 DEF BuildUpdatePacket, Sound, Driven
  <1>2. CASE c.UpdateNodeCount # 0
    <2>. DEFINE d   == ExposeNode(c, Rep(c) + 1)
                pkt == NodePkt(c.NextIOTag, c.NodeList[Rep(c) + 1].NodeID)
    <2>1. /\ c.UpdateNodeCount > 0 /\ c.TxPackets \in Seq(Packets)
          /\ c.NextIOTag \in Nat /\ c.NodeList \in Seq(NodeRecords)
      BY <1>2 DEF Bookkept, Sessions
    <2>2. /\ Rep(c) + 1 \in 1..Len(c.NodeList)
          /\ BuildUpdatePacket(c) = d
      BY <2>1, BuildUpdateExposes
    <2>3. Bookkept(d)
      BY <2>1, ExposeKeepsBooks
    <2>4. /\ d.TxPackets = Append(c.TxPackets, pkt)
          /\ d.State = "UPDATING"
          /\ d.UpdateNodeCount = c.UpdateNodeCount
          /\ Len(d.NodeList) = Len(c.NodeList)
      BY <2>1, <2>2, ExceptSeq DEF ExposeNode, Bookkept, Sessions
    <2>5. Shown(c) = Rep(c) /\ Shown(d) = Shown(c) + 1 /\ Shown(c) \in Nat
      BY <2>4, ShownIsNat DEF Shown, Rep
    <2>6. c.NodeList[Rep(c) + 1] \in NodeRecords
      BY <2>1, <2>2, ElementOfSeq
    <2>7. c.NodeList[Rep(c) + 1].NodeID = Shown(c)
      <3>1. c.NodeList[Rep(c) + 1].NodeID = (Rep(c) + 1) - 1
        BY <2>2 DEF Bookkept
      <3>. QED BY <2>5, <3>1
    <2>8. pkt \in Packets /\ pkt.type = "NODE" /\ pkt.body = Shown(c)
      BY <2>1, <2>6, <2>7 DEF NodePkt, Packets, NodeRecords
    <2>. HIDE DEF d, pkt
    <2>9. SentInOrder(ann, d.TxPackets, Shown(d))
      BY <2>1, <2>4, <2>5, <2>8, NodeQueued
    <2>10. d.TxPackets # <<>>
      <3>1. Append(c.TxPackets, pkt) # <<>>
        BY <2>1, <2>8, AppendProperties
      <3>. QED BY <2>4, <3>1
    <2>. QED BY <2>2, <2>3, <2>4, <2>9, <2>10 DEF Sound, Driven
  <1>. QED BY <1>1, <1>2

\* add_node keeps the session sound.
LEMMA AddNodeIsSound ==
    ASSUME NEW ann \in Seq(Nat), NEW c, Sound(c, ann), NEW p \in Providers
    PROVE  Sound(AddNode(c, p), ann)
  <1>. DEFINE d == Added(c, p)
  <1>1. /\ Bookkept(d)
        /\ d.State = c.State /\ d.Report = c.Report /\ d.TxPackets = c.TxPackets
    BY AddedKeepsBooks DEF Sound
  <1>2. Rep(d) = Rep(c)
    BY DEF Sound, Bookkept, Rep, Added, Sessions
  <1>3. SentInOrder(ann, d.TxPackets, Shown(d))
    BY <1>1, <1>2 DEF Sound, Shown
  <1>4. AddNode(c, p) = IF c.State = "IDLE" /\ c.Report THEN BuildUpdatePacket(d) ELSE d
    BY DEF AddNode, Added, NewRecord
  <1>5. c.State \in {"STOPPED", "IDLE", "UPDATING"}
    BY DEF Sound, Bookkept, Sessions, ClientStates
  <1>. HIDE DEF d
  <1>6. CASE c.State = "IDLE" /\ c.Report
    BY <1>1, <1>3, <1>4, <1>6, BuildIsSound
  <1>7. CASE ~(c.State = "IDLE" /\ c.Report)
    <2>1. Driven(d)
      BY <1>1, <1>5, <1>7 DEF Sound, Driven
    <2>. QED BY <1>1, <1>3, <1>4, <1>7, <2>1 DEF Sound
  <1>. QED BY <1>6, <1>7

\* Queueing a packet that is not a node record keeps the session sound.
LEMMA SendIsSound ==
    ASSUME NEW ann \in Seq(Nat), NEW c, Sound(c, ann), NEW d \in Sessions,
           NEW pkt \in Packets, pkt.type # "NODE", c.State # "STOPPED",
           d.NodeList = c.NodeList, d.UpdateNodeCount = c.UpdateNodeCount,
           d.NextNodeID = c.NextNodeID, d.State = c.State,
           d.UpdatingNode = c.UpdatingNode,
           d.TxPackets = Append(c.TxPackets, pkt)
    PROVE  Sound(d, ann)
  <1>1. c.TxPackets \in Seq(Packets)
    BY DEF Sound, Bookkept, Sessions
  <1>2. Bookkept(d)
    BY SameBooks DEF Sound
  <1>3. Shown(d) = Shown(c)
    BY DEF Shown, Rep
  <1>4. SentInOrder(ann, d.TxPackets, Shown(d))
    BY <1>1, <1>3, OtherQueued, ShownIsNat DEF Sound
  <1>5. Append(c.TxPackets, pkt) # <<>>
    BY <1>1, AppendProperties
  <1>. QED BY <1>2, <1>4, <1>5 DEF Sound, Driven

LEMMA OneFewer == \A n, u \in Nat : n - (u - 1) = (n - u) + 1
  OBVIOUS

\* Completing a packet keeps the session sound, whatever packet it is.
LEMMA CompleteIsSound ==
    ASSUME NEW ann \in Seq(Nat), NEW c, Sound(c, ann), c.State # "STOPPED",
           c.TxPackets # <<>>, NEW a,
           a = IF Head(c.TxPackets).type = "NODE"
               THEN Append(ann, Head(c.TxPackets).body) ELSE ann
    PROVE  a \in Seq(Nat) /\ Sound(TxComplete(c), a)
  <1>. DEFINE t == [c EXCEPT !.TxPackets = Tail(@)]
              f == FinishUpdate(t)
  <1>1. c \in Sessions /\ c.TxPackets \in Seq(Packets) /\ Bookkept(c)
    BY DEF Sound, Bookkept, Sessions
  <1>2. Tail(c.TxPackets) \in Seq(Packets) /\ Head(c.TxPackets) \in Packets
    BY <1>1, HeadTailProperties
  <1>3. a \in Seq(Nat)
    BY <1>2, AppendProperties DEF Packets
  <1>4. /\ t \in Sessions
        /\ t.NodeList = c.NodeList /\ t.UpdateNodeCount = c.UpdateNodeCount
        /\ t.NextNodeID = c.NextNodeID /\ t.State = c.State
        /\ t.UpdatingNode = c.UpdatingNode /\ t.Report = c.Report
        /\ t.TxPackets = Tail(c.TxPackets)
    BY <1>1, <1>2 DEF Sessions
  <1>. HIDE DEF t
  <1>5. Bookkept(t) /\ Shown(t) = Shown(c)
    <2>1. Bookkept(t)
      BY <1>1, <1>4, SameBooks
    <2>. QED BY <1>4, <2>1 DEF Shown, Rep
  <1>6. SentInOrder(a, t.TxPackets, Shown(t))
    BY <1>1, <1>4, <1>5, NodeSent, OtherSent, ShownIsNat DEF Sound
  <1>7. /\ Bookkept(f) /\ f.TxPackets = t.TxPackets /\ f.State = "IDLE"
    <2>1. c.State \in {"IDLE", "UPDATING"}
      BY <1>1 DEF Sessions, ClientStates
    <2>. QED BY <1>4, <1>5, <2>1, FinishKeepsBooks
  <1>8. Shown(f) = Shown(t)
    <2>1. Bookkept(t) /\ t \in Sessions /\ t.State \in {"IDLE", "UPDATING"}
      BY <1>4, <1>5, <1>1 DEF Sessions, ClientStates
    <2>2. Len(f.NodeList) = Len(t.NodeList)
      BY <1>5, FinishKeepsBooks
    <2>3. CASE t.State = "UPDATING"
      <3>1. f.UpdateNodeCount = t.UpdateNodeCount - 1
        BY <2>1, <2>3 DEF FinishUpdate, Sessions
      <3>2. Len(t.NodeList) \in Nat /\ t.UpdateNodeCount \in Nat
        BY <2>1 DEF Sessions
      <3>. HIDE DEF f
      <3>3. Shown(t) = Rep(t) + 1 /\ Shown(f) = Rep(f)
        BY <1>7, <2>3 DEF Shown
      <3>4. Rep(f) = Rep(t) + 1
        BY <2>2, <3>1, <3>2, OneFewer DEF Rep
      <3>. QED BY <3>3, <3>4
    <2>4. CASE t.State = "IDLE"
      BY <2>4 DEF FinishUpdate
    <2>. QED BY <2>1, <2>3, <2>4
  <1>. HIDE DEF f
  <1>9. Sound(BuildUpdatePacket(f), a)
    BY <1>3, <1>6, <1>7, <1>8, BuildIsSound
  <1>10. ~f.Report => Sound(f, a)
    BY <1>6, <1>7, <1>8 DEF Sound, Driven
  <1>11. TxComplete(c) = IF f.Report THEN BuildUpdatePacket(f) ELSE f
    BY <1>7 DEF TxComplete, NextUpdate, f, t
  <1>. QED BY <1>3, <1>9, <1>10, <1>11

----------------------------------------------------------------------------
\* The values the mapping Feed gives to known and told.
KnownBy(c) == [i \in 1..Len(c.NodeList) |-> c.NodeList[i].Node]
ToldBy(ann, c) == [k \in 1..Len(ann) |-> c.NodeList[ann[k] + 1].Node]

\* No record is queued for a client that did not ask for them.
AskedFirst(c) == ~c.Report => NodesIn(c.TxPackets) = {}

LEMMA KnownIsSeq ==
    ASSUME NEW c, Bookkept(c)
    PROVE  /\ KnownBy(c) \in Seq(Providers) /\ Len(c.NodeList) \in Nat
           /\ Len(KnownBy(c)) = Len(c.NodeList)
           /\ \A i \in 1..Len(c.NodeList) : KnownBy(c)[i] = c.NodeList[i].Node
  <1>1. c.NodeList \in Seq(NodeRecords) /\ Len(c.NodeList) \in Nat
    BY LenProperties DEF Bookkept, Sessions
  <1>2. \A i \in 1..Len(c.NodeList) : c.NodeList[i] \in NodeRecords
    BY <1>1, ElementOfSeq
  <1>3. \A i \in 1..Len(c.NodeList) : c.NodeList[i].Node \in Providers
    BY <1>2 DEF NodeRecords
  <1>. QED  BY <1>1, <1>3 DEF KnownBy

\* What a client was told is the beginning of what the session knows.
LEMMA ToldIsPrefix ==
    ASSUME NEW ann \in Seq(Nat), NEW c, Sound(c, ann)
    PROVE  /\ ToldBy(ann, c) \in Seq(Providers) /\ Len(ann) \in Nat
           /\ Len(ToldBy(ann, c)) = Len(ann) /\ Len(ann) <= Len(c.NodeList)
           /\ \A k \in 1..Len(ann) : ToldBy(ann, c)[k] = KnownBy(c)[k]
  <1>1. Len(ann) \in Nat /\ DOMAIN ann = 1..Len(ann)
    BY LenProperties
  <1>2. Len(c.NodeList) \in Nat /\ Shown(c) \in Nat /\ Shown(c) <= Len(c.NodeList)
    BY KnownIsSeq, ShownIsNat DEF Sound
  <1>3. Len(ann) <= Shown(c) /\ \A k \in 1..Len(ann) : ann[k] = k - 1
    BY <1>1 DEF Sound, SentInOrder
  <1>4. Len(ann) <= Len(c.NodeList)
    BY <1>1, <1>2, <1>3
  <1>5. \A k \in 1..Len(ann) : k \in 1..Len(c.NodeList) /\ ann[k] + 1 = k
    BY <1>1, <1>2, <1>3, <1>4
  <1>6. \A k \in 1..Len(ann) : c.NodeList[ann[k] + 1].Node = KnownBy(c)[k]
    BY <1>5, KnownIsSeq DEF Sound
  <1>7. \A k \in 1..Len(ann) : KnownBy(c)[k] \in Providers
    BY <1>5, KnownIsSeq, ElementOfSeq DEF Sound
  <1>. QED  BY <1>1, <1>4, <1>6, <1>7 DEF ToldBy

\* Exposing a record and establishing it leave every record's node alone.
LEMMA BuildKeepsNodes ==
    ASSUME NEW c, Bookkept(c), c.State = "IDLE"
    PROVE  /\ KnownBy(BuildUpdatePacket(c)) = KnownBy(c)
           /\ BuildUpdatePacket(c).Report = c.Report
  <1>1. c \in Sessions /\ c.UpdateNodeCount \in Nat /\ c.NodeList \in Seq(NodeRecords)
    BY DEF Bookkept, Sessions
  <1>2. CASE c.UpdateNodeCount = 0
    BY <1>2 DEF BuildUpdatePacket
  <1>3. CASE c.UpdateNodeCount # 0
    <2>. DEFINE n == Rep(c) + 1
                r == [c.NodeList[n] EXCEPT !.State = "EXPOSING"]
                d == ExposeNode(c, n)
    <2>1. n \in 1..Len(c.NodeList) /\ BuildUpdatePacket(c) = d
      BY <1>1, <1>3, BuildUpdateExposes
    <2>2. c.NodeList[n] \in NodeRecords
      BY <1>1, <2>1, ElementOfSeq
    <2>3. r \in NodeRecords /\ r.Node = c.NodeList[n].Node
      BY <2>2 DEF NodeRecords, NodeStates
    <2>4. d.NodeList = [c.NodeList EXCEPT ![n] = r] /\ d.Report = c.Report
      BY <1>1 DEF ExposeNode, Sessions
    <2>. HIDE DEF n, r, d
    <2>5. /\ Len(d.NodeList) = Len(c.NodeList)
          /\ \A j \in 1..Len(c.NodeList) :
                d.NodeList[j] = IF j = n THEN r ELSE c.NodeList[j]
      BY <1>1, <2>1, <2>3, <2>4, ExceptSeq
    <2>6. \A j \in 1..Len(c.NodeList) : d.NodeList[j].Node = c.NodeList[j].Node
      BY <2>3, <2>5
    <2>. QED  BY <2>1, <2>4, <2>5, <2>6 DEF KnownBy
  <1>. QED  BY <1>2, <1>3

LEMMA FinishKeepsNodes ==
    ASSUME NEW c, Bookkept(c)
    PROVE  KnownBy(FinishUpdate(c)) = KnownBy(c)
  <1>1. CASE c.State # "UPDATING"
    BY <1>1 DEF FinishUpdate
  <1>2. CASE c.State = "UPDATING"
    <2>. DEFINE n == c.UpdatingNode
                r == [c.NodeList[n] EXCEPT !.State = "ESTABLISHED"]
                d == FinishUpdate(c)
    <2>1. /\ c \in Sessions /\ c.NodeList \in Seq(NodeRecords)
          /\ Len(c.NodeList) \in Nat /\ c.UpdateNodeCount \in Nat
          /\ c.UpdateNodeCount > 0 /\ c.UpdateNodeCount <= Len(c.NodeList)
          /\ n = Rep(c) + 1
      BY <1>2 DEF Bookkept, Sessions
    <2>2. n \in 1..Len(c.NodeList)
      BY <2>1 DEF Rep
    <2>3. c.NodeList[n] \in NodeRecords
      BY <2>1, <2>2, ElementOfSeq
    <2>4. r \in NodeRecords /\ r.Node = c.NodeList[n].Node
      BY <2>3 DEF NodeRecords, NodeStates
    <2>5. d.NodeList = [c.NodeList EXCEPT ![n] = r]
      BY <1>2, <2>1 DEF FinishUpdate, Sessions
    <2>. HIDE DEF n, r, d
    <2>6. /\ Len(d.NodeList) = Len(c.NodeList)
          /\ \A j \in 1..Len(c.NodeList) :
                d.NodeList[j] = IF j = n THEN r ELSE c.NodeList[j]
      BY <2>1, <2>2, <2>4, <2>5, ExceptSeq
    <2>7. \A j \in 1..Len(c.NodeList) : d.NodeList[j].Node = c.NodeList[j].Node
      BY <2>4, <2>6
    <2>. QED  BY <2>6, <2>7 DEF KnownBy, d
  <1>. QED  BY <1>1, <1>2

\* add_node makes one node known, at the end, and queues nothing unasked.
LEMMA AddLearns ==
    ASSUME NEW c, Bookkept(c), AskedFirst(c), NEW p \in Providers
    PROVE  /\ KnownBy(AddNode(c, p)) = Append(KnownBy(c), p)
           /\ AddNode(c, p).Report = c.Report
           /\ AskedFirst(AddNode(c, p))
  <1>. DEFINE d == Added(c, p)
              k == KnownBy(c)
              n == Len(c.NodeList)
  <1>1. /\ Bookkept(d) /\ d.State = c.State /\ d.Report = c.Report
        /\ d.TxPackets = c.TxPackets /\ Len(d.NodeList) = n + 1
        /\ \A i \in 1..n : d.NodeList[i] = c.NodeList[i]
        /\ d.NodeList[n + 1] = NewRecord(c, p)
    BY AddedKeepsBooks
  <1>2. AddNode(c, p) = IF c.State = "IDLE" /\ c.Report THEN BuildUpdatePacket(d) ELSE d
    BY DEF AddNode, Added, NewRecord
  <1>3. KnownBy(d) = Append(k, p)
    <2>1. /\ k \in Seq(Providers) /\ n \in Nat /\ Len(k) = n
          /\ \A i \in 1..n : k[i] = c.NodeList[i].Node
      BY KnownIsSeq
    <2>2. /\ KnownBy(d) \in Seq(Providers) /\ Len(KnownBy(d)) = n + 1
          /\ \A i \in 1..(n + 1) : KnownBy(d)[i] = d.NodeList[i].Node
      BY <1>1, KnownIsSeq
    <2>. HIDE DEF d, k, n
    <2>3. /\ Append(k, p) \in Seq(Providers) /\ Len(Append(k, p)) = n + 1
          /\ \A i \in 1..n : Append(k, p)[i] = k[i]
          /\ Append(k, p)[n + 1] = p
      BY <2>1, AppendProperties
    <2>4. ASSUME NEW i \in 1..(n + 1)
          PROVE  KnownBy(d)[i] = Append(k, p)[i]
      <3>1. CASE i \in 1..n
        BY <1>1, <2>1, <2>2, <2>3, <3>1
      <3>2. CASE i = n + 1
        BY <1>1, <2>2, <2>3, <3>2 DEF NewRecord
      <3>. QED  BY <2>1, <3>1, <3>2
    <2>. QED  BY <2>2, <2>3, <2>4, SeqEqual
  <1>4. KnownBy(AddNode(c, p)) = KnownBy(d) /\ AddNode(c, p).Report = c.Report
    BY <1>1, <1>2, BuildKeepsNodes
  <1>5. ~c.Report => AddNode(c, p).TxPackets = c.TxPackets
    BY <1>1, <1>2
  <1>. QED  BY <1>3, <1>4, <1>5 DEF AskedFirst

\* Completing a packet makes nothing known, and queues nothing unasked.
LEMMA CompleteKeepsNodes ==
    ASSUME NEW c, Bookkept(c), AskedFirst(c), c.State # "STOPPED", c.TxPackets # <<>>
    PROVE  /\ KnownBy(TxComplete(c)) = KnownBy(c)
           /\ TxComplete(c).Report = c.Report
           /\ AskedFirst(TxComplete(c))
           /\ Head(c.TxPackets).type = "NODE" => c.Report
  <1>. DEFINE t == [c EXCEPT !.TxPackets = Tail(@)]
              f == FinishUpdate(t)
  <1>1. c \in Sessions /\ c.TxPackets \in Seq(Packets)
    BY DEF Bookkept, Sessions
  <1>2. Tail(c.TxPackets) \in Seq(Packets)
    BY <1>1, HeadTailProperties
  <1>3. /\ t \in Sessions
        /\ t.NodeList = c.NodeList /\ t.UpdateNodeCount = c.UpdateNodeCount
        /\ t.NextNodeID = c.NextNodeID /\ t.State = c.State
        /\ t.UpdatingNode = c.UpdatingNode /\ t.Report = c.Report
        /\ t.TxPackets = Tail(c.TxPackets)
    BY <1>1, <1>2 DEF Sessions
  <1>. HIDE DEF t
  <1>4. Bookkept(t) /\ KnownBy(t) = KnownBy(c)
    BY <1>3, SameBooks DEF KnownBy
  <1>5. /\ Bookkept(f) /\ f.TxPackets = t.TxPackets /\ f.State = "IDLE"
        /\ f.Report = c.Report
    <2>1. c.State \in {"IDLE", "UPDATING"}
      BY <1>1 DEF Sessions, ClientStates
    <2>. QED BY <1>3, <1>4, <2>1, FinishKeepsBooks
  <1>6. KnownBy(f) = KnownBy(c)
    BY <1>4, FinishKeepsNodes
  <1>. HIDE DEF f
  <1>7. TxComplete(c) = IF f.Report THEN BuildUpdatePacket(f) ELSE f
    BY <1>5 DEF TxComplete, NextUpdate, f, t
  <1>8. KnownBy(TxComplete(c)) = KnownBy(c) /\ TxComplete(c).Report = c.Report
    BY <1>5, <1>6, <1>7, BuildKeepsNodes
  <1>9. NodesIn(c.TxPackets) = {} => NodesIn(Tail(c.TxPackets)) = {}
    BY <1>1, TailNodes
  <1>10. ~c.Report => TxComplete(c).TxPackets = Tail(c.TxPackets)
    BY <1>3, <1>5, <1>7
  <1>11. Head(c.TxPackets).type = "NODE" => NodesIn(c.TxPackets) # {}
    BY <1>1, TailNodes
  <1>. QED  BY <1>8, <1>9, <1>10, <1>11 DEF AskedFirst

\* Queueing a packet that is not a record queues nothing unasked.
LEMMA OtherUnasked ==
    ASSUME NEW q \in Seq(Packets), NEW pkt \in Packets, pkt.type # "NODE",
           NodesIn(q) = {}
    PROVE  NodesIn(Append(q, pkt)) = {}
  <1>1. /\ DOMAIN q = 1..Len(q) /\ Len(q) \in Nat
        /\ DOMAIN Append(q, pkt) = 1..(Len(q) + 1)
        /\ \A k \in 1..Len(q) : Append(q, pkt)[k] = q[k]
        /\ Append(q, pkt)[Len(q) + 1] = pkt
    BY AppendProperties, LenProperties
  <1>. QED  BY <1>1 DEF NodesIn

----------------------------------------------------------------------------
\* The positions of debug frames in a queue, and the frames.
DebugIn(q) == {k \in DOMAIN q : q[k].type = "DEBUG"}
FramesIn(q) == {q[k].body : k \in DebugIn(q)}

FramesOnce(q) == \A j, k \in DebugIn(q) : q[j].body = q[k].body => j = k

\* Queueing a packet of another kind.
LEMMA OtherAmongFrames ==
    ASSUME NEW q \in Seq(Packets), NEW pkt \in Packets, pkt.type # "DEBUG"
    PROVE  /\ FramesOnce(q) => FramesOnce(Append(q, pkt))
           /\ FramesIn(Append(q, pkt)) = FramesIn(q)
  <1>1. /\ DOMAIN q = 1..Len(q) /\ Len(q) \in Nat
        /\ DOMAIN Append(q, pkt) = 1..(Len(q) + 1)
        /\ \A k \in 1..Len(q) : Append(q, pkt)[k] = q[k]
        /\ Append(q, pkt)[Len(q) + 1] = pkt
    BY AppendProperties, LenProperties
  <1>2. DebugIn(Append(q, pkt)) = DebugIn(q)
    BY <1>1 DEF DebugIn
  <1>3. \A k \in DebugIn(q) : Append(q, pkt)[k] = q[k]
    BY <1>1 DEF DebugIn
  <1>. QED  BY <1>2, <1>3, ZenonT(60) DEF FramesOnce, FramesIn

\* Queueing a frame.
LEMMA FrameComesIn ==
    ASSUME NEW q \in Seq(Packets), NEW pkt \in Packets, pkt.type = "DEBUG"
    PROVE  FramesIn(Append(q, pkt)) = FramesIn(q) \cup {pkt.body}
  <1>. DEFINE qq == Append(q, pkt)
              e  == Len(q) + 1
  <1>1. /\ DOMAIN q = 1..Len(q) /\ Len(q) \in Nat
        /\ DOMAIN qq = 1..e
        /\ \A k \in 1..Len(q) : qq[k] = q[k]
        /\ qq[e] = pkt
    BY AppendProperties, LenProperties
  <1>. HIDE DEF qq
  <1>2. DebugIn(qq) = DebugIn(q) \cup {e}
    BY <1>1 DEF DebugIn
  <1>3. \A k \in DebugIn(q) : qq[k] = q[k]
    BY <1>1 DEF DebugIn
  <1>4. FramesIn(qq) = {qq[k].body : k \in DebugIn(q)} \cup {qq[e].body}
    BY <1>2 DEF FramesIn
  <1>5. {qq[k].body : k \in DebugIn(q)} = FramesIn(q)
    BY <1>3 DEF FramesIn
  <1>. QED  BY <1>1, <1>4, <1>5 DEF qq

\* Queueing a frame that is not in the queue.
LEMMA FrameQueued ==
    ASSUME NEW q \in Seq(Packets), NEW pkt \in Packets, pkt.type = "DEBUG",
           FramesOnce(q), pkt.body \notin FramesIn(q)
    PROVE  /\ FramesOnce(Append(q, pkt))
           /\ FramesIn(Append(q, pkt)) = FramesIn(q) \cup {pkt.body}
  <1>. DEFINE qq == Append(q, pkt)
              e  == Len(q) + 1
  <1>1. /\ DOMAIN q = 1..Len(q) /\ Len(q) \in Nat
        /\ DOMAIN qq = 1..e
        /\ \A k \in 1..Len(q) : qq[k] = q[k]
        /\ qq[e] = pkt
    BY AppendProperties, LenProperties
  <1>. HIDE DEF qq
  <1>2. DebugIn(qq) = DebugIn(q) \cup {e}
    BY <1>1 DEF DebugIn
  <1>3. \A k \in DebugIn(q) : qq[k] = q[k] /\ q[k].body # pkt.body
    BY <1>1 DEF DebugIn, FramesIn
  <1>4. FramesOnce(qq)
    BY <1>1, <1>2, <1>3 DEF FramesOnce
  <1>5. FramesIn(qq) = {qq[k].body : k \in DebugIn(q)} \cup {qq[e].body}
    BY <1>2 DEF FramesIn
  <1>6. {qq[k].body : k \in DebugIn(q)} = FramesIn(q)
    BY <1>3 DEF FramesIn
  <1>. QED  BY <1>1, <1>4, <1>5, <1>6 DEF qq

\* No frame comes in when the packet at the head is sent.
LEMMA TailFrames ==
    ASSUME NEW q \in Seq(Packets), q # <<>>
    PROVE  FramesIn(Tail(q)) \subseteq FramesIn(q)
  <1>. DEFINE t == Tail(q)
  <1>1. /\ Len(q) \in Nat /\ Len(q) >= 1 /\ DOMAIN q = 1..Len(q)
        /\ t \in Seq(Packets) /\ DOMAIN t = 1..(Len(q) - 1)
        /\ \A k \in 1..(Len(q) - 1) : t[k] = q[k + 1]
    BY HeadTailProperties, LenProperties, EmptySeq
  <1>. HIDE DEF t
  <1>2. \A k \in DebugIn(t) : k + 1 \in DebugIn(q) /\ t[k] = q[k + 1]
    BY <1>1 DEF DebugIn
  <1>3. FramesIn(t) \subseteq FramesIn(q)
    BY <1>2 DEF FramesIn
  <1>. QED  BY <1>3 DEF t

\* The frames left when the packet at the head was sent.
LEMMA FramesOfTail ==
    ASSUME NEW q \in Seq(Packets), q # <<>>, FramesOnce(q)
    PROVE  /\ FramesOnce(Tail(q))
           /\ FramesIn(Tail(q)) = IF Head(q).type = "DEBUG"
                                  THEN FramesIn(q) \ {Head(q).body} ELSE FramesIn(q)
           /\ Head(q).type = "DEBUG" => Head(q).body \in FramesIn(q)
  <1>. DEFINE t == Tail(q)
  <1>1. /\ t \in Seq(Packets) /\ Len(q) \in Nat /\ Len(q) >= 1
        /\ DOMAIN q = 1..Len(q) /\ DOMAIN t = 1..(Len(q) - 1)
        /\ \A k \in 1..(Len(q) - 1) : t[k] = q[k + 1]
        /\ Head(q) = q[1]
    BY HeadTailProperties, LenProperties, EmptySeq
  <1>. HIDE DEF t
  <1>2. \A k \in DebugIn(t) : k \in Nat /\ k >= 1 /\ k + 1 \in DebugIn(q) /\ t[k] = q[k + 1]
    BY <1>1 DEF DebugIn
  <1>3. ASSUME NEW k \in DebugIn(q), k # 1
        PROVE  k - 1 \in DebugIn(t) /\ t[k - 1] = q[k]
    <2>1. k \in 1..Len(q)
      BY <1>1 DEF DebugIn
    <2>2. k - 1 \in 1..(Len(q) - 1) /\ (k - 1) + 1 = k
      BY <1>1, <1>3, <2>1
    <2>. QED  BY <1>1, <2>2 DEF DebugIn
  <1>4. FramesOnce(t)
    <2> SUFFICES ASSUME NEW j \in DebugIn(t), NEW k \in DebugIn(t), t[j].body = t[k].body
                 PROVE  j = k
      BY DEF FramesOnce
    <2>1. j + 1 = k + 1
      BY <1>2 DEF FramesOnce
    <2>. QED  BY <1>2, <2>1
  <1>5. 1 \in DebugIn(q) <=> Head(q).type = "DEBUG"
    BY <1>1 DEF DebugIn
  <1>6. \A x : x \in FramesIn(t) <=> \E k \in DebugIn(q) : k # 1 /\ q[k].body = x
    <2>1. ASSUME NEW x \in FramesIn(t)
          PROVE  \E k \in DebugIn(q) : k # 1 /\ q[k].body = x
      <3>1. PICK j \in DebugIn(t) : t[j].body = x
        BY DEF FramesIn
      <3>2. j + 1 # 1
        BY <1>2
      <3>. QED  BY <1>2, <3>1, <3>2
    <2>2. ASSUME NEW x, NEW k \in DebugIn(q), k # 1, q[k].body = x
          PROVE  x \in FramesIn(t)
      BY <1>3, <2>2 DEF FramesIn
    <2>. QED  BY <2>1, <2>2
  <1>m. \A x : x \in FramesIn(q) <=> \E k \in DebugIn(q) : q[k].body = x
    BY DEF FramesIn
  <1>7. CASE Head(q).type = "DEBUG"
    <2>1. 1 \in DebugIn(q) /\ q[1].body = Head(q).body
      BY <1>1, <1>5, <1>7
    <2>2. \A k \in DebugIn(q) : q[k].body = Head(q).body <=> k = 1
      BY <2>1 DEF FramesOnce
    <2>3. \A x : x \in FramesIn(t) <=> x \in FramesIn(q) /\ x # Head(q).body
      BY <1>6, <1>m, <2>2
    <2>4. FramesIn(t) = FramesIn(q) \ {Head(q).body}
      BY <2>3
    <2>. QED  BY <1>4, <1>7, <2>1, <2>4 DEF t, FramesIn
  <1>8. CASE Head(q).type # "DEBUG"
    <2>1. \A k \in DebugIn(q) : k # 1
      BY <1>5, <1>8
    <2>2. \A x : x \in FramesIn(t) <=> x \in FramesIn(q)
      BY <1>6, <1>m, <2>1
    <2>3. FramesIn(t) = FramesIn(q)
      BY <2>2
    <2>. QED  BY <1>4, <1>8, <2>3 DEF t
  <1>. QED  BY <1>7, <1>8

\* Going on with the next record queues that record or nothing, and leaves the
\* session started.
LEMMA BuildQueues ==
    ASSUME NEW c, Bookkept(c), c.State = "IDLE", NEW d, d = BuildUpdatePacket(c)
    PROVE  /\ FramesOnce(c.TxPackets) => FramesOnce(d.TxPackets)
           /\ FramesIn(d.TxPackets) = FramesIn(c.TxPackets)
           /\ d.State # "STOPPED"
  <1>1. c \in Sessions /\ c.UpdateNodeCount \in Nat /\ c.TxPackets \in Seq(Packets)
        /\ c.NodeList \in Seq(NodeRecords) /\ c.NextIOTag \in Nat
    BY DEF Bookkept, Sessions
  <1>2. CASE c.UpdateNodeCount = 0
    BY <1>2 DEF BuildUpdatePacket
  <1>3. CASE c.UpdateNodeCount # 0
    <2>. DEFINE n   == Rep(c) + 1
                pkt == NodePkt(c.NextIOTag, c.NodeList[n].NodeID)
    <2>1. n \in 1..Len(c.NodeList) /\ d = ExposeNode(c, n)
      BY <1>1, <1>3, BuildUpdateExposes
    <2>2. c.NodeList[n] \in NodeRecords
      BY <1>1, <2>1, ElementOfSeq
    <2>3. pkt \in Packets /\ pkt.type # "DEBUG"
      BY <1>1, <2>2 DEF NodePkt, Packets, NodeRecords
    <2>4. d.TxPackets = Append(c.TxPackets, pkt) /\ d.State = "UPDATING"
      BY <1>1, <2>1 DEF ExposeNode, Sessions
    <2>. HIDE DEF pkt
    <2>. QED  BY <1>1, <2>3, <2>4, OtherAmongFrames
  <1>. QED  BY <1>2, <1>3

LEMMA AddKeepsFrames ==
    ASSUME NEW c, Bookkept(c), NEW p \in Providers, NEW d, d = AddNode(c, p)
    PROVE  /\ FramesOnce(c.TxPackets) => FramesOnce(d.TxPackets)
           /\ FramesIn(d.TxPackets) = FramesIn(c.TxPackets)
           /\ d.State = "STOPPED" <=> c.State = "STOPPED"
           /\ c.State = "STOPPED" => d.TxPackets = c.TxPackets
  <1>. DEFINE a == Added(c, p)
  <1>1. Bookkept(a) /\ a.State = c.State /\ a.TxPackets = c.TxPackets
    BY AddedKeepsBooks
  <1>2. d = IF c.State = "IDLE" /\ c.Report THEN BuildUpdatePacket(a) ELSE a
    BY DEF AddNode, Added, NewRecord
  <1>. HIDE DEF a
  <1>. QED  BY <1>1, <1>2, BuildQueues

LEMMA CompleteTakesHead ==
    ASSUME NEW c, Bookkept(c), c.State # "STOPPED", c.TxPackets # <<>>,
           NEW d, d = TxComplete(c)
    PROVE  /\ FramesOnce(c.TxPackets) => FramesOnce(d.TxPackets)
           /\ FramesIn(d.TxPackets) = FramesIn(Tail(c.TxPackets))
           /\ d.State # "STOPPED"
  <1>. DEFINE t == [c EXCEPT !.TxPackets = Tail(@)]
              f == FinishUpdate(t)
  <1>1. c \in Sessions /\ c.TxPackets \in Seq(Packets)
    BY DEF Bookkept, Sessions
  <1>2. /\ Tail(c.TxPackets) \in Seq(Packets)
        /\ FramesOnce(c.TxPackets) => FramesOnce(Tail(c.TxPackets))
    BY <1>1, HeadTailProperties, FramesOfTail
  <1>3. /\ t \in Sessions
        /\ t.NodeList = c.NodeList /\ t.UpdateNodeCount = c.UpdateNodeCount
        /\ t.NextNodeID = c.NextNodeID /\ t.State = c.State
        /\ t.UpdatingNode = c.UpdatingNode /\ t.TxPackets = Tail(c.TxPackets)
    BY <1>1, <1>2 DEF Sessions
  <1>. HIDE DEF t
  <1>4. Bookkept(t)
    BY <1>3, SameBooks
  <1>5. Bookkept(f) /\ f.TxPackets = Tail(c.TxPackets) /\ f.State = "IDLE"
    <2>1. c.State \in {"IDLE", "UPDATING"}
      BY <1>1 DEF Sessions, ClientStates
    <2>. QED  BY <1>3, <1>4, <2>1, FinishKeepsBooks
  <1>. HIDE DEF f
  <1>6. d = IF f.Report THEN BuildUpdatePacket(f) ELSE f
    BY <1>5 DEF TxComplete, NextUpdate, f, t
  <1>. QED  BY <1>2, <1>5, <1>6, BuildQueues

----------------------------------------------------------------------------
\* A session that knows the providers l, and told its client of the records ann.
Follows(c, ann, l) == Sound(c, ann) /\ AskedFirst(c) /\ KnownBy(c) = l

\* A step that leaves the list of records and the order of the packets.
LEMMA SameFollows ==
    ASSUME NEW c, NEW ann, NEW l, Follows(c, ann, l), NEW d, Sound(d, ann),
           d.NodeList = c.NodeList, AskedFirst(d)
    PROVE  Follows(d, ann, l)
  BY DEF Follows, KnownBy

\* g_hnode_client_init.
LEMMA NewFollows ==
    /\ Follows(NewClient, <<>>, <<>>) /\ NewClient.State = "STOPPED"
    /\ NewClient.TxPackets = <<>> /\ FramesIn(<<>>) = {}
  <1>1. PICK c : c = NewClient
    OBVIOUS
  <1>2. /\ c \in Sessions /\ c.NodeList = <<>> /\ c.TxPackets = <<>>
        /\ c.State = "STOPPED" /\ c.Report = FALSE
        /\ c.UpdateNodeCount = 0 /\ c.NextNodeID = 0
    BY <1>1 DEF NewClient, Sessions, ClientStates
  <1>3. Len(<<>>) = 0 /\ DOMAIN <<>> = {} /\ 1..0 = {}
    OBVIOUS
  <1>4. Bookkept(c) /\ Shown(c) = 0
    BY <1>2, <1>3 DEF Bookkept, Shown, Rep
  <1>5. Driven(c)
    BY <1>2 DEF Driven
  <1>6. NodesIn(<<>>) = {} /\ FramesIn(<<>>) = {}
    BY DEF NodesIn, FramesIn, DebugIn
  <1>7. SentInOrder(<<>>, <<>>, 0)
    BY <1>3, <1>6 DEF SentInOrder
  <1>8. Sound(c, <<>>) /\ AskedFirst(c)
    BY <1>2, <1>4, <1>5, <1>6, <1>7 DEF Sound, AskedFirst
  <1>9. KnownBy(c) = <<>>
    <2>1. Len(KnownBy(c)) = 0 /\ KnownBy(c) \in Seq(Providers)
      BY <1>2, <1>4, KnownIsSeq
    <2>. QED  BY <2>1, EmptySeq
  <1>. QED  BY <1>1, <1>2, <1>6, <1>8, <1>9 DEF Follows

\* g_hnode_client_add_node.
LEMMA AddFollows ==
    ASSUME NEW c, NEW ann \in Seq(Nat), NEW l, Follows(c, ann, l), NEW p \in Providers,
           NEW d, d = AddNode(c, p)
    PROVE  /\ Follows(d, ann, Append(l, p))
           /\ FramesIn(d.TxPackets) = FramesIn(c.TxPackets)
           /\ d.State = "STOPPED" <=> c.State = "STOPPED"
           /\ c.State = "STOPPED" => d.TxPackets = c.TxPackets
  <1>1. Sound(c, ann) /\ Bookkept(c) /\ AskedFirst(c) /\ KnownBy(c) = l
    BY DEF Follows, Sound
  <1>2. Sound(d, ann)
    BY <1>1, AddNodeIsSound
  <1>3. KnownBy(d) = Append(l, p) /\ AskedFirst(d)
    BY <1>1, AddLearns
  <1>4. /\ FramesIn(d.TxPackets) = FramesIn(c.TxPackets)
        /\ d.State = "STOPPED" <=> c.State = "STOPPED"
        /\ c.State = "STOPPED" => d.TxPackets = c.TxPackets
    BY <1>1, AddKeepsFrames
  <1>. QED  BY <1>2, <1>3, <1>4 DEF Follows

\* g_hnode_client_start.
LEMMA StartFollows ==
    ASSUME NEW c, NEW l, Follows(c, <<>>, l), c.State = "STOPPED", c.TxPackets = <<>>,
           NEW d, d = StartClient(c)
    PROVE  Follows(d, <<>>, l) /\ d.State = "IDLE" /\ d.TxPackets = <<>>
  <1>1. Sound(c, <<>>) /\ Bookkept(c) /\ c \in Sessions /\ AskedFirst(c) /\ ~c.Report
    BY DEF Follows, Sound, Bookkept, Driven
  <1>2. /\ d \in Sessions /\ d.State = "IDLE" /\ d.Report = c.Report
        /\ d.NodeList = c.NodeList /\ d.TxPackets = c.TxPackets
        /\ d.UpdateNodeCount = c.UpdateNodeCount /\ d.NextNodeID = c.NextNodeID
    BY <1>1 DEF StartClient, Sessions, ClientStates
  <1>3. Bookkept(d) /\ Shown(d) = Shown(c)
    BY <1>1, <1>2 DEF Bookkept, Shown, Rep
  <1>4. Sound(d, <<>>) /\ AskedFirst(d)
    BY <1>1, <1>2, <1>3 DEF Sound, Driven, AskedFirst
  <1>. QED  BY <1>2, <1>4, SameFollows

\* HNODE_MGMT_REQ_PINFO.
LEMMA ReportFollows ==
    ASSUME NEW c, NEW ann \in Seq(Nat), NEW l, Follows(c, ann, l), c.State # "STOPPED",
           NEW tag \in Nat, NEW d, d = RxReqPInfo(c, tag)
    PROVE  /\ Follows(d, ann, l) /\ d.State # "STOPPED"
           /\ FramesIn(d.TxPackets) = FramesIn(c.TxPackets)
  <1>1. /\ Sound(c, ann) /\ Bookkept(c) /\ c \in Sessions /\ AskedFirst(c)
        /\ c.TxPackets \in Seq(Packets)
    BY DEF Follows, Sound, Bookkept, Sessions
  <1>2. PICK pkt \in Packets : pkt = AckPkt(tag) /\ pkt.type = "ACK"
    <2>1. AckPkt(tag) \in Packets /\ AckPkt(tag).type = "ACK"
      BY DEF AckPkt, Packets
    <2>. QED  BY <2>1
  <1>3. Append(c.TxPackets, pkt) \in Seq(Packets)
    BY <1>1, AppendProperties
  <1>4. /\ d \in Sessions
        /\ d.NodeList = c.NodeList /\ d.UpdateNodeCount = c.UpdateNodeCount
        /\ d.NextNodeID = c.NextNodeID /\ d.State = c.State
        /\ d.UpdatingNode = c.UpdatingNode /\ d.Report
        /\ d.TxPackets = Append(c.TxPackets, pkt)
    BY <1>1, <1>2, <1>3 DEF RxReqPInfo, SendPacket, Sessions
  <1>5. Sound(d, ann)
    BY <1>1, <1>2, <1>4, SendIsSound
  <1>6. AskedFirst(d)
    BY <1>4 DEF AskedFirst
  <1>7. FramesIn(d.TxPackets) = FramesIn(c.TxPackets)
    BY <1>1, <1>2, <1>4, OtherAmongFrames
  <1>. QED  BY <1>4, <1>5, <1>6, <1>7, SameFollows

\* HNODE_MGMT_DEBUG_CTRL.
LEMMA DebugFollows ==
    ASSUME NEW c, NEW ann \in Seq(Nat), NEW l, Follows(c, ann, l), NEW d, d = RxDebugCtrl(c)
    PROVE  Follows(d, ann, l) /\ d.State = c.State /\ d.TxPackets = c.TxPackets
  <1>1. Sound(c, ann) /\ Bookkept(c) /\ c \in Sessions /\ AskedFirst(c)
    BY DEF Follows, Sound, Bookkept
  <1>2. /\ d \in Sessions
        /\ d.NodeList = c.NodeList /\ d.UpdateNodeCount = c.UpdateNodeCount
        /\ d.NextNodeID = c.NextNodeID /\ d.State = c.State /\ d.Report = c.Report
        /\ d.UpdatingNode = c.UpdatingNode /\ d.TxPackets = c.TxPackets
    BY <1>1 DEF RxDebugCtrl, Sessions
  <1>3. Bookkept(d) /\ Shown(d) = Shown(c)
    BY <1>1, <1>2, SameBooks DEF Shown, Rep
  <1>4. Sound(d, ann) /\ AskedFirst(d)
    BY <1>1, <1>2, <1>3 DEF Sound, Driven, AskedFirst
  <1>. QED  BY <1>2, <1>4, SameFollows

\* g_hnode_client_forward_debug_packet.
LEMMA ForwardFollows ==
    ASSUME NEW c, NEW ann \in Seq(Nat), NEW l, Follows(c, ann, l), c.State # "STOPPED",
           NEW f \in Frames, NEW d, d = ForwardDebugPacket(c, f)
    PROVE  /\ Follows(d, ann, l) /\ d.State # "STOPPED"
           /\ FramesIn(d.TxPackets) \subseteq FramesIn(c.TxPackets) \cup {f}
  <1>1. /\ Sound(c, ann) /\ Bookkept(c) /\ c \in Sessions /\ AskedFirst(c)
        /\ c.TxPackets \in Seq(Packets)
    BY DEF Follows, Sound, Bookkept, Sessions
  <1>2. CASE c.Debug /\ c.State # "IDLE"
    <2>1. PICK pkt \in Packets : pkt = DebugPkt(f) /\ pkt.type = "DEBUG" /\ pkt.body = f
      <3>1. DebugPkt(f) \in Packets /\ DebugPkt(f).type = "DEBUG" /\ DebugPkt(f).body = f
        BY DEF DebugPkt, Packets
      <3>. QED  BY <3>1
    <2>2. Append(c.TxPackets, pkt) \in Seq(Packets)
      BY <1>1, AppendProperties
    <2>3. /\ d \in Sessions
          /\ d.NodeList = c.NodeList /\ d.UpdateNodeCount = c.UpdateNodeCount
          /\ d.NextNodeID = c.NextNodeID /\ d.State = c.State
          /\ d.UpdatingNode = c.UpdatingNode /\ d.Report = c.Report
          /\ d.TxPackets = Append(c.TxPackets, pkt)
      BY <1>1, <1>2, <2>1, <2>2 DEF ForwardDebugPacket, SendPacket, Sessions
    <2>4. Sound(d, ann)
      BY <1>1, <2>1, <2>3, SendIsSound
    <2>5. AskedFirst(d)
      BY <1>1, <2>1, <2>3, OtherUnasked DEF AskedFirst
    <2>6. FramesIn(d.TxPackets) = FramesIn(c.TxPackets) \cup {f}
      BY <1>1, <2>1, <2>3, FrameComesIn
    <2>. QED  BY <2>3, <2>4, <2>5, <2>6, SameFollows
  <1>3. CASE ~(c.Debug /\ c.State # "IDLE")
    <2>1. d = c
      BY <1>3 DEF ForwardDebugPacket
    <2>. QED  BY <2>1
  <1>. QED  BY <1>2, <1>3

\* The packet that is sent next: a record is the first not told of, and known.
SendsNext(c, ann, l, pkt) ==
    /\ pkt \in Packets
    /\ pkt.type = "NODE" => /\ pkt.body = Len(ann) /\ Len(ann) < Len(l)
    /\ pkt.type = "DEBUG" => pkt.body \in FramesIn(c.TxPackets)

\* What the client was told of once it is sent.
ToldWith(ann, pkt) == IF pkt.type = "NODE" THEN Append(ann, pkt.body) ELSE ann

\* client_tx.
LEMMA CompleteFollows ==
    ASSUME NEW c, NEW ann \in Seq(Nat), NEW l, Follows(c, ann, l), c.State # "STOPPED",
           c.TxPackets # <<>>, NEW pkt, pkt = Head(c.TxPackets), NEW d, d = TxComplete(c)
    PROVE  /\ SendsNext(c, ann, l, pkt)
           /\ ToldWith(ann, pkt) \in Seq(Nat) /\ Follows(d, ToldWith(ann, pkt), l)
           /\ d.State # "STOPPED" /\ FramesIn(d.TxPackets) \subseteq FramesIn(c.TxPackets)
  <1>1. /\ Sound(c, ann) /\ Bookkept(c) /\ c \in Sessions /\ AskedFirst(c) /\ KnownBy(c) = l
        /\ c.TxPackets \in Seq(Packets)
    BY DEF Follows, Sound, Bookkept, Sessions
  <1>2. Len(l) = Len(c.NodeList) /\ Len(l) \in Nat
    BY <1>1, KnownIsSeq
  <1>3. pkt \in Packets
    BY <1>1, HeadTailProperties
  <1>4. ASSUME pkt.type = "NODE" PROVE pkt.body = Len(ann) /\ Len(ann) < Len(l)
    <2>1. SentInOrder(ann, c.TxPackets, Shown(c))
      BY <1>1 DEF Sound
    <2>2. Shown(c) \in Nat /\ Shown(c) <= Len(c.NodeList)
      BY <1>1, ShownIsNat
    <2>3. pkt.body = Len(ann) /\ Len(ann) < Shown(c)
      BY <1>1, <1>4, <2>1, <2>2, HeadIsNext
    <2>4. Len(ann) \in Nat
      BY LenProperties
    <2>. QED  BY <1>2, <2>2, <2>3, <2>4
  <1>5. ASSUME pkt.type = "DEBUG" PROVE pkt.body \in FramesIn(c.TxPackets)
    <2>1. 1 \in DOMAIN c.TxPackets /\ c.TxPackets[1] = pkt
      BY <1>1, HeadTailProperties, LenProperties, EmptySeq
    <2>. QED  BY <1>5, <2>1 DEF FramesIn, DebugIn
  <1>6. PICK a : a = ToldWith(ann, pkt)
    OBVIOUS
  <1>7. a \in Seq(Nat) /\ Sound(d, a)
    BY <1>1, <1>6, CompleteIsSound DEF ToldWith
  <1>8. KnownBy(d) = l /\ AskedFirst(d)
    BY <1>1, CompleteKeepsNodes
  <1>9. d.State # "STOPPED" /\ FramesIn(d.TxPackets) = FramesIn(Tail(c.TxPackets))
    BY <1>1, CompleteTakesHead
  <1>10. FramesIn(Tail(c.TxPackets)) \subseteq FramesIn(c.TxPackets)
    BY <1>1, TailFrames
  <1>. QED  BY <1>3, <1>4, <1>5, <1>6, <1>7, <1>8, <1>9, <1>10 DEF SendsNext, Follows

\* Every record queued is known.
LEMMA QueuedIsKnown ==
    ASSUME NEW c, NEW ann \in Seq(Nat), NEW l, Follows(c, ann, l), NEW k \in DOMAIN c.TxPackets
    PROVE  /\ c.TxPackets[k] \in Packets
           /\ c.TxPackets[k].type = "NODE" => c.TxPackets[k].body < Len(l)
           /\ c.TxPackets[k].type = "DEBUG" => c.TxPackets[k].body \in FramesIn(c.TxPackets)
  <1>1. /\ Sound(c, ann) /\ Bookkept(c) /\ KnownBy(c) = l /\ c.TxPackets \in Seq(Packets)
    BY DEF Follows, Sound, Bookkept, Sessions
  <1>2. c.TxPackets[k] \in Packets
    BY <1>1, ElementOfSeq, LenProperties
  <1>3. ASSUME c.TxPackets[k].type = "NODE" PROVE c.TxPackets[k].body < Len(l)
    <2>1. k \in NodesIn(c.TxPackets) /\ SentInOrder(ann, c.TxPackets, Shown(c))
      BY <1>1, <1>3 DEF NodesIn, Sound
    <2>2. c.TxPackets[k].body < Shown(c) /\ c.TxPackets[k].body \in Nat
      BY <1>2, <1>3, <2>1 DEF SentInOrder, Packets
    <2>3. Shown(c) \in Nat /\ Shown(c) <= Len(c.NodeList) /\ Len(l) = Len(c.NodeList)
          /\ Len(l) \in Nat
      BY <1>1, ShownIsNat, KnownIsSeq
    <2>. QED  BY <2>2, <2>3
  <1>4. c.TxPackets[k].type = "DEBUG" => c.TxPackets[k].body \in FramesIn(c.TxPackets)
    BY DEF FramesIn, DebugIn
  <1>. QED  BY <1>2, <1>3, <1>4
============================================================================

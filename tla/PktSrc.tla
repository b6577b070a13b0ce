------------------------------- MODULE PktSrc -------------------------------
(***************************************************************************)
(* The transmit side of a GHNodePktSrc, the GLib event source around a     *)
(* socket (hnode-pktsrc.c), for a TCP link.  A main loop iteration polls   *)
(* the socket for the events the source asked for and dispatches the source *)
(* with what the poll returned; in between, and from its own callbacks,    *)
(* packets are handed to send_packet.  A packet takes one dispatch to be    *)
(* selected and then one for each piece of it that the socket takes.  A    *)
(* definition commented "Slip:" is not the code but a plausible mistake in *)
(* it, kept to see that the properties notice it.                          *)
(***************************************************************************)
EXTENDS Integers, Sequences, SequencesExt

CONSTANTS
    Packets,     \* the packet objects; each is handed over at most once
    Length,      \* the number of bytes of each packet
    NoPacket     \* a NULL CurTx

ASSUME LengthAssumption == Length \in [Packets -> Nat \ {0}] /\ NoPacket \notin Packets

VARIABLES
    src,         \* the transmit fields of the GHNodePktSrcPrivate
    revents,     \* what the last poll returned of G_IO_IN, G_IO_OUT, G_IO_HUP
    phase,       \* where the main loop is: before its poll or after it
    peer,        \* the other end of the connection
    process,     \* the process the source lives in
    accepted,    \* history: the packets handed to send_packet
    completed,   \* history: the packets tx_packet was emitted for
    wire         \* history: the bytes the socket took, as <<packet, index>>

sourceVars == <<src, revents, phase, peer, process, accepted, completed, wire>>

\* OutOn is G_IO_OUT in Socket.events; Attached is whether the GSource is.
SourceInit ==
    /\ src = [TxPackets |-> <<>>, CurTx |-> NoPacket, CurTxOffset |-> 0,
              OutOn |-> FALSE, Attached |-> TRUE]
    /\ revents = {} /\ phase = "poll"
    /\ peer = "up" /\ process = "running"
    /\ accepted = <<>> /\ completed = <<>> /\ wire = <<>>

\* What a callback hands over when acc was handed over: nothing, or a new packet.
Handed(acc) == {<<>>} \cup {<<p>> : p \in Packets \ Range(acc)}

\* Slip: a new packet goes to the front of the list.
EnqueueFirst(s, ps) ==
    [s EXCEPT !.TxPackets = ps \o @, !.OutOn = @ \/ ps # <<>>]

\* g_hnode_pktsrc_send_packet: the packets are appended to TxPackets and
\* G_IO_OUT is asked for.
Enqueue(s, ps) ==
    [s EXCEPT !.TxPackets = @ \o ps, !.OutOn = @ \/ ps # <<>>]

\* A packet handed over by the callback of another source.  Adding the
\* descriptor to the poll set again clears what the last poll returned; that of
\* a source in its own dispatch is not added, since GLib has it blocked then.
SendPacket(p) ==
    /\ src' = Enqueue(src, <<p>>)
    /\ revents' = {}
    /\ accepted' = Append(accepted, p)
    /\ UNCHANGED <<phase, peer, process, completed, wire>>

\* A lost peer shows as a hang-up, or as readable with nothing to read.
Poll ==
    /\ phase = "poll"
    /\ revents' \in SUBSET ({"IN", "HUP"} \cup IF src.OutOn THEN {"OUT"} ELSE {})
    /\ peer = "up" => "HUP" \notin revents'
    /\ peer = "down" => revents' \cap {"IN", "HUP"} # {}
    /\ phase' = "dispatch"
    /\ UNCHANGED <<src, peer, process, accepted, completed, wire>>

PeerDown ==
    /\ peer = "up"
    /\ peer' = "down"
    /\ UNCHANGED <<src, revents, phase, process, accepted, completed, wire>>

----------------------------------------------------------------------------
\* Slip: the offset of the packet before is kept.
SelectKeepingOffset(s) == [s EXCEPT !.CurTx = Head(s.TxPackets)]

\* Selecting the next packet is a dispatch of its own.  It returns at once, and
\* without a value, which no build was seen to make zero: the caller finds the
\* pointer that was just tested, and keeps the source.
Select(s) == [s EXCEPT !.CurTx = Head(s.TxPackets), !.CurTxOffset = 0]

\* Slip: whether to turn G_IO_OUT off is decided before the callback.
CompleteTooSoon(s, ps) ==
    [s EXCEPT !.TxPackets = Tail(@) \o ps, !.CurTx = NoPacket,
              !.OutOn     = Len(s.TxPackets) > 1]

\* Slip: the packet stays in the list.
CompleteUnlisted(s, ps) ==
    [s EXCEPT !.TxPackets = @ \o ps, !.CurTx = NoPacket]

\* The socket took the rest of CurTx: it leaves the list, the callback hands
\* over ps, and G_IO_OUT goes off if nothing is queued by then.
Complete(s, ps) ==
    LET rest == Tail(s.TxPackets) \o ps
    IN  [s EXCEPT !.TxPackets = rest, !.CurTx = NoPacket, !.OutOn = rest # <<>>]

\* Slip: the offset is that of the last piece.
AdvanceOnce(s, n) == [s EXCEPT !.CurTxOffset = n]

\* The socket took n bytes of CurTx, and more are left.
Advance(s, n) == [s EXCEPT !.CurTxOffset = @ + n]

BytesLeft(s) == Length[s.CurTx] - s.CurTxOffset

Took(s, n) == [i \in 1..n |-> <<s.CurTx, s.CurTxOffset + i>>]

\* The G_IO_OUT part of a dispatch, while the peer takes bytes; s and acc are the
\* source and what was handed over once the rx_packet callback has returned.
TransmitSelect(s, acc) ==
    /\ s.CurTx = NoPacket
    /\ src' = Select(s) /\ accepted' = acc
    /\ UNCHANGED <<process, completed, wire>>

TransmitPart(s, acc) ==
    /\ s.CurTx # NoPacket
    /\ \E n \in 1..(BytesLeft(s) - 1) :
         /\ src' = Advance(s, n)
         /\ wire' = wire \o Took(s, n)
    /\ accepted' = acc
    /\ UNCHANGED <<process, completed>>

TransmitRest(s, acc) ==
    /\ s.CurTx # NoPacket
    /\ wire' = wire \o Took(s, BytesLeft(s))
    /\ completed' = Append(completed, s.CurTx)
    /\ \E ps \in Handed(acc) : src' = Complete(s, ps) /\ accepted' = acc \o ps
    /\ UNCHANGED process

\* send fails, as it may once the peer is gone: exit(-1).
TransmitFails(s, acc) ==
    /\ s.CurTx # NoPacket /\ peer = "down"
    /\ process' = "exited"
    /\ src' = s /\ accepted' = acc
    /\ UNCHANGED <<completed, wire>>

Transmit(s, acc) == \/ TransmitSelect(s, acc) \/ TransmitPart(s, acc)
                    \/ TransmitRest(s, acc) \/ TransmitFails(s, acc)

----------------------------------------------------------------------------
Dispatching == phase = "dispatch" /\ phase' = "poll"

\* Nothing to do: no event, or it was cleared by a send_packet since the poll.
DispatchNothing ==
    /\ Dispatching
    /\ revents = {}
    /\ UNCHANGED <<src, revents, peer, process, accepted, completed, wire>>

\* A hang-up, or nothing read: close, emit state_change, detach the source.
DispatchDown ==
    /\ Dispatching
    /\ \/ "HUP" \in revents
       \/ "IN" \in revents /\ peer = "down"
    /\ src' = [src EXCEPT !.Attached = FALSE]
    /\ UNCHANGED <<revents, peer, process, accepted, completed, wire>>

\* What arrived goes to the rx_packet callback, which may answer it; then, in the
\* same dispatch, G_IO_OUT is served if the poll returned it.  The code leaves
\* revents as they are after a selection; the next poll overwrites them.
DispatchIO ==
    /\ Dispatching
    /\ revents # {} /\ "HUP" \notin revents
    /\ \E ps \in IF "IN" \in revents THEN Handed(accepted) ELSE {<<>>} :
         LET s   == Enqueue(src, ps)
             acc == accepted \o ps
         IN  IF "OUT" \in revents
             THEN Transmit(s, acc)
             ELSE /\ src' = s /\ accepted' = acc
                  /\ UNCHANGED <<process, completed, wire>>
    /\ revents' = {}
    /\ UNCHANGED peer

Dispatch == DispatchNothing \/ DispatchDown \/ DispatchIO

\* The process runs and the source is attached: after state_change the object
\* above drops the source.
Alive == process = "running" /\ src.Attached

SourceNext ==
    Alive /\ (PeerDown \/ Poll \/ Dispatch \/ \E p \in Packets \ Range(accepted) : SendPacket(p))

SourceSpec == SourceInit /\ [][SourceNext]_sourceVars

\* The main loop runs, and the peer goes on reading: of the polls that may
\* return G_IO_OUT, infinitely many do.
SourceFairSpec ==
    /\ SourceSpec
    /\ WF_sourceVars(Alive /\ Poll)
    /\ WF_sourceVars(Alive /\ Dispatch)
    /\ SF_sourceVars(Alive /\ Poll /\ "OUT" \in revents')

----------------------------------------------------------------------------
\* No lost wake-up: G_IO_OUT is asked for exactly while packets are queued,
\* also when the callback that reports the last of them queues another.
OutWhileQueued == src.OutOn <=> src.TxPackets # <<>>

\* The packet being sent is the one at the head of the queue, and some of it is
\* left: list_remove of CurTx takes off the head.
CurTxIsHead ==
    src.CurTx # NoPacket =>
        /\ src.TxPackets # <<>> /\ src.CurTx = Head(src.TxPackets)
        /\ src.CurTxOffset < Length[src.CurTx]

Bytes(p, n) == [i \in 1..n |-> <<p, i>>]

\* What the socket took is the completed packets, whole and in order, and the
\* first CurTxOffset bytes of the packet being sent: no byte is repeated,
\* dropped or interleaved with another packet, wherever sends were cut.
WireIsPackets ==
    wire = FlattenSeq([k \in 1..Len(completed) |-> Bytes(completed[k], Length[completed[k]])])
             \o IF src.CurTx = NoPacket THEN <<>> ELSE Bytes(src.CurTx, src.CurTxOffset)

\* While the peer is there, each packet handed over is eventually completed.
EveryPacketSent ==
    \A p \in Packets :
        p \in Range(accepted) ~> (p \in Range(completed) \/ peer = "down")

----------------------------------------------------------------------------
Channel == INSTANCE TxChannel WITH up <- Alive

\* Refinement: the source is a FIFO channel that completes each packet once, also
\* when one dispatch answers a packet, completes another and queues a third.
ImplementsChannel == Channel!Spec
=============================================================================

----------------------------- MODULE TxChannel -----------------------------
(***************************************************************************)
(* What a packet source promises the object above it: packets are          *)
(* completed in the order they were handed over, each once, until the      *)
(* channel goes down.  A step may take an answer to what arrived, complete *)
(* a packet and take one from the callback that reports it.                *)
(***************************************************************************)
EXTENDS Naturals, Sequences

CONSTANT Packets

VARIABLES accepted,     \* the packets handed over, oldest first
          completed,    \* the packets whose last byte was sent, in that order
          up            \* the channel works

vars == <<accepted, completed, up>>

Init == accepted = <<>> /\ completed = <<>> /\ up = TRUE

Accept(p) == /\ up
             /\ accepted' = Append(accepted, p)
             /\ UNCHANGED <<completed, up>>

AtMostOne == {<<>>} \cup {<<p>> : p \in Packets}

\* What arrived may be answered before the completion, whose callback may hand
\* over another packet.
Complete == /\ up
            /\ Len(completed) < Len(accepted)
            /\ completed' = Append(completed, accepted[Len(completed) + 1])
            /\ \E answer \in AtMostOne : \E next \in AtMostOne :
                 accepted' = (accepted \o answer) \o next
            /\ UNCHANGED up

\* What arrives may be answered before the channel is seen to be down.
Down == /\ up
        /\ up' = FALSE
        /\ \E answer \in AtMostOne : accepted' = accepted \o answer
        /\ UNCHANGED completed

Next == (\E p \in Packets : Accept(p)) \/ Complete \/ Down

Spec == Init /\ [][Next]_vars
=============================================================================

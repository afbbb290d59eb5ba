----------------------------- MODULE FifoChannel -----------------------------
(***************************************************************************)
(* What a connection promises about the packets the server writes to it:   *)
(* they reach the peer whole, once and in the order in which they were     *)
(* handed over, until the connection closes; then no further one does.     *)
(* Packets may still be handed over after that, and are lost.              *)
(***************************************************************************)
EXTENDS Naturals, Sequences

CONSTANT Packets

VARIABLES sent,        \* the packets handed over, oldest first
          delivered,   \* the packets written to the socket
          open         \* the connection is open

channelVars == <<sent, delivered, open>>

ChannelInit == sent = <<>> /\ delivered = <<>> /\ open = TRUE

Send == /\ \E p \in Packets : sent' = Append(sent, p)
        /\ UNCHANGED <<delivered, open>>

Deliver == /\ open
           /\ Len(delivered) < Len(sent)
           /\ delivered' = Append(delivered, sent[Len(delivered) + 1])
           /\ UNCHANGED <<sent, open>>

Close == /\ open
         /\ open' = FALSE
         /\ UNCHANGED <<sent, delivered>>

ChannelNext == Send \/ Deliver \/ Close

ChannelSpec == ChannelInit /\ [][ChannelNext]_channelVars
=============================================================================

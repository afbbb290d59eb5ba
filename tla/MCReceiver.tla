----------------------------- MODULE MCReceiver -----------------------------
(***************************************************************************)
(* Instance for TLC of the receiving side: a connection with the worker    *)
(* threads of config.json, and the parser of the packets that its Reader   *)
(* reads.  The two share nothing but the handler in which a packet is      *)
(* constructed, which one takes as a whole and the other step by step, so  *)
(* they take turns: the connection moves after one of the buffers parsed.  *)
(***************************************************************************)
EXTENDS Connection, PacketFormat

\* The parser has refused a buffer without fields.
ParserRests ==
  /\ Finished
  /\ size = PACKET_LENGTH /\ version = 0 /\ packet_type = 0 /\ header_size_ = 0

MCInit == Init /\ PacketInit

MCNext ==
  \/ PacketNext /\ UNCHANGED vars
  \/ ParserRests /\ Next

MCSpec == MCInit /\ [][MCNext]_<<vars, packetVars>> /\ PacketFairness
=============================================================================

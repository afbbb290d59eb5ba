---------------------------- MODULE PacketCodec -----------------------------
(***************************************************************************)
(* The other direction and the readers of a parsed packet: Packet::create, *)
(* and the getters of a Packet whose constructor has returned.             *)
(*                                                                         *)
(* A std::optional is the set of the values it holds, at most one.  The    *)
(* sequence id is handed through unchanged, and of a payload only the size *)
(* matters, as in Packet.                                                  *)
(***************************************************************************)
EXTENDS Packet

PacketVersionToByte(v) == IF v = "v1" THEN 1 ELSE 0

\* Seeded fault: the numbers of the enumerators in packet_enums.hpp.
PacketTypeToByteByEnum(t) ==
  CASE t = "Text"  -> 3
    [] t = "File"  -> 4
    [] t = "Video" -> 5
    [] OTHER       -> 0

PacketTypeToByte(t) ==
  CASE t = "Text"  -> 1
    [] t = "File"  -> 2
    [] t = "Video" -> 3
    [] OTHER       -> 0

\* PacketFlags has one value: any flags are read as it, and it is written as 0.
PacketFlagsFromBytes(b) == "None"
PacketFlagsToBytes(f) == 0

\* The getters of a parsed packet; headers() and payload() point to the two
\* areas whose places AreasInBuffer states.
Version == PacketVersionFromByte(version)
PacketType == PacketTypeFromByte(packet_type)
PayloadSize == size - (OffsetHeaders + header_size_)

CreateThrows(v, t, f, headerSize, payloadSize) ==
  \/ v = "Unknown"
  \/ t = "Unknown"
  \/ f # "None"
  \/ headerSize > MAX_HEADER_SIZE
  \/ payloadSize > MAX_PAYLOAD_SIZE

\* The fields of the OutgoingPacket, whose three buffers are the fields, the
\* headers and the payload.  packet_size counts all of them.
CreateFields(v, t, f, headerSize, payloadSize) ==
  [packet_size |-> OffsetHeaders + headerSize + payloadSize,
   version     |-> PacketVersionToByte(v),
   packet_type |-> PacketTypeToByte(t),
   header_size |-> headerSize,
   flags       |-> PacketFlagsToBytes(f)]

\* The first sub header of a type decides what the getters return.
FirstOf(type) ==
  {i \in 1 .. Len(headers_) :
     /\ headers_[i].type = type
     /\ \A j \in 1 .. i - 1 : headers_[j].type # type}

\* The span sub.value
Value(i) == SubSeq(header, headers_[i].first + 1, headers_[i].first + headers_[i].size)

SubHeaderGetUint8(type) == {Value(i)[1] : i \in {j \in FirstOf(type) : headers_[j].size = 1}}

\* Seeded fault: the four bytes taken in the order of the host.
NetworkToHostLongForgotten(b) == ((b[4] * 256 + b[3]) * 256 + b[2]) * 256 + b[1]

NetworkToHostLong(b) == ((b[1] * 256 + b[2]) * 256 + b[3]) * 256 + b[4]

SubHeaderGetUint32(type) ==
  {NetworkToHostLong(Value(i)) : i \in {j \in FirstOf(type) : headers_[j].size = 4}}

SubHeaderGetString(type) == {Value(i) : i \in FirstOf(type)}
-----------------------------------------------------------------------------
\* What the getters of an accepted packet return can be sent again, whatever
\* flags it came with: create() takes it and writes its fields, but for two.
\* The flags become 0.  And the length differs: create() counts the length
\* field itself, so its packet_size is the size of the Reader's whole buffer,
\* PACKET_LENGTH more than the length that the Reader was sent.
CreateRepeatsThePacket ==
  pc = "done" =>
    LET Flags == PacketFlagsFromBytes(65535)
    IN  /\ ~CreateThrows(Version, PacketType, Flags, header_size_, PayloadSize)
        /\ CreateFields(Version, PacketType, Flags, header_size_, PayloadSize) =
             [packet_size |-> size, version |-> version, packet_type |-> packet_type,
              header_size |-> header_size_, flags |-> 0]
=============================================================================

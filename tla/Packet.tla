------------------------------- MODULE Packet -------------------------------
(***************************************************************************)
(* The constructor of Packet, which parses the buffer that a Reader has    *)
(* filled: the fixed fields first, then the sub headers one by one.        *)
(* Every rejection is an exception.                                        *)
(*                                                                         *)
(* The buffer is kept as what the parser reads of it: its size, the bytes  *)
(* of its fields and the bytes of its header area.  The payload is never   *)
(* read, and packet_flags_from_bytes accepts all flags, so neither is an   *)
(* input.  All sizes are measured in bytes.                                *)
(***************************************************************************)
EXTENDS Integers, Sequences

CONSTANTS
  Bytes,           \* the byte values that occur in a header area
  MAX_HEADER_SIZE, MAX_PAYLOAD_SIZE,
  BodySizes        \* the lengths that peers announce to the Reader

ASSUME PacketAssumption ==
  /\ \A b \in Bytes : b \in Nat /\ b < 256
  /\ MAX_HEADER_SIZE \in Nat
  /\ MAX_HEADER_SIZE < 65535     \* a uint16_t
  /\ MAX_PAYLOAD_SIZE \in Nat
  /\ BodySizes \subseteq Nat

PACKET_LENGTH == 4
OffsetHeaders == 14
MAX_PACKET_SIZE == MAX_HEADER_SIZE + MAX_PAYLOAD_SIZE

PacketVersionFromByte(b) == IF b = 1 THEN "v1" ELSE "Unknown"

PacketTypeFromByte(b) ==
  CASE b = 1 -> "Text"
    [] b = 2 -> "File"
    [] b = 3 -> "Video"
    [] OTHER -> "Unknown"

SubHeaderFromByte(b) ==
  CASE b = 10 -> "SessionId"
    [] b = 11 -> "UserId"
    [] b = 12 -> "AuthToken"
    [] OTHER -> "Unknown"

VARIABLES
  size,       \* packet_size_: the size of the buffer
  version, packet_type,
  header_size_,   \* the fields of the buffer that decide what happens
  header,     \* the bytes from offset_headers_ on, header_size_ of them
  pc,         \* fields, headers, done or thrown
  count,      \* bytes of the header area consumed by parseSubHeaders()
  headers_    \* the sub headers found: type, size and place of the value

packetVars == <<size, version, packet_type, header_size_, header, pc, count, headers_>>

SubHeader == [type  : {"SessionId", "UserId", "AuthToken"},
              first : Nat,    \* the value follows byte first of the area
              size  : Nat]

PacketTypeOK ==
  /\ size \in Nat
  /\ version \in Nat /\ version < 256
  /\ packet_type \in Nat /\ packet_type < 256
  /\ header_size_ \in Nat /\ header_size_ < 65536
  /\ header \in Seq(Bytes)
  /\ pc \in {"fields", "headers", "done", "thrown"}
  /\ count \in 0 .. MAX_HEADER_SIZE
  /\ headers_ \in Seq(SubHeader)

\* Reader::read_body sizes the buffer for a length of at most
\* MAX_PACKET_SIZE; the bytes of the header area are there if the buffer is
\* large enough for them.
PacketInit ==
  /\ size \in {PACKET_LENGTH + n : n \in {m \in BodySizes : m <= MAX_PACKET_SIZE}}
  /\ version \in {0, 1}
  /\ packet_type \in 0 .. 4
  /\ header_size_ \in 0 .. MAX_HEADER_SIZE + 1
  /\ header \in IF header_size_ <= MAX_HEADER_SIZE
                   /\ OffsetHeaders + header_size_ <= size
                THEN [1 .. header_size_ -> Bytes]
                ELSE {<<>>}
  /\ pc = "fields"
  /\ count = 0
  /\ headers_ = <<>>
-----------------------------------------------------------------------------
\* Seeded fault: the header may end anywhere in the buffer.
FieldsValidWithoutOffset ==
  /\ size >= OffsetHeaders
  /\ PacketVersionFromByte(version) # "Unknown"
  /\ PacketTypeFromByte(packet_type) # "Unknown"
  /\ header_size_ <= MAX_HEADER_SIZE
  /\ header_size_ <= size
  /\ size - header_size_ <= MAX_PAYLOAD_SIZE + OffsetHeaders

\* The checks of the constructor, in its order
FieldsValid ==
  /\ size >= OffsetHeaders
  /\ PacketVersionFromByte(version) # "Unknown"
  /\ PacketTypeFromByte(packet_type) # "Unknown"
  /\ header_size_ <= MAX_HEADER_SIZE
  /\ header_size_ <= size
  /\ OffsetHeaders + header_size_ <= size
  /\ size - (OffsetHeaders + header_size_) <= MAX_PAYLOAD_SIZE

ParseFields ==
  /\ pc = "fields"
  /\ pc' = IF FieldsValid THEN "headers" ELSE "thrown"
  /\ UNCHANGED <<size, version, packet_type, header_size_, header, count, headers_>>

Left == header_size_ - count

\* The size of the next sub header, which is not converted from network byte
\* order: its low byte comes first on the platforms the server runs on.
NextSize == header[count + 1] + 256 * header[count + 2]

NextType == SubHeaderFromByte(header[count + 3])

\* Seeded fault: the size is converted like every other field.
NextSubHeaderValidNtohs ==
  /\ Left >= 3
  /\ 256 * header[count + 1] + header[count + 2] <= Left - 3
  /\ NextType # "Unknown"

\* Seeded fault: the value may end with the bytes of its own prefix missing.
NextSubHeaderValidOffByPrefix ==
  /\ Left >= 3
  /\ NextSize <= MAX_HEADER_SIZE
  /\ NextType # "Unknown"
  /\ NextSize <= Left

\* Size and type are there and known, and the value fits in what is left.
NextSubHeaderValid ==
  /\ Left >= 3
  /\ NextSize <= MAX_HEADER_SIZE
  /\ NextType # "Unknown"
  /\ NextSize <= Left - 3

\* One round of the loop of parseSubHeaders
ParseSubHeader ==
  /\ pc = "headers"
  /\ count < header_size_
  /\ NextSubHeaderValid
  /\ headers_' = Append(headers_, [type |-> NextType, first |-> count + 3,
                                   size |-> NextSize])
  /\ count' = (count + 3 + NextSize) % 65536
  /\ UNCHANGED <<size, version, packet_type, header_size_, header, pc>>

\* Seeded fault: continue for throw.
RejectSubHeaderContinues ==
  /\ pc = "headers"
  /\ count < header_size_
  /\ ~NextSubHeaderValid
  /\ UNCHANGED packetVars

RejectSubHeader ==
  /\ pc = "headers"
  /\ count < header_size_
  /\ ~NextSubHeaderValid
  /\ pc' = "thrown"
  /\ UNCHANGED <<size, version, packet_type, header_size_, header, count, headers_>>

\* The end of the loop, and the check that follows it
FinishHeaders ==
  /\ pc = "headers"
  /\ count >= header_size_
  /\ pc' = IF count # header_size_ THEN "thrown" ELSE "done"
  /\ UNCHANGED <<size, version, packet_type, header_size_, header, count, headers_>>

\* The constructor has returned or thrown.
Finished == pc \in {"done", "thrown"} /\ UNCHANGED packetVars

PacketNext == ParseFields \/ ParseSubHeader \/ RejectSubHeader \/ FinishHeaders \/ Finished

PacketSpec == PacketInit /\ [][PacketNext]_packetVars

PacketFairness == WF_packetVars(PacketNext)
-----------------------------------------------------------------------------
\* The size of the buffer covers the header area and the payload once the
\* fields are accepted, so headers(), payload() and every round of the loop
\* read inside the buffer, and the size of the payload does not wrap.
AreasInBuffer ==
  pc \in {"headers", "done"} =>
    /\ Len(header) = header_size_
    /\ count <= header_size_
    /\ OffsetHeaders + header_size_ <= size
    /\ size - OffsetHeaders - header_size_ <= MAX_PAYLOAD_SIZE

\* Where span i of headers_ ends in the header area
SpanEnd(i) == IF i = 0 THEN 0 ELSE headers_[i].first + headers_[i].size

\* The spans kept in headers_ point into the header area, each after the
\* one before it and without a gap, and the last one ends at count.
SpansTileHeader ==
  /\ \A i \in 1 .. Len(headers_) : headers_[i].first = SpanEnd(i - 1) + 3
  /\ SpanEnd(Len(headers_)) = count
  /\ count <= header_size_

\* Every round consumes bytes, so the constructor returns or throws whatever
\* a peer has sent, even a sub header of size 0.
ParserTerminates == <>(pc \in {"done", "thrown"})
=============================================================================

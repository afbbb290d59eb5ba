---------------------------- MODULE PacketProofs ----------------------------
(***************************************************************************)
(* Theorems about Packet, PacketCodec and PacketFormat, for all byte values, all maximal *)
(* sizes and all lengths that a peer may announce.                         *)
(***************************************************************************)
EXTENDS PacketFormat, SequenceTheorems, TLAPS

(***************************************************************************)
(* The buffer holds the header area whenever it is large enough for it,    *)
(* and the loop of parseSubHeaders is entered only with fields that the    *)
(* constructor has checked.                                                *)
(***************************************************************************)
HeaderArea ==
  /\ header_size_ <= MAX_HEADER_SIZE /\ OffsetHeaders + header_size_ <= size
       => Len(header) = header_size_
  /\ pc \in {"headers", "done"} => FieldsValid

ParserInv == PacketTypeOK /\ HeaderArea /\ SpansTileHeader

\* The fields that were accepted bound the header area and the payload.
LEMMA FieldsBoundAreas == ParserInv => AreasInBuffer
<1> SUFFICES ASSUME ParserInv, pc \in {"headers", "done"} PROVE AreasInBuffer
  BY DEF AreasInBuffer
<1>1. header_size_ \in Nat /\ size \in Nat /\ count \in Nat
  BY PacketAssumption DEF ParserInv, PacketTypeOK
<1>2. FieldsValid /\ count <= header_size_
  BY DEF ParserInv, HeaderArea, SpansTileHeader
<1>3. Len(header) = header_size_
  BY <1>2 DEF ParserInv, HeaderArea, FieldsValid
<1>4. /\ OffsetHeaders + header_size_ <= size
      /\ size - (OffsetHeaders + header_size_) <= MAX_PAYLOAD_SIZE
  BY <1>2 DEF FieldsValid
<1> QED
  BY <1>1, <1>2, <1>3, <1>4, PacketAssumption DEF AreasInBuffer, OffsetHeaders

LEMMA InitParserInv == PacketInit => ParserInv
<1> SUFFICES ASSUME PacketInit PROVE ParserInv
  OBVIOUS
<1> USE PacketAssumption DEF PacketInit
<1>1. header_size_ \in Nat /\ header_size_ < 65536
  OBVIOUS
<1>2. /\ header \in Seq(Bytes)
      /\ header_size_ <= MAX_HEADER_SIZE /\ OffsetHeaders + header_size_ <= size
           => Len(header) = header_size_
  <2>1. CASE header \in [1 .. header_size_ -> Bytes]
    BY ONLY <1>1, <2>1
  <2>2. CASE header = <<>> /\ ~(/\ header_size_ <= MAX_HEADER_SIZE
                                /\ OffsetHeaders + header_size_ <= size)
    BY ONLY <2>2
  <2> QED  BY <2>1, <2>2
<1>3. size \in Nat
  BY DEF PACKET_LENGTH
<1>4. PacketTypeOK
  BY <1>1, <1>2, <1>3 DEF PacketTypeOK
<1>5. SpansTileHeader
  BY <1>1 DEF SpansTileHeader, SpanEnd
<1> QED  BY <1>2, <1>4, <1>5 DEF ParserInv, HeaderArea

\* What the loop reads of a sub header that it accepts.
LEMMA NextSubHeaderFits ==
  ASSUME ParserInv, pc = "headers", NextSubHeaderValid
  PROVE  /\ NextSize \in Nat
         /\ NextType \in {"SessionId", "UserId", "AuthToken"}
         /\ count \in Nat
         /\ count + 3 + NextSize <= header_size_
         /\ (count + 3 + NextSize) % 65536 = count + 3 + NextSize
<1> USE PacketAssumption DEF ParserInv, PacketTypeOK
<1>1. /\ count \in Nat
      /\ header_size_ \in Nat /\ header_size_ < 65536
      /\ Len(header) = header_size_
      /\ count + 3 <= header_size_
  BY DEF HeaderArea, FieldsValid, NextSubHeaderValid, Left, OffsetHeaders
<1>2. /\ header[count + 1] \in Nat
      /\ header[count + 2] \in Nat
  BY <1>1
<1>3. NextSize \in Nat
  BY <1>2 DEF NextSize
<1>4. NextType \in {"SessionId", "UserId", "AuthToken"}
  BY DEF NextSubHeaderValid, NextType, SubHeaderFromByte
<1>5. count + 3 + NextSize <= header_size_
  BY <1>1, <1>3 DEF NextSubHeaderValid, Left
<1> QED  BY <1>1, <1>3, <1>4, <1>5

LEMMA ParserInductive == ParserInv /\ [PacketNext]_packetVars => ParserInv'
<1> SUFFICES ASSUME ParserInv, [PacketNext]_packetVars PROVE ParserInv'
  OBVIOUS
<1> USE DEF ParserInv
<1>1. CASE ParseFields
  BY <1>1 DEF ParseFields, PacketTypeOK, HeaderArea, SpansTileHeader, SpanEnd, FieldsValid
<1>2. CASE ParseSubHeader
  <2> DEFINE sub == [type |-> NextType, first |-> count + 3, size |-> NextSize]
  <2>1. /\ NextSize \in Nat
        /\ NextType \in {"SessionId", "UserId", "AuthToken"}
        /\ count \in Nat
        /\ count + 3 + NextSize <= header_size_
        /\ count' = count + 3 + NextSize
    BY <1>2, NextSubHeaderFits DEF ParseSubHeader
  <2>2. sub \in SubHeader
    BY <2>1 DEF SubHeader
  <2>3. headers_ \in Seq(SubHeader) /\ headers_' = Append(headers_, sub)
    BY <1>2 DEF ParseSubHeader, PacketTypeOK
  <2>4. /\ headers_' \in Seq(SubHeader)
        /\ Len(headers_') = Len(headers_) + 1
        /\ \A i \in 1 .. Len(headers_) : headers_'[i] = headers_[i]
        /\ headers_'[Len(headers_) + 1] = sub
    BY <2>2, <2>3, AppendProperties
  <2>5. PacketTypeOK'
    <3>1. header_size_ <= MAX_HEADER_SIZE
      BY <1>2 DEF ParseSubHeader, HeaderArea, FieldsValid
    <3>2. count' \in 0 .. MAX_HEADER_SIZE
      BY <2>1, <3>1, PacketAssumption DEF PacketTypeOK
    <3> QED  BY <1>2, <2>4, <3>2 DEF ParseSubHeader, PacketTypeOK
  <2>6. HeaderArea'
    BY <1>2 DEF ParseSubHeader, HeaderArea, FieldsValid
  <2>7. SpansTileHeader'
    <3>1. Len(headers_) \in Nat
      BY <2>3, LenProperties
    <3>2. \A i \in 0 .. Len(headers_) : SpanEnd(i)' = SpanEnd(i)
      BY <2>4, <3>1 DEF SpanEnd
    <3>3. ASSUME NEW i \in 1 .. Len(headers_')
          PROVE  headers_'[i].first = SpanEnd(i - 1)' + 3
      <4>1. CASE i \in 1 .. Len(headers_)
        BY <2>4, <3>1, <3>2, <4>1 DEF SpansTileHeader
      <4>2. CASE i = Len(headers_) + 1
        BY <2>4, <3>1, <3>2, <4>2 DEF SpansTileHeader
      <4> QED  BY <2>4, <3>1, <4>1, <4>2
    <3>4. SpanEnd(Len(headers_))' = count'
      BY <2>1, <2>4, <3>1 DEF SpanEnd
    <3>5. count' <= header_size_'
      BY <1>2, <2>1 DEF ParseSubHeader
    <3> QED  BY <3>3, <3>4, <3>5 DEF SpansTileHeader
  <2> QED  BY <2>5, <2>6, <2>7
<1>3. CASE RejectSubHeader
  BY <1>3 DEF RejectSubHeader, PacketTypeOK, HeaderArea, SpansTileHeader, SpanEnd, FieldsValid
<1>4. CASE FinishHeaders
  BY <1>4 DEF FinishHeaders, PacketTypeOK, HeaderArea, SpansTileHeader, SpanEnd, FieldsValid
<1>5. CASE Finished \/ UNCHANGED packetVars
  <2>1. UNCHANGED <<size, version, packet_type, header_size_, header, pc, count, headers_>>
    BY <1>5 DEF Finished, packetVars
  <2>2. PacketTypeOK'
    BY <1>1, <2>1 DEF PacketTypeOK
  <2>3. HeaderArea'
    BY <1>1, <2>1 DEF HeaderArea, FieldsValid
  <2>4. SpansTileHeader'
    BY <1>1, <2>1 DEF SpansTileHeader, SpanEnd
  <2> QED  BY <2>2, <2>3, <2>4
<1> QED  BY <1>1, <1>2, <1>3, <1>4, <1>5 DEF PacketNext

LEMMA ParserInvariant == PacketSpec => []ParserInv
BY InitParserInv, ParserInductive, PTL DEF PacketSpec

\* Every variable keeps to its type; in particular the spans have known
\* types and the position in the header area stays within its maximum.
THEOREM TypeCorrect == PacketSpec => []PacketTypeOK
BY ParserInvariant, PTL DEF ParserInv

\* Once the fields are accepted, the header area and the payload lie in the
\* buffer, whatever lengths and fields the peer has sent.
THEOREM ReadsStayInBuffer == PacketSpec => []AreasInBuffer
BY ParserInvariant, FieldsBoundAreas, PTL

\* The spans of the sub headers lie in the header area, one after the other,
\* for every sequence of bytes.
THEOREM SpansStayInHeader == PacketSpec => []SpansTileHeader
BY ParserInvariant, PTL DEF ParserInv
-----------------------------------------------------------------------------
\* What the converters from a byte accept, those to a byte give back.
LEMMA ConvertersRoundTrip ==
  /\ \A b \in Nat : LET v == PacketVersionFromByte(b)
                    IN  v # "Unknown" => PacketVersionToByte(v) = b
  /\ \A b \in Nat : LET t == PacketTypeFromByte(b)
                    IN  t # "Unknown" => PacketTypeToByte(t) = b
<1>1. ASSUME NEW b \in Nat, PacketVersionFromByte(b) # "Unknown"
      PROVE  PacketVersionToByte(PacketVersionFromByte(b)) = b
  BY <1>1 DEF PacketVersionFromByte, PacketVersionToByte
<1>2. ASSUME NEW b \in Nat, PacketTypeFromByte(b) # "Unknown"
      PROVE  PacketTypeToByte(PacketTypeFromByte(b)) = b
  <2>1. b \in {1, 2, 3}
    BY <1>2 DEF PacketTypeFromByte
  <2> QED  BY <2>1 DEF PacketTypeFromByte, PacketTypeToByte
<1> QED  BY <1>1, <1>2

\* The checks of the constructor are those of create().
LEMMA AcceptedCanBeCreated == ParserInv => CreateRepeatsThePacket
<1> SUFFICES ASSUME ParserInv, pc = "done" PROVE CreateRepeatsThePacket
  BY DEF CreateRepeatsThePacket
<1>1. FieldsValid
  BY DEF ParserInv, HeaderArea
<1>2. /\ header_size_ \in Nat /\ size \in Nat
      /\ version \in Nat /\ packet_type \in Nat
  BY DEF ParserInv, PacketTypeOK
<1>3. /\ Version # "Unknown" /\ PacketVersionToByte(Version) = version
      /\ PacketType # "Unknown" /\ PacketTypeToByte(PacketType) = packet_type
  BY <1>1, <1>2, ConvertersRoundTrip DEF FieldsValid, Version, PacketType
<1>4. /\ header_size_ <= MAX_HEADER_SIZE
      /\ PayloadSize <= MAX_PAYLOAD_SIZE
      /\ OffsetHeaders + header_size_ + PayloadSize = size
  BY <1>1, <1>2 DEF FieldsValid, PayloadSize, OffsetHeaders
<1>5. ~CreateThrows(Version, PacketType, PacketFlagsFromBytes(65535), header_size_, PayloadSize)
  BY <1>1, <1>2, <1>3, <1>4, PacketAssumption
     DEF CreateThrows, PacketFlagsFromBytes, PayloadSize, OffsetHeaders
<1> QED
  BY <1>3, <1>4, <1>5 DEF CreateRepeatsThePacket, CreateFields, PacketFlagsToBytes

\* create() takes what the getters of any accepted packet return and writes
\* the fields the packet came with, but for the length and the flags.
THEOREM PacketsCanBeRepeated == PacketSpec => []CreateRepeatsThePacket
BY ParserInvariant, AcceptedCanBeCreated, PTL

\* The enumerators of PacketType that create() takes
PacketTypes == {"Auth", "Account", "Text", "File", "Video"}

\* The fields that create() writes pass the constructor of the peer, and its
\* getters return what create() was given, for the three types that have a
\* byte.  create() takes Auth and Account as well, which no peer accepts.
THEOREM CreatedFieldsAreRead ==
  ASSUME NEW t \in PacketTypes, NEW headerSize \in Nat, NEW payloadSize \in Nat,
         ~CreateThrows("v1", t, "None", headerSize, payloadSize),
         [packet_size |-> size, version |-> version, packet_type |-> packet_type,
          header_size |-> header_size_, flags |-> 0]
           = CreateFields("v1", t, "None", headerSize, payloadSize)
  PROVE  /\ FieldsValid <=> t \notin {"Auth", "Account"}
         /\ FieldsValid => Version = "v1" /\ PacketType = t /\ PayloadSize = payloadSize
<1>1. /\ size = OffsetHeaders + headerSize + payloadSize
      /\ version = 1
      /\ packet_type = PacketTypeToByte(t)
      /\ header_size_ = headerSize
  BY DEF CreateFields, PacketVersionToByte
<1>2. headerSize <= MAX_HEADER_SIZE /\ payloadSize <= MAX_PAYLOAD_SIZE
  BY PacketAssumption DEF CreateThrows, OffsetHeaders
<1>3. Version = "v1"
  BY <1>1 DEF Version, PacketVersionFromByte
<1>4. /\ t \notin {"Auth", "Account"} => PacketType = t
      /\ t \in {"Auth", "Account"} => PacketType = "Unknown"
  BY <1>1 DEF PacketTypes, PacketTypeToByte, PacketType, PacketTypeFromByte
<1>5. PayloadSize = payloadSize
  BY <1>1 DEF PayloadSize, OffsetHeaders
<1>6. FieldsValid <=> PacketType # "Unknown"
  BY <1>1, <1>2, <1>3, PacketAssumption DEF FieldsValid, Version, PacketType, OffsetHeaders
<1> QED  BY <1>3, <1>4, <1>5, <1>6 DEF PacketTypes
-----------------------------------------------------------------------------
(***************************************************************************)
(* The parser and the format.  Each span is the sub header that begins on  *)
(* the wire where the span before it ends, spans ascend, and no cut of the *)
(* header area can do without the ends of the spans found so far.  So the  *)
(* spans are the only cut if the parser gets to the end, and there is none *)
(* if it stops before.                                                     *)
(***************************************************************************)
SpansReadTheWire ==
  \A i \in 1 .. Len(headers_) :
    /\ SubHeaderAt(SpanEnd(i - 1))
    /\ SpanEnd(i) = SubHeaderEnd(SpanEnd(i - 1))
    /\ headers_[i].type = SubHeaderFromByte(header[SpanEnd(i - 1) + 3])

SpansAscend ==
  \A i, j \in 0 .. Len(headers_) : i < j => SpanEnd(i) < SpanEnd(j)

CutsHoldSpans ==
  \A cuts \in SUBSET Offsets :
    CutsHeader(cuts) => \A i \in 0 .. Len(headers_) : SpanEnd(i) \in cuts

Outcome ==
  /\ pc = "done" => count = header_size_
  /\ pc = "thrown" /\ FieldsValid => count < header_size_ /\ ~NextSubHeaderValid

FormatInv ==
  ParserInv /\ SpansReadTheWire /\ SpansAscend /\ CutsHoldSpans /\ Outcome

LEMMA SpanEndNat ==
  ASSUME ParserInv, NEW i \in 0 .. Len(headers_)
  PROVE  SpanEnd(i) \in Nat
<1>1. headers_ \in Seq(SubHeader)
  BY DEF ParserInv, PacketTypeOK
<1>2. CASE i = 0
  BY <1>2 DEF SpanEnd
<1>3. CASE i \in 1 .. Len(headers_)
  <2>1. headers_[i] \in SubHeader
    BY <1>1, <1>3, ElementOfSeq
  <2> QED  BY <1>3, <2>1 DEF SpanEnd, SubHeader
<1> QED  BY <1>1, <1>2, <1>3

\* The checks of one round are those of the format.
LEMMA RoundChecksTheFormat ==
  ASSUME ParserInv, FieldsValid, count < header_size_
  PROVE  /\ NextSubHeaderValid <=> SubHeaderAt(count)
         /\ NextSubHeaderValid => /\ count + 3 + NextSize = SubHeaderEnd(count)
                                  /\ NextType = SubHeaderFromByte(header[count + 3])
<1>1. /\ count \in Nat /\ header_size_ \in Nat
      /\ Len(header) = header_size_ /\ header_size_ <= MAX_HEADER_SIZE
      /\ header \in Seq(Bytes)
      /\ MAX_HEADER_SIZE \in Nat
  BY PacketAssumption DEF ParserInv, PacketTypeOK, HeaderArea, FieldsValid, OffsetHeaders
<1>2. CASE count + 3 > Len(header)
  BY <1>1, <1>2 DEF NextSubHeaderValid, SubHeaderAt, Left
<1>3. CASE count + 3 <= Len(header)
  <2>1. /\ header[count + 1] \in Nat
        /\ header[count + 2] \in Nat
        /\ header[count + 3] \in Nat
    BY <1>1, <1>3, PacketAssumption
  <2>2. NextType # "Unknown" <=> header[count + 3] \in {10, 11, 12}
    BY <2>1 DEF NextType, SubHeaderFromByte
  <2>3. NextSize \in Nat /\ count + 3 + NextSize = SubHeaderEnd(count)
    BY <1>1, <2>1 DEF NextSize, SubHeaderEnd
  <2> QED
    BY <1>1, <1>3, <2>2, <2>3 DEF NextSubHeaderValid, SubHeaderAt, Left, NextType
<1> QED  BY <1>1, <1>2, <1>3

LEMMA InitFormatInv == PacketInit => FormatInv
<1> SUFFICES ASSUME PacketInit PROVE FormatInv
  OBVIOUS
<1>1. ParserInv
  BY InitParserInv
<1>2. headers_ = <<>> /\ pc = "fields"
  BY DEF PacketInit
<1>3. Len(headers_) = 0 /\ SpanEnd(0) = 0
  BY <1>2 DEF SpanEnd
<1>4. SpansReadTheWire /\ SpansAscend
  BY <1>3 DEF SpansReadTheWire, SpansAscend
<1>5. CutsHoldSpans
  BY <1>3 DEF CutsHoldSpans, CutsHeader
<1> QED  BY <1>1, <1>2, <1>4, <1>5 DEF FormatInv, Outcome

\* A round leaves the spans before it as they are and adds the one at count.
LEMMA RoundAddsASpan ==
  ASSUME FormatInv, ParseSubHeader
  PROVE  /\ Len(headers_) \in Nat
         /\ Len(headers_') = Len(headers_) + 1
         /\ \A i \in 0 .. Len(headers_) : SpanEnd(i)' = SpanEnd(i)
         /\ SpanEnd(Len(headers_)) = count
         /\ SpanEnd(Len(headers_))' = SubHeaderEnd(count)
         /\ SubHeaderAt(count)
         /\ count \in Nat
         /\ count < SubHeaderEnd(count)
         /\ SubHeaderEnd(count) \in Nat
         /\ \A i \in 1 .. Len(headers_) : headers_'[i] = headers_[i]
         /\ headers_'[Len(headers_')].type = SubHeaderFromByte(header[count + 3])
<1> DEFINE sub == [type |-> NextType, first |-> count + 3, size |-> NextSize]
<1>1. /\ ParserInv /\ FieldsValid /\ pc = "headers"
      /\ NextSubHeaderValid /\ count < header_size_
      /\ headers_' = Append(headers_, sub)
  BY DEF FormatInv, ParserInv, HeaderArea, ParseSubHeader
<1>2. /\ NextSize \in Nat /\ count \in Nat
      /\ sub \in SubHeader
  BY <1>1, NextSubHeaderFits DEF SubHeader
<1>3. headers_ \in Seq(SubHeader)
  BY <1>1 DEF ParserInv, PacketTypeOK
<1>4. /\ Len(headers_) \in Nat
      /\ Len(headers_') = Len(headers_) + 1
      /\ \A i \in 1 .. Len(headers_) : headers_'[i] = headers_[i]
      /\ headers_'[Len(headers_) + 1] = sub
  BY <1>1, <1>2, <1>3, AppendProperties, LenProperties
<1>5. \A i \in 0 .. Len(headers_) : SpanEnd(i)' = SpanEnd(i)
  BY <1>4 DEF SpanEnd
<1>6. SpanEnd(Len(headers_)) = count
  BY <1>1 DEF ParserInv, SpansTileHeader
<1>7. /\ SubHeaderAt(count)
      /\ count + 3 + NextSize = SubHeaderEnd(count)
      /\ NextType = SubHeaderFromByte(header[count + 3])
  BY <1>1, RoundChecksTheFormat
<1>8. SpanEnd(Len(headers_))' = SubHeaderEnd(count)
  BY <1>2, <1>4, <1>7 DEF SpanEnd
<1>9. count < SubHeaderEnd(count) /\ SubHeaderEnd(count) \in Nat
  BY <1>2, <1>7
<1> QED  BY <1>2, <1>4, <1>5, <1>6, <1>7, <1>8, <1>9

LEMMA RoundKeepsFormatInv ==
  ASSUME FormatInv, ParseSubHeader
  PROVE  SpansReadTheWire' /\ SpansAscend' /\ CutsHoldSpans' /\ Outcome'
<1>0. PICK n \in Nat : n = Len(headers_)
  BY RoundAddsASpan
<1>1. /\ n = Len(headers_)
      /\ Len(headers_') = n + 1
      /\ \A i \in 0 .. n : SpanEnd(i)' = SpanEnd(i)
      /\ SpanEnd(n) = count
      /\ SpanEnd(n + 1)' = SubHeaderEnd(count)
      /\ SubHeaderAt(count)
      /\ count \in Nat
      /\ count < SubHeaderEnd(count)
      /\ SubHeaderEnd(count) \in Nat
      /\ \A i \in 1 .. n : headers_'[i] = headers_[i]
      /\ headers_'[n + 1].type = SubHeaderFromByte(header[count + 3])
  <2>1. Len(headers_') = n + 1
    BY <1>0, RoundAddsASpan
  <2>2. SpanEnd(n + 1)' = SubHeaderEnd(count)
    BY <1>0, <2>1, RoundAddsASpan
  <2> QED  BY <1>0, <2>1, <2>2, RoundAddsASpan
<1>2. header' = header /\ pc' = "headers"
  BY DEF ParseSubHeader
<1>3. SpansReadTheWire'
  <2>1. ASSUME NEW i \in 1 .. n + 1
        PROVE  /\ SubHeaderAt(SpanEnd(i - 1))'
               /\ SpanEnd(i)' = SubHeaderEnd(SpanEnd(i - 1))'
               /\ headers_'[i].type = SubHeaderFromByte(header'[SpanEnd(i - 1)' + 3])
    <3>1. i - 1 \in 0 .. n
      BY <1>1
    <3>2. SpanEnd(i - 1)' = SpanEnd(i - 1)
      BY <1>1, <3>1
    <3>3. /\ SubHeaderAt(SpanEnd(i - 1))' <=> SubHeaderAt(SpanEnd(i - 1))
          /\ SubHeaderEnd(SpanEnd(i - 1))' = SubHeaderEnd(SpanEnd(i - 1))
      BY <1>2, <3>2 DEF SubHeaderAt, SubHeaderEnd
    <3>4. CASE i \in 1 .. n
      <4>1. SpanEnd(i)' = SpanEnd(i) /\ headers_'[i] = headers_[i]
        BY <1>1, <3>4
      <4> QED  BY <1>1, <1>2, <3>2, <3>3, <3>4, <4>1 DEF FormatInv, SpansReadTheWire
    <3>5. CASE i = n + 1
      <4>1. SpanEnd(i - 1) = count
        BY <1>1, <3>5
      <4> QED  BY <1>1, <1>2, <3>2, <3>3, <3>5, <4>1
    <3> QED  BY <1>1, <3>4, <3>5
  <2> QED  BY <1>1, <2>1 DEF SpansReadTheWire
<1>4. SpansAscend'
  <2>1. ASSUME NEW i \in 0 .. n + 1, NEW j \in 0 .. n + 1, i < j
        PROVE  SpanEnd(i)' < SpanEnd(j)'
    <3>1. CASE j \in 0 .. n
      BY <1>1, <2>1, <3>1 DEF FormatInv, SpansAscend
    <3>2. CASE j = n + 1 /\ i = n
      BY <1>1, <3>2
    <3>3. CASE j = n + 1 /\ i < n
      <4>1. SpanEnd(i) < SpanEnd(n)
        BY <1>1, <3>3 DEF FormatInv, SpansAscend
      <4>2. SpanEnd(i)' = SpanEnd(i)
        BY <1>1, <3>3
      <4>3. SpanEnd(i) \in Nat
        BY <1>1, <3>3, SpanEndNat DEF FormatInv
      <4> QED  BY <1>1, <3>3, <4>1, <4>2, <4>3
    <3> QED  BY <1>1, <2>1, <3>1, <3>2, <3>3
  <2> QED  BY <1>1, <2>1 DEF SpansAscend
<1>5. CutsHoldSpans'
  <2>1. ASSUME NEW cuts \in SUBSET Offsets, CutsHeader(cuts), NEW i \in 0 .. n + 1
        PROVE  SpanEnd(i)' \in cuts
    <3>1. CASE i \in 0 .. n
      BY <1>1, <2>1, <3>1 DEF FormatInv, CutsHoldSpans
    <3>2. CASE i = n + 1
      <4>1. count \in cuts
        BY <1>1, <2>1 DEF FormatInv, CutsHoldSpans
      <4>2. count # Len(header)
        <5>1. header \in Seq(Bytes)
          BY DEF FormatInv, ParserInv, PacketTypeOK
        <5> QED  BY <1>1, <5>1 DEF SubHeaderAt
      <4> QED  BY <1>1, <2>1, <3>2, <4>1, <4>2 DEF CutsHeader
    <3> QED  BY <1>1, <3>1, <3>2
  <2>2. Offsets' = Offsets /\ \A cuts : CutsHeader(cuts)' <=> CutsHeader(cuts)
    BY <1>2 DEF Offsets, CutsHeader, SubHeaderAt, SubHeaderEnd
  <2> QED  BY <1>1, <2>1, <2>2 DEF CutsHoldSpans
<1> QED  BY <1>2, <1>3, <1>4, <1>5 DEF Outcome

\* A step that leaves the bytes and the spans as they are
LEMMA SpansKept ==
  ASSUME FormatInv, UNCHANGED <<header, headers_>>
  PROVE  SpansReadTheWire' /\ SpansAscend' /\ CutsHoldSpans'
<1>1. /\ \A i : SpanEnd(i)' = SpanEnd(i)
      /\ \A i : SubHeaderEnd(i)' = SubHeaderEnd(i)
      /\ \A i : SubHeaderAt(i)' <=> SubHeaderAt(i)
      /\ Offsets' = Offsets
  BY DEF SpanEnd, SubHeaderEnd, SubHeaderAt, Offsets
<1>2. \A cuts : CutsHeader(cuts)' <=> CutsHeader(cuts)
  BY DEF CutsHeader, SubHeaderAt, SubHeaderEnd
<1>3. SpansReadTheWire'
  BY <1>1 DEF FormatInv, SpansReadTheWire
<1>4. SpansAscend'
  BY <1>1 DEF FormatInv, SpansAscend
<1>5. CutsHoldSpans'
  BY <1>1, <1>2 DEF FormatInv, CutsHoldSpans
<1> QED  BY <1>3, <1>4, <1>5

LEMMA FormatInductive == FormatInv /\ [PacketNext]_packetVars => FormatInv'
<1> SUFFICES ASSUME FormatInv, [PacketNext]_packetVars PROVE FormatInv'
  OBVIOUS
<1>1. ParserInv'
  BY ParserInductive DEF FormatInv
<1>2. CASE ParseSubHeader
  BY <1>1, <1>2, RoundKeepsFormatInv DEF FormatInv
<1>3. CASE ParseFields
  BY <1>1, <1>3, SpansKept DEF FormatInv, ParseFields, Outcome, FieldsValid
<1>4. CASE RejectSubHeader
  <2>1. Outcome'
    BY <1>4 DEF RejectSubHeader, Outcome, NextSubHeaderValid, Left, NextSize, NextType
  <2> QED  BY <1>1, <1>4, <2>1, SpansKept DEF FormatInv, RejectSubHeader
<1>5. CASE FinishHeaders
  <2>1. count = header_size_
    BY <1>5, PacketAssumption
       DEF FinishHeaders, FormatInv, ParserInv, PacketTypeOK, SpansTileHeader
  <2>2. Outcome'
    BY <1>5, <2>1 DEF FinishHeaders, Outcome
  <2> QED  BY <1>1, <1>5, <2>2, SpansKept DEF FormatInv, FinishHeaders
<1>6. CASE Finished \/ UNCHANGED packetVars
  <2>1. UNCHANGED packetVars
    BY <1>6 DEF Finished
  <2>2. Outcome'
    BY <2>1 DEF packetVars, FormatInv, Outcome, FieldsValid, NextSubHeaderValid, Left, NextSize,
                NextType
  <2> QED  BY <1>1, <2>1, <2>2, SpansKept DEF FormatInv, packetVars
<1> QED  BY <1>2, <1>3, <1>4, <1>5, <1>6 DEF PacketNext

LEMMA FormatInvariant == PacketSpec => []FormatInv
BY InitFormatInv, FormatInductive, PTL DEF PacketSpec

\* The ends of the spans of a parsed header area cut it as the format says.
LEMMA SpansCutHeader ==
  ASSUME FormatInv, pc = "done"
  PROVE  LET ends == {SpanEnd(i) : i \in 0 .. Len(headers_)}
         IN  ends \in SUBSET Offsets /\ CutsHeader(ends)
<1> DEFINE ends == {SpanEnd(i) : i \in 0 .. Len(headers_)}
<1>1. /\ Len(headers_) \in Nat
      /\ SpanEnd(Len(headers_)) = Len(header)
      /\ Len(header) \in Nat
  <2>1. headers_ \in Seq(SubHeader) /\ header \in Seq(Bytes)
    BY DEF FormatInv, ParserInv, PacketTypeOK
  <2>2. FieldsValid /\ Len(header) = header_size_
    BY DEF FormatInv, ParserInv, HeaderArea, FieldsValid
  <2>3. SpanEnd(Len(headers_)) = count /\ count = header_size_
    BY DEF FormatInv, ParserInv, SpansTileHeader, Outcome
  <2> QED  BY <2>1, <2>2, <2>3, LenProperties
<1>2. ASSUME NEW i \in 0 .. Len(headers_)
      PROVE  /\ SpanEnd(i) \in Nat
             /\ i < Len(headers_) <=> SpanEnd(i) < Len(header)
             /\ SpanEnd(i) <= Len(header)
  <2>1. SpanEnd(i) \in Nat
    BY SpanEndNat DEF FormatInv
  <2>2. CASE i = Len(headers_)
    BY <1>1, <2>1, <2>2
  <2>3. CASE i < Len(headers_)
    BY <1>1, <2>1, <2>3 DEF FormatInv, SpansAscend
  <2> QED  BY <1>1, <2>2, <2>3
<1>3. ends \in SUBSET Offsets
  BY <1>1, <1>2 DEF Offsets
<1>4. 0 \in ends
  BY <1>1 DEF SpanEnd
<1>5. ASSUME NEW e \in ends \ {Len(header)}
      PROVE  SubHeaderAt(e) /\ SubHeaderEnd(e) \in ends
  <2>1. PICK i \in 0 .. Len(headers_) : e = SpanEnd(i)
    BY <1>5
  <2>2. i + 1 \in 1 .. Len(headers_) /\ (i + 1) - 1 = i
    BY <1>1, <1>2, <2>1
  <2>3. SubHeaderAt(e) /\ SpanEnd(i + 1) = SubHeaderEnd(e)
    BY <2>1, <2>2 DEF FormatInv, SpansReadTheWire
  <2> QED  BY <2>2, <2>3
<1>6. CutsHeader(ends)
  BY <1>4, <1>5 DEF CutsHeader
<1> QED  BY <1>3, <1>6

LEMMA OnlyTheFormatAccepted == FormatInv => AcceptsTheFormat
<1> SUFFICES ASSUME FormatInv PROVE AcceptsTheFormat
  OBVIOUS
<1>1. ASSUME pc = "done" PROVE OfTheFormat
  BY <1>1, SpansCutHeader DEF OfTheFormat
<1>2. ASSUME pc = "thrown", FieldsValid, OfTheFormat PROVE FALSE
  <2>1. PICK cuts \in SUBSET Offsets : CutsHeader(cuts)
    BY <1>2 DEF OfTheFormat
  <2>2. count < header_size_ /\ ~NextSubHeaderValid
    BY <1>2 DEF FormatInv, Outcome
  <2>3. SpanEnd(Len(headers_)) = count /\ Len(headers_) \in 0 .. Len(headers_)
    <3>1. headers_ \in Seq(SubHeader)
      BY DEF FormatInv, ParserInv, PacketTypeOK
    <3> QED  BY <3>1 DEF FormatInv, ParserInv, SpansTileHeader
  <2>4. count \in cuts
    BY <2>1, <2>3 DEF FormatInv, CutsHoldSpans
  <2>5. count # Len(header)
    BY <1>2, <2>2, PacketAssumption DEF FormatInv, ParserInv, PacketTypeOK, HeaderArea, FieldsValid
  <2>6. SubHeaderAt(count)
    BY <2>1, <2>4, <2>5 DEF CutsHeader
  <2> QED  BY <1>2, <2>2, <2>6, RoundChecksTheFormat DEF FormatInv
<1> QED  BY <1>1, <1>2 DEF AcceptsTheFormat

\* A header area is accepted if and only if the format describes it, for every
\* sequence of bytes of every length.
THEOREM ParserDecidesTheFormat == PacketSpec => []AcceptsTheFormat
BY FormatInvariant, OnlyTheFormatAccepted, PTL
-----------------------------------------------------------------------------
\* Sub header i + 1 starts where span i ends; there are no other starts.
LEMMA StartsAreSpanEnds ==
  ASSUME FormatInv, pc = "done"
  PROVE  Starts = {SpanEnd(i - 1) : i \in 1 .. Len(headers_)}
<1> DEFINE ends == {SpanEnd(i) : i \in 0 .. Len(headers_)}
           starts == {SpanEnd(i - 1) : i \in 1 .. Len(headers_)}
<1>1. ends \in SUBSET Offsets /\ CutsHeader(ends)
  BY SpansCutHeader
<1>2. Len(headers_) \in Nat /\ Len(header) = SpanEnd(Len(headers_))
  <2>1. headers_ \in Seq(SubHeader)
    BY DEF FormatInv, ParserInv, PacketTypeOK
  <2>2. FieldsValid /\ Len(header) = header_size_
    BY DEF FormatInv, ParserInv, HeaderArea, FieldsValid
  <2> QED  BY <2>1, <2>2 DEF FormatInv, ParserInv, SpansTileHeader, Outcome
<1>3. ASSUME NEW s \in Starts PROVE s \in starts
  <2>1. s \in ends /\ s # Len(header)
    BY <1>1 DEF Starts
  <2>2. PICK i \in 0 .. Len(headers_) : s = SpanEnd(i)
    BY <2>1
  <2>3. i + 1 \in 1 .. Len(headers_) /\ (i + 1) - 1 = i
    BY <1>2, <2>1, <2>2
  <2> QED  BY <2>2, <2>3
<1>4. ASSUME NEW i \in 1 .. Len(headers_) PROVE SpanEnd(i - 1) \in Starts
  <2>1. i - 1 \in 0 .. Len(headers_) /\ i - 1 < Len(headers_)
    BY <1>2
  <2>2. \A cuts \in SUBSET Offsets : CutsHeader(cuts) => SpanEnd(i - 1) \in cuts
    BY <2>1 DEF FormatInv, CutsHoldSpans
  <2>3. SpanEnd(i - 1) # Len(header)
    <3>1. SpanEnd(i - 1) < SpanEnd(Len(headers_))
      BY <1>2, <2>1 DEF FormatInv, SpansAscend
    <3>2. SpanEnd(i - 1) \in Nat
      BY <2>1, SpanEndNat DEF FormatInv
    <3> QED  BY <1>2, <3>1, <3>2
  <2>4. SpanEnd(i - 1) \in Offsets
    BY <1>1, <2>1
  <2> QED  BY <2>2, <2>3, <2>4 DEF Starts
<1> QED  BY <1>3, <1>4

\* The span found first is the one that starts first.
LEMMA FirstOfIsFirstOnTheWire ==
  ASSUME FormatInv, pc = "done", NEW b \in {10, 11, 12}
  PROVE  /\ FirstOnTheWire(b) = {Value(i) : i \in FirstOf(SubHeaderFromByte(b))}
         /\ \A i \in FirstOf(SubHeaderFromByte(b)) :
              /\ Value(i) \in Seq(Bytes)
              /\ Len(Value(i)) = headers_[i].size
<1> DEFINE type == SubHeaderFromByte(b)
           n == Len(headers_)
           at(i) == SpanEnd(i - 1)
<1>1. /\ n \in Nat /\ headers_ \in Seq(SubHeader) /\ header \in Seq(Bytes)
      /\ \A i \in 1 .. n : headers_[i] \in SubHeader
  <2>1. headers_ \in Seq(SubHeader) /\ header \in Seq(Bytes)
    BY DEF FormatInv, ParserInv, PacketTypeOK
  <2> QED  BY <2>1, ElementOfSeq, LenProperties
<1>2. ASSUME NEW i \in 1 .. n
      PROVE  /\ at(i) \in Nat
             /\ at(i) + 3 \in 1 .. Len(header)
             /\ headers_[i].first = at(i) + 3
             /\ headers_[i].first + headers_[i].size = SubHeaderEnd(at(i))
             /\ SubHeaderEnd(at(i)) <= Len(header)
             /\ headers_[i].type = type <=> header[at(i) + 3] = b
  <2>1. at(i) \in Nat
    BY <1>1, SpanEndNat DEF FormatInv
  <2>2. headers_[i].first = at(i) + 3
    BY DEF FormatInv, ParserInv, SpansTileHeader
  <2>3. /\ SubHeaderAt(at(i))
        /\ SpanEnd(i) = SubHeaderEnd(at(i))
        /\ headers_[i].type = SubHeaderFromByte(header[at(i) + 3])
    BY DEF FormatInv, SpansReadTheWire
  <2>4. SpanEnd(i) = headers_[i].first + headers_[i].size
    BY <1>1 DEF SpanEnd
  <2>5. /\ header[at(i) + 3] \in {10, 11, 12}
        /\ at(i) + 3 <= Len(header)
        /\ SubHeaderEnd(at(i)) <= Len(header)
    BY <2>3 DEF SubHeaderAt
  <2>6. headers_[i].type = type <=> header[at(i) + 3] = b
    BY <2>3, <2>5 DEF SubHeaderFromByte
  <2> QED  BY <1>1, <2>1, <2>2, <2>3, <2>4, <2>5, <2>6
<1>3. \A i \in 1 .. n : SubSeq(header, at(i) + 4, SubHeaderEnd(at(i))) = Value(i)
  <2>1. ASSUME NEW i \in 1 .. n
        PROVE  SubSeq(header, at(i) + 4, SubHeaderEnd(at(i))) = Value(i)
    <3>1. headers_[i].first + 1 = at(i) + 4
      BY <1>2
    <3> QED  BY <1>2, <3>1 DEF Value
  <2> QED  BY <2>1
<1>4. \A i, j \in 1 .. n : i <= j <=> at(i) <= at(j)
  <2>1. ASSUME NEW i \in 1 .. n, NEW j \in 1 .. n, i < j PROVE at(i) < at(j)
    <3>1. i - 1 \in 0 .. n /\ j - 1 \in 0 .. n /\ i - 1 < j - 1
      BY <1>1, <2>1
    <3> QED  BY <3>1 DEF FormatInv, SpansAscend
  <2>2. \A i \in 1 .. n : at(i) \in Nat
    BY <1>2
  <2> HIDE DEF at
  <2> QED  BY <1>1, <2>1, <2>2
<1>5. Starts = {at(i) : i \in 1 .. n}
  BY StartsAreSpanEnds
<1>6. \A i \in 1 .. n :
        i \in FirstOf(type) <=> /\ header[at(i) + 3] = b
                                /\ \A k \in Starts : header[k + 3] = b => at(i) <= k
  <2>1. ASSUME NEW i \in 1 .. n, i \in FirstOf(type)
        PROVE  /\ header[at(i) + 3] = b
               /\ \A k \in Starts : header[k + 3] = b => at(i) <= k
    <3>1. headers_[i].type = type /\ \A j \in 1 .. i - 1 : headers_[j].type # type
      BY <2>1 DEF FirstOf
    <3>2. ASSUME NEW j \in 1 .. n, header[at(j) + 3] = b PROVE at(i) <= at(j)
      <4>1. headers_[j].type = type
        BY <1>2, <3>2
      <4>2. i <= j
        BY <1>1, <3>1, <4>1
      <4> QED  BY <1>4, <4>2
    <3> HIDE DEF at
    <3> QED  BY <1>2, <1>5, <3>1, <3>2
  <2>2. ASSUME NEW i \in 1 .. n, header[at(i) + 3] = b,
               \A k \in Starts : header[k + 3] = b => at(i) <= k
        PROVE  i \in FirstOf(type)
    <3>1. headers_[i].type = type
      BY <1>2, <2>2
    <3>2. ASSUME NEW j \in 1 .. i - 1, headers_[j].type = type PROVE FALSE
      <4>1. j \in 1 .. n /\ ~(i <= j)
        BY <1>1
      <4>2. header[at(j) + 3] = b
        BY <1>2, <3>2, <4>1
      <4>3. at(j) \in Starts
        BY <1>5, <4>1
      <4> QED  BY <1>4, <2>2, <4>1, <4>2, <4>3
    <3> QED  BY <3>1, <3>2 DEF FirstOf
  <2> QED  BY <2>1, <2>2
<1>7. FirstOf(type) \subseteq 1 .. n
  BY DEF FirstOf
<1>8. FirstOnTheWire(b) = {Value(i) : i \in FirstOf(type)}
  <2> DEFINE firsts == {j \in Starts : /\ header[j + 3] = b
                                       /\ \A k \in Starts : header[k + 3] = b => j <= k}
  <2>1. firsts = {at(i) : i \in FirstOf(type)}
    <3> HIDE DEF at
    <3> QED  BY <1>5, <1>6, <1>7
  <2>2. FirstOnTheWire(b) = {SubSeq(header, j + 4, SubHeaderEnd(j)) : j \in firsts}
    BY DEF FirstOnTheWire
  <2> DEFINE text(j) == SubSeq(header, j + 4, SubHeaderEnd(j))
  <2>3. \A i \in FirstOf(type) : text(at(i)) = Value(i)
    BY <1>3, <1>7
  <2>4. {text(j) : j \in firsts} = {Value(i) : i \in FirstOf(type)}
    <3> HIDE DEF firsts, at, text, type
    <3> QED  BY <2>1, <2>3
  <2> QED  BY <2>2, <2>4
<1>9. ASSUME NEW i \in 1 .. n
      PROVE  Value(i) \in Seq(Bytes) /\ Len(Value(i)) = headers_[i].size
  <2>1. /\ headers_[i].first \in Nat /\ headers_[i].size \in Nat
        /\ headers_[i].first + headers_[i].size <= Len(header)
    BY <1>1, <1>2 DEF SubHeader
  <2>2. Len(header) \in Nat
    BY <1>1, LenProperties
  <2> QED  BY <1>1, <2>1, <2>2, SubSeqProperties DEF Value
<1> QED  BY <1>7, <1>8, <1>9

LEMMA GettersReadTheFirst == FormatInv => GettersFollowTheWire
<1> SUFFICES ASSUME FormatInv, pc = "done", NEW b \in {10, 11, 12}
             PROVE  LET type == SubHeaderFromByte(b)
                        first == FirstOnTheWire(b)
                    IN  /\ SubHeaderGetString(type) = first
                        /\ SubHeaderGetUint8(type) = {v[1] : v \in {w \in first : Len(w) = 1}}
                        /\ SubHeaderGetUint32(type) =
                             {v[4] + 256 * v[3] + 65536 * v[2] + 16777216 * v[1] :
                                v \in {w \in first : Len(w) = 4}}
  BY DEF GettersFollowTheWire
<1> DEFINE type == SubHeaderFromByte(b)
           first == FirstOnTheWire(b)
           sized(n) == {i \in FirstOf(type) : headers_[i].size = n}
<1>1. first = {Value(i) : i \in FirstOf(type)}
  BY FirstOfIsFirstOnTheWire
<1>2. \A n : {w \in first : Len(w) = n} = {Value(i) : i \in sized(n)}
  BY <1>1, FirstOfIsFirstOnTheWire
<1>3. SubHeaderGetString(type) = first
  BY <1>1 DEF SubHeaderGetString
<1>4. SubHeaderGetUint8(type) = {v[1] : v \in {w \in first : Len(w) = 1}}
  <2> DEFINE ones == {w \in first : Len(w) = 1}
  <2>1. ones = {Value(i) : i \in sized(1)}
    BY <1>2
  <2>2. {v[1] : v \in ones} = {Value(i)[1] : i \in sized(1)}
    <3> HIDE DEF ones, sized
    <3> QED  BY <2>1
  <2> QED  BY <2>2 DEF SubHeaderGetUint8
<1>5. ASSUME NEW i \in sized(4)
      PROVE  NetworkToHostLong(Value(i)) =
               Value(i)[4] + 256 * Value(i)[3] + 65536 * Value(i)[2] + 16777216 * Value(i)[1]
  <2>1. Value(i) \in Seq(Bytes) /\ Len(Value(i)) = 4
    BY FirstOfIsFirstOnTheWire
  <2>2. ASSUME NEW k \in 1 .. 4 PROVE Value(i)[k] \in Nat
    <3>1. Value(i)[k] \in Bytes
      BY <2>1, ElementOfSeq
    <3> QED  BY <3>1, PacketAssumption
  <2> QED  BY <2>2 DEF NetworkToHostLong
<1>6. SubHeaderGetUint32(type) =
        {v[4] + 256 * v[3] + 65536 * v[2] + 16777216 * v[1] : v \in {w \in first : Len(w) = 4}}
  <2> DEFINE number(v) == v[4] + 256 * v[3] + 65536 * v[2] + 16777216 * v[1]
             fours == {w \in first : Len(w) = 4}
  <2>1. fours = {Value(i) : i \in sized(4)}
    BY <1>2
  <2>2. {number(v) : v \in fours} = {number(Value(i)) : i \in sized(4)}
    <3> HIDE DEF number, fours, sized
    <3> QED  BY <2>1
  <2>3. {NetworkToHostLong(Value(i)) : i \in sized(4)} = {number(Value(i)) : i \in sized(4)}
    <3>1. \A i \in sized(4) : NetworkToHostLong(Value(i)) = number(Value(i))
      BY <1>5
    <3> HIDE DEF number, sized
    <3> QED  BY <3>1
  <2>4. SubHeaderGetUint32(type) = {NetworkToHostLong(Value(i)) : i \in sized(4)}
    BY DEF SubHeaderGetUint32
  <2> QED  BY <2>2, <2>3, <2>4
<1> QED  BY <1>3, <1>4, <1>6

\* The getters return the value of the first sub header of the type on the
\* wire, or nothing, for every packet that is accepted.
THEOREM GettersReadTheWire == PacketSpec => []GettersFollowTheWire
BY FormatInvariant, GettersReadTheFirst, PTL
-----------------------------------------------------------------------------
(***************************************************************************)
(* A step of the parser that does not end a phase consumes bytes of the    *)
(* header area, and SpansTileHeader bounds what there is to consume: this  *)
(* is why no input keeps the constructor busy for ever, fairness aside.    *)
(***************************************************************************)
RoundsConsume == [][pc' = pc => count' >= count + 3]_packetVars

LEMMA StepConsumes == ParserInv /\ [PacketNext]_packetVars => [pc' = pc => count' >= count + 3]_packetVars
<1> SUFFICES ASSUME ParserInv, PacketNext, pc' = pc, packetVars' # packetVars PROVE count' >= count + 3
  OBVIOUS
<1>1. CASE ParseSubHeader
  BY <1>1, NextSubHeaderFits DEF ParseSubHeader
<1>2. CASE ParseFields
  BY <1>2 DEF ParseFields
<1>3. CASE RejectSubHeader
  BY <1>3 DEF RejectSubHeader
<1>4. CASE FinishHeaders
  BY <1>4 DEF FinishHeaders
<1>5. CASE Finished
  BY <1>5 DEF Finished
<1> QED  BY <1>1, <1>2, <1>3, <1>4, <1>5 DEF PacketNext

\* Every round of parseSubHeaders consumes at least the three bytes of a
\* prefix, also for a sub header of size 0.
THEOREM ParserMakesProgress == PacketSpec => RoundsConsume
BY ParserInvariant, StepConsumes, PTL DEF PacketSpec, RoundsConsume
=============================================================================

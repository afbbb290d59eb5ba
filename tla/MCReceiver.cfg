\* thread_count = 2, as in config.json.  Header areas of up to 7 bytes; bodies
\* that end inside the fields, the header and the payload.
CONSTANTS
  ReadSeconds = 1
  IdleSeconds = 2
  ThreadCount = 2
  CtorOutcomes = {"throws", "returns"}
  Bytes = {0, 1, 4, 10, 11}
  MAX_HEADER_SIZE = 7
  MAX_PAYLOAD_SIZE = 12
  BodySizes = {0, 9, 10, 13, 17, 20}
SPECIFICATION MCSpec
INVARIANT NoPendingReadWithoutSession
PROPERTY LifeContract
INVARIANT PacketTypeOK
INVARIANT AreasInBuffer
INVARIANT SpansTileHeader
INVARIANT AcceptsTheFormat
INVARIANT GettersFollowTheWire
INVARIANT CreateRepeatsThePacket
PROPERTY ParserTerminates
CHECK_DEADLOCK FALSE

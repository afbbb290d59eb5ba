\* Seven packets of two sessions and one connection; six contents of en.json.
\* Three packets to send meet in the posts, in the queue and in the write
\* handler; the peer may stop reading.
CONSTANTS
  s1 = s1
  s2 = s2
  Sessions = {s1, s2}
  Logins = {"first", "loose", "wrong", "no_number", "turned", "garbled", "register"}
  WellFormed = {"alice"}
  PoolSize = 1
  MaxCode = 4
  SessionOf <- MCSessionOf
  PacketOf <- MCPackets
  Length <- MCLength
  Users <- MCUsers
  NumberOf <- MCNumberOf
  Collate <- MCCollate
  Contents <- MCContents
  Packets = {p, q}
  MaxPackets = 3
  WriteSeconds = 1
SPECIFICATION SessionsSpec
INVARIANT LoginTypeOK
INVARIANT PoolConserved
INVARIANT RowsAreAuthenticated
INVARIANT TextsOfOneFile
PROPERTY LoginsEnd
INVARIANT TypeOK
INVARIANT NothingLost
INVARIANT QueueIsWritten
INVARIANT DeadlineFollowsWrite
PROPERTY FifoContract
PROPERTY PacketsDelivered
CHECK_DEADLOCK FALSE

\* A request that is valid in every respect
CONSTANTS
  s1 = s1
  s2 = s2
  Sessions = {s1, s2}
  Logins = {"first", "loose", "wrong", "no_number", "turned", "garbled", "register"}
  WellFormed = {"alice"}
  PoolSize = 1
  MaxCode = 4
  SessionOf <- MCSessionOf
  PacketOf <- MCPackets
  Length <- MCLength
  Users <- MCUsers
  NumberOf <- MCNumberOf
  Collate <- MCCollate
  Contents <- MCContents
SPECIFICATION MCSpec
PROPERTY ValidRequestsPass
CHECK_DEADLOCK FALSE

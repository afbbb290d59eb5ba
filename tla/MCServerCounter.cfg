\* A rejection with no session at all.
CONSTANTS
  Conns = {c1, c2}
  MaxSessions = 1
  ThreadCount = 1
  CtorOutcomes = {"returns"}
SPECIFICATION FairSpec
PROPERTY RejectedOnlyWhenFull
CHECK_DEADLOCK FALSE

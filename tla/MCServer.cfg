\* thread_count = 2; two clients more than max_sessions, and a stop signal at
\* any time
CONSTANTS
  Conns = {c1, c2, c3, c4}
  MaxSessions = 2
  ThreadCount = 2
  CtorOutcomes = {"throws", "returns"}
SPECIFICATION FairSpec
INVARIANT TypeOK
INVARIANT CapacityRespected
INVARIANT SessionsTracked
INVARIANT AcceptChainUnbroken
PROPERTY ConnectionsLive
PROPERTY BacklogServed
PROPERTY ShutdownCompletes
CHECK_DEADLOCK FALSE

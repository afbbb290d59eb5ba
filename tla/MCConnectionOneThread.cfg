\* One worker thread; a client may keep a session busy past the idle timeout.
CONSTANTS
  ReadSeconds = 1
  IdleSeconds = 3
  ThreadCount = 1
  CtorOutcomes = {"throws", "returns"}
SPECIFICATION FairSpec
INVARIANT TypeOK
INVARIANT NoGhostSession
INVARIANT PendingReadHasDeadline
PROPERTY StartedSessionStops
PROPERTY StoppedSessionReleased
CHECK_DEADLOCK FALSE

\* thread_count = 2: the session may stop before it is inserted.
CONSTANTS
  ReadSeconds = 1
  IdleSeconds = 2
  ThreadCount = 2
  CtorOutcomes = {"returns"}
SPECIFICATION Spec
INVARIANT StoppedSessionsLeave
CHECK_DEADLOCK FALSE

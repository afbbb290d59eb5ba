\* One worker thread; the deadline is set again while its handler is queued.
CONSTANTS
  ReadSeconds = 1
  IdleSeconds = 2
  ThreadCount = 1
  CtorOutcomes = {"returns"}
SPECIFICATION Spec
INVARIANT ExpiredMeansDeadlinePassed
CHECK_DEADLOCK FALSE

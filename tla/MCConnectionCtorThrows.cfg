\* The constructors as C++17 runs them.
CONSTANTS
  ReadSeconds = 1
  IdleSeconds = 2
  ThreadCount = 1
  CtorOutcomes = {"throws"}
SPECIFICATION Spec
INVARIANT AcceptSurvives
CHECK_DEADLOCK FALSE

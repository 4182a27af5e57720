SPECIFICATION ServerSpec
CONSTANTS
  LastStep = 2
  LoopStep = 2
  SessionStep = 2
  GateCalls = {g1}
INVARIANTS
  NoCallAfterFailure
CHECK_DEADLOCK FALSE

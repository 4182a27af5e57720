SPECIFICATION PartsSpec
CONSTANTS
  LastStep = 4
  LoopStep = 2
  SessionStep = 3
  GateCalls = {g1}
  c1 = c1
  c2 = c2
  c3 = c3
  t = t
  proj = proj
  l1 = l1
  l2 = l2
  t1 = t1
  t2 = t2
  t3 = t3
  Calls = {c1, c2, c3}
  Plans <- SomePlans
  Keys = {t, proj}
  Locks = {l1, l2}
  None = None
  Limit = 2
  BusyLimit = 2
  Backends <- AllBackends
  WriteKinds <- AllKinds
  MaxItems = 2
  MaxCommands = 1
  MaxForeign = 2
INVARIANTS
  ServerInvariant
  LocksInvariant
  GuiInvariant
  WriteInvariant
PROPERTIES
  WriteSteps
  EveryWaitEnds
CHECK_DEADLOCK FALSE

CONSTANTS
  t1 = t1
  t2 = t2
  t3 = t3
  relay1 = relay1
  relay2 = relay2
  server = server
  detached1 = detached1
  detached2 = detached2
  k1 = k1
  g1 = g1
  g2 = g2
  f1 = f1
  a = a
  b = b
  oldA = oldA
  s1 = s1
  s2 = s2
  s3 = s3
  ProgramKeys <- MCProgramKeys
  ReadOnly <- MCReadOnly
  Sessions <- MCSessions
  NoKey = None
  MaxPins = 2
  MaxOrphans = 2
  Threads <- MCThreads
  Stoppable <- MCThreads
  None = None
  Grace = 1
  MaxDepth = 2
  Relays = {relay1, relay2}
  Foreground = {server}
  Detached = {detached1, detached2}
  Forwarded = {k1}
  Ports = {1, 2}
  Groups <- MCGroups
  Nobody = None
  Callers = {g1, g2}
  Files = {f1}
  MaxPrograms = 2
SPECIFICATION SharingSpec
SYMMETRY MCSymmetry
INVARIANTS
  BarrierInvariant
  NoLostWakeup
  RegistryInvariant
  RefusedNeverRuns
  GuiProgramsInvariant
  HandleInvariant
PROPERTIES
  FifoWriters
  LockSpec
  ClosesOnlyUnused
  SuccessMeansSaved

CONSTANTS
  r1 = r1
  r2 = r2
  name = name
  prog = prog
  fp1 = fp1
  fp2 = fp2
  None = None
  Nothing = Nothing
  Ids <- MCIds
  Requests <- Mixed
  MaxId = 3
  c1 = c1
  c2 = c2
  c3 = c3
  CallPrints = {fp1}
  ReqIds = {r1}
  QueueLimit = 1
  HistoryLimit = 1
  PayloadLimit = 2
  Sizes = {0, 2, 3}
  MaxInFlight = 0
  Awaited = {1}
  Sends <- TheSends
  Fingerprint <- Arguments
  ToolOutcomes <- SomeOutcomes
  MaxRuns = 2
  MaxCalls = 2
  MaxStrays = 1
SPECIFICATION JobsOnlySpec
CONSTRAINT Explored
CHECK_DEADLOCK FALSE
INVARIANTS
  QueueInvariant
  RecordsInvariant
  PayloadsFit
  ToolInvariant
  ScriptInvariant
PROPERTIES
  JobsSpec
  QuarantineIsLeftByDiscard

CONSTANTS
  t1 = t1
  t2 = t2
  t3 = t3
  Threads <- MCThreads
  Stoppable = {}
  None = None
  Grace = 1
  MaxDepth = 1
  LongReads = TRUE
SPECIFICATION TimedSpec
INVARIANT OneGraceForAQueuedWriter

CONSTANTS
  c1 = c1
  c2 = c2
  c3 = c3
  x = x
  name = name
  fp = fp
  None = None
  Calls = {c1, c2, c3}
  Claimed = {c1, c2}
  Patient = {c2}
  Slots = 1
  Requests = {c1, c2, c3}
  RequestId <- IdOf
  Threads = 2
  Readers = {c1, c2}
  Bytes <- SomeBytes
  Memory <- SomeMemory
  IndexSize <- SomeIndexes
  MaxEntries = 2
  MaxBytes = 6
  MaxMemory = 7
  MaxAdds = 4
  Texts <- SomeTexts
  Budget = 3
SPECIFICATION CallsSpec
CONSTRAINT OneAtATime
CHECK_DEADLOCK FALSE
INVARIANTS
  SlotInvariant
  OutcomesAreTrue
  AdmissionInvariant
  StoreInvariant
PROPERTIES
  NoOvertaking
  RequestsEnd
  JobsEnd

SPECIFICATION WritesSpec
CONSTANTS
  Backends <- AllBackends
  WriteKinds <- AllKinds
  MaxItems = 2
  MaxCommands = 1
  MaxForeign = 2
PROPERTY StepsOnlyItsOwn
CHECK_DEADLOCK FALSE

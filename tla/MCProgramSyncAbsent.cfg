\* Two edits of one program, peers that bring the repository to version 3 while
\* calls run, and one failing Ghidra call, in two worlds (CarefulWorlds).
CONSTANTS
  e1 = e1
  e2 = e2
  None = None
  Edits = {e1, e2}
  Worlds <- CarefulWorlds
  MaxVersion = 3
  MaxFaults = 1
SPECIFICATION Spec
SYMMETRY EditSymmetry
INVARIANTS
  AbsentMeansUnchanged

\* Two edits of one program, peers that bring the repository to version 2 while
\* calls run, and up to two failing Ghidra calls (FewFaults), in two worlds; two
\* clients of a BSim database, and two that load matches; two projects that may share a file.
CONSTANTS
  e1 = e1
  e2 = e2
  None = None
  Edits = {e1, e2}
  Worlds <- CarefulWorlds
  MaxVersion = 2
  MaxFaults = 2
  x1 = x1
  x2 = x2
  x3 = x3
  f1 = f1
  f2 = f2
  c1 = c1
  c2 = c2
  t1 = t1
  t2 = t2
  p1 = p1
  p2 = p2
  m1 = m1
  m2 = m2
SPECIFICATION OutsideSpec
SYMMETRY EditSymmetry
CONSTRAINT Explored
INVARIANTS
  SyncInvariant
  RepliesAreTrue
  OutsideInvariant
PROPERTIES
  OnlyDiscardLoses
  WritesAreNarrow

CONSTANTS
  t1 = t1
  t2 = t2
  c1 = c1
  c2 = c2
  k = k
  l = l
  p = p
  q = q
  None = None
  Ops <- AllOps
  Targets = {t1, t2}
  Calls = {c1, c2}
  Projects = {k, l}
  Programs = {p, q}
  SessionIds = {1, 2, 3, 4, 5}
  HandleIds = {1, 2, 3, 4, 5}
  LockIds = {1, 2, 3, 4, 5}
  MaxFaults = 2
SPECIFICATION ProjectsSpec
SYMMETRY Symmetry
CONSTRAINT Scope
CHECK_DEADLOCK FALSE
INVARIANTS
  RuntimeInvariant
  
  ProgramsInvariant
  WorkKeepsItsSession

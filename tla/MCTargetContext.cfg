CONSTANTS
  t1 = t1
  t2 = t2
  c1 = c1
  c2 = c2
  k = k
  l = l
  p = p
  q = q
  None = None
  Ops = {"create", "command"}
  Targets = {t1}
  Calls = {c1, c2}
  Projects = {k, l}
  Programs = {p}
  SessionIds = {1, 2, 3, 4, 5}
  HandleIds = {1, 2, 3, 4, 5}
  LockIds = {1, 2, 3, 4, 5}
  MaxFaults = 1
SPECIFICATION Spec
CHECK_DEADLOCK FALSE
INVARIANTS
  SessionsHaveTheirContext

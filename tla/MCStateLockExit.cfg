CONSTANTS
  c1 = c1
  c2 = c2
  c3 = c3
  p1 = p1
  p2 = p2
  p3 = p3
  Calls = {c1, c2, c3}
  Procs = {p1, p2, p3}
  host <- ThreeProcesses
  Mortal = {p1}
  Strong = {p1, p2, p3}
  MaxReuses = 0
  MaxStalls = 0
  Nothing = Nothing
SPECIFICATION LockSpec
INVARIANT
  MutualExclusion

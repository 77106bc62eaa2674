CONSTANTS
  c1 = c1
  c2 = c2
  c3 = c3
  p1 = p1
  p2 = p2
  p3 = p3
  Calls = {c1, c2, c3}
  Procs = {p1, p2}
  host <- OneProcessOfTwoCalls
  Mortal = {p1}
  Strong = {p1, p2}
  MaxReuses = 1
  MaxStalls = 0
  Nothing = Nothing
SPECIFICATION LockSpec
INVARIANTS
  LockTypeOK
  MutualExclusion
  HolderKeepsItsDirectory
PROPERTY
  DeadOwnerIsReclaimed

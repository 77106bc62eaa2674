CONSTANTS
  None = None
  Calls = {c1, c2}
  Threads = {t1, t2}
  Actions = {1, 2}
  MaxAttempt = 2
  MaxLosses = 2
SPECIFICATION Spec
INVARIANTS
  AtMostOneTask
PROPERTIES
  NoLostUpdate
  CreatedTaskIsBound

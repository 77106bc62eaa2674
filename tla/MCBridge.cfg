CONSTANTS
  None = None
  a = a
  b = b
  c = c
  Calls = {a, b, c}
  Mixes <- Few
  Page = 1
  MaxAttempts = 2
SPECIFICATION Spec
INVARIANTS
  WakeOnce
  CertainIsUnapplied
PROPERTY CallsEnd
CHECK_DEADLOCK FALSE

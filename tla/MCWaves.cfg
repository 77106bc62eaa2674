CONSTANTS
  None = None
  a = a
  m = m
  b = b
  c = c
  Slices = {a, c, m, b}
  Kind <- Kinds
  WaveOf <- TwoWaves
  DependsOn <- Needs
  Policies = {"auto", "ask", "keep"}
  Contents = {c1, c2}
  Reported = c1
  Scopes = {0, 1, 2}
  Procs = {p1, p2}
  Archivable = TRUE
  MaxAttempt = 2
  Starts <- Few
SPECIFICATION Spec
INVARIANTS
  ArchiveIsEarned
  RequestedOnce
  CleanedIsEarned
  OfferIsEarned
SYMMETRY Interchangeable
CHECK_DEADLOCK FALSE

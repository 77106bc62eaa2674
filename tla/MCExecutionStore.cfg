CONSTANTS
  None = None
  Callers = {c1, c2}
  Threads = {t1, t2}
  Actions = {a1, a2, a3}
  Initial <- FilesAtFirst
  Specs <- CallerSpecs
  Numbers = {1, 2}
  MaxCrashes = 1
SPECIFICATION Spec
INVARIANTS
  FileValid
  CopyIsCurrent
PROPERTIES
  AtomicMutations
  NothingTakenBack

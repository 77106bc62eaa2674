CONSTANTS
  None = None
  a = a
  b = b
  v = v
  w = w
  Roots = {a, b}
  Main = a
  Releases = {"r1"}
  Earlier = "r0"
  Workers = {v, w}
  Checkouts = {"here", "there"}
  MaxEdits = 1
  MaxFaults = 1
  MaxBoots = 3
SPECIFICATION Spec
SYMMETRY WorkerSymmetry
INVARIANTS
  NoStaleCommit
  OneGenerationCommits

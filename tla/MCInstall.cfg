CONSTANTS
  None = None
  a = a
  b = b
  Roots = {a, b}
  Main = a
  Releases = {"r1", "r2"}
  Earlier = "r0"
  MaxEdits = 1
  MaxFaults = 2
SPECIFICATION InstallSpec
INVARIANTS
  AllOrNothing
  InstalledIsListed
  EditSurvives
  OwnTracesAreSettled
PROPERTIES
  CommitDecides
  Recovers

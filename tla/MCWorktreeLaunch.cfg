CONSTANTS
  None = None
  Runs = {r1, r2}
  Threads = {t1, t2}
  Actions = {launch, manual}
  LaunchAction = launch
  MaxLaunches = 1
  MaxEarlyEnds = 3
SPECIFICATION Spec
INVARIANTS
  OneWriter
  OneOwner
  ProvisionedIsReal
  WriterIsAccountedFor

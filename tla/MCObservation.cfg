CONSTANTS
  None = None
  Malformed = Malformed
  Units = {u1, u2}
  Threads = {u1, u2}
  Actions = {launch}
  Required = {u1, u2}
  Readable = {u1}
  Correctable = {u1}
  Titled = {u2}
  MaxAttempt = 2
  MaxTitleRetries = 0
  MaxConsumed = 3
  Deciders = {d1, d2}
  Envelopes <- OneEnvelope
  MaxHeld = 1
  MaxUserTurns = 0
  MaxTimeouts = 0
  MaxLosses = 0
  MaxRestarts = 0
SPECIFICATION Spec
INVARIANTS
  AcceptedIsDecided
  AcceptedStands
  ContinueIsEarned
SYMMETRY Interchangeable

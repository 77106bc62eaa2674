CONSTANTS
  None = None
  Malformed = Malformed
  Units = {u1}
  Threads = {u1}
  Actions = {launch}
  Required = {u1}
  Readable = {u1}
  Correctable = {u1}
  Titled = {}
  MaxAttempt = 3
  MaxTitleRetries = 0
  MaxConsumed = 1000
  Deciders = {d1}
  Envelopes <- TwoEnvelopes
  MaxHeld = 1
  MaxUserTurns = 1
  MaxTimeouts = 0
  MaxLosses = 1
  MaxRestarts = 1
SPECIFICATION Spec
INVARIANTS
  CheckpointNotAhead
  AttemptsWereDelivered
PROPERTY JoinSettles

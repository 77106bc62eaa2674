CONSTANTS
  None = None
  Calls = {1, 2}
  Intents <- Asked
  Responses <- Said
  BaseSlices = {"x", "y"}
  MaxParallel = 2
  MaxInterrupted = 1
  Starts <- Few
SPECIFICATION Spec
INVARIANTS
  OnePlan
  PlanIsCurrent
  ScheduleIsSafe
PROPERTY PlanningSettles

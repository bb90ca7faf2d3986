SPECIFICATION Spec
CONSTANTS
  Requests = {r1, r2, r3}
  Engines = {e1, e2}
  TokenSteps = 3
INVARIANTS
  QueueIsNeverIdle
  DrainedIsIdle
  ClosedMeansIdle
CHECK_DEADLOCK FALSE

CONSTANTS
  Valve <- OneValve
  Job <- Live
  MaxWindow = 5
  K = 2
  N = 3
  Cooldown = 1
  InOrder = TRUE
  MaxRun = 4
  MaxDie = 2
SPECIFICATION Spec
CHECK_DEADLOCK FALSE
INVARIANTS TypeOK OnePredictionPerWindow
PROPERTY AlertsFollowPredictions

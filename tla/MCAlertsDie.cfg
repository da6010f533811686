CONSTANTS
  Valve <- OneValve
  Job <- Live
  MaxWindow = 3
  K = 2
  N = 3
  Cooldown = 1
  InOrder = TRUE
  MaxRun = 2
  MaxDie = 1
SPECIFICATION Spec
CHECK_DEADLOCK FALSE
INVARIANT PredictedIsProcessed

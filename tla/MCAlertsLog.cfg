CONSTANTS
  Valve <- OneValve
  Job <- Live
  MaxWindow = 4
  K = 1
  N = 2
  Cooldown = 2
  InOrder = FALSE
  MaxRun = 3
  MaxDie = 0
SPECIFICATION FairSpec
CHECK_DEADLOCK FALSE
INVARIANTS LogChained RowSumsUpLog
PROPERTY EventuallyPredicted

CONSTANTS
  Event <- MCEvent
  Date <- MCDate
  DateOf <- MCDateOf
  Malformed = {"bad"}
  FlushRecords = 2
  UseStore = TRUE
  RebuildMayFail = TRUE
  MaxSend = 3
  MaxTime = 0
  MaxStop = 1
  MaxCrash = 1
SPECIFICATION FairSpec
CHECK_DEADLOCK FALSE
PROPERTY EventuallyStored

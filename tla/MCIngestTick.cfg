CONSTANTS
  Event <- MCValid
  Date <- MCDate
  DateOf <- MCDateOf
  Malformed = {}
  FlushRecords = 3
  UseStore = FALSE
  RebuildMayFail = FALSE
  MaxSend = 2
  MaxTime = 0
  MaxStop = 0
  MaxCrash = 0
SPECIFICATION Spec
CHECK_DEADLOCK FALSE
INVARIANT StopsOnlyOnRequest

CONSTANTS
  Event <- MCValid
  Date <- MCDate
  DateOf <- MCDateOf
  Malformed = {}
  FlushRecords = 2
  UseStore = TRUE
  RebuildMayFail = FALSE
  MaxSend = 3
  MaxTime = 1
  MaxStop = 1
  MaxCrash = 1
SPECIFICATION Spec
CHECK_DEADLOCK FALSE
INVARIANTS TypeOK NoDuplicateOnDisk SeenIsKept DiskBeforeMemory LossWindow
PROPERTIES OrderlyStopKeepsAll ImplementsRawLog

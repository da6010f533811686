CONSTANTS
  State = {s1, s2}
  MaxTime = 5
  MaxCrash = 1
  MaxDup = 1
SYMMETRY Symmetry
SPECIFICATION Spec
CHECK_DEADLOCK FALSE
INVARIANTS TypeInvariant RecordedTrue NoSlotTwice OpenRowsPerProcess

CONSTANTS
  Event <- MCEvent
  Date <- OneDate
  DateOf <- OneDateOf
  Key <- MCKey
  KeyOf <- MCKeyOf
  Valve <- MCValve
  ValveOf <- MCValveOf
  AllValves = AllValves
  ValveFilters <- OneValve
  ChunkRows = 1
  MaxTime = 1
  MaxManual = 1
  MaxFail = 0
  MaxRestart = 1
SPECIFICATION Spec
CHECK_DEADLOCK FALSE
INVARIANT NoRowSkipped

CONSTANTS
  Event <- MCEvent
  Date <- MCDate
  DateOf <- MCDateOf
  Key <- MCKey
  KeyOf <- MCKeyOf
  Valve <- MCValve
  ValveOf <- MCValveOf
  AllValves = AllValves
  ValveFilters <- AllRows
  ChunkRows = 1
  MaxTime = 2
  MaxManual = 1
  MaxFail = 1
  MaxRestart = 2
SPECIFICATION FairSpec
CHECK_DEADLOCK FALSE
INVARIANTS TypeOK NoRowSkipped
PROPERTY EventuallyInCycles

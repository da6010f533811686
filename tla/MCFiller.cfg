CONSTANTS
  Valves = {1, 2}
  Phase <- MCPhase
  Rotation = 8
  Zone = 6
  Flush = 1
  Press = 1
  Pause = 1
  Snift = 1
  Silence = 2
  Depress = 1
  Target = 3
  Tolerance = 1
  FillTimeLimit = 3
  SafetyMargin = 2
  TailLimit = 1
  Day <- MCDay
  Transition = 2
  Long = 100
  MaxPulses = 1
  MaxRamp = 2
  EndMs = 22
  MaxCommands = 2
SPECIFICATION Spec
CHECK_DEADLOCK FALSE
INVARIANTS TypeInvariant CyclesAccounted StopInterlock GoodRecordIsFull FillWithinOneZone
PROPERTIES OneCyclePerWindow ScanFollowsReference ReachesHorizon

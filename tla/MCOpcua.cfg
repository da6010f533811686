CONSTANTS
  Valve = {1, 2, 3}
  FaultType = {"restriction", "delay"}
  Delay = {"delay"}
  Ms = 2
  Scenario <- MCScenario
  Exposed = 1
  Payload = {"a", "b"}
  Severity = {1, 3}
  Duration = {0, 1}
  LogCap = 3
  MaxCycle = 3
  MaxInput = 5
SPECIFICATION Spec
CHECK_DEADLOCK FALSE
INVARIANTS TypeInvariant EnvelopeIsItsCycle PublishedOnce EveryCycleAccounted
  ChannelsFollowRegistry GroundTruthTrue ForceMeansFault

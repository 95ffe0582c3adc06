SPECIFICATION Spec
CONSTANTS
  Entities = {"e1", "e2"}
  Zones = {}
  Sensors = {"a"}
  Values = {0, 1}
  RuleIds = {"spike", "nag", "eager", "plain", "flat"}
  Day = 100
  InitialRules <- EventRules
  Reloads = {}
  ReloadPolicies = {}
  LatePolicy = "drop"
  RecomputeLate = TRUE
  InitialWatermark <- Unset
  Offered <- PlainEvents
  MaxTime = 4
  MaxCalls = 4
  NoZone = NoZone
  NoSensor = NoSensor
  NoRule = NoRule
  NoState = NoState
  NoEvent = NoEvent
  NoReload = NoReload
INVARIANTS ProgressWithinClock LateAccounting
PROPERTIES DroppedLeavesNoTrace EmissionsSpaced EpisodesFollowProtocol ExplainAgrees
CHECK_DEADLOCK FALSE

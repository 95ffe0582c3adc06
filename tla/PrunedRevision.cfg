SPECIFICATION HistSpec
CONSTANTS
  Entities = {"e1"}
  Zones = {}
  Sensors = {"a"}
  Values = {0}
  RuleIds = {"hop"}
  Day = 100
  InitialRules <- CountingRules
  Reloads = {}
  ReloadPolicies = {}
  LatePolicy = "drop"
  RecomputeLate = TRUE
  InitialWatermark <- Unset
  Offered <- PlainEvents
  MaxTime = 6
  MaxCalls = 5
  NoZone = NoZone
  NoSensor = NoSensor
  NoRule = NoRule
  NoState = NoState
  NoEvent = NoEvent
  NoReload = NoReload
INVARIANTS RevisionsJustified
CHECK_DEADLOCK FALSE

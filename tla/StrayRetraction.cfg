SPECIFICATION IdSpec
CONSTANTS
  Entities = {"e1"}
  Zones = {}
  Sensors = {"a"}
  Values = {0, 1}
  RuleIds = {"flat"}
  Day = 100
  InitialRules <- EventRules
  Reloads = {}
  ReloadPolicies = {}
  LatePolicy = "drop"
  RecomputeLate = TRUE
  InitialWatermark <- Unset
  Offered <- PlainEvents
  MaxTime = 4
  MaxCalls = 4
  NoZone = NoZone
  NoSensor = NoSensor
  NoRule = NoRule
  NoState = NoState
  NoEvent = NoEvent
  NoReload = NoReload
PROPERTIES RetractionsCorrelated
CHECK_DEADLOCK FALSE

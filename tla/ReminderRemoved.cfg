SPECIFICATION FairSpec
CONSTANTS
  Entities = {"e1"}
  Zones = {}
  Sensors = {"a"}
  Values = {0, 1}
  RuleIds = {"spike"}
  Day = 100
  InitialRules <- RepeatingRules
  Reloads <- ToResolving
  ReloadPolicies = {"preserve"}
  LatePolicy = "drop"
  RecomputeLate = FALSE
  InitialWatermark <- Unset
  Offered <- PlainEvents
  MaxTime = 4
  MaxCalls = 4
  NoZone = NoZone
  NoSensor = NoSensor
  NoRule = NoRule
  NoState = NoState
  NoEvent = NoEvent
  NoReload = NoReload
PROPERTIES CallsReturn
CHECK_DEADLOCK FALSE

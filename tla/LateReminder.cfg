SPECIFICATION Spec
CONSTANTS
  Entities = {"e1"}
  Zones = {}
  Sensors = {"a"}
  Values = {1}
  RuleIds = {"spike"}
  Day = 100
  InitialRules <- LateReminderRules
  Reloads = {}
  ReloadPolicies = {}
  LatePolicy = "drop"
  RecomputeLate = FALSE
  InitialWatermark <- Unset
  Offered <- PlainEvents
  MaxTime = 4
  MaxCalls = 4
  NoZone = NoZone
  NoSensor = NoSensor
  NoRule = NoRule
  NoState = NoState
  NoEvent = NoEvent
  NoReload = NoReload
PROPERTIES ClockNeverRewinds
CHECK_DEADLOCK FALSE

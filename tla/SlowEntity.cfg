SPECIFICATION Spec
CONSTANTS
  Entities = {"e1", "e2"}
  Zones = {}
  Sensors = {"a"}
  Values = {0}
  RuleIds = {"gap"}
  Day = 100
  InitialRules <- AbsenceRules
  Reloads = {}
  ReloadPolicies = {}
  LatePolicy = "drop"
  RecomputeLate = FALSE
  InitialWatermark <- Unset
  Offered <- PlainEvents
  MaxTime = 5
  MaxCalls = 4
  NoZone = NoZone
  NoSensor = NoSensor
  NoRule = NoRule
  NoState = NoState
  NoEvent = NoEvent
  NoReload = NoReload
INVARIANTS AbsenceEpisodeJustified
CHECK_DEADLOCK FALSE

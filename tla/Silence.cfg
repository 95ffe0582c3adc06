SPECIFICATION HistFairSpec
CONSTANTS
  Entities = {"e1"}
  Zones = {}
  Sensors = {"a", "b", "c"}
  Values = {0}
  RuleIds = {"gap", "AND", "OR", "steps"}
  Day = 100
  InitialRules <- SilenceRules
  Reloads = {}
  ReloadPolicies = {}
  LatePolicy = "drop"
  RecomputeLate = FALSE
  InitialWatermark <- Unset
  Offered <- SteppedEvents
  MaxTime = 6
  MaxCalls = 4
  NoZone = NoZone
  NoSensor = NoSensor
  NoRule = NoRule
  NoState = NoState
  NoEvent = NoEvent
  NoReload = NoReload
INVARIANTS NoOverdueTimer AbsenceTracksSilence CompositeTracksSources EpisodeComplete
PROPERTIES ClockNeverRewinds CallsReturn SequenceExact ExplainAgrees
CHECK_DEADLOCK FALSE

SPECIFICATION CheckpointSpec
CONSTANTS
  Entities = {"e1"}
  Zones = {}
  Sensors = {"a"}
  Values = {0}
  RuleIds = {"hop"}
  Day = 100
  InitialRules <- HopRules
  Reloads <- ToOtherWindows
  ReloadPolicies = {"preserve", "reset"}
  LatePolicy = "reject"
  RecomputeLate = TRUE
  InitialWatermark <- Unset
  Offered <- PlainEvents
  MaxTime = 5
  MaxCalls = 4
  NoZone = NoZone
  NoSensor = NoSensor
  NoRule = NoRule
  NoState = NoState
  NoEvent = NoEvent
  NoReload = NoReload
  MaxRaises = 1
  MaxJournal = 2
  NoCheckpoint = NoCheckpoint
INVARIANTS TimersSurvive RecoversExactly
CHECK_DEADLOCK FALSE

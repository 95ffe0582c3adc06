SPECIFICATION HistSpec
CONSTANTS
  Entities = {"e1"}
  Zones = {}
  Sensors = {"a"}
  Values = {0, 1}
  RuleIds = {"hop", "tumble", "recent", "since"}
  Day = 3
  InitialRules <- WindowRules
  Reloads = {}
  ReloadPolicies = {}
  LatePolicy = "drop"
  RecomputeLate = TRUE
  InitialWatermark <- Unset
  Offered <- PlainEvents
  MaxTime = 7
  MaxCalls = 4
  NoZone = NoZone
  NoSensor = NoSensor
  NoRule = NoRule
  NoState = NoState
  NoEvent = NoEvent
  NoReload = NoReload
INVARIANTS TypeOK WindowTimerTracksClock ScheduleTracksClock BufferInOrder BucketsCover PercentileRanked OpenSpanBuffered ClosedVerdictsRight
PROPERTIES PreviewExact
CHECK_DEADLOCK FALSE

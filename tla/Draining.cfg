SPECIFICATION InterruptSpec
CONSTANTS
  Entities = {"e1", "e2"}
  Zones = {"z1"}
  Sensors = {"a"}
  Values = {0, 1, 2}
  RuleIds = {"spike"}
  Day = 100
  InitialRules <- ZoneRules
  Reloads <- ToOtherZones
  ReloadPolicies = {"drain"}
  LatePolicy = "drop"
  RecomputeLate = FALSE
  InitialWatermark <- Unset
  Offered <- ZonedEvents
  MaxTime = 3
  MaxCalls = 4
  NoZone = NoZone
  NoSensor = NoSensor
  NoRule = NoRule
  NoState = NoState
  NoEvent = NoEvent
  NoReload = NoReload
  MaxRaises = 1
INVARIANTS DrainsEndWithEpisodes
PROPERTIES EpisodesEndAnnounced
CHECK_DEADLOCK FALSE

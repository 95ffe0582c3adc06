SPECIFICATION Spec
CONSTANTS
  Requests <- TwoEntities
  Objects = {"second"}
  Alerts = {"a", "b"}
  Adapters = {"stdout", "file", "webhook", "queue", "object_storage"}
  Store = "file"
  MaxRecords = 1
  MaxCalls = 2
  MaxBreaks = 1
  NoCall = NoCall
INVARIANTS DeliveredObjectsKept
CHECK_DEADLOCK FALSE

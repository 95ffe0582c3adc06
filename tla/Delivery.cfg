SPECIFICATION FairSpec
CONSTANTS
  Requests <- EverySink
  Objects = {"second"}
  Alerts = {"a", "b"}
  Adapters = {"stdout", "file", "webhook", "queue", "object_storage"}
  Store = "file"
  MaxRecords = 1
  MaxCalls = 2
  MaxBreaks = 1
  NoCall = NoCall
INVARIANTS TypeOK Accounting LogExact NewestLetters CopiesExplained
PROPERTIES DeliveryFollowsProtocol
CHECK_DEADLOCK FALSE

SPECIFICATION Spec
CONSTANTS
  Pages = {"p1"}
  MaxPolls = 1
  MaxRules = 3
  Limit = 3
  Payloads <- Recorded
  MaxRecords = 7
INVARIANT PageTellsTruly
PROPERTY RefinesBoundedLog
CHECK_DEADLOCK FALSE

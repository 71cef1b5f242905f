SPECIFICATION Spec
CONSTANTS
  Pages = {"p1"}
  MaxPolls = 2
  MaxRules = 2
  Limit = 2
  Payloads <- Recorded
  MaxRecords = 4
INVARIANT PageTellsTruly
CHECK_DEADLOCK FALSE

SPECIFICATION Spec
CONSTANTS
  Pages = {"p1"}
  MaxPolls = 2
  MaxRules = 2
  Limit = 3
  Payloads <- Recorded
  MaxRecords = 2
INVARIANTS RowsInOrder
CHECK_DEADLOCK FALSE

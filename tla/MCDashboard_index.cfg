SPECIFICATION Spec
CONSTANTS
  Pages = {"p1", "p2"}
  MaxPolls = 1
  MaxRules = 3
  Limit = 3
  Payloads <- Recorded
  MaxRecords = 2
INVARIANTS DisarmsWhatItShows
CHECK_DEADLOCK FALSE

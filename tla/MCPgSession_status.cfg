SPECIFICATION Spec
CONSTANTS
  Queries <- FewQueries
  Prepared = {"WRITE", "COMMIT"}
  MaxSent = 4
  MaxAhead = 1
INVARIANT StatusTellsTruth
CHECK_DEADLOCK FALSE

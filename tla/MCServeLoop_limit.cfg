SPECIFICATION Spec
CONSTANTS
  Conns = {"c1"}
  Operators = {}
  Config <- CapThenError
  Armable = {}
  Fireable = {}
  MaxArms = 2
  Limit = 6
  MaxRecords = 5
  Kinds = {"publish"}
INVARIANT CapLetsLimitThrough
CHECK_DEADLOCK FALSE

SPECIFICATION Spec
CONSTANTS
  Conns = {"c1", "c2"}
  Operators = {}
  Config <- FullAtTwo
  Armable = {}
  Fireable = {}
  MaxArms = 1
  Limit = 6
  MaxRecords = 5
  Kinds = {"publish"}
INVARIANT DepthCapHolds
CHECK_DEADLOCK FALSE

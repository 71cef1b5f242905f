SPECIFICATION Spec
CONSTANTS
  Conns = {"c1"}
  Operators = {"o1", "o2"}
  Config <- FailsSecond
  Armable <- LiveRules
  Fireable <- SyntheticPublish
  MaxArms = 3
  Limit = 6
  MaxRecords = 4
  Kinds = {"publish"}
INVARIANT RulesHonoured
CHECK_DEADLOCK FALSE

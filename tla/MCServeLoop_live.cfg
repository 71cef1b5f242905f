SPECIFICATION Spec
CONSTANTS
  Conns = {"c1"}
  Operators = {"o1"}
  Config <- NoRules
  Armable <- LiveRules
  Fireable <- SyntheticPublish
  MaxArms = 1
  Limit = 6
  MaxRecords = 4
  Kinds = {"publish"}
INVARIANT LiveRulesShow
CHECK_DEADLOCK FALSE

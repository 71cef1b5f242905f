SPECIFICATION FairSpec
CONSTANTS
  Conns = {"c1", "c2"}
  Operators = {}
  Config <- Competing
  Armable = {}
  Fireable = {}
  MaxArms = 5
  Limit = 6
  MaxRecords = 5
  Kinds = {"publish", "get", "nack"}
INVARIANTS RulesHonoured LogTellsWhatRan OvershootBounded
PROPERTY EveryOpAnswered
CHECK_DEADLOCK FALSE

SPECIFICATION FairSpec
CONSTANTS
  k1 = k1  x1 = x1  x2 = x2
  Key = {k1}
  Db = {0, 1}
  Item = {x1, x2}
  HighestInt = 1
  Seeds <- TheSeeds
  Script <- TheScript
  MaxLength = 2
  MaxTime = 2
  MaxCommands = 3
INVARIANTS KeysSound AnsweredInTurn
PROPERTIES RefinesCache AllAnswered
CHECK_DEADLOCK FALSE

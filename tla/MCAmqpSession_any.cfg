SPECIFICATION FairSpec
CONSTANTS
  t1 = t1  t2 = t2
  Uses <- TwoChannels
  NoTag = NoTag
  Channel = {1, 2}
  Tag = {t1}
  MaxFrames = 3
  MaxTag = 2
  InFlight = 1
  Unread = 1
INVARIANTS BooksKept NoLostWakeUp ConfirmNamesItsPublish RuleKeeperServed
PROPERTIES CloseAnswered
CHECK_DEADLOCK FALSE

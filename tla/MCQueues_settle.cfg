SPECIFICATION Spec
CONSTANTS
  c1 = c1  c2 = c2  q1 = q1  q2 = q2  e1 = e1  t1 = t1  t2 = t2
  Unnamed = Unnamed
  Conn = {c1}
  Channel = {1}
  Name = {q1}
  Exchange = {}
  Key <- NoKeys
  Tag = {t1, t2}
  TagsOf <- OwnTags
  Prefetch = {1}
  MaxMessages = 2
  MaxQueues = 1
  MaxGenerated = 0
  MaxTag = 3
  MaxBindings = 0
PROPERTY SettleKeepsOrder
CHECK_DEADLOCK FALSE

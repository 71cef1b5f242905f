SPECIFICATION Spec
CONSTANTS
  c1 = c1  c2 = c2  q1 = q1  q2 = q2  e1 = e1  t1 = t1  t2 = t2
  Unnamed = Unnamed
  Conn = {c1}
  Channel = {1}
  Name = {q1}
  Exchange = {e1}
  Key <- TwoKeys
  Tag = {t1, t2}
  TagsOf <- ServerTags
  Prefetch = {1}
  MaxMessages = 1
  MaxQueues = 2
  MaxGenerated = 1
  MaxTag = 2
  MaxBindings = 2
INVARIANTS AtMostOneCopy MatchIsCut
CHECK_DEADLOCK FALSE

SPECIFICATION Spec
CONSTANTS
  c1 = c1  c2 = c2  q1 = q1  q2 = q2  e1 = e1  t1 = t1  t2 = t2
  Unnamed = Unnamed
  Conn = {c1, c2}
  Channel = {1}
  Name = {q1}
  Exchange = {}
  Key <- NoKeys
  Tag = {t1, t2}
  TagsOf <- ServerTags
  Prefetch = {}
  MaxMessages = 1
  MaxQueues = 1
  MaxGenerated = 1
  MaxTag = 2
  MaxBindings = 0
INVARIANT DeadHoldNothing
CHECK_DEADLOCK FALSE

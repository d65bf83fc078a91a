\* One event with annotations for two sessions.
CONSTANTS
  c1 = c1
  c2 = c2
  c3 = c3
  g1 = g1
  Category = {c1, c2}
  Group = {}
  Members <- GroupMembers
  Lists <- TwoLists
  Instance = {i1, i2}
  Tracer = {t1}
  None = None
  MaxDepth = 0
SPECIFICATION Spec
INVARIANT EverySessionAnnotated
CHECK_DEADLOCK FALSE

\* Two sessions: one call writes to both, and their indices are reused, in nested scopes.
CONSTANTS
  c1 = c1
  c2 = c2
  c3 = c3
  g1 = g1
  Category = {c1, c2}
  Group = {}
  Members <- GroupMembers
  Lists <- TwoLists
  Instance = {i1, i2}
  Tracer = {t1}
  None = None
  MaxDepth = 2
SPECIFICATION Spec
SYMMETRY Indices
INVARIANTS TypeOK EventsWanted EventsInterned ScopesBalance
CHECK_DEADLOCK FALSE

\* Nested scopes, with a group of two categories of a second percetto_init.
CONSTANTS
  c1 = c1
  c2 = c2
  c3 = c3
  g1 = g1
  Category = {c1, c2, c3}
  Group = {g1}
  Members <- GroupMembers
  Lists <- PairLists
  Instance = {i1}
  Tracer = {t1}
  None = None
  MaxDepth = 2
SPECIFICATION Spec
SYMMETRY MembersAlike
INVARIANTS EventsInterned ScopesBalance
CHECK_DEADLOCK FALSE

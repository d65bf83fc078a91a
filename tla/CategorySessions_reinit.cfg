\* Two category lists, the second with a group of its own, passed to
\* percetto_init one after the other, with sessions before, between and after.
\* Neither the three categories nor the three groups all fit.
CONSTANTS
  c1 = c1
  c2 = c2
  c3 = c3
  s1 = s1
  g1 = g1
  g2 = g2
  Category = {c1, c2, c3}
  Group = {s1, g1, g2}
  Members <- GroupMembers
  InitLists <- TwoLists
  Configs <- SomeConfigs
  Instance = {i1, i2}
  Registrar = {r1}
  Main = Main
  Muxer = Muxer
  Null = Null
  MaxCategories = 2
  MaxGroups = 2
SPECIFICATION SafeSpec
SYMMETRY Indices
INVARIANTS TypeOK RegistryConsistent MasksExact GroupsReachable GroupsAgreeUnlessRaced
PROPERTIES SlotsWriteOnce BoardSafe
CHECK_DEADLOCK FALSE

\* The documented result of percetto_init against a failed registration.
CONSTANTS
  c1 = c1
  c2 = c2
  c3 = c3
  s1 = s1
  g1 = g1
  g2 = g2
  Category = {c1, c2, c3}
  Group = {s1}
  Members <- GroupMembers
  InitLists <- TwoLists
  Configs <- OneConfig
  Instance = {i1}
  Registrar = {}
  Main = Main
  Muxer = Muxer
  Null = Null
  MaxCategories = 3
  MaxGroups = 1
SPECIFICATION SafeSpec
INVARIANT OkMeansRegistered

CHECK_DEADLOCK FALSE

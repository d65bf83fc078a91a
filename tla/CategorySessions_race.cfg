\* The comments on UpdateGroupCategory against its races with OnSetup and OnStop.
CONSTANTS
  c1 = c1
  c2 = c2
  c3 = c3
  s1 = s1
  g1 = g1
  g2 = g2
  Category = {c1, c2}
  Group = {g1}
  Members <- GroupMembers
  InitLists <- OneList
  Configs <- OneConfig
  Instance = {i1}
  Registrar = {r1}
  Main = Main
  Muxer = Muxer
  Null = Null
  MaxCategories = 2
  MaxGroups = 1
SPECIFICATION SafeSpec
INVARIANT GroupsAgree

CHECK_DEADLOCK FALSE

\* Two threads register a group each while a session comes and goes: the array
\* holds both, every call returns, races are repaired, and the masks implement
\* the session board.  The application may make no further call: no deadlock check.
CONSTANTS
  c1 = c1
  c2 = c2
  c3 = c3
  s1 = s1
  g1 = g1
  g2 = g2
  Category = {c1, c2}
  Group = {g1, g2}
  Members <- GroupMembers
  InitLists <- OneList
  Configs <- OneConfig
  Instance = {i1}
  Registrar = {r1, r2}
  Main = Main
  Muxer = Muxer
  Null = Null
  MaxCategories = 2
  MaxGroups = 2
SPECIFICATION Spec
INVARIANT GroupsReachable
PROPERTIES SlotsWriteOnce CallsReturn RaceRepairedByNextHandler BoardSpec
CHECK_DEADLOCK FALSE

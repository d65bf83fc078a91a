-------------------------- MODULE MCCategorySessions --------------------------
(* Small instances of CategorySessions for TLC.  What a session's             *)
(* configuration enables is what CategoryMatch says.                          *)
EXTENDS CategorySessions, TLC

CONSTANTS c1, c2, c3, s1, g1, g2

\* Two libraries of one process, each with its own category list; the second
\* one brings a group of its own (s1).
TwoLists == {<<c1, c2>>, <<c3, s1>>}
OneList == {<<c1, c2>>}

GroupMembers == [g \in Group |-> IF g = s1 THEN {c1, c3} ELSE {c1, c2}]

\* Category c2 has the tag "slow".
Names == {"", "c1", "c2", "c3", "slow", "debug"}
Match == INSTANCE CategoryMatch WITH
  Name <- Names, PrefixesOf <- [n \in Names |-> {"", n}],
  Slow <- "slow", Debug <- "debug", MaxTags <- 1
Ext(c) ==
  [name |-> CASE c = c1 -> "c1" [] c = c2 -> "c2" [] OTHER -> "c3",
   strings |-> <<Null, IF c = c2 THEN "slow" ELSE Null>>]

Entries(enabledTags, disabledCategories) ==
  [enabled_categories |-> {}, enabled_tags |-> enabledTags,
   disabled_categories |-> disabledCategories, disabled_tags |-> {}]
SlowTag == {[stem |-> "slow", star |-> FALSE]}
AnyName == {[stem |-> "", star |-> TRUE]}

Accepted(cfg) == {c \in Category : Match!IsCategoryEnabled(Ext(c), cfg)}

\* Sessions that enable all but the slow categories, just these, or all.
SomeConfigs ==
  {Accepted(Entries({}, {})), Accepted(Entries(SlowTag, AnyName)),
   Accepted(Entries(SlowTag, {}))}
OneConfig == {Accepted(Entries(SlowTag, {}))}

\* Perfetto's indices are interchangeable.
Indices == Permutations(Instance)
===============================================================================

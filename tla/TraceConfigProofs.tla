-------------------------- MODULE TraceConfigProofs --------------------------
(* Theorems about the choice of categories, for any names and entries. *)
EXTENDS TraceConfig, TLAPS

\* A configuration always consists of four lists of patterns.
THEOREM TypeCorrect == Spec => []TypeOK
<1>1. Init => TypeOK
  BY DEF Init, TypeOK, Config
<1>2. TypeOK /\ [Next]_config => TypeOK'
  <2> SUFFICES ASSUME TypeOK, [Next]_config PROVE TypeOK'
    OBVIOUS
  <2>1. CASE UNCHANGED config
    BY <2>1 DEF TypeOK
  <2>2. ASSUME NEW k \in Kind, NEW p \in Entries[k], AddEntry(k, p) PROVE TypeOK'
    BY <2>2, ExtAssumption DEF AddEntry, TypeOK, Config
  <2>3. QED
    BY <2>1, <2>2 DEF Next
<1>3. QED
  BY <1>1, <1>2, PTL DEF Spec

-----------------------------------------------------------------------------
(* Matching *)

\* In the exact pass an entry matches if it is the string.
LEMMA ExactMatch ==
  ASSUME NEW P, NEW n
  PROVE  NameMatchesPatternList(P, n, "exact") <=> \E p \in P : ~p.star /\ p.stem = n
BY DEF NameMatchesPatternList, NameMatchesPattern

\* In the second pass it also matches if the string begins with it.
LEMMA PatternMatch ==
  ASSUME NEW P, NEW n
  PROVE  NameMatchesPatternList(P, n, "pattern") <=>
           \E p \in P : IF p.star THEN p.stem \in PrefixesOf[n] ELSE p.stem = n
BY DEF NameMatchesPatternList, NameMatchesPattern

LEMMA ExactTagMatch ==
  ASSUME NEW P, NEW c
  PROVE  HasMatchingTag(P, c, "exact") <=> \E p \in P : ~p.star /\ p.stem \in Tags(c)
BY ExactMatch DEF HasMatchingTag

\* More patterns match more.
LEMMA MatchMonotone ==
  ASSUME NEW P, NEW Q, P \subseteq Q, NEW c, NEW type
  PROVE  /\ NameMatchesPatternList(P, c.name, type) => NameMatchesPatternList(Q, c.name, type)
         /\ HasMatchingTag(P, c, type) => HasMatchingTag(Q, c, type)
BY DEF HasMatchingTag, NameMatchesPatternList

-----------------------------------------------------------------------------
(* The properties of every configuration *)

\* Slow and debug categories stay off unless an entry is for them: they match a
\* default tag in the exact pass, which no pattern precedes.
LEMMA SlowInAnyConfig == SlowNeedsEntry
<1> SUFFICES ASSUME NEW c \in Category, c \in Accepted, SlowOrDebug(c),
                    config["disabled_tags"] = {}
             PROVE  \/ \E p \in config["enabled_categories"] : ~p.star /\ p.stem = Ext[c].name
                    \/ \E p \in config["enabled_tags"] : ~p.star /\ p.stem \in Tags(Ext[c])
  BY DEF SlowNeedsEntry
<1>1. PICK t \in {Slow, Debug} : t \in Tags(Ext[c])
  BY DEF SlowOrDebug
<1>2. [stem |-> t, star |-> FALSE] \in DisabledTags(config)
  BY DEF DisabledTags, DefaultDisabledTags
<1>3. HasMatchingTag(DisabledTags(config), Ext[c], "exact")
  BY <1>1, <1>2, ExactTagMatch
<1>4. EnabledBy(Ext[c], config, "exact")
  BY <1>3 DEF Accepted, IsCategoryEnabled, DisabledBy
<1>5. QED
  BY <1>4, ExactMatch, ExactTagMatch DEF EnabledBy

\* A slow or debug category is enabled by an entry of its own, not by a pattern.
THEOREM SlowCorrect == Spec => []SlowNeedsEntry
BY SlowInAnyConfig, PTL

\* With "*" disabled and only exact entries enabled, the second pass decides
\* nothing but that all other categories are off.
LEMMA AllowListInAnyConfig == AllowListsExact
<1> SUFFICES ASSUME NEW n \in Name, \A m \in Name : n \in PrefixesOf[m],
                    [stem |-> n, star |-> TRUE] \in config["disabled_categories"],
                    Starred("enabled_categories") = {}, Starred("enabled_tags") = {},
                    NEW c \in Category
             PROVE  c \in Accepted <=>
                      \/ \E p \in config["enabled_categories"] : p.stem = Ext[c].name
                      \/ \E p \in config["enabled_tags"] : p.stem \in Tags(Ext[c])
  BY DEF AllowListsExact, AllowList
<1>1. Ext[c].name \in Name
  BY ExtAssumption DEF CategoryExt
<1>2. DisabledBy(Ext[c], config, "pattern")
  BY <1>1, PatternMatch DEF DisabledBy
<1>3. /\ \A p \in config["enabled_categories"] : ~p.star
      /\ \A p \in config["enabled_tags"] : ~p.star
  BY DEF Starred
<1>4. EnabledBy(Ext[c], config, "exact") <=>
        \/ \E p \in config["enabled_categories"] : p.stem = Ext[c].name
        \/ \E p \in config["enabled_tags"] : p.stem \in Tags(Ext[c])
  BY <1>3, ExactMatch, ExactTagMatch DEF EnabledBy
<1>5. EnabledBy(Ext[c], config, "pattern") => EnabledBy(Ext[c], config, "exact")
  <2>1. NameMatchesPatternList(config["enabled_categories"], Ext[c].name, "pattern")
          => \E p \in config["enabled_categories"] : p.stem = Ext[c].name
    BY <1>3, PatternMatch
  <2>2. HasMatchingTag(config["enabled_tags"], Ext[c], "pattern")
          => \E p \in config["enabled_tags"] : p.stem \in Tags(Ext[c])
    BY <1>3, PatternMatch DEF HasMatchingTag
  <2>3. QED
    BY <2>1, <2>2, <1>4 DEF EnabledBy
<1>6. QED
  BY <1>2, <1>4, <1>5 DEF Accepted, IsCategoryEnabled

\* A configuration that disables everything enables just what it names.
THEOREM AllowListCorrect == Spec => []AllowListsExact
BY AllowListInAnyConfig, PTL

\* A default tag never matches the tags of a category that is neither slow nor
\* debug.
LEMMA NoDefaultTag ==
  ASSUME NEW c \in Category, ~SlowOrDebug(c), NEW type \in MatchType
  PROVE  ~HasMatchingTag(DefaultDisabledTags, Ext[c], type)
BY DEF SlowOrDebug, HasMatchingTag, DefaultDisabledTags, NameMatchesPatternList,
       NameMatchesPattern

\* What more entries, in the lists of cfg2, change.
LEMMA DisabledMonotone ==
  ASSUME NEW cfg, NEW cfg2, \A k \in Kind : cfg[k] \subseteq cfg2[k],
         NEW c \in Category, NEW type \in MatchType, DisabledBy(Ext[c], cfg, type),
         cfg["disabled_tags"] # {} \/ ~SlowOrDebug(c)
  PROVE  DisabledBy(Ext[c], cfg2, type)
<1>1. CASE NameMatchesPatternList(cfg["disabled_categories"], Ext[c].name, type)
  BY <1>1, MatchMonotone DEF DisabledBy, Kind
<1>2. CASE HasMatchingTag(DisabledTags(cfg), Ext[c], type)
  <2>1. cfg["disabled_tags"] # {}
    BY <1>2, NoDefaultTag DEF DisabledTags
  <2>2. cfg["disabled_tags"] \subseteq cfg2["disabled_tags"]
    BY DEF Kind
  <2>3. DisabledTags(cfg) \subseteq DisabledTags(cfg2)
    BY <2>1, <2>2 DEF DisabledTags
  <2>4. QED
    BY <1>2, <2>3, MatchMonotone DEF DisabledBy
<1>3. QED
  BY <1>1, <1>2 DEF DisabledBy

LEMMA EnabledMonotone ==
  ASSUME NEW cfg, NEW cfg2, \A k \in Kind : cfg[k] \subseteq cfg2[k], NEW c, NEW type,
         EnabledBy(c, cfg, type)
  PROVE  EnabledBy(c, cfg2, type)
<1>1. /\ cfg["enabled_categories"] \subseteq cfg2["enabled_categories"]
      /\ cfg["enabled_tags"] \subseteq cfg2["enabled_tags"]
  BY DEF Kind
<1>2. QED
  BY <1>1, MatchMonotone DEF EnabledBy

\* A step adds to the lists and takes nothing away.
LEMMA ListsGrow ==
  ASSUME TypeOK, [Next]_config
  PROVE  \A k \in Kind : config[k] \subseteq config'[k]
<1>1. CASE UNCHANGED config
  BY <1>1
<1>2. ASSUME NEW j \in Kind, NEW p \in Entries[j], AddEntry(j, p)
      PROVE  \A k \in Kind : config[k] \subseteq config'[k]
  BY <1>2 DEF AddEntry, TypeOK, Config
<1>3. QED
  BY <1>1, <1>2 DEF Next

\* Enabled entries only enable, and disabled ones only disable, apart from the
\* defaults that the first disabled tag replaces.
THEOREM EntriesAreMonotone == Spec => EntriesMonotone
<1>1. ASSUME TypeOK, [Next]_config,
             config["disabled_categories"] = config'["disabled_categories"],
             config["disabled_tags"] = config'["disabled_tags"]
      PROVE  Accepted \subseteq Accepted'
  <2>1. \A c, type : DisabledBy(c, config, type) <=> DisabledBy(c, config', type)
    BY <1>1 DEF DisabledBy, DisabledTags
  <2>2. \A c, type : EnabledBy(c, config, type) => EnabledBy(c, config', type)
    BY <1>1, ListsGrow, EnabledMonotone
  <2>3. \A c : IsCategoryEnabled(c, config) => IsCategoryEnabled(c, config')
    BY <2>1, <2>2 DEF IsCategoryEnabled
  <2>4. QED
    BY <2>3 DEF Accepted
<1>2. ASSUME TypeOK, [Next]_config,
             config["enabled_categories"] = config'["enabled_categories"],
             config["enabled_tags"] = config'["enabled_tags"],
             NEW c \in Accepted' \ Accepted
      PROVE  config["disabled_tags"] = {} /\ SlowOrDebug(c)
  <2>1. c \in Category /\ IsCategoryEnabled(Ext[c], config')
        /\ ~IsCategoryEnabled(Ext[c], config)
    BY <1>2 DEF Accepted
  <2>2. \A type : EnabledBy(Ext[c], config, type) <=> EnabledBy(Ext[c], config', type)
    BY <1>2 DEF EnabledBy
  <2>3. PICK type \in MatchType :
          DisabledBy(Ext[c], config, type) /\ ~DisabledBy(Ext[c], config', type)
    BY <2>1, <2>2 DEF IsCategoryEnabled, MatchType
  <2>4. QED
    BY <1>2, <2>1, <2>3, ListsGrow, DisabledMonotone
<1>3. TypeOK /\ [Next]_config =>
        [/\ config["disabled_categories"] = config'["disabled_categories"]
            /\ config["disabled_tags"] = config'["disabled_tags"]
            => Accepted \subseteq Accepted'
         /\ config["enabled_categories"] = config'["enabled_categories"]
            /\ config["enabled_tags"] = config'["enabled_tags"]
            => Accepted' \ Accepted \subseteq
                 {c \in Category : config["disabled_tags"] = {} /\ SlowOrDebug(c)}]_config
  <2>1. \A c \in Accepted' : c \in Category
    BY DEF Accepted
  <2>2. QED
    BY <1>1, <1>2, <2>1
<1>4. QED
  BY <1>3, TypeCorrect, PTL DEF Spec, EntriesMonotone

-----------------------------------------------------------------------------
(* The reference definition *)

\* What a category is matched by in list k of the configuration.
Texts(k, c) ==
  IF k \in {"enabled_categories", "disabled_categories"} THEN {Ext[c].name} ELSE Tags(Ext[c])

ExactIn(k, c) == \E p \in Effective[k] : ~p.star /\ p.stem \in Texts(k, c)

StarIn(k, c) ==
  \E p \in Effective[k] : \E n \in Texts(k, c) : p.star /\ p.stem \in PrefixesOf[n]

LEMMA RankIn ==
  ASSUME NEW k \in Kind, NEW c, NEW r
  PROVE  r \in RanksIn(k, c) <=>
           \/ r = ListRank[k] + 0 /\ ExactIn(k, c)
           \/ r = ListRank[k] + 4 /\ StarIn(k, c)
<1>1. ListRank[k] \in Nat
  BY DEF ListRank, Kind
<1>2. /\ Rank["exact"] + ListRank[k] = ListRank[k] + 0
      /\ Rank["pattern"] + ListRank[k] = ListRank[k] + 4
  BY <1>1 DEF Rank
<1>3. RanksIn(k, c) =
        {ListRank[k] + 0 : x \in {p \in Effective[k] : ~p.star /\ p.stem \in Texts(k, c)}}
        \cup {ListRank[k] + 4 :
           x \in {p \in Effective[k] : \E n \in Texts(k, c) : p.star /\ p.stem \in PrefixesOf[n]}}
  BY <1>2, Zenon DEF RanksIn, Texts
<1>4. QED
  BY <1>3, Zenon DEF ExactIn, StarIn

LEMMA RanksAre ==
  ASSUME NEW c, NEW r
  PROVE  r \in RanksOf(c) <=>
           \/ r = 1 /\ ExactIn("enabled_categories", c)
           \/ r = 2 /\ ExactIn("enabled_tags", c)
           \/ r = 3 /\ ExactIn("disabled_categories", c)
           \/ r = 4 /\ ExactIn("disabled_tags", c)
           \/ r = 5 /\ StarIn("enabled_categories", c)
           \/ r = 6 /\ StarIn("enabled_tags", c)
           \/ r = 7 /\ StarIn("disabled_categories", c)
           \/ r = 8 /\ StarIn("disabled_tags", c)
<1>1. r \in RanksOf(c) <=>
        \/ r \in RanksIn("enabled_categories", c) \/ r \in RanksIn("enabled_tags", c)
        \/ r \in RanksIn("disabled_categories", c) \/ r \in RanksIn("disabled_tags", c)
  BY Zenon DEF RanksOf, Kind
<1>2. /\ "enabled_categories" \in Kind /\ "enabled_tags" \in Kind
      /\ "disabled_categories" \in Kind /\ "disabled_tags" \in Kind
  BY DEF Kind
<1>3. /\ ListRank["enabled_categories"] = 1 /\ ListRank["enabled_tags"] = 2
      /\ ListRank["disabled_categories"] = 3 /\ ListRank["disabled_tags"] = 4
  BY DEF ListRank
<1>4. QED
  BY <1>1, <1>2, <1>3, RankIn

LEMMA EnablingRanks ==
  /\ Enabling(1) /\ Enabling(2) /\ Enabling(5) /\ Enabling(6)
  /\ ~Enabling(3) /\ ~Enabling(4) /\ ~Enabling(7) /\ ~Enabling(8)
BY DEF Enabling

\* The eight ranks are the eight tests of IsCategoryEnabled.
LEMMA TestsOfRanks ==
  ASSUME TypeOK, NEW c \in Category
  PROVE  /\ EnabledBy(Ext[c], config, "exact") <=>
              ExactIn("enabled_categories", c) \/ ExactIn("enabled_tags", c)
         /\ DisabledBy(Ext[c], config, "exact") <=>
              ExactIn("disabled_categories", c) \/ ExactIn("disabled_tags", c)
         /\ EnabledBy(Ext[c], config, "pattern") <=>
              \/ ExactIn("enabled_categories", c) \/ ExactIn("enabled_tags", c)
              \/ StarIn("enabled_categories", c) \/ StarIn("enabled_tags", c)
         /\ DisabledBy(Ext[c], config, "pattern") <=>
              \/ ExactIn("disabled_categories", c) \/ ExactIn("disabled_tags", c)
              \/ StarIn("disabled_categories", c) \/ StarIn("disabled_tags", c)
<1>1. /\ Effective["enabled_categories"] = config["enabled_categories"]
      /\ Effective["enabled_tags"] = config["enabled_tags"]
      /\ Effective["disabled_categories"] = config["disabled_categories"]
      /\ Effective["disabled_tags"] = DisabledTags(config)
  BY DEF Effective, TypeOK, Config, Kind
<1>2. ASSUME NEW k \in {"enabled_categories", "disabled_categories"}
      PROVE  /\ NameMatchesPatternList(Effective[k], Ext[c].name, "exact") <=> ExactIn(k, c)
             /\ NameMatchesPatternList(Effective[k], Ext[c].name, "pattern")
                  <=> ExactIn(k, c) \/ StarIn(k, c)
  BY <1>2, ExactMatch, PatternMatch DEF ExactIn, StarIn, Texts
<1>3. ASSUME NEW k \in {"enabled_tags", "disabled_tags"}
      PROVE  /\ HasMatchingTag(Effective[k], Ext[c], "exact") <=> ExactIn(k, c)
             /\ HasMatchingTag(Effective[k], Ext[c], "pattern") <=> ExactIn(k, c) \/ StarIn(k, c)
  <2>1. Texts(k, c) = Tags(Ext[c])
    BY <1>3 DEF Texts
  <2>2. QED
    BY <2>1, ExactTagMatch, PatternMatch DEF ExactIn, StarIn, HasMatchingTag
<1>4. QED
  BY <1>1, <1>2, <1>3 DEF EnabledBy, DisabledBy

\* IsCategoryEnabled is "the first entry in the order of the ranks decides".
LEMMA FirstMatchInAnyConfig == TypeOK => FirstMatchDecides
<1> SUFFICES ASSUME TypeOK, NEW c \in Category
             PROVE  c \in Accepted <=>
                      \A r \in RanksOf(c) :
                        Enabling(r) \/ \E q \in RanksOf(c) : q < r /\ Enabling(q)
  BY DEF FirstMatchDecides
<1>1. c \in Accepted <=> IsCategoryEnabled(Ext[c], config)
  BY DEF Accepted
<1>2. CASE ExactIn("enabled_categories", c) \/ ExactIn("enabled_tags", c)
  <2>1. IsCategoryEnabled(Ext[c], config)
    BY <1>2, TestsOfRanks DEF IsCategoryEnabled
  <2>2. PICK q \in {1, 2} : q \in RanksOf(c)
    BY <1>2, RanksAre
  <2>3. ASSUME NEW r \in RanksOf(c) PROVE Enabling(r) \/ (q < r /\ Enabling(q))
    <3>1. r \in 1 .. 8
      BY <2>3, RanksAre
    <3>2. r \in {1, 2} \/ q < r
      BY <2>2, <3>1
    <3>3. QED
      BY <2>2, <3>2, EnablingRanks
  <2>4. QED
    BY <1>1, <2>1, <2>2, <2>3
<1>3. CASE /\ ~ExactIn("enabled_categories", c) /\ ~ExactIn("enabled_tags", c)
           /\ ExactIn("disabled_categories", c) \/ ExactIn("disabled_tags", c)
  <2>1. ~IsCategoryEnabled(Ext[c], config)
    BY <1>3, TestsOfRanks DEF IsCategoryEnabled
  <2>2. PICK r \in {3, 4} : r \in RanksOf(c)
    BY <1>3, RanksAre
  <2>3. ASSUME NEW q \in RanksOf(c), q < r PROVE ~Enabling(q)
    <3>1. q = 3
      BY <1>3, <2>2, <2>3, RanksAre
    <3>2. QED
      BY <3>1, EnablingRanks
  <2>4. QED
    BY <1>1, <2>1, <2>2, <2>3, EnablingRanks
<1>4. CASE /\ ~ExactIn("enabled_categories", c) /\ ~ExactIn("enabled_tags", c)
           /\ ~ExactIn("disabled_categories", c) /\ ~ExactIn("disabled_tags", c)
  <2>1. \A r \in RanksOf(c) : r \in 5 .. 8
    BY <1>4, RanksAre
  <2>2. CASE StarIn("enabled_categories", c) \/ StarIn("enabled_tags", c)
    <3>1. IsCategoryEnabled(Ext[c], config)
      BY <1>4, <2>2, TestsOfRanks DEF IsCategoryEnabled
    <3>2. PICK q \in {5, 6} : q \in RanksOf(c)
      BY <2>2, RanksAre
    <3>3. ASSUME NEW r \in RanksOf(c) PROVE Enabling(r) \/ (q < r /\ Enabling(q))
      <4>1. r \in {5, 6} \/ q < r
        BY <2>1, <3>2
      <4>2. QED
        BY <3>2, <4>1, EnablingRanks
    <3>4. QED
      BY <1>1, <3>1, <3>2, <3>3
  <2>3. CASE ~StarIn("enabled_categories", c) /\ ~StarIn("enabled_tags", c)
    <3>1. IsCategoryEnabled(Ext[c], config) <=>
            ~StarIn("disabled_categories", c) /\ ~StarIn("disabled_tags", c)
      BY <1>4, <2>3, TestsOfRanks DEF IsCategoryEnabled
    <3>2. \A r \in RanksOf(c) : ~Enabling(r)
      BY <1>4, <2>3, RanksAre, EnablingRanks
    <3>3. RanksOf(c) = {} <=> ~StarIn("disabled_categories", c) /\ ~StarIn("disabled_tags", c)
      BY <1>4, <2>3, RanksAre
    <3>4. QED
      BY <1>1, <3>1, <3>2, <3>3
  <2>4. QED
    BY <2>2, <2>3
<1>5. QED
  BY <1>2, <1>3, <1>4

\* IsCategoryEnabled, with its early returns, answers as the entry of lowest rank.
THEOREM FirstMatchCorrect == Spec => []FirstMatchDecides
BY FirstMatchInAnyConfig, TypeCorrect, PTL
=============================================================================

---------------------------- MODULE CategoryMatch ----------------------------
(* Which categories a session's configuration enables: perfetto-port.cc. *)
EXTENDS Naturals

CONSTANTS
  Name,         \* the strings of category names, tags and patterns
  PrefixesOf,   \* [Name -> SUBSET Name]: the strings a string begins with
  Slow, Debug,  \* the tags that are disabled by default
  Null,
  MaxTags       \* PERCETTO_MAX_CATEGORY_TAGS

ASSUME MatchAssumption ==
  /\ PrefixesOf \in [Name -> SUBSET Name] /\ \A n \in Name : n \in PrefixesOf[n]
  /\ {Slow, Debug} \subseteq Name /\ Null \notin Name
  /\ MaxTags \in Nat

\* A pattern is a string, or with `star` a string followed by "*".
Pattern == [stem : Name, star : BOOLEAN]

\* percetto_category_ext of a named category: strings[1] is its description.
CategoryExt == [name : Name, strings : [1 .. MaxTags + 1 -> Name \cup {Null}]]

\* The four lists of a TrackEventConfig.
Kind == {"enabled_categories", "enabled_tags", "disabled_categories", "disabled_tags"}
Config == [Kind -> SUBSET Pattern]

MatchType == {"exact", "pattern"}

\* Mutant of NameMatchesPattern: the match type is not looked at.
MatchesAnyway(p, n, type) ==
  IF p.star THEN p.stem \in PrefixesOf[n] ELSE p.stem = n

NameMatchesPattern(p, n, type) ==
  IF p.star THEN type = "pattern" /\ p.stem \in PrefixesOf[n] ELSE p.stem = n

NameMatchesPatternList(P, n, type) == \E p \in P : NameMatchesPattern(p, n, type)

\* What OnSetup copies: all strings but the first.
Tags(c) == {c.strings[k] : k \in 2 .. MaxTags + 1} \ {Null}

HasMatchingTag(P, c, type) == \E t \in Tags(c) : NameMatchesPatternList(P, t, type)

DefaultDisabledTags == {[stem |-> t, star |-> FALSE] : t \in {Slow, Debug}}

\* Mutant of DisabledTags: it depends on the enabled tags whether there are defaults.
DefaultsByEnabledTags(cfg) ==
  IF cfg["enabled_tags"] = {} THEN cfg["disabled_tags"] ELSE DefaultDisabledTags

DisabledTags(cfg) ==
  IF cfg["disabled_tags"] = {} THEN DefaultDisabledTags ELSE cfg["disabled_tags"]

EnabledBy(c, cfg, type) ==
  \/ NameMatchesPatternList(cfg["enabled_categories"], c.name, type)
  \/ HasMatchingTag(cfg["enabled_tags"], c, type)

DisabledBy(c, cfg, type) ==
  \/ NameMatchesPatternList(cfg["disabled_categories"], c.name, type)
  \/ HasMatchingTag(DisabledTags(cfg), c, type)

\* Mutant of IsCategoryEnabled: what is disabled is looked at first.
DisabledFirst(c, cfg) ==
  /\ ~DisabledBy(c, cfg, "exact")
  /\ EnabledBy(c, cfg, "exact") \/ ~DisabledBy(c, cfg, "pattern")

\* Exact matches first, then patterns; enabled entries before disabled ones;
\* enabled if nothing matches.
IsCategoryEnabled(c, cfg) ==
  \/ EnabledBy(c, cfg, "exact")
  \/ /\ ~DisabledBy(c, cfg, "exact")
     /\ EnabledBy(c, cfg, "pattern") \/ ~DisabledBy(c, cfg, "pattern")

=============================================================================

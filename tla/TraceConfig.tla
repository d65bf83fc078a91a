----------------------------- MODULE TraceConfig -----------------------------
(***************************************************************************)
(* The configuration of a tracing session, to which its author adds one    *)
(* entry after the other, and what OnSetup makes of it at each point.      *)
(***************************************************************************)
EXTENDS CategoryMatch

CONSTANTS
  Ext,          \* the registered categories: [Category -> CategoryExt]
  Entries       \* [Kind -> SUBSET Pattern]: what may be added to each list

Category == DOMAIN Ext

ASSUME ExtAssumption ==
  /\ Ext \in [Category -> CategoryExt]
  /\ Entries \in Config

VARIABLE config

TypeOK == config \in Config

Init == config = [k \in Kind |-> {}]

AddEntry(k, p) == config' = [config EXCEPT ![k] = @ \cup {p}]

Next == \E k \in Kind : \E p \in Entries[k] : AddEntry(k, p)

Spec == Init /\ [][Next]_config

\* The categories that OnSetup enables.
Accepted == {c \in Category : IsCategoryEnabled(Ext[c], config)}

-----------------------------------------------------------------------------
(* Properties *)

\* The entries that match a category rank by how they match, exactly before by
\* prefix, and then by the list they stand in; the first in that order decides.
Rank == [exact |-> 0, pattern |-> 4]
ListRank == [enabled_categories |-> 1, enabled_tags |-> 2, disabled_categories |-> 3,
             disabled_tags |-> 4]

\* The lists with the defaults filled in.
Effective == [config EXCEPT !["disabled_tags"] = DisabledTags(config)]

\* The ranks at which an entry of list k matches category c.
RanksIn(k, c) ==
  LET Texts == IF k \in {"enabled_categories", "disabled_categories"}
                 THEN {Ext[c].name} ELSE Tags(Ext[c])
  IN  {Rank["exact"] + ListRank[k] :
         x \in {p \in Effective[k] : ~p.star /\ p.stem \in Texts}}
      \cup {Rank["pattern"] + ListRank[k] :
         x \in {p \in Effective[k] : \E n \in Texts : p.star /\ p.stem \in PrefixesOf[n]}}

RanksOf(c) == UNION {RanksIn(k, c) : k \in Kind}

Enabling(r) == r % 4 \in {1, 2}

\* IsCategoryEnabled gives the answer of the first rank that matches, and
\* enables the category if none does.
FirstMatchDecides ==
  \A c \in Category :
    c \in Accepted <=>
      \A r \in RanksOf(c) : Enabling(r) \/ \E q \in RanksOf(c) : q < r /\ Enabling(q)

Starred(k) == {p \in config[k] : p.star}

\* The usual way to pick categories: with "*" disabled and no patterns among
\* the enabled entries, exactly the categories that are named, or have a tag
\* that is named, are enabled.
AllowList(everything) ==
  (everything \in config["disabled_categories"] /\ Starred("enabled_categories") = {}
    /\ Starred("enabled_tags") = {}) =>
  \A c \in Category :
    c \in Accepted <=>
      \/ \E p \in config["enabled_categories"] : p.stem = Ext[c].name
      \/ \E p \in config["enabled_tags"] : p.stem \in Tags(Ext[c])

\* An entry for everything begins with the empty string.
AllowListsExact ==
  \A n \in Name :
    (\A m \in Name : n \in PrefixesOf[m]) => AllowList([stem |-> n, star |-> TRUE])

SlowOrDebug(c) == {Slow, Debug} \cap Tags(Ext[c]) # {}

\* A "slow" or "debug" category is enabled only by an entry for it, or when the
\* configuration lists disabled tags of its own; a pattern that enables others,
\* "*" for example, never enables it.
SlowNeedsEntry ==
  \A c \in Category :
    c \in Accepted /\ SlowOrDebug(c) /\ config["disabled_tags"] = {} =>
      \/ \E p \in config["enabled_categories"] : ~p.star /\ p.stem = Ext[c].name
      \/ \E p \in config["enabled_tags"] : ~p.star /\ p.stem \in Tags(Ext[c])

\* Another enabled entry never disables a category, and another disabled one
\* enables none, except that the first disabled tag takes the place of the
\* defaults and so can enable the categories these had disabled.
EntriesMonotone ==
  [][/\ config["disabled_categories"] = config'["disabled_categories"]
        /\ config["disabled_tags"] = config'["disabled_tags"]
        => Accepted \subseteq Accepted'
     /\ config["enabled_categories"] = config'["enabled_categories"]
        /\ config["enabled_tags"] = config'["enabled_tags"]
        => Accepted' \ Accepted \subseteq
             {c \in Category : config["disabled_tags"] = {} /\ SlowOrDebug(c)}]_config
=============================================================================

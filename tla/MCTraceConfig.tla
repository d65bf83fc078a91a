---------------------------- MODULE MCTraceConfig ----------------------------
(* Categories and entries for TLC, after those of the examples. *)
EXTENDS TraceConfig

\* "gfx" is the beginning of "gfxd", and everything begins with "".
Strings == {"", "gfx", "gfxd", "my", "mytag", "slow", "debug"}
Prefixes ==
  [n \in Strings |-> {"", n} \cup (IF n = "gfxd" THEN {"gfx"} ELSE {})
                        \cup (IF n = "mytag" THEN {"my"} ELSE {})]

\* A category called n with description d and the tags t and u.
ExtOf(n, d, t, u) == [name |-> n, strings |-> <<d, t, u>>]

Categories ==
  [cat |-> ExtOf("gfx", Null, Null, Null), dog |-> ExtOf("gfxd", "slow", Null, "mytag"),
   sly |-> ExtOf("gfxd", Null, "slow", Null), dbg |-> ExtOf("my", Null, "debug", "mytag")]

Exact(n) == [stem |-> n, star |-> FALSE]
Star(n) == [stem |-> n, star |-> TRUE]

SomeEntries ==
  [enabled_categories |-> {Exact("gfxd"), Star("gfx"), Star("")},
   enabled_tags |-> {Exact("slow"), Exact("mytag"), Star("my")},
   disabled_categories |-> {Exact("gfx"), Star("gfx"), Star("")},
   disabled_tags |-> {Exact("mytag"), Exact("slow"), Star("")}]
===============================================================================

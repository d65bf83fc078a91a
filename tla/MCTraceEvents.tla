---------------------------- MODULE MCTraceEvents ----------------------------
(* Small instances of TraceEvents for TLC. *)
EXTENDS TraceEvents, TLC

CONSTANTS c1, c2, c3, g1

GroupMembers == [g \in Group |-> {c2, c3}]
TwoLists == {{c1}, {c2}}
PairLists == {{c1}, {c2, c3}}

Indices == Permutations(Instance)
MembersAlike == Permutations({c2, c3})
=============================================================================

------------------------------- MODULE MCAtrace -------------------------------
(* Small instances of Atrace for TLC. *)
EXTENDS Atrace

CONSTANTS a, b, c, d, n1, n2

\* b has three tags, one more than fit in a group, c a bit that is no tag, d a
\* single tag.
Tags ==
  [s \in Site |-> CASE s = a -> {0, 1} [] s = b -> {0, 1, 2}
                    [] s = c -> {1, 2, 5} [] s = d -> {2}]

\* a and c count under the same name.
Names == [s \in Counter |-> IF s = b THEN n2 ELSE n1]
=============================================================================

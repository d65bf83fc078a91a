-------------------------- MODULE MCProcessIdentity --------------------------
(* Processes of two pid namespaces for TLC. *)
EXTENDS ProcessIdentity

CONSTANTS p1, p2

\* The same pid in two namespaces.
Pids == [p \in Copy |-> 7]
Inodes == [p \in Copy |-> IF p = p1 THEN 1 ELSE 2]

SomeKernels == {SystemClock, {"MONOTONIC"}, {"REALTIME"}, {"MONOTONIC_COARSE"}}

\* The libraries of one process ask for different clocks.
SomeClocks == [p \in Copy |-> IF p = p1 THEN {0, 4, 6} ELSE {0}]

\* Out of range and in it for one process, unset for the other.
Numbers == [p \in Copy |-> IF p = p1 THEN {{-1}, {2}, {7}} ELSE {{}}]
===============================================================================

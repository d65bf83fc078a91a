---------------------------- MODULE SessionBoard ----------------------------
(***************************************************************************)
(* What the category masks promise to the code that reads them, whatever   *)
(* the registration and the handlers do in between: a session publishes    *)
(* its bit in the categories it wants, one category at a time, is live     *)
(* only when all of them carry the bit, and gives its instance index back  *)
(* only when none does.  CategorySessions implements this specification.   *)
(***************************************************************************)

CONSTANTS
  Category,   \* registered categories (struct percetto_category with a name)
  Instance    \* instance indices of the data source: one bit of a mask each

VARIABLES
  mask,       \* [Category -> SUBSET Instance]: the atomic `sessions` words
  phase,      \* [Instance -> Phase]: life cycle of the session on an index
  wanted      \* [Instance -> SUBSET Category]: what the session enables

vars == <<mask, phase, wanted>>

Phase == {"free", "setup", "live", "stop"}

TypeOK ==
  /\ mask \in [Category -> SUBSET Instance]
  /\ phase \in [Instance -> Phase]
  /\ wanted \in [Instance -> SUBSET Category]

Init ==
  /\ mask = [c \in Category |-> {}]
  /\ phase = [i \in Instance |-> "free"]
  /\ wanted = [i \in Instance |-> {}]

\* Sessions are set up and stopped one after the other.
Quiet == \A i \in Instance : phase[i] \in {"free", "live"}

Setup(i, W) ==
  /\ Quiet /\ phase[i] = "free"
  /\ phase' = [phase EXCEPT ![i] = "setup"]
  /\ wanted' = [wanted EXCEPT ![i] = W]
  /\ UNCHANGED mask

\* A session whose configuration cannot be read enables nothing.
Reject(i) ==
  /\ Quiet /\ phase[i] = "free"
  /\ phase' = [phase EXCEPT ![i] = "live"]
  /\ UNCHANGED <<mask, wanted>>

Enable(i, c) ==
  /\ phase[i] = "setup" /\ c \in wanted[i]
  /\ mask' = [mask EXCEPT ![c] = @ \cup {i}]
  /\ UNCHANGED <<phase, wanted>>

Ready(i) ==
  /\ phase[i] = "setup"
  /\ \A c \in wanted[i] : i \in mask[c]
  /\ phase' = [phase EXCEPT ![i] = "live"]
  /\ UNCHANGED <<mask, wanted>>

Stop(i) ==
  /\ Quiet /\ phase[i] = "live"
  /\ phase' = [phase EXCEPT ![i] = "stop"]
  /\ UNCHANGED <<mask, wanted>>

Disable(i, c) ==
  /\ phase[i] = "stop"
  /\ mask' = [mask EXCEPT ![c] = @ \ {i}]
  /\ UNCHANGED <<phase, wanted>>

Release(i) ==
  /\ phase[i] = "stop"
  /\ \A c \in Category : i \notin mask[c]
  /\ phase' = [phase EXCEPT ![i] = "free"]
  /\ wanted' = [wanted EXCEPT ![i] = {}]
  /\ UNCHANGED mask

\* The part of a session's life that is the library's work, not its caller's.
Progress(i) ==
  \/ Ready(i) \/ Release(i)
  \/ \E c \in Category : Enable(i, c) \/ Disable(i, c)

Next ==
  \E i \in Instance :
    \/ \E W \in SUBSET Category : Setup(i, W)
    \/ Reject(i) \/ Stop(i) \/ Progress(i)

SafeSpec == Init /\ [][Next]_vars

Spec == SafeSpec /\ \A i \in Instance : WF_vars(Progress(i))
=============================================================================

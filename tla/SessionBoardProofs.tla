------------------------- MODULE SessionBoardProofs -------------------------
(***************************************************************************)
(* What the session board keeps true.  TraceEvents and CategorySessions    *)
(* implement the board, so their masks keep it as well.                    *)
(***************************************************************************)
EXTENDS SessionBoard, TLAPS

\* A bit says that a session has the index and wants the category.
BitsWanted ==
  \A i \in Instance, c \in Category : i \in mask[c] => phase[i] # "free" /\ c \in wanted[i]

\* A live session misses no category it wants.
LiveComplete ==
  \A i \in Instance, c \in Category : phase[i] = "live" /\ c \in wanted[i] => i \in mask[c]

\* Handlers run one at a time.
OneHandler ==
  \A i, j \in Instance :
    phase[i] \in {"setup", "stop"} /\ phase[j] \in {"setup", "stop"} => i = j

\* An index without a session wants nothing.
FreeWantsNothing == \A i \in Instance : phase[i] = "free" => wanted[i] = {}

BoardInv == TypeOK /\ BitsWanted /\ LiveComplete /\ OneHandler /\ FreeWantsNothing

\* A session's bits are only set while it is being set up and only cleared while
\* it is being stopped, so no reader of a live session's mask sees a bit come or go.
BitsChangeInHandlers ==
  \A i \in Instance, c \in Category :
    /\ i \in mask'[c] /\ i \notin mask[c] => phase[i] = "setup"
    /\ i \in mask[c] /\ i \notin mask'[c] => phase[i] = "stop"

\* An index changes hands only by way of "free", with no bit left on it, and what
\* its session wants is fixed from then on.
IndicesChangeHands ==
  \A i \in Instance :
    wanted'[i] # wanted[i] =>
      /\ phase[i] = "free" \/ phase'[i] = "free"
      /\ \A c \in Category : i \notin mask[c] /\ i \notin mask'[c]

LEMMA BoardInvInit == Init => BoardInv
BY DEF Init, BoardInv, TypeOK, BitsWanted, LiveComplete, OneHandler, FreeWantsNothing, Phase

LEMMA BoardInvStep == BoardInv /\ [Next]_vars => BoardInv'
<1> SUFFICES ASSUME BoardInv, [Next]_vars PROVE BoardInv'
  OBVIOUS
<1> USE DEF BoardInv, TypeOK, BitsWanted, LiveComplete, OneHandler, FreeWantsNothing, Phase
<1>1. ASSUME NEW i \in Instance, NEW W \in SUBSET Category, Setup(i, W) PROVE BoardInv'
  BY <1>1 DEF Setup, Quiet
<1>2. ASSUME NEW i \in Instance, Reject(i) PROVE BoardInv'
  BY <1>2 DEF Reject, Quiet
<1>3. ASSUME NEW i \in Instance, Stop(i) PROVE BoardInv'
  BY <1>3 DEF Stop, Quiet
<1>4. ASSUME NEW i \in Instance, NEW c \in Category, Enable(i, c) PROVE BoardInv'
  BY <1>4 DEF Enable
<1>5. ASSUME NEW i \in Instance, NEW c \in Category, Disable(i, c) PROVE BoardInv'
  BY <1>5 DEF Disable
<1>6. ASSUME NEW i \in Instance, Ready(i) PROVE BoardInv'
  BY <1>6 DEF Ready
<1>7. ASSUME NEW i \in Instance, Release(i) PROVE BoardInv'
  BY <1>7 DEF Release
<1>8. CASE UNCHANGED vars
  BY <1>8 DEF vars
<1> HIDE DEF BoardInv
<1> QED
  BY <1>1, <1>2, <1>3, <1>4, <1>5, <1>6, <1>7, <1>8 DEF Next, Progress

\* The board's masks carry the bits of sessions that want the category, all of
\* them once the session is live, and handlers do not overlap.
THEOREM BoardCorrect == SafeSpec => []BoardInv
BY BoardInvInit, BoardInvStep, PTL DEF SafeSpec

LEMMA BitsStep == BoardInv /\ [Next]_vars => BitsChangeInHandlers
<1> SUFFICES ASSUME BoardInv, [Next]_vars,
                    NEW i \in Instance, NEW c \in Category
             PROVE  /\ i \in mask'[c] /\ i \notin mask[c] => phase[i] = "setup"
                    /\ i \in mask[c] /\ i \notin mask'[c] => phase[i] = "stop"
  BY DEF BitsChangeInHandlers
<1> USE DEF BoardInv, TypeOK
<1>1. ASSUME NEW j \in Instance, NEW d \in Category, Enable(j, d)
      PROVE  /\ i \in mask'[c] /\ i \notin mask[c] => phase[i] = "setup"
             /\ i \in mask[c] => i \in mask'[c]
  BY <1>1 DEF Enable
<1>2. ASSUME NEW j \in Instance, NEW d \in Category, Disable(j, d)
      PROVE  /\ i \in mask[c] /\ i \notin mask'[c] => phase[i] = "stop"
             /\ i \in mask'[c] => i \in mask[c]
  BY <1>2 DEF Disable
<1>3. ASSUME NEW j \in Instance,
             Ready(j) \/ Release(j) \/ Reject(j) \/ Stop(j)
               \/ \E W \in SUBSET Category : Setup(j, W)
      PROVE  mask' = mask
  BY <1>3 DEF Ready, Release, Reject, Stop, Setup
<1>4. CASE UNCHANGED vars
  BY <1>4 DEF vars
<1> QED
  BY <1>1, <1>2, <1>3, <1>4 DEF Next, Progress

\* While a session is live, or an index free, its bits do not change.
THEOREM BitsStable == SafeSpec => [][BitsChangeInHandlers]_vars
BY BoardCorrect, BitsStep, PTL DEF SafeSpec

LEMMA HandsStep == BoardInv /\ [Next]_vars => IndicesChangeHands
<1> SUFFICES ASSUME BoardInv, [Next]_vars, NEW i \in Instance, wanted'[i] # wanted[i]
             PROVE  /\ phase[i] = "free" \/ phase'[i] = "free"
                    /\ \A c \in Category : i \notin mask[c] /\ i \notin mask'[c]
  BY DEF IndicesChangeHands
<1> USE DEF BoardInv, TypeOK
<1>1. ASSUME NEW j \in Instance, NEW W \in SUBSET Category, Setup(j, W)
      PROVE  phase[i] = "free" /\ mask' = mask
  BY <1>1 DEF Setup
<1>2. ASSUME NEW j \in Instance, Release(j)
      PROVE  /\ phase'[i] = "free" /\ mask' = mask
             /\ \A c \in Category : i \notin mask[c]
  BY <1>2 DEF Release
<1>3. ASSUME NEW j \in Instance,
             Ready(j) \/ Reject(j) \/ Stop(j)
               \/ \E c \in Category : Enable(j, c) \/ Disable(j, c)
      PROVE  FALSE
  BY <1>3 DEF Ready, Reject, Stop, Enable, Disable
<1>4. CASE UNCHANGED vars
  BY <1>4 DEF vars
<1> QED
  BY <1>1, <1>2, <1>3, <1>4 DEF Next, Progress, BitsWanted

\* An index is handed to another session without any bit of the last one.
THEOREM IndicesReused == SafeSpec => [][IndicesChangeHands]_vars
BY BoardCorrect, HandsStep, PTL DEF SafeSpec
=============================================================================

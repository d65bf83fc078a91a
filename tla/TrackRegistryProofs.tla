------------------------- MODULE TrackRegistryProofs -------------------------
(***************************************************************************)
(* Proofs about TrackRegistry, for any number of tracks, slots and         *)
(* threads.  The inductive invariant has three layers: where each thread   *)
(* is (TypeInv), what the slots hold and who is about to claim one         *)
(* (SlotsInv), and how far each tracing thread's walk has come (WalkInv).  *)
(***************************************************************************)
EXTENDS TrackRegistry, TLAPS

-----------------------------------------------------------------------------
(* The layers of the inductive invariant *)

ControlOK ==
  /\ \A r \in Registrar : pc[r] # "idle" => track[r] \in Track
  /\ \A r \in Registrar : pc[r] = "claim" => pos[r] < MaxTracks
  /\ \A t \in Tracer :
       tpc[t] = "describe" => ttrack[t] \in Track /\ tpos[t] < MaxTracks

TypeInv == TypeOK /\ ControlOK

\* A track in the array is complete, the array has no holes, and a registrar
\* knows that the slots it has passed are taken.
SlotsInv ==
  /\ \A k \in Slot : tracks[k] # Null =>
       /\ outcome[tracks[k]] = "ok"
       /\ uuid[tracks[k]] = UuidOf(k)
       /\ parentUuid[tracks[k]] = ProcessUuid
  /\ \A x \in Track : outcome[x] = "ok" => \E k \in Slot : tracks[k] = x
  /\ \A j, k \in Slot : j < k /\ tracks[k] # Null => tracks[j] # Null
  /\ \A r \in Registrar :
       /\ pc[r] = "idle" => track[r] = Null
       /\ pc[r] # "idle" =>
            /\ outcome[track[r]] = "none"
            /\ parentUuid[track[r]] = ProcessUuid
            /\ \A k \in Slot : k < pos[r] => tracks[k] # Null
       /\ pc[r] = "claim" => uuid[track[r]] = UuidOf(pos[r])
  /\ \A q, r \in Registrar : q # r /\ track[q] # Null => track[q] # track[r]

\* The set of descriptors D names track x.
Names(D, x) == \E d \in D : d.name = x

\* What a descriptor says is true of the slots a.
Final(a, d) ==
  d.parent = ProcessUuid /\ \E k \in Slot : a[k] = d.name /\ d.uuid = UuidOf(k)

\* The walk of thread t has described the slots before tpos; when it is over,
\* it has described the tracks that were registered when it began.
WalkInv(t) ==
  /\ tpc[t] # "idle" => ~needUpdate[t]
  /\ tpc[t] = "describe" => ttrack[t] = tracks[tpos[t]]
  /\ tpc[t] \in {"load", "describe"} =>
       \A k \in Slot : k < tpos[t] => Names(described[t], tracks[k])
  /\ tpc[t] = "emit" \/ (tpc[t] = "idle" /\ ~needUpdate[t]) =>
       \A x \in known[t] : Names(described[t], x)
  /\ \A d \in described[t] : Final(tracks, d)
  /\ \A x \in known[t] : outcome[x] = "ok"
  /\ needUpdate[t] \/ tpc[t] \in {"load", "describe"} => event[t].track = Null
  /\ tpc[t] \in {"idle", "emit"} => tpos[t] = 0
  /\ target[t] # Null => outcome[target[t]] # "none"
  /\ event[t].track # Null =>
       /\ outcome[event[t].track] # "none"
       /\ outcome[event[t].track] = "ok" => event[t].uuid = uuid[event[t].track]

-----------------------------------------------------------------------------
(* Type correctness *)

LEMMA TypeInvInit == Init => TypeInv
BY TrackAssumption DEF Init, TypeInv, TypeOK, ControlOK, Slot, Uuid, NoUuid, NoEvent

\* The steps of a registrar.
LEMMA RegistrarTypes ==
  ASSUME TypeInv, NEW r \in Registrar,
         RegistrarStep(r) \/ \E x \in Track : RegisterTrack(r, x)
  PROVE  TypeInv'
<1> USE TrackAssumption DEF TypeInv, TypeOK, ControlOK, Slot, Uuid, UuidOf
<1>1. ASSUME NEW x \in Track, RegisterTrack(r, x) PROVE TypeInv'
  BY <1>1 DEF RegisterTrack, EnterRegister, tracerVars
<1>2. CASE StoreUuid(r)
  BY <1>2 DEF StoreUuid, tracerVars
<1>3. CASE ClaimTrackSlot(r)
  BY <1>3 DEF ClaimTrackSlot, Return, tracerVars
<1>4. CASE TrackSlotTaken(r)
  BY <1>4 DEF TrackSlotTaken, registryVars, tracerVars
<1>5. CASE NoTrackSlot(r)
  BY <1>5 DEF NoTrackSlot, Return, tracerVars
<1> QED
  BY <1>1, <1>2, <1>3, <1>4, <1>5 DEF RegistrarStep

\* The steps of a tracing thread.
LEMMA TracerTypes ==
  ASSUME TypeInv, NEW t \in Tracer,
         \/ TracerStep(t) \/ ClearIncrementalState(t)
         \/ \E x \in Track \cup {Null} : TraceTrackEvent(t, x)
  PROVE  TypeInv'
<1> USE TrackAssumption
    DEF TypeInv, TypeOK, ControlOK, Slot, Uuid, registryVars, registrarVars
<1>1. ASSUME NEW x \in Track \cup {Null}, TraceTrackEvent(t, x) PROVE TypeInv'
  <2>1. /\ UNCHANGED <<registryVars, registrarVars, tpos, ttrack, event>>
        /\ target' = [target EXCEPT ![t] = x]
        /\ \/ /\ tpc' = [tpc EXCEPT ![t] = "load"]
              /\ needUpdate' = [needUpdate EXCEPT ![t] = FALSE]
              /\ described' = [described EXCEPT ![t] = {}]
              /\ known' = [known EXCEPT ![t] = {y \in Track : outcome[y] = "ok"}]
           \/ /\ tpc' = [tpc EXCEPT ![t] = "emit"]
              /\ UNCHANGED <<needUpdate, described, known>>
    BY <1>1, Zenon DEF TraceTrackEvent
  <2>2. known' \in [Tracer -> SUBSET Track]
    <3>1. PICK K \in SUBSET Track : known' = [known EXCEPT ![t] = K] \/ known' = known
      BY <2>1, Zenon
    <3>2. known \in [Tracer -> SUBSET Track]
      OBVIOUS
    <3> HIDE DEF TypeInv
    <3> QED
      BY <3>1, <3>2
  <2>3. /\ described' \in [Tracer -> SUBSET Descriptor]
        /\ needUpdate' \in [Tracer -> BOOLEAN]
    BY <2>1
  <2>4. /\ tpc' \in [Tracer -> {"idle", "load", "describe", "emit"}]
        /\ target' \in [Tracer -> Track \cup {Null}]
        /\ \A s \in Tracer : tpc'[s] = "describe" => tpc[s] = "describe"
    BY <2>1
  <2> QED
    BY <2>1, <2>2, <2>3, <2>4
<1>2. CASE ClearIncrementalState(t)
  BY <1>2 DEF ClearIncrementalState, NoEvent, NoUuid
<1>3. CASE LoadTrack(t)
  BY <1>3 DEF LoadTrack, TrackAt
<1>4. CASE DescribeTrack(t)
  <2>1. [name |-> ttrack[t], uuid |-> uuid[ttrack[t]],
         parent |-> parentUuid[ttrack[t]]] \in Descriptor
    BY <1>4 DEF DescribeTrack, Descriptor
  <2> QED
    BY <1>4, <2>1 DEF DescribeTrack
<1>5. CASE TracksDone(t)
  BY <1>5 DEF TracksDone
<1>6. CASE EmitEvent(t)
  BY <1>6 DEF EmitEvent
<1> QED
  BY <1>1, <1>2, <1>3, <1>4, <1>5, <1>6 DEF TracerStep

LEMMA TypeInvStep == TypeInv /\ [Next]_vars => TypeInv'
<1> SUFFICES ASSUME TypeInv, [Next]_vars PROVE TypeInv'
  OBVIOUS
<1>1. CASE UNCHANGED vars
  BY <1>1 DEF vars, registryVars, registrarVars, tracerVars, TypeInv, TypeOK,
     ControlOK
<1> QED
  BY <1>1, RegistrarTypes, TracerTypes DEF Next, Call

\* Every variable keeps its type, whatever the threads do.
THEOREM TypeCorrect == SafeSpec => []TypeOK
<1>1. TypeInv => TypeOK
  BY DEF TypeInv
<1> QED
  BY <1>1, TypeInvInit, TypeInvStep, PTL DEF SafeSpec

-----------------------------------------------------------------------------
(* The slots, and who claims them *)

LEMMA SlotsInvInit == Init => SlotsInv
BY TrackAssumption DEF Init, SlotsInv, Slot

\* A registrar that holds a track is the only one to write its fields, and
\* the track is in no slot yet.
LEMMA RegistrarOwns ==
  ASSUME TypeInv, SlotsInv, NEW r \in Registrar, pc[r] # "idle"
  PROVE  /\ track[r] \in Track
         /\ \A k \in Slot : tracks[k] # track[r]
         /\ \A q \in Registrar : q # r /\ track[q] # Null => track[q] # track[r]
<1>1. track[r] \in Track /\ track[r] # Null
  BY TrackAssumption DEF TypeInv, ControlOK
<1>2. outcome[track[r]] = "none"
  BY DEF SlotsInv
<1>3. \A k \in Slot : tracks[k] # Null => outcome[tracks[k]] = "ok"
  BY DEF SlotsInv
<1>4. \A k \in Slot : tracks[k] # track[r]
  BY <1>1, <1>2, <1>3
<1> QED
  BY <1>1, <1>4 DEF SlotsInv

LEMMA SlotsInvStep == TypeInv /\ SlotsInv /\ [Next]_vars => SlotsInv'
<1> SUFFICES ASSUME TypeInv, SlotsInv, [Next]_vars PROVE SlotsInv'
  OBVIOUS
<1>a. /\ tracks \in [Slot -> Track \cup {Null}] /\ uuid \in [Track -> Uuid]
      /\ parentUuid \in [Track -> {NoUuid, ProcessUuid}]
      /\ outcome \in [Track -> {"none", "ok", "full"}]
      /\ pc \in [Registrar -> {"idle", "store", "claim"}]
      /\ pos \in [Registrar -> 0 .. MaxTracks]
      /\ track \in [Registrar -> Track \cup {Null}]
      /\ MaxTracks \in Nat /\ Null \notin Track
      /\ \A r \in Registrar : pc[r] = "claim" => pos[r] < MaxTracks
  BY TrackAssumption DEF TypeInv, TypeOK, ControlOK
<1>1. ASSUME UNCHANGED <<registryVars, registrarVars>> PROVE SlotsInv'
  BY <1>1 DEF SlotsInv, registryVars, registrarVars
<1>2. ASSUME NEW r \in Registrar, NEW x \in Track, RegisterTrack(r, x)
      PROVE  SlotsInv'
  <2>1. /\ pc[r] = "idle" /\ outcome[x] = "none"
        /\ \A q \in Registrar : track[q] # x
        /\ parentUuid' = [parentUuid EXCEPT ![x] = ProcessUuid]
        /\ pc' = [pc EXCEPT ![r] = "store"] /\ pos' = [pos EXCEPT ![r] = 0]
        /\ track' = [track EXCEPT ![r] = x]
        /\ UNCHANGED <<tracks, uuid, outcome>>
    BY <1>2 DEF RegisterTrack, EnterRegister
  <2>2. \A k \in Slot : tracks[k] # x
    BY <1>a, <2>1 DEF SlotsInv
  <2> QED
    BY <1>a, <2>1, <2>2 DEF SlotsInv, Slot
<1>3. ASSUME NEW r \in Registrar, StoreUuid(r) PROVE SlotsInv'
  <2>1. /\ pc[r] = "store" /\ pos[r] < MaxTracks
        /\ uuid' = [uuid EXCEPT ![track[r]] = UuidOf(pos[r])]
        /\ pc' = [pc EXCEPT ![r] = "claim"]
        /\ UNCHANGED <<tracks, parentUuid, outcome, pos, track>>
    BY <1>3 DEF StoreUuid
  <2>2. /\ track[r] \in Track /\ \A k \in Slot : tracks[k] # track[r]
        /\ \A q \in Registrar : q # r /\ track[q] # Null => track[q] # track[r]
    BY <2>1, RegistrarOwns
  <2>3. \A q \in Registrar : pc[q] # "idle" => track[q] \in Track
    BY DEF TypeInv, ControlOK
  <2> QED
    BY <1>a, <2>1, <2>2, <2>3 DEF SlotsInv
<1>4. ASSUME NEW r \in Registrar, ClaimTrackSlot(r) PROVE SlotsInv'
  <2>1. /\ pc[r] = "claim" /\ tracks[pos[r]] = Null
        /\ tracks' = [tracks EXCEPT ![pos[r]] = track[r]]
        /\ outcome' = [outcome EXCEPT ![track[r]] = "ok"]
        /\ pc' = [pc EXCEPT ![r] = "idle"] /\ pos' = [pos EXCEPT ![r] = 0]
        /\ track' = [track EXCEPT ![r] = Null]
        /\ UNCHANGED <<uuid, parentUuid>>
    BY <1>4 DEF ClaimTrackSlot, Return
  <2>2. /\ track[r] \in Track /\ \A k \in Slot : tracks[k] # track[r]
        /\ \A q \in Registrar : q # r /\ track[q] # Null => track[q] # track[r]
    BY <2>1, RegistrarOwns
  <2>3. pos[r] \in Slot
    BY <1>a, <2>1 DEF Slot
  <2>4. \A j, k \in Slot : j < k /\ tracks'[k] # Null => tracks'[j] # Null
    BY <1>a, <2>1, <2>2, <2>3 DEF SlotsInv
  <2>5. \A q \in Registrar : pc[q] # "idle" => track[q] \in Track
    BY DEF TypeInv, ControlOK
  <2> QED
    BY <1>a, <2>1, <2>2, <2>3, <2>4, <2>5 DEF SlotsInv
<1>5. ASSUME NEW r \in Registrar, TrackSlotTaken(r) PROVE SlotsInv'
  <2>1. /\ pc[r] = "claim" /\ tracks[pos[r]] # Null
        /\ pc' = [pc EXCEPT ![r] = "store"]
        /\ pos' = [pos EXCEPT ![r] = pos[r] + 1]
        /\ UNCHANGED <<tracks, uuid, parentUuid, outcome, track>>
    BY <1>5 DEF TrackSlotTaken, registryVars
  <2> QED
    BY <1>a, <2>1 DEF SlotsInv, Slot
<1>6. ASSUME NEW r \in Registrar, NoTrackSlot(r) PROVE SlotsInv'
  <2>1. /\ pc[r] = "store"
        /\ outcome' = [outcome EXCEPT ![track[r]] = "full"]
        /\ pc' = [pc EXCEPT ![r] = "idle"] /\ pos' = [pos EXCEPT ![r] = 0]
        /\ track' = [track EXCEPT ![r] = Null]
        /\ UNCHANGED <<tracks, uuid, parentUuid>>
    BY <1>6 DEF NoTrackSlot, Return
  <2>2. /\ track[r] \in Track /\ \A k \in Slot : tracks[k] # track[r]
        /\ \A q \in Registrar : q # r /\ track[q] # Null => track[q] # track[r]
    BY <2>1, RegistrarOwns
  <2>3. \A q \in Registrar : pc[q] # "idle" => track[q] \in Track
    BY DEF TypeInv, ControlOK
  <2> QED
    BY <1>a, <2>1, <2>2, <2>3 DEF SlotsInv
<1>7. ASSUME NEW t \in Tracer,
             \/ TracerStep(t) \/ ClearIncrementalState(t)
             \/ \E x \in Track \cup {Null} : TraceTrackEvent(t, x)
      PROVE  UNCHANGED <<registryVars, registrarVars>>
  BY <1>7, Zenon DEF TracerStep, ClearIncrementalState, TraceTrackEvent, LoadTrack,
     DescribeTrack, TracksDone, EmitEvent
<1> QED
  BY <1>1, <1>2, <1>3, <1>4, <1>5, <1>6, <1>7
  DEF Next, Call, RegistrarStep, vars

-----------------------------------------------------------------------------
(* The tracing threads' walk over the array *)

LEMMA WalkInvInit == Init => \A t \in Tracer : WalkInv(t)
BY DEF Init, WalkInv, NoEvent

\* What the walk relies on: a slot, an outcome and the uuid of a registered
\* track do not change any more.
LEMMA RegistryKept ==
  ASSUME TypeInv, SlotsInv, NEW r \in Registrar,
         RegistrarStep(r) \/ \E x \in Track : RegisterTrack(r, x)
  PROVE  /\ \A k \in Slot : tracks[k] # Null => tracks'[k] = tracks[k]
         /\ \A x \in Track : outcome[x] # "none" =>
              outcome'[x] = outcome[x] /\ uuid'[x] = uuid[x]
         /\ UNCHANGED tracerVars
<1>a. /\ tracks \in [Slot -> Track \cup {Null}] /\ uuid \in [Track -> Uuid]
      /\ outcome \in [Track -> {"none", "ok", "full"}]
      /\ pos \in [Registrar -> 0 .. MaxTracks] /\ MaxTracks \in Nat
      /\ pc[r] = "claim" => pos[r] < MaxTracks
  BY TrackAssumption DEF TypeInv, TypeOK, ControlOK
<1>b. pc[r] # "idle" => track[r] \in Track /\ outcome[track[r]] = "none"
  BY DEF TypeInv, ControlOK, SlotsInv
<1>1. ASSUME NEW x \in Track, RegisterTrack(r, x)
      PROVE  UNCHANGED <<tracks, outcome, uuid, tracerVars>>
  BY <1>1 DEF RegisterTrack, EnterRegister
<1>2. ASSUME StoreUuid(r)
      PROVE  /\ UNCHANGED <<tracks, outcome, tracerVars>>
             /\ \A x \in Track : outcome[x] # "none" => uuid'[x] = uuid[x]
  BY <1>2, <1>a, <1>b DEF StoreUuid
<1>3. ASSUME ClaimTrackSlot(r)
      PROVE  /\ \A k \in Slot : tracks[k] # Null => tracks'[k] = tracks[k]
             /\ \A x \in Track : outcome[x] # "none" => outcome'[x] = outcome[x]
             /\ UNCHANGED <<uuid, tracerVars>>
  BY <1>3, <1>a, <1>b DEF ClaimTrackSlot, Return
<1>4. ASSUME TrackSlotTaken(r)
      PROVE  UNCHANGED <<tracks, outcome, uuid, tracerVars>>
  BY <1>4 DEF TrackSlotTaken, registryVars
<1>5. ASSUME NoTrackSlot(r)
      PROVE  /\ \A x \in Track : outcome[x] # "none" => outcome'[x] = outcome[x]
             /\ UNCHANGED <<tracks, uuid, tracerVars>>
  BY <1>5, <1>a, <1>b DEF NoTrackSlot, Return
<1> QED
  BY <1>1, <1>2, <1>3, <1>4, <1>5 DEF RegistrarStep

\* A step of a registrar disturbs no walk.
LEMMA WalkKept ==
  ASSUME TypeInv, SlotsInv, NEW r \in Registrar,
         RegistrarStep(r) \/ \E x \in Track : RegisterTrack(r, x),
         NEW t \in Tracer, WalkInv(t)
  PROVE  WalkInv(t)'
<1>a. /\ \A k \in Slot : tracks[k] # Null => tracks'[k] = tracks[k]
      /\ \A x \in Track : outcome[x] # "none" =>
           outcome'[x] = outcome[x] /\ uuid'[x] = uuid[x]
      /\ UNCHANGED <<tpc, tpos, ttrack, target, needUpdate, described, event, known>>
  BY RegistryKept DEF tracerVars
<1>b. /\ tpc[t] = "describe" => ttrack[t] \in Track /\ tpos[t] \in Slot
      /\ target[t] \in Track \cup {Null} /\ event[t].track \in Track \cup {Null}
      /\ known[t] \subseteq Track /\ \A d \in described[t] : d.name \in Track
      /\ Null \notin Track
  BY TrackAssumption
  DEF TypeInv, TypeOK, ControlOK, Descriptor, Slot
<1>1. \A d \in described[t] : Final(tracks', d)
  BY <1>a, <1>b DEF WalkInv, Final
<1>2. \A k \in Slot : Names(described[t], tracks[k]) => tracks[k] # Null
  BY <1>b DEF Names
<1>3. tpc[t] \in {"load", "describe"} =>
        \A k \in Slot : k < tpos[t] => Names(described[t], tracks'[k])
  BY <1>a, <1>2 DEF WalkInv
<1>4. tpc[t] = "describe" => ttrack[t] = tracks'[tpos[t]]
  BY <1>a, <1>b DEF WalkInv
<1>5. \A x \in known[t] : outcome'[x] = "ok"
  BY <1>a, <1>b DEF WalkInv
<1>6. target[t] # Null => outcome'[target[t]] # "none"
  BY <1>a, <1>b DEF WalkInv
<1>7. event[t].track # Null =>
        /\ outcome'[event[t].track] # "none"
        /\ outcome'[event[t].track] = "ok" => event[t].uuid = uuid'[event[t].track]
  BY <1>a, <1>b DEF WalkInv
<1> QED
  BY <1>a, <1>1, <1>3, <1>4, <1>5, <1>6, <1>7 DEF WalkInv

\* A step of the walking thread itself.
LEMMA WalkStep ==
  ASSUME TypeInv, SlotsInv, NEW t \in Tracer, WalkInv(t),
         \/ TracerStep(t) \/ ClearIncrementalState(t)
         \/ \E x \in Track \cup {Null} : TraceTrackEvent(t, x)
  PROVE  WalkInv(t)'
<1>a. /\ tpc \in [Tracer -> {"idle", "load", "describe", "emit"}]
      /\ tpos \in [Tracer -> 0 .. MaxTracks]
      /\ ttrack \in [Tracer -> Track \cup {Null}]
      /\ target \in [Tracer -> Track \cup {Null}]
      /\ needUpdate \in [Tracer -> BOOLEAN]
      /\ described \in [Tracer -> SUBSET Descriptor]
      /\ event \in [Tracer -> [track : Track \cup {Null}, uuid : Uuid]]
      /\ known \in [Tracer -> SUBSET Track]
      /\ MaxTracks \in Nat /\ Null \notin Track
      /\ tpc[t] = "describe" => ttrack[t] \in Track /\ tpos[t] \in Slot
  BY TrackAssumption DEF TypeInv, TypeOK, ControlOK, Slot
<1>b. \A k \in Slot : tracks[k] # Null =>
        /\ tracks[k] \in Track
        /\ uuid[tracks[k]] = UuidOf(k) /\ parentUuid[tracks[k]] = ProcessUuid
  BY DEF SlotsInv, TypeInv, TypeOK
<1>1. ASSUME NEW x \in Track \cup {Null}, TraceTrackEvent(t, x)
      PROVE  WalkInv(t)'
  <2>1. /\ UNCHANGED <<tracks, uuid, outcome, tpos, ttrack, event>>
        /\ tpc[t] = "idle"
        /\ x # Null => outcome[x] # "none"
        /\ target' = [target EXCEPT ![t] = x]
    BY <1>1, Zenon DEF TraceTrackEvent, registryVars
  <2>2. tpos[t] = 0
    BY <2>1 DEF WalkInv
  <2>3. CASE needUpdate[t]
    <3>1. /\ tpc' = [tpc EXCEPT ![t] = "load"]
          /\ needUpdate' = [needUpdate EXCEPT ![t] = FALSE]
          /\ described' = [described EXCEPT ![t] = {}]
          /\ known' = [known EXCEPT ![t] = {y \in Track : outcome[y] = "ok"}]
      BY <1>1, <2>3, Zenon DEF TraceTrackEvent
    <3>2. tpc'[t] = "load" /\ described'[t] = {} /\ ~needUpdate'[t]
          /\ target'[t] = x /\ \A y \in known'[t] : outcome[y] = "ok"
      BY <1>a, <2>1, <3>1
    <3>3. event[t].track = Null
      BY <2>3 DEF WalkInv
    <3> QED
      BY <1>a, <2>1, <2>2, <3>2, <3>3 DEF WalkInv, Slot
  <2>4. CASE ~needUpdate[t]
    <3>1. tpc' = [tpc EXCEPT ![t] = "emit"] /\ UNCHANGED <<needUpdate, described, known>>
      BY <1>1, <2>4, Zenon DEF TraceTrackEvent
    <3>2. tpc'[t] = "emit" /\ target'[t] = x
      BY <1>a, <2>1, <3>1
    <3> QED
      BY <2>1, <2>2, <2>4, <3>1, <3>2 DEF WalkInv
  <2> QED
    BY <2>3, <2>4
<1>2. CASE ClearIncrementalState(t)
  <2>1. /\ tpc[t] = "idle" /\ needUpdate' = [needUpdate EXCEPT ![t] = TRUE]
        /\ event' = [event EXCEPT ![t] = NoEvent]
        /\ UNCHANGED <<tracks, uuid, outcome, tpc, tpos, ttrack, target, described,
                       known>>
    BY <1>2 DEF ClearIncrementalState, registryVars
  <2>2. needUpdate'[t] /\ event'[t].track = Null
    BY <1>a, <2>1 DEF NoEvent
  <2> QED
    BY <2>1, <2>2 DEF WalkInv
<1>3. CASE LoadTrack(t)
  <2>1. /\ tpc[t] = "load" /\ tpos[t] < MaxTracks
        /\ ttrack' = [ttrack EXCEPT ![t] = tracks[tpos[t]]]
        /\ tpc' = [tpc EXCEPT ![t] = "describe"]
        /\ UNCHANGED <<tracks, uuid, outcome, tpos, target, needUpdate, described,
                       event, known>>
    BY <1>a, <1>3 DEF LoadTrack, TrackAt, registryVars
  <2>2. tpc'[t] = "describe" /\ ttrack'[t] = tracks[tpos[t]]
    BY <1>a, <2>1
  <2> QED
    BY <2>1, <2>2 DEF WalkInv
<1>4. CASE DescribeTrack(t)
  <2> DEFINE d == [name |-> ttrack[t], uuid |-> uuid[ttrack[t]],
                   parent |-> parentUuid[ttrack[t]]]
  <2>1. /\ tpc[t] = "describe"
        /\ described' = [described EXCEPT ![t] = described[t] \cup {d}]
        /\ tpos' = [tpos EXCEPT ![t] = tpos[t] + 1]
        /\ tpc' = [tpc EXCEPT ![t] = "load"]
        /\ UNCHANGED <<tracks, uuid, outcome, target, needUpdate, event, known>>
    BY <1>4 DEF DescribeTrack, registryVars
  <2>2. /\ tpc'[t] = "load" /\ tpos'[t] = tpos[t] + 1
        /\ described'[t] = described[t] \cup {d}
    BY <1>a, <2>1
  <2>3. tpos[t] \in Slot /\ ttrack[t] = tracks[tpos[t]] /\ ttrack[t] # Null
    BY <1>a, <2>1 DEF WalkInv
  <2>4. Final(tracks, d)
    BY <1>b, <2>3 DEF Final
  <2>5. \A e \in described'[t] : Final(tracks, e)
    BY <2>2, <2>4 DEF WalkInv
  <2>6. \A k \in Slot : k < tpos'[t] => Names(described'[t], tracks[k])
    <3>1. Names(described'[t], tracks[tpos[t]])
      <4>1. d \in described'[t] /\ d.name = tracks[tpos[t]]
        BY <2>2, <2>3
      <4> QED
        BY <4>1 DEF Names
    <3>2. \A k \in Slot : k < tpos[t] => Names(described'[t], tracks[k])
      BY <2>1, <2>2 DEF WalkInv, Names
    <3> QED
      <4>1. \A k \in Slot : k < tpos[t] + 1 => k < tpos[t] \/ k = tpos[t]
        BY <2>3, TrackAssumption DEF Slot
      <4> QED
        BY <2>2, <3>1, <3>2, <4>1
  <2> QED
    BY <2>1, <2>2, <2>5, <2>6 DEF WalkInv
<1>5. CASE TracksDone(t)
  <2>1. /\ tpc[t] = "load" /\ TrackAt(tpos[t]) = Null
        /\ tpc' = [tpc EXCEPT ![t] = "emit"] /\ tpos' = [tpos EXCEPT ![t] = 0]
        /\ UNCHANGED <<tracks, uuid, outcome, ttrack, target, needUpdate, described,
                       event, known>>
    BY <1>5 DEF TracksDone, registryVars
  <2>2. tpc'[t] = "emit" /\ tpos'[t] = 0
    BY <1>a, <2>1
  <2>3. \A k \in Slot : tracks[k] # Null => k < tpos[t]
    <3>1. \A j, k \in Slot : j < k /\ tracks[k] # Null => tracks[j] # Null
      BY DEF SlotsInv
    <3>2. tpos[t] \in 0 .. MaxTracks /\ MaxTracks \in Nat
      BY <1>a
    <3>3. tpos[t] < MaxTracks => tracks[tpos[t]] = Null
      BY <2>1 DEF TrackAt
    <3> QED
      BY <3>1, <3>2, <3>3 DEF Slot
  <2>4. \A x \in known[t] : Names(described[t], x)
    <3>1. SUFFICES ASSUME NEW x \in known[t] PROVE Names(described[t], x)
      OBVIOUS
    <3>2. x \in Track /\ outcome[x] = "ok"
      BY <1>a DEF WalkInv
    <3>3. PICK k \in Slot : tracks[k] = x
      BY <3>2 DEF SlotsInv
    <3> QED
      BY <1>a, <2>1, <2>3, <3>2, <3>3 DEF WalkInv
  <2> QED
    BY <2>1, <2>2, <2>4 DEF WalkInv
<1>6. CASE EmitEvent(t)
  <2>1. /\ tpc[t] = "emit" /\ target' = [target EXCEPT ![t] = Null]
        /\ tpc' = [tpc EXCEPT ![t] = "idle"]
        /\ UNCHANGED <<tracks, uuid, outcome, tpos, ttrack, needUpdate, described,
                       known>>
    BY <1>6 DEF EmitEvent, registryVars
  <2>2. event'[t] = IF target[t] = Null THEN event[t]
                    ELSE [track |-> target[t], uuid |-> uuid[target[t]]]
    BY <1>6, <1>a DEF EmitEvent
  <2>3. tpc'[t] = "idle" /\ target'[t] = Null
    BY <1>a, <2>1
  <2>4. event'[t].track # Null =>
          /\ outcome[event'[t].track] # "none"
          /\ outcome[event'[t].track] = "ok" =>
               event'[t].uuid = uuid[event'[t].track]
    BY <2>2 DEF WalkInv
  <2>5. ~needUpdate[t]
    BY <2>1 DEF WalkInv
  <2> QED
    BY <2>1, <2>3, <2>4, <2>5 DEF WalkInv
<1> QED
  BY <1>1, <1>2, <1>3, <1>4, <1>5, <1>6 DEF TracerStep

\* A step of one tracing thread leaves the others alone.
LEMMA WalkAlone ==
  ASSUME TypeInv, NEW s \in Tracer, NEW t \in Tracer, s # t, WalkInv(s),
         \/ TracerStep(t) \/ ClearIncrementalState(t)
         \/ \E x \in Track \cup {Null} : TraceTrackEvent(t, x)
  PROVE  WalkInv(s)'
<1> DEFINE Same ==
      /\ UNCHANGED <<tracks, uuid, outcome>>
      /\ tpc'[s] = tpc[s] /\ tpos'[s] = tpos[s] /\ ttrack'[s] = ttrack[s]
      /\ target'[s] = target[s] /\ needUpdate'[s] = needUpdate[s]
      /\ described'[s] = described[s] /\ event'[s] = event[s] /\ known'[s] = known[s]
<1>1. Same
  <2> USE DEF TypeInv, TypeOK, registryVars
  <2>1. ASSUME NEW x \in Track \cup {Null}, TraceTrackEvent(t, x) PROVE Same
    BY <2>1 DEF TraceTrackEvent
  <2>2. CASE ClearIncrementalState(t)
    BY <2>2 DEF ClearIncrementalState
  <2>3. CASE TracerStep(t)
    BY <2>3 DEF TracerStep, LoadTrack, DescribeTrack, TracksDone, EmitEvent
  <2> QED
    BY <2>1, <2>2, <2>3
<1> QED
  BY <1>1 DEF WalkInv

Inv == TypeInv /\ SlotsInv /\ \A t \in Tracer : WalkInv(t)

LEMMA InvStep == Inv /\ [Next]_vars => Inv'
<1> SUFFICES ASSUME Inv, [Next]_vars PROVE Inv'
  OBVIOUS
<1>1. TypeInv' /\ SlotsInv'
  BY TypeInvStep, SlotsInvStep DEF Inv
<1>2. ASSUME NEW s \in Tracer PROVE WalkInv(s)'
  <2>1. CASE UNCHANGED vars
    BY <2>1 DEF Inv, WalkInv, vars, registryVars, registrarVars, tracerVars
  <2>2. CASE \E r \in Registrar :
               RegistrarStep(r) \/ \E x \in Track : RegisterTrack(r, x)
    BY <2>2, WalkKept DEF Inv
  <2>3. CASE \E t \in Tracer :
               \/ TracerStep(t) \/ ClearIncrementalState(t)
               \/ \E x \in Track \cup {Null} : TraceTrackEvent(t, x)
    BY <2>3, WalkStep, WalkAlone DEF Inv
  <2> QED
    BY <2>1, <2>2, <2>3 DEF Next, Call
<1> QED
  BY <1>1, <1>2 DEF Inv

\* Tracks are never described wrongly, wherever the walk meets a registration.
THEOREM DescriptorsCorrect == SafeSpec => []DescriptorsFinal
<1>1. Init => Inv
  BY TypeInvInit, SlotsInvInit, WalkInvInit DEF Inv
<1>2. Inv => DescriptorsFinal
  BY DEF Inv, WalkInv, Final, DescriptorsFinal
<1> QED
  BY <1>1, <1>2, InvStep, PTL DEF SafeSpec

\* Events of registered tracks reach the trace processor under their name.
THEOREM EventsCorrect == SafeSpec => []EventsResolve
<1>1. Init => Inv
  BY TypeInvInit, SlotsInvInit, WalkInvInit DEF Inv
<1>2. Inv => EventsResolve
  <2> SUFFICES ASSUME Inv, NEW t \in Tracer, event[t].track # Null,
                      outcome[event[t].track] = "ok"
               PROVE  /\ \A s \in Tracer : \A d \in described[s] :
                           d.uuid = event[t].uuid <=> d.name = event[t].track
                      /\ event[t].track \in known[t] =>
                           \E d \in described[t] : d.name = event[t].track
    BY DEF EventsResolve
  <2>1. event[t].uuid = uuid[event[t].track] /\ event[t].track \in Track
    BY DEF Inv, WalkInv, TypeInv, TypeOK
  <2>2. PICK k \in Slot : tracks[k] = event[t].track
    BY <2>1 DEF Inv, SlotsInv
  <2>3. event[t].uuid = UuidOf(k)
    BY <2>1, <2>2, TrackAssumption DEF Inv, SlotsInv
  <2>4. ASSUME NEW s \in Tracer, NEW d \in described[s]
        PROVE  d.uuid = event[t].uuid <=> d.name = event[t].track
    <3>1. PICK j \in Slot : tracks[j] = d.name /\ d.uuid = UuidOf(j)
      BY DEF Inv, WalkInv, Final
    <3>2. tracks[j] # Null
      BY <3>1, TrackAssumption DEF Inv, TypeInv, TypeOK, Descriptor
    <3>3. uuid[d.name] = UuidOf(j)
      BY <3>1, <3>2 DEF Inv, SlotsInv
    <3> QED
      <4>1. UuidOf(j) = UuidOf(k) => j = k
        BY TrackAssumption DEF UuidOf, Slot
      <4> QED
        BY <2>1, <2>2, <2>3, <3>1, <3>3, <4>1
  <2>5. tpc[t] \in {"idle", "emit"} /\ ~needUpdate[t]
    BY DEF Inv, WalkInv, TypeInv, TypeOK
  <2> QED
    BY <2>4, <2>5 DEF Inv, WalkInv, Names
<1> QED
  BY <1>1, <1>2, InvStep, PTL DEF SafeSpec

-----------------------------------------------------------------------------
(* The lock-free registration implements the atomic one *)

LEMMA TableStep == Inv /\ [Next]_vars => [Table!Next]_(Table!vars)
<1> SUFFICES ASSUME Inv, [Next]_vars PROVE Table!Next \/ UNCHANGED Table!vars
  BY DEF Table!vars
<1> USE DEF Table!vars
<1>a. /\ pos \in [Registrar -> 0 .. MaxTracks] /\ MaxTracks \in Nat
      /\ \A r \in Registrar : pc[r] = "claim" => pos[r] < MaxTracks
  BY TrackAssumption DEF Inv, TypeInv, TypeOK, ControlOK
<1>b. \A r \in Registrar : pc[r] # "idle" =>
        /\ track[r] \in Track /\ outcome[track[r]] = "none"
        /\ \A k \in Slot : k < pos[r] => tracks[k] # Null
  BY DEF Inv, TypeInv, ControlOK, SlotsInv
<1>1. ASSUME NEW r \in Registrar, ClaimTrackSlot(r) PROVE Table!Accept(track[r])
  <2>1. /\ pc[r] = "claim" /\ tracks[pos[r]] = Null
        /\ tracks' = [tracks EXCEPT ![pos[r]] = track[r]]
        /\ outcome' = [outcome EXCEPT ![track[r]] = "ok"]
    BY <1>1 DEF ClaimTrackSlot, Return
  <2>2. pos[r] \in Table!Slot /\ Table!Slot = Slot
    BY <1>a, <2>1 DEF Table!Slot, Slot
  <2>3. outcome[track[r]] = "none" /\ \A k \in Slot : k < pos[r] => tracks[k] # Null
    BY <1>b, <2>1
  <2> QED
    BY <2>1, <2>2, <2>3 DEF Table!Accept
<1>2. ASSUME NEW r \in Registrar, NoTrackSlot(r) PROVE Table!Refuse(track[r])
  BY <1>a, <1>b, <1>2 DEF NoTrackSlot, Return, Table!Refuse, Table!Slot, Slot
<1>3. ASSUME NEW r \in Registrar,
             \/ StoreUuid(r) \/ TrackSlotTaken(r)
             \/ \E x \in Track : RegisterTrack(r, x)
      PROVE  UNCHANGED <<tracks, outcome>>
  BY <1>3 DEF StoreUuid, TrackSlotTaken, RegisterTrack, EnterRegister, registryVars
<1>4. ASSUME NEW t \in Tracer,
             \/ TracerStep(t) \/ ClearIncrementalState(t)
             \/ \E x \in Track \cup {Null} : TraceTrackEvent(t, x)
      PROVE  UNCHANGED <<tracks, outcome>>
  BY <1>4, Zenon DEF TracerStep, ClearIncrementalState, TraceTrackEvent, LoadTrack,
     DescribeTrack, TracksDone, EmitEvent, registryVars
<1>5. CASE UNCHANGED vars
  BY <1>5 DEF vars, registryVars
<1>6. ASSUME NEW r \in Registrar, ClaimTrackSlot(r) \/ NoTrackSlot(r)
      PROVE  Table!Next
  <2>1. track[r] \in Track
    BY <1>b, <1>6 DEF ClaimTrackSlot, NoTrackSlot
  <2> QED
    BY <1>1, <1>2, <1>6, <2>1 DEF Table!Next
<1> QED
  BY <1>3, <1>4, <1>5, <1>6 DEF Next, Call, RegistrarStep

\* percetto_register_track, with its probing and its races, is an atomic step.
THEOREM ImplementsTable == SafeSpec => TableSpec
<1>1. Init => Inv
  BY TypeInvInit, SlotsInvInit, WalkInvInit DEF Inv
<1>2. Init => Table!Init
  BY DEF Init, Table!Init, Table!Slot, Slot
<1> QED
  BY <1>1, <1>2, InvStep, TableStep, PTL DEF SafeSpec, TableSpec, Table!Spec

\* What the table keeps true, for the array of tracks.
TableFacts == INSTANCE TrackTableProofs WITH owner <- tracks

LEMMA TableFactsHold == SafeSpec => TableFacts!Spec
<1>1. Table!Init => TableFacts!Init
  BY DEF Table!Init, TableFacts!Init, Table!Slot, TableFacts!Slot
<1>2. [Table!Next]_(Table!vars) => [TableFacts!Next]_(TableFacts!vars)
  BY DEF Table!Next, TableFacts!Next, Table!vars, TableFacts!vars, Table!Accept,
     TableFacts!Accept, Table!Refuse, TableFacts!Refuse, Table!Slot, TableFacts!Slot
<1> QED
  BY <1>1, <1>2, ImplementsTable, PTL DEF TableSpec, Table!Spec, TableFacts!Spec

\* What percetto_register_track has returned is true and stays true, however many
\* calls race: with "ok" the track owns exactly one slot for good, and with "full"
\* every slot is taken.
OutcomesTrue ==
  \A x \in Track :
    /\ outcome[x] = "ok" => \E k \in Slot : \A j \in Slot : tracks[j] = x <=> j = k
    /\ outcome[x] # "ok" => \A k \in Slot : tracks[k] # x
    /\ outcome[x] = "full" => \A k \in Slot : tracks[k] # Null

\* Lifted from the table: the results that percetto_register_track returns are true.
THEOREM OutcomesCorrect == SafeSpec => []OutcomesTrue
<1>1. TableFacts!TableInv => OutcomesTrue
  <2> SUFFICES ASSUME TableFacts!TableInv PROVE OutcomesTrue
    OBVIOUS
  <2>1. TableFacts!Slot = Slot
    BY DEF TableFacts!Slot, Slot
  <2>2. /\ Null \notin Track
        /\ \A k \in Slot : tracks[k] # Null => outcome[tracks[k]] = "ok"
        /\ \A y \in Track : outcome[y] = "ok" => \E k \in Slot : tracks[k] = y
        /\ \A j, k \in Slot : tracks[j] # Null /\ tracks[j] = tracks[k] => j = k
        /\ \A y \in Track : outcome[y] = "full" => \A k \in Slot : tracks[k] # Null
    BY <2>1, TrackAssumption DEF TableFacts!TableInv, TableFacts!OwnersRegistered,
       TableFacts!SlotsDense
  <2>3. ASSUME NEW x \in Track, outcome[x] = "ok"
        PROVE  \E k \in Slot : \A j \in Slot : tracks[j] = x <=> j = k
    <3>1. PICK k \in Slot : tracks[k] = x
      BY <2>2, <2>3
    <3>2. \A j \in Slot : tracks[j] = x <=> j = k
      BY <2>2, <3>1
    <3> QED
      BY <3>2
  <2>4. ASSUME NEW x \in Track, outcome[x] # "ok", NEW k \in Slot PROVE tracks[k] # x
    BY <2>2, <2>4
  <2> QED
    BY <2>2, <2>3, <2>4 DEF OutcomesTrue
<1> QED
  BY <1>1, TableFactsHold, TableFacts!TableCorrect, TrackAssumption, PTL

\* A slot of the array never changes hands, so a tracing thread that walks it
\* while others register describes each track it has passed for good, and the
\* result of a call is final.
SlotsKeep ==
  /\ \A k \in Slot : tracks[k] # Null => tracks'[k] = tracks[k]
  /\ \A x \in Track : outcome[x] # "none" => outcome'[x] = outcome[x]

\* Lifted from the table: slots and results of percetto_register_track are final.
THEOREM SlotsPermanent == SafeSpec => [][SlotsKeep]_vars
<1>1. [TableFacts!TableKept]_(TableFacts!vars) => [SlotsKeep]_vars
  <2>1. TableFacts!Slot = Slot
    BY DEF TableFacts!Slot, Slot
  <2> QED
    BY <2>1 DEF TableFacts!TableKept, TableFacts!vars, SlotsKeep
<1> QED
  BY <1>1, TableFactsHold, TableFacts!TablePermanent, TrackAssumption, PTL

-----------------------------------------------------------------------------
(* Calls are bounded *)

\* The most steps that a call of percetto_register_track has left: a store and
\* an exchange for each slot, and the return.
StepsLeft(r) ==
  CASE pc[r] = "store" -> 2 * (MaxTracks - pos[r]) + 1
    [] pc[r] = "claim" -> 2 * (MaxTracks - pos[r])
    [] OTHER -> 0

\* The same for an event: a load and a descriptor for each slot, the load of the
\* end, and the event.
EventStepsLeft(t) ==
  CASE tpc[t] = "load" -> 2 * (MaxTracks - tpos[t]) + 2
    [] tpc[t] = "describe" -> 2 * (MaxTracks - tpos[t]) + 1
    [] tpc[t] = "emit" -> 1
    [] OTHER -> 0

StepsBounded ==
  /\ \A r \in Registrar : StepsLeft(r) \in 0 .. 2 * MaxTracks + 1
  /\ \A t \in Tracer : EventStepsLeft(t) \in 0 .. 2 * MaxTracks + 2

\* Each step of a thread brings its call nearer to the return, and no step of
\* another thread takes it further away.
CallsAdvance ==
  /\ \A r \in Registrar :
       /\ RegistrarStep(r) => StepsLeft(r)' < StepsLeft(r)
       /\ pc[r] # "idle" => StepsLeft(r)' <= StepsLeft(r)
  /\ \A t \in Tracer :
       /\ TracerStep(t) => EventStepsLeft(t)' < EventStepsLeft(t)
       /\ tpc[t] # "idle" => EventStepsLeft(t)' <= EventStepsLeft(t)

LEMMA StepsAreBounded == TypeInv => StepsBounded
BY TrackAssumption DEF TypeInv, TypeOK, ControlOK, StepsBounded, StepsLeft, EventStepsLeft

LEMMA RegistrarAdvances ==
  ASSUME TypeInv, NEW r \in Registrar, RegistrarStep(r)
  PROVE  StepsLeft(r)' < StepsLeft(r)
<1> USE TrackAssumption DEF TypeInv, TypeOK, ControlOK, StepsLeft
<1>1. CASE StoreUuid(r)
  BY <1>1 DEF StoreUuid
<1>2. CASE ClaimTrackSlot(r)
  BY <1>2 DEF ClaimTrackSlot, Return
<1>3. CASE TrackSlotTaken(r)
  BY <1>3 DEF TrackSlotTaken
<1>4. CASE NoTrackSlot(r)
  BY <1>4 DEF NoTrackSlot, Return
<1> QED
  BY <1>1, <1>2, <1>3, <1>4 DEF RegistrarStep

LEMMA TracerAdvances ==
  ASSUME TypeInv, NEW t \in Tracer, TracerStep(t)
  PROVE  EventStepsLeft(t)' < EventStepsLeft(t)
<1> USE TrackAssumption DEF TypeInv, TypeOK, ControlOK, EventStepsLeft
<1>1. CASE LoadTrack(t)
  BY <1>1 DEF LoadTrack, TrackAt
<1>2. CASE DescribeTrack(t)
  BY <1>2 DEF DescribeTrack
<1>3. CASE TracksDone(t)
  BY <1>3 DEF TracksDone
<1>4. CASE EmitEvent(t)
  BY <1>4 DEF EmitEvent
<1> QED
  BY <1>1, <1>2, <1>3, <1>4 DEF TracerStep

LEMMA CallsAdvanceStep == TypeInv /\ [Next]_vars => CallsAdvance
<1> SUFFICES ASSUME TypeInv, [Next]_vars PROVE CallsAdvance
  OBVIOUS
<1>a. /\ pc \in [Registrar -> {"idle", "store", "claim"}]
      /\ pos \in [Registrar -> 0 .. MaxTracks] /\ MaxTracks \in Nat
      /\ tpc \in [Tracer -> {"idle", "load", "describe", "emit"}]
      /\ tpos \in [Tracer -> 0 .. MaxTracks]
  BY TrackAssumption DEF TypeInv, TypeOK
<1>b. /\ \A r \in Registrar : StepsLeft(r) \in Nat
      /\ \A t \in Tracer : EventStepsLeft(t) \in Nat
  BY StepsAreBounded DEF StepsBounded
<1>c. StepsBounded'
  <2>1. TypeInv'
    BY TypeInvStep
  <2> QED
    BY <2>1, StepsAreBounded, PTL
<1>1. ASSUME NEW r \in Registrar, RegistrarStep(r) \/ pc[r] # "idle"
      PROVE  /\ RegistrarStep(r) => StepsLeft(r)' < StepsLeft(r)
             /\ StepsLeft(r)' <= StepsLeft(r)
  <2>1. CASE RegistrarStep(r)
    <3>1. StepsLeft(r)' < StepsLeft(r)
      BY <2>1, RegistrarAdvances
    <3>2. StepsLeft(r)' \in Nat
      BY <1>c DEF StepsBounded
    <3> QED
      BY <1>b, <3>1, <3>2
  <2>2. CASE ~RegistrarStep(r)
    <3>1. pc[r] # "idle"
      BY <1>1, <2>2
    <3>2. ASSUME NEW q \in Registrar, RegistrarStep(q) PROVE pc'[r] = pc[r] /\ pos'[r] = pos[r]
      BY <1>a, <2>2, <3>2 DEF RegistrarStep, StoreUuid, ClaimTrackSlot, TrackSlotTaken,
         NoTrackSlot, Return
    <3>3. ASSUME NEW q \in Registrar, NEW x \in Track, RegisterTrack(q, x)
          PROVE  pc'[r] = pc[r] /\ pos'[r] = pos[r]
      BY <1>a, <3>1, <3>3 DEF RegisterTrack, EnterRegister
    <3>4. ASSUME NEW t \in Tracer,
                 \/ TracerStep(t) \/ ClearIncrementalState(t)
                 \/ \E x \in Track \cup {Null} : TraceTrackEvent(t, x)
          PROVE  pc' = pc /\ pos' = pos
      BY <3>4, Zenon DEF TracerStep, ClearIncrementalState, TraceTrackEvent, LoadTrack,
         DescribeTrack, TracksDone, EmitEvent, registrarVars
    <3>5. ASSUME UNCHANGED vars PROVE pc' = pc /\ pos' = pos
      BY <3>5 DEF vars, registrarVars
    <3>6. pc'[r] = pc[r] /\ pos'[r] = pos[r]
      BY <3>2, <3>3, <3>4, <3>5 DEF Next, Call
    <3> QED
      BY <1>b, <2>2, <3>6 DEF StepsLeft
  <2> QED
    BY <2>1, <2>2
<1>2. ASSUME NEW t \in Tracer, TracerStep(t) \/ tpc[t] # "idle"
      PROVE  /\ TracerStep(t) => EventStepsLeft(t)' < EventStepsLeft(t)
             /\ EventStepsLeft(t)' <= EventStepsLeft(t)
  <2>1. CASE TracerStep(t)
    <3>1. EventStepsLeft(t)' < EventStepsLeft(t)
      BY <2>1, TracerAdvances
    <3>2. EventStepsLeft(t)' \in Nat
      BY <1>c DEF StepsBounded
    <3> QED
      BY <1>b, <3>1, <3>2
  <2>2. CASE ~TracerStep(t)
    <3>1. tpc[t] # "idle"
      BY <1>2, <2>2
    <3>2. ASSUME NEW u \in Tracer,
                 \/ TracerStep(u) \/ ClearIncrementalState(u)
                 \/ \E x \in Track \cup {Null} : TraceTrackEvent(u, x)
          PROVE  tpc'[t] = tpc[t] /\ tpos'[t] = tpos[t]
      <4>1. CASE u = t
        BY <2>2, <3>1, <3>2, <4>1 DEF ClearIncrementalState, TraceTrackEvent
      <4>2. CASE u # t
        BY <1>a, <3>2, <4>2 DEF TracerStep, ClearIncrementalState, TraceTrackEvent, LoadTrack,
           DescribeTrack, TracksDone, EmitEvent
      <4> QED
        BY <4>1, <4>2
    <3>3. ASSUME NEW r \in Registrar,
                 RegistrarStep(r) \/ \E x \in Track : RegisterTrack(r, x)
          PROVE  tpc' = tpc /\ tpos' = tpos
      BY <3>3, Zenon DEF RegistrarStep, StoreUuid, ClaimTrackSlot, TrackSlotTaken, NoTrackSlot,
         RegisterTrack, EnterRegister, tracerVars
    <3>4. ASSUME UNCHANGED vars PROVE tpc' = tpc /\ tpos' = tpos
      BY <3>4 DEF vars, tracerVars
    <3>5. tpc'[t] = tpc[t] /\ tpos'[t] = tpos[t]
      BY <3>2, <3>3, <3>4 DEF Next, Call
    <3> QED
      BY <1>b, <2>2, <3>5 DEF EventStepsLeft
  <2> QED
    BY <2>1, <2>2
<1> QED
  BY <1>1, <1>2 DEF CallsAdvance

\* percetto_register_track is wait-free: whatever other threads do in between, a
\* call returns after at most 2 * MaxTracks + 1 steps of its own; and an event is
\* written after at most 2 * MaxTracks + 2, although the array that its thread
\* walks over may grow meanwhile.
THEOREM WaitFree == SafeSpec => []StepsBounded /\ [][CallsAdvance]_vars
<1> QED
  BY TypeInvInit, TypeInvStep, StepsAreBounded, CallsAdvanceStep, PTL DEF SafeSpec

=============================================================================

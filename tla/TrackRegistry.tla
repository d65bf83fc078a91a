---------------------------- MODULE TrackRegistry ----------------------------
(***************************************************************************)
(* The track registry of percetto.cc and the track descriptors that the    *)
(* tracing threads write from it.                                          *)
(*                                                                         *)
(* Registrar threads run percetto_register_track, without a lock; Tracer   *)
(* threads run TraceTrackEvent and, when the incremental state of their    *)
(* packet sequence is not up to date, DoIncrementalUpdate, which walks the *)
(* array the registrars are changing.  percetto_init has returned: the     *)
(* process uuid is fixed.  Atomics are sequentially consistent.            *)
(***************************************************************************)
EXTENDS Naturals

CONSTANTS
  Track,
  Registrar,
  Tracer,         \* tracing threads, each writing one packet sequence
  Null,
  ProcessUuid,    \* process_uuid
  MaxTracks       \* PERCETTO_MAX_TRACKS

ASSUME TrackAssumption ==
  /\ MaxTracks \in Nat /\ Null \notin Track
  /\ ProcessUuid \notin Nat /\ Registrar \cap Tracer = {}

VARIABLES
  tracks,         \* tracks[] of struct Percetto
  \* struct percetto_track
  uuid, parentUuid,
  outcome,        \* what percetto_register_track returned for each track
  \* locals of percetto_register_track
  pc, pos, track,
  \* the tracing threads: locals of TraceTrackEvent and DoIncrementalUpdate
  tpc, tpos, ttrack, target,
  needUpdate,     \* need_update of the sequence
  \* what the sequence says to the trace processor
  described,      \* track descriptors since the state was last cleared
  event,          \* the last event on a custom track
  \* history: tracks registered when the last incremental update began
  known

registryVars == <<tracks, uuid, parentUuid, outcome>>
registrarVars == <<pc, pos, track>>
tracerVars == <<tpc, tpos, ttrack, target, needUpdate, described, event, known>>
vars == <<registryVars, registrarVars, tracerVars>>

Slot == 0 .. MaxTracks - 1

\* GetTrackUuid(kCustomTrackIdOffset + k): an exclusive or with process_uuid,
\* different for each slot.  0 is the static initial value.
NoUuid == 0
UuidOf(k) == k + 1
Uuid == 0 .. MaxTracks

Descriptor ==
  [name : Track, uuid : Uuid, parent : {NoUuid, ProcessUuid}]

TypeOK ==
  /\ tracks \in [Slot -> Track \cup {Null}]
  /\ uuid \in [Track -> Uuid]
  /\ parentUuid \in [Track -> {NoUuid, ProcessUuid}]
  /\ outcome \in [Track -> {"none", "ok", "full"}]
  /\ pc \in [Registrar -> {"idle", "store", "claim"}]
  /\ pos \in [Registrar -> 0 .. MaxTracks]
  /\ track \in [Registrar -> Track \cup {Null}]
  /\ tpc \in [Tracer -> {"idle", "load", "describe", "emit"}]
  /\ tpos \in [Tracer -> 0 .. MaxTracks]
  /\ ttrack \in [Tracer -> Track \cup {Null}]
  /\ target \in [Tracer -> Track \cup {Null}]
  /\ needUpdate \in [Tracer -> BOOLEAN]
  /\ described \in [Tracer -> SUBSET Descriptor]
  /\ event \in [Tracer -> [track : Track \cup {Null}, uuid : Uuid]]
  /\ known \in [Tracer -> SUBSET Track]

NoEvent == [track |-> Null, uuid |-> NoUuid]

Init ==
  /\ tracks = [k \in Slot |-> Null]
  /\ uuid = [x \in Track |-> NoUuid]
  /\ parentUuid = [x \in Track |-> NoUuid]
  /\ outcome = [x \in Track |-> "none"]
  /\ pc = [r \in Registrar |-> "idle"]
  /\ pos = [r \in Registrar |-> 0]
  /\ track = [r \in Registrar |-> Null]
  /\ tpc = [t \in Tracer |-> "idle"]
  /\ tpos = [t \in Tracer |-> 0]
  /\ ttrack = [t \in Tracer |-> Null]
  /\ target = [t \in Tracer |-> Null]
  /\ needUpdate = [t \in Tracer |-> TRUE]
  /\ described = [t \in Tracer |-> {}]
  /\ event = [t \in Tracer |-> NoEvent]
  /\ known = [t \in Tracer |-> {}]

-----------------------------------------------------------------------------
(* percetto_register_track *)

EnterRegister(r, x, k) ==
  /\ pc[r] = "idle" /\ outcome[x] = "none"
  /\ \A s \in Registrar : track[s] # x
  /\ parentUuid' = [parentUuid EXCEPT ![x] = ProcessUuid]
  /\ pc' = [pc EXCEPT ![r] = "store"]
  /\ pos' = [pos EXCEPT ![r] = k]
  /\ track' = [track EXCEPT ![r] = x]
  /\ UNCHANGED <<tracks, uuid, outcome, tracerVars>>

\* Mutant of RegisterTrack: the search begins with the second slot.
RegisterTrackFromOne(r, x) == EnterRegister(r, x, 1)

\* "Can be called from any thread after percetto_init", once per track.
RegisterTrack(r, x) == EnterRegister(r, x, 0)

\* Mutant of StoreUuid: one turn too many.
StoreUuidUnbounded(r) ==
  /\ pc[r] = "store"
  /\ uuid' = [uuid EXCEPT ![track[r]] = UuidOf(pos[r])]
  /\ pc' = [pc EXCEPT ![r] = "claim"]
  /\ UNCHANGED <<tracks, parentUuid, outcome, pos, track, tracerVars>>

\* Mutant of StoreUuid: the uuid of the first slot tried is kept.
StoreUuidOnce(r) ==
  /\ pc[r] = "store" /\ pos[r] < MaxTracks
  /\ uuid' = [uuid EXCEPT ![track[r]] = UuidOf(0)]
  /\ pc' = [pc EXCEPT ![r] = "claim"]
  /\ UNCHANGED <<tracks, parentUuid, outcome, pos, track, tracerVars>>

\* "Setup the track data for this slot first so that the data is ready when
\* the track is stored in the array."
StoreUuid(r) ==
  /\ pc[r] = "store" /\ pos[r] < MaxTracks
  /\ uuid' = [uuid EXCEPT ![track[r]] = UuidOf(pos[r])]
  /\ pc' = [pc EXCEPT ![r] = "claim"]
  /\ UNCHANGED <<tracks, parentUuid, outcome, pos, track, tracerVars>>

Return(r, o) ==
  /\ outcome' = [outcome EXCEPT ![track[r]] = o]
  /\ pc' = [pc EXCEPT ![r] = "idle"]
  /\ pos' = [pos EXCEPT ![r] = 0]
  /\ track' = [track EXCEPT ![r] = Null]

\* Mutant of ClaimTrackSlot: a plain store, whoever has the slot.
ClaimTrackSlotBlindly(r) ==
  /\ pc[r] = "claim"
  /\ tracks' = [tracks EXCEPT ![pos[r]] = track[r]]
  /\ Return(r, "ok")
  /\ UNCHANGED <<uuid, parentUuid, tracerVars>>

\* compare_exchange_strong(NULL, track) succeeds ...
ClaimTrackSlot(r) ==
  /\ pc[r] = "claim" /\ tracks[pos[r]] = Null
  /\ tracks' = [tracks EXCEPT ![pos[r]] = track[r]]
  /\ Return(r, "ok")
  /\ UNCHANGED <<uuid, parentUuid, tracerVars>>

\* Mutant of TrackSlotTaken: the same slot is tried again.
RetryTrackSlot(r) ==
  /\ pc[r] = "claim" /\ tracks[pos[r]] # Null
  /\ pc' = [pc EXCEPT ![r] = "store"]
  /\ UNCHANGED <<registryVars, pos, track, tracerVars>>

\* ... or fails, and the next slot is tried.
TrackSlotTaken(r) ==
  /\ pc[r] = "claim" /\ tracks[pos[r]] # Null
  /\ pc' = [pc EXCEPT ![r] = "store"]
  /\ pos' = [pos EXCEPT ![r] = @ + 1]
  /\ UNCHANGED <<registryVars, track, tracerVars>>

\* "no more tracks are allowed"
NoTrackSlot(r) ==
  /\ pc[r] = "store" /\ pos[r] = MaxTracks
  /\ Return(r, "full")
  /\ UNCHANGED <<tracks, uuid, parentUuid, tracerVars>>

-----------------------------------------------------------------------------
(* TraceTrackEvent and DoIncrementalUpdate *)

\* An event on the thread's own track (x = Null), or on a custom track whose
\* registration has returned: the callers in the repository go on using a
\* track whatever percetto_register_track returned.
TraceTrackEvent(t, x) ==
  /\ tpc[t] = "idle"
  /\ x # Null => outcome[x] # "none"
  /\ target' = [target EXCEPT ![t] = x]
  /\ IF needUpdate[t]
       THEN /\ tpc' = [tpc EXCEPT ![t] = "load"]
            /\ needUpdate' = [needUpdate EXCEPT ![t] = FALSE]
            /\ described' = [described EXCEPT ![t] = {}]
            /\ known' = [known EXCEPT ![t] = {y \in Track : outcome[y] = "ok"}]
       ELSE /\ tpc' = [tpc EXCEPT ![t] = "emit"]
            /\ UNCHANGED <<needUpdate, described, known>>
  /\ UNCHANGED <<registryVars, registrarVars, tpos, ttrack, event>>

TrackAt(k) == IF k < MaxTracks THEN tracks[k] ELSE Null

LoadTrack(t) ==
  /\ tpc[t] = "load" /\ TrackAt(tpos[t]) # Null
  /\ ttrack' = [ttrack EXCEPT ![t] = TrackAt(tpos[t])]
  /\ tpc' = [tpc EXCEPT ![t] = "describe"]
  /\ UNCHANGED <<registryVars, registrarVars, tpos, target, needUpdate,
                 described, event, known>>

\* The packet with the descriptor; uuid and parent_uuid are read now.
DescribeTrack(t) ==
  /\ tpc[t] = "describe"
  /\ LET x == ttrack[t]
         d == [name |-> x, uuid |-> uuid[x], parent |-> parentUuid[x]]
     IN described' = [described EXCEPT ![t] = @ \cup {d}]
  /\ tpos' = [tpos EXCEPT ![t] = @ + 1]
  /\ ttrack' = [ttrack EXCEPT ![t] = Null]
  /\ tpc' = [tpc EXCEPT ![t] = "load"]
  /\ UNCHANGED <<registryVars, registrarVars, target, needUpdate, event, known>>

\* The end of the array, or the first NULL slot.
TracksDone(t) ==
  /\ tpc[t] = "load" /\ TrackAt(tpos[t]) = Null
  /\ tpc' = [tpc EXCEPT ![t] = "emit"]
  /\ tpos' = [tpos EXCEPT ![t] = 0]
  /\ UNCHANGED <<registryVars, registrarVars, ttrack, target, needUpdate,
                 described, event, known>>

EmitEvent(t) ==
  /\ tpc[t] = "emit"
  /\ event' = [event EXCEPT ![t] =
                 IF target[t] = Null THEN @
                 ELSE [track |-> target[t], uuid |-> uuid[target[t]]]]
  /\ target' = [target EXCEPT ![t] = Null]
  /\ tpc' = [tpc EXCEPT ![t] = "idle"]
  /\ UNCHANGED <<registryVars, registrarVars, tpos, ttrack, needUpdate,
                 described, known>>

\* Perfetto clears the incremental state, or a new session gets a new one.
\* The last event belongs to the old state.
ClearIncrementalState(t) ==
  /\ tpc[t] = "idle" /\ ~needUpdate[t]
  /\ needUpdate' = [needUpdate EXCEPT ![t] = TRUE]
  /\ event' = [event EXCEPT ![t] = NoEvent]
  /\ UNCHANGED <<registryVars, registrarVars, tpc, tpos, ttrack, target,
                 described, known>>

-----------------------------------------------------------------------------
RegistrarStep(r) ==
  StoreUuid(r) \/ ClaimTrackSlot(r) \/ TrackSlotTaken(r) \/ NoTrackSlot(r)

TracerStep(t) == LoadTrack(t) \/ DescribeTrack(t) \/ TracksDone(t) \/ EmitEvent(t)

\* What the application and Perfetto decide to do.
Call ==
  \/ \E r \in Registrar, x \in Track : RegisterTrack(r, x)
  \/ \E t \in Tracer :
       \/ \E x \in Track \cup {Null} : TraceTrackEvent(t, x)
       \/ ClearIncrementalState(t)

Next ==
  \/ Call
  \/ \E r \in Registrar : RegistrarStep(r)
  \/ \E t \in Tracer : TracerStep(t)

SafeSpec == Init /\ [][Next]_vars

\* A thread inside a call is scheduled again.
Fairness ==
  /\ \A r \in Registrar : WF_vars(RegistrarStep(r))
  /\ \A t \in Tracer : WF_vars(TracerStep(t))

Spec == SafeSpec /\ Fairness

-----------------------------------------------------------------------------
(* Properties *)

\* Whatever registration a tracing thread walks into, every descriptor it
\* writes is final: it names the track that owns the uuid for good, with its
\* parent ("so that the data is ready when the track is stored in the array").
DescriptorsFinal ==
  \A t \in Tracer : \A d \in described[t] :
    /\ d.parent = ProcessUuid
    /\ \E k \in Slot : tracks[k] = d.name /\ d.uuid = UuidOf(k)

\* The value an event carries for a registered track belongs to that track
\* on every sequence, and the event's own sequence describes the track if it
\* was registered before the sequence's incremental update began: only later
\* tracks, and never those behind a hole of the array, go undescribed.
EventsResolve ==
  \A t \in Tracer :
    LET e == event[t] IN
    e.track # Null /\ outcome[e.track] = "ok" =>
      /\ \A s \in Tracer : \A d \in described[s] :
           d.uuid = e.uuid <=> d.name = e.track
      /\ e.track \in known[t] => \E d \in described[t] : d.name = e.track

\* "to make sure that custom tracks have unique IDs": no event carries a uuid
\* that a descriptor gives to another track.  The code does not keep it for a
\* track whose registration failed: see README.
EventsNeverMisattributed ==
  \A t \in Tracer :
    event[t].track # Null =>
      \A d \in described[t] : d.uuid = event[t].uuid => d.name = event[t].track

\* percetto_register_track is wait-free, and a tracing thread's walk over the
\* array ends, whatever the other threads register meanwhile.
CallsReturn ==
  /\ \A r \in Registrar : pc[r] # "idle" ~> pc[r] = "idle"
  /\ \A t \in Tracer : tpc[t] # "idle" ~> tpc[t] = "idle"

\* The lock-free registration implements the atomic one: slots are given in
\* order and for good, and a track is refused only when all are taken.
Table == INSTANCE TrackTable WITH owner <- tracks

TableSpec == Table!Spec
=============================================================================

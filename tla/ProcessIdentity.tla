--------------------------- MODULE ProcessIdentity ---------------------------
(***************************************************************************)
(* What the first percetto_init of a process fixes for good, the clock, the *)
(* process uuid and the settings, and what is made of it in the trace that *)
(* several processes of a system write together.  A process has one copy of *)
(* Percetto, or several if its libraries are linked to their own; a copy    *)
(* has an s_percetto of its own and counts as a process of its own below.   *)
(***************************************************************************)
EXTENDS Integers, Sequences

CONSTANTS
  Copy,           \* copies of Percetto in the processes of a system
  Pid, Namespace, \* of the process of a copy: its pid, the inode of its pid namespace
  Tid,            \* thread ids in use in each process
  Offset,         \* kCustomTrackIdOffset
  UintMax,        \* UINT_MAX
  Working,        \* the sets of system clocks a kernel may support
  Asks,           \* [Copy -> SUBSET (0 .. 6)]: the clock_ids that its parts ask for
  Args, Envs,     \* values of a setting in the program, and in each environment
  None,
  MaxTracks       \* PERCETTO_MAX_TRACKS

SystemClock == {"REALTIME", "REALTIME_COARSE", "MONOTONIC", "MONOTONIC_COARSE",
                "MONOTONIC_RAW", "BOOTTIME"}

ASSUME IdentityAssumption ==
  /\ Pid \in [Copy -> Nat] /\ Namespace \in [Copy -> Nat]
  /\ Offset \in Nat /\ Tid \subseteq 1 .. Offset - 1
  /\ UintMax \in Nat /\ MaxTracks \in Nat
  /\ Working \subseteq SUBSET SystemClock
  /\ Asks \in [Copy -> SUBSET (0 .. 6)]
  /\ Args \subseteq 0 .. UintMax /\ Envs \in [Copy -> SUBSET SUBSET Int]
  /\ \A p \in Copy : \A e \in Envs[p] : \A m, n \in e : m = n  \* unset, or one number
  /\ None \notin 0 .. 6 /\ None \notin [pid : Nat, inode : SUBSET Nat]

VARIABLES
  works,          \* system clocks that clock_gettime can read
  env,            \* the setting in the environment of each process, as atoll reads it
  \* s_percetto
  isInitialized, traceClock, perfettoClock, processUuid,
  tracks,         \* the slots of tracks[] that are in use
  setting,        \* what Tracing::Initialize was given
  \* Perfetto's side
  default,        \* default clock id of each packet sequence, None if it needs an update
  descriptors,    \* track descriptors in the trace
  written,        \* timestamps in the packets written last
  \* history
  given,          \* arguments of the call that initialised the process
  clients, refused, \* clock_ids with which percetto_init succeeded and returned -4
  early           \* slots of the tracks registered before the process was initialised

stateVars == <<isInitialized, traceClock, perfettoClock, processUuid, setting>>
historyVars == <<given, clients, refused>>
traceVars == <<default, descriptors, written>>
vars == <<works, env, stateVars, historyVars, tracks, early, traceVars>>

\* The hash of a pid and of the inode if there is one, taken to be free of
\* collisions; s_percetto begins with None, a uuid of 0.
Uuid == [pid : Nat, inode : SUBSET Nat] \cup {None}

\* GetTrackUuid: trackid ^ process_uuid.  The process track itself is trackid 0.
TrackUuid == Nat \X Uuid

\* A descriptor of the process track, a thread track or a custom track of copy `of`.
Descriptor == [of : Copy, id : Nat, uuid : TrackUuid, parent : Uuid]

\* A timestamp in a packet: the clock id it is labelled with, or 0, the default of
\* the sequence, the clock it was read from, and whether that was for a caller
\* whose call did not initialise the process.
Timestamp ==
  [label : 0 .. 6, default : 0 .. 6, clock : SystemClock, late : BOOLEAN]

TypeOK ==
  /\ works \in Working
  /\ env \in [Copy -> SUBSET Int] /\ \A p \in Copy : env[p] \in Envs[p]
  /\ isInitialized \in [Copy -> BOOLEAN]
  /\ traceClock \in [Copy -> SystemClock]
  /\ perfettoClock \in [Copy -> 0 .. 6]
  /\ processUuid \in [Copy -> Uuid]
  /\ setting \in [Copy -> 0 .. UintMax]
  /\ tracks \in [Copy -> Seq([uuid : TrackUuid, parent : Uuid])]
  /\ default \in [Copy -> [Tid -> 0 .. 6 \cup {None}]]
  /\ descriptors \subseteq Descriptor
  /\ written \subseteq Timestamp
  /\ given \in [Copy -> [clock : 0 .. 6, args : 0 .. UintMax, statOk : BOOLEAN]]
  /\ clients \in [Copy -> SUBSET (0 .. 6)] /\ refused \in [Copy -> SUBSET (0 .. 6)]
  /\ early \in [Copy -> SUBSET (1 .. MaxTracks)]

Init ==
  /\ works \in Working
  /\ env \in [Copy -> UNION {Envs[p] : p \in Copy}]
  /\ \A p \in Copy : env[p] \in Envs[p]
  /\ isInitialized = [p \in Copy |-> FALSE]
  /\ traceClock = [p \in Copy |-> "REALTIME"]    \* CLOCK_REALTIME is 0
  /\ perfettoClock = [p \in Copy |-> 0]
  /\ processUuid = [p \in Copy |-> None]
  /\ setting = [p \in Copy |-> 0]
  /\ tracks = [p \in Copy |-> <<>>]
  /\ default = [p \in Copy |-> [t \in Tid |-> None]]
  /\ descriptors = {} /\ written = {}
  /\ given = [p \in Copy |-> [clock |-> 0, args |-> 0, statOk |-> FALSE]]
  /\ clients = [p \in Copy |-> {}] /\ refused = [p \in Copy |-> {}]
  /\ early = [p \in Copy |-> {}]

-----------------------------------------------------------------------------
(* percetto_init, as far as it is done only once *)

\* The clocks' names among perfetto's BuiltinClocks, and what they stand for.
BuiltinClock ==
  <<"REALTIME", "REALTIME_COARSE", "MONOTONIC", "MONOTONIC_COARSE", "MONOTONIC_RAW",
    "BOOTTIME">>

\* Mutant of DetermineClockId: MONOTONIC is not tried.
DetermineWithoutMonotonic ==
  IF "BOOTTIME" \in works THEN <<"BOOTTIME", 6>> ELSE <<"REALTIME", 1>>

DetermineClockId ==
  CASE "BOOTTIME" \in works -> <<"BOOTTIME", 6>>
    [] "BOOTTIME" \notin works /\ "MONOTONIC" \in works -> <<"MONOTONIC", 3>>
    [] OTHER -> <<"REALTIME", 1>>

GetClockIdFrom(c) ==
  CASE c = 2 -> <<"REALTIME_COARSE", 2>>
    [] c = 3 -> <<"MONOTONIC", 3>>
    [] c = 4 -> <<"MONOTONIC_COARSE", 4>>
    [] c = 5 -> <<"MONOTONIC_RAW", 5>>
    [] c = 6 -> <<"BOOTTIME", 6>>
    [] OTHER -> <<"REALTIME", 1>>

ClockFor(c) == IF c = 0 THEN DetermineClockId ELSE GetClockIdFrom(c)

\* Mutant of GetProcessUuid: the namespace is left out.
UuidOfPid(p, statOk) == [pid |-> Pid[p], inode |-> {}]

GetProcessUuid(p, statOk) ==
  [pid |-> Pid[p], inode |-> IF statOk THEN {Namespace[p]} ELSE {}]

\* Mutant of GetEnvU32: the number is cut to 32 bits.
GetEnvNarrowed(e, d) == IF e = {} THEN d ELSE (CHOOSE n \in e : TRUE) % (UintMax + 1)

\* A text that is no number is 0 to atoll, and then the setting is 0.
GetEnvU32(e, d) ==
  LET Fitting == e \cap (0 .. UintMax)
  IN  IF Fitting = {} THEN d ELSE CHOOSE n \in Fitting : TRUE

\* The process is given its clock, uuid and settings.
Initialize(p, c, args, statOk) ==
  /\ isInitialized' = [isInitialized EXCEPT ![p] = TRUE]
  /\ traceClock' = [traceClock EXCEPT ![p] = ClockFor(c)[1]]
  /\ perfettoClock' = [perfettoClock EXCEPT ![p] = ClockFor(c)[2]]
  /\ processUuid' = [processUuid EXCEPT ![p] = GetProcessUuid(p, statOk)]
  /\ setting' = [setting EXCEPT ![p] = GetEnvU32(env[p], args)]
  /\ given' = [given EXCEPT ![p] = [clock |-> c, args |-> args, statOk |-> statOk]]
  /\ clients' = [clients EXCEPT ![p] = @ \cup {c}]
  /\ UNCHANGED refused

\* "system clock error", -4: nothing is initialised, a later call may be.
Refuse(p, c) ==
  /\ refused' = [refused EXCEPT ![p] = @ \cup {c}]
  /\ UNCHANGED <<stateVars, given, clients>>

\* Mutant of InitCall: every call initialises the process anew.
InitCallAnew(p, c, args, statOk) ==
  /\ IF ClockFor(c)[1] \in works THEN Initialize(p, c, args, statOk) ELSE Refuse(p, c)
  /\ UNCHANGED <<works, env, tracks, early, traceVars>>

InitCall(p, c, args, statOk) ==
  /\ CASE isInitialized[p] ->
            /\ clients' = [clients EXCEPT ![p] = @ \cup {c}]
            /\ UNCHANGED <<stateVars, given, refused>>
       [] ~isInitialized[p] /\ ClockFor(c)[1] \in works -> Initialize(p, c, args, statOk)
       [] OTHER -> Refuse(p, c)
  /\ UNCHANGED <<works, env, tracks, early, traceVars>>

-----------------------------------------------------------------------------
(* Tracks and packets *)

GetTrackUuid(p, trackid) == <<trackid, processUuid[p]>>

\* percetto_register_track takes the next slot (TrackTable).
RegisterTrack(p) ==
  /\ Len(tracks[p]) < MaxTracks
  /\ tracks' = [tracks EXCEPT ![p] =
       Append(@, [uuid |-> GetTrackUuid(p, Offset + Len(@)), parent |-> processUuid[p]])]
  /\ early' = IF isInitialized[p]
                THEN early
                ELSE [early EXCEPT ![p] = @ \cup {Len(tracks[p]) + 1}]
  /\ UNCHANGED <<works, env, stateVars, historyVars, traceVars>>

\* GetBuiltinClockIdFrom
BuiltinOf(s) ==
  CASE s = "REALTIME_COARSE" -> 2
    [] s = "MONOTONIC" -> 3
    [] s = "MONOTONIC_COARSE" -> 4
    [] s = "MONOTONIC_RAW" -> 5
    [] s = "BOOTTIME" -> 6
    [] OTHER -> 1

\* Mutant of Label: the clock is named in the sequence's defaults only.
LabelNone(p) == 0

\* NewTracePacket names the clock if it is not BOOTTIME.
Label(p) == IF perfettoClock[p] = 6 THEN 0 ELSE perfettoClock[p]

\* The packets of DoIncrementalUpdate describe the process, the thread and the
\* tracks, ...
Described(p, t) ==
  {[of |-> p, id |-> 0, uuid |-> GetTrackUuid(p, 0), parent |-> None],
   [of |-> p, id |-> t, uuid |-> GetTrackUuid(p, t), parent |-> processUuid[p]]}
  \cup {[of |-> p, id |-> Offset + k - 1, uuid |-> tracks[p][k].uuid,
         parent |-> tracks[p][k].parent] : k \in 1 .. Len(tracks[p])}

Stamp(l, d, s, b) == [label |-> l, default |-> d, clock |-> s, late |-> b]

\* ... and the last one has a clock snapshot.
DoIncrementalUpdate(p, t) ==
  /\ default' = [default EXCEPT ![p][t] = perfettoClock[p]]
  /\ descriptors' = descriptors \cup Described(p, t)

\* The packets are stamped by the clock of the process.
UpdateStamps(p) ==
  {Stamp(Label(p), perfettoClock[p], traceClock[p], FALSE),
   Stamp(BuiltinOf(traceClock[p]), perfettoClock[p], traceClock[p], FALSE)}

\* An event for a session, which takes an initialised process, with a timestamp
\* of clock s.
Write(p, t, s, late) ==
  /\ isInitialized[p]
  /\ IF default[p][t] = None
       THEN /\ DoIncrementalUpdate(p, t)
            /\ written' = UpdateStamps(p) \cup {Stamp(Label(p), perfettoClock[p], s, late)}
       ELSE /\ written' = {Stamp(Label(p), default[p][t], s, late)}
            /\ UNCHANGED <<default, descriptors>>
  /\ UNCHANGED <<works, env, stateVars, historyVars, tracks, early>>

\* percetto_event reads the clock of the process, ...
WriteEvent(p, t) == Write(p, t, traceClock[p], FALSE)

\* ... or is given a timestamp of the clock that the caller named in its
\* percetto_init, as percetto.h asks.
WriteTimedEvent(p, t, c) ==
  /\ c \in clients[p] \ {0}
  /\ Write(p, t, BuiltinClock[c], c # given[p].clock)

\* Perfetto asks for the incremental state to be written again.
ClearIncrementalState(p, t) ==
  /\ default[p][t] # None
  /\ default' = [default EXCEPT ![p][t] = None]
  /\ UNCHANGED <<works, env, stateVars, historyVars, tracks, early, descriptors, written>>

-----------------------------------------------------------------------------
Next ==
  \E p \in Copy :
    \/ \E c \in Asks[p], args \in Args, statOk \in BOOLEAN : InitCall(p, c, args, statOk)
    \/ RegisterTrack(p)
    \/ \E t \in Tid :
         \/ WriteEvent(p, t) \/ ClearIncrementalState(p, t)
         \/ \E c \in 1 .. 6 : WriteTimedEvent(p, t, c)

Spec == Init /\ [][Next]_vars

-----------------------------------------------------------------------------
(* Properties *)

\* "Trace processor may not understand trace defaults yet": whether a reader
\* uses the defaults of a sequence or takes them to be BOOTTIME, it places
\* every timestamp, also those of the snapshots, on the clock it was read from.
\* Manual timestamps of a caller that came second and asked for another clock
\* are not on it: percetto.h allows only one call.
TimestampsResolve ==
  \A w \in {x \in written : ~x.late} :
    \A understood \in {w.default, 6} :
      w.clock = BuiltinClock[IF w.label = 0 THEN understood ELSE w.label]

\* The descriptor is of a track registered before percetto_init.
Early(d) == \E k \in early[d.of] : d.id = Offset + k - 1

\* Copies of one process: "PID is only unique within a namespace".
SameProcess(p, q) == Pid[p] = Pid[q] /\ Namespace[p] = Namespace[q]

\* The process of a descriptor could read its namespace, and its track was
\* registered after percetto_init.
Regular(d) == given[d.of].statOk /\ ~Early(d)

\* No two tracks of the trace have one uuid, whatever processes they belong to.
\* The copies of one process share its track and those of its threads, and also
\* the uuid of their n-th custom tracks, which are different tracks: see README.
UuidsDistinct ==
  \A d, e \in descriptors :
    d.uuid = e.uuid /\ Regular(d) /\ Regular(e) =>
      SameProcess(d.of, e.of) /\ d.id = e.id

\* Every thread, and every track but those registered before percetto_init, is
\* placed under the track of its own process, which is described as well.
TracksUnderProcess ==
  \A d \in descriptors :
    d.id # 0 /\ ~Early(d) =>
      \E e \in descriptors : e.of = d.of /\ e.id = 0 /\ e.uuid = <<0, d.parent>>

\* "The environment can also be used to override the settings": with a number
\* that fits, otherwise the program's own value is used, and never the rest of
\* a number that does not fit.
SettingsIntended ==
  \A p \in Copy :
    isInitialized[p] =>
      /\ setting[p] \in env[p] \cup {given[p].args}
      /\ \A n \in env[p] : n \in 0 .. UintMax => setting[p] = n

\* PERCETTO_CLOCK_DONT_CARE "will try to use BOOTTIME and fall back onto
\* MONOTONIC": it fails only where no clock works, and an initialised process
\* has a clock that works.
ClockFound ==
  \A p \in Copy :
    /\ 0 \in refused[p] => works \cap {"BOOTTIME", "MONOTONIC", "REALTIME"} = {}
    /\ isInitialized[p] => traceClock[p] \in works
=============================================================================

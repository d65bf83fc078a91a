------------------------ MODULE ProcessIdentityProofs ------------------------
(***************************************************************************)
(* Proofs about ProcessIdentity: what the trace shows of a process follows *)
(* from what its first percetto_init fixed.                               *)
(***************************************************************************)
EXTENDS ProcessIdentity, TLAPS, SequenceTheorems

\* Nothing of a process that is not initialised is in use.
NothingBefore ==
  \A p \in Copy :
    ~isInitialized[p] =>
      /\ processUuid[p] = None
      /\ \A t \in Tid : default[p][t] = None
      /\ \A d \in descriptors : d.of # p

\* What percetto_init has fixed.
ClockFixed ==
  \A p \in Copy :
    isInitialized[p] =>
      /\ perfettoClock[p] \in 1 .. 6
      /\ traceClock[p] = BuiltinClock[perfettoClock[p]]
      /\ traceClock[p] \in works
      /\ given[p].clock # 0 => perfettoClock[p] = given[p].clock

UuidFixed ==
  \A p \in Copy :
    isInitialized[p] => processUuid[p] = GetProcessUuid(p, given[p].statOk)

SettingFixed ==
  \A p \in Copy :
    isInitialized[p] => setting[p] = GetEnvU32(env[p], given[p].args)

RefusalsJustified ==
  \A p \in Copy :
    0 \in refused[p] => works \cap {"BOOTTIME", "MONOTONIC", "REALTIME"} = {}

\* A sequence that needs no update has the clock of the process as its default.
DefaultsRight ==
  \A p \in Copy, t \in Tid :
    default[p][t] # None => default[p][t] = perfettoClock[p]

\* A track has the uuid of its slot, in the process as it was when registered.
TracksRight ==
  \A p \in Copy :
    /\ early[p] \subseteq 1 .. Len(tracks[p])
    /\ \A k \in 1 .. Len(tracks[p]) :
         /\ k \notin early[p] => isInitialized[p]
         /\ tracks[p][k].parent = IF k \in early[p] THEN None ELSE processUuid[p]
         /\ tracks[p][k].uuid = <<Offset + k - 1, tracks[p][k].parent>>

\* A descriptor shows the process, one of its threads or one of its tracks.
DescriptorsRight ==
  \A d \in descriptors :
    \/ d.id \in {0} \cup Tid /\ d.uuid = <<d.id, processUuid[d.of]>>
       /\ (d.id # 0 => d.parent = processUuid[d.of])
    \/ \E k \in 1 .. Len(tracks[d.of]) :
         d.id = Offset + k - 1 /\ d.uuid = tracks[d.of][k].uuid
         /\ d.parent = tracks[d.of][k].parent

\* With every descriptor of a process there is that of the process itself.
ProcessesDescribed ==
  \A d \in descriptors :
    \E e \in descriptors :
      e.of = d.of /\ e.id = 0 /\ e.uuid = <<0, processUuid[d.of]>>

IInv ==
  /\ TypeOK /\ NothingBefore /\ ClockFixed /\ UuidFixed /\ SettingFixed
  /\ RefusalsJustified /\ DefaultsRight /\ TracksRight /\ DescriptorsRight
  /\ ProcessesDescribed /\ TimestampsResolve

-----------------------------------------------------------------------------
(* The operators of percetto_init *)

\* A clock_id names a clock of which perfetto's id is the right one; with
\* DONT_CARE a clock that does not work means that none of the three does.
LEMMA ClocksMatch ==
  ASSUME NEW c \in 0 .. 6
  PROVE  /\ ClockFor(c)[2] \in 1 .. 6
         /\ ClockFor(c)[1] \in SystemClock
         /\ ClockFor(c)[1] = BuiltinClock[ClockFor(c)[2]]
         /\ c # 0 => ClockFor(c)[2] = c
         /\ c = 0 /\ ClockFor(c)[1] \notin works =>
              works \cap {"BOOTTIME", "MONOTONIC", "REALTIME"} = {}
<1>1. CASE c = 0
  <2>1. CASE "BOOTTIME" \in works
    <3>1. ClockFor(c) = <<"BOOTTIME", 6>> BY <1>1, <2>1 DEF ClockFor, DetermineClockId
    <3> QED BY <1>1, <2>1, <3>1 DEF SystemClock, BuiltinClock
  <2>2. CASE "BOOTTIME" \notin works /\ "MONOTONIC" \in works
    <3>1. ClockFor(c) = <<"MONOTONIC", 3>> BY <1>1, <2>2 DEF ClockFor, DetermineClockId
    <3> QED BY <1>1, <2>2, <3>1 DEF SystemClock, BuiltinClock
  <2>3. CASE "BOOTTIME" \notin works /\ "MONOTONIC" \notin works
    <3>1. ClockFor(c) = <<"REALTIME", 1>> BY <1>1, <2>3 DEF ClockFor, DetermineClockId
    <3> QED BY <1>1, <2>3, <3>1 DEF SystemClock, BuiltinClock
  <2> QED BY <2>1, <2>2, <2>3
<1>2. CASE c # 0
  <2>1. c \in {1, 2, 3, 4, 5, 6} BY <1>2
  <2> QED BY <2>1 DEF ClockFor, GetClockIdFrom, SystemClock, BuiltinClock
<1> QED BY <1>1, <1>2

LEMMA BuiltinRight ==
  ASSUME NEW s \in SystemClock
  PROVE  BuiltinOf(s) \in 1 .. 6 /\ BuiltinClock[BuiltinOf(s)] = s
BY DEF BuiltinOf, BuiltinClock, SystemClock

\* A setting is the number of the environment if that fits, else the program's.
LEMMA EnvironmentFits ==
  ASSUME NEW e \in SUBSET Int, NEW d \in 0 .. UintMax, \A m, n \in e : m = n
  PROVE  /\ GetEnvU32(e, d) \in 0 .. UintMax
         /\ GetEnvU32(e, d) \in e \cup {d}
         /\ \A n \in e : n \in 0 .. UintMax => GetEnvU32(e, d) = n
<1> DEFINE Fitting == e \cap (0 .. UintMax)
<1>1. CASE Fitting = {}
  <2>1. GetEnvU32(e, d) = d BY <1>1 DEF GetEnvU32
  <2> QED BY <1>1, <2>1
<1>2. CASE Fitting # {}
  <2>1. GetEnvU32(e, d) = CHOOSE n \in Fitting : TRUE BY <1>2 DEF GetEnvU32
  <2>2. GetEnvU32(e, d) \in Fitting BY <1>2, <2>1
  <2> QED BY <2>2
<1> QED BY <1>1, <1>2

LEMMA GetProcessUuidType ==
  ASSUME NEW p \in Copy, NEW statOk \in BOOLEAN
  PROVE  GetProcessUuid(p, statOk) \in Uuid /\ GetProcessUuid(p, statOk) # None
<1>1. GetProcessUuid(p, statOk) \in [pid : Nat, inode : SUBSET Nat]
  BY IdentityAssumption DEF GetProcessUuid
<1> QED BY <1>1, IdentityAssumption DEF Uuid

-----------------------------------------------------------------------------
(* Inductiveness *)

LEMMA InitInvariant == Init => IInv
<1> SUFFICES ASSUME Init PROVE IInv OBVIOUS
<1> USE IdentityAssumption DEF Init
<1>1. TypeOK
  <2>1. ASSUME NEW p \in Copy PROVE env[p] \in SUBSET Int
    <3>1. env[p] \in Envs[p] /\ Envs[p] \in SUBSET SUBSET Int OBVIOUS
    <3> HIDE IdentityAssumption DEF Init
    <3> QED BY <3>1, Zenon
  <2>2. env \in [Copy -> SUBSET Int] BY <2>1
  <2>3. /\ isInitialized \in [Copy -> BOOLEAN]
        /\ traceClock \in [Copy -> SystemClock]
        /\ perfettoClock \in [Copy -> 0 .. 6]
        /\ setting \in [Copy -> 0 .. UintMax]
    BY DEF SystemClock
  <2>4. processUuid \in [Copy -> Uuid] BY DEF Uuid
  <2>5. tracks \in [Copy -> Seq([uuid : TrackUuid, parent : Uuid])] OBVIOUS
  <2>6. default \in [Copy -> [Tid -> 0 .. 6 \cup {None}]] OBVIOUS
  <2>7. given \in [Copy -> [clock : 0 .. 6, args : 0 .. UintMax, statOk : BOOLEAN]]
    OBVIOUS
  <2> QED BY <2>2, <2>3, <2>4, <2>5, <2>6, <2>7 DEF TypeOK
<1>2. NothingBefore BY DEF NothingBefore
<1>3. ClockFixed /\ UuidFixed /\ SettingFixed BY DEF ClockFixed, UuidFixed, SettingFixed
<1>4. RefusalsJustified /\ DefaultsRight BY DEF RefusalsJustified, DefaultsRight
<1>5. TracksRight
  <2>1. \A p \in Copy : tracks[p] = <<>> /\ early[p] = {} OBVIOUS
  <2> HIDE IdentityAssumption DEF Init
  <2>2. 1 .. Len(<<>>) = {} OBVIOUS
  <2> QED BY <2>1, <2>2, Zenon DEF TracksRight
<1>6. DescriptorsRight /\ ProcessesDescribed BY DEF DescriptorsRight, ProcessesDescribed
<1>7. TimestampsResolve BY DEF TimestampsResolve
<1> QED BY <1>1, <1>2, <1>3, <1>4, <1>5, <1>6, <1>7 DEF IInv

\* percetto_init disturbs nothing: what it fixes was not in use before.
LEMMA InitializeInvariant ==
  ASSUME IInv, NEW p \in Copy, NEW c \in 0 .. 6, NEW args \in 0 .. UintMax,
         NEW statOk \in BOOLEAN, ~isInitialized[p], ClockFor(c)[1] \in works,
         Initialize(p, c, args, statOk),
         UNCHANGED <<works, env, tracks, early, traceVars>>
  PROVE  IInv'
<1> USE DEF Initialize, traceVars
<1>0. TypeOK BY DEF IInv
<1>a. /\ \A q \in Copy \ {p} :
           /\ isInitialized'[q] = isInitialized[q] /\ traceClock'[q] = traceClock[q]
           /\ perfettoClock'[q] = perfettoClock[q] /\ processUuid'[q] = processUuid[q]
           /\ setting'[q] = setting[q] /\ given'[q] = given[q]
      /\ isInitialized'[p] = TRUE /\ traceClock'[p] = ClockFor(c)[1]
      /\ perfettoClock'[p] = ClockFor(c)[2]
      /\ processUuid'[p] = GetProcessUuid(p, statOk)
      /\ setting'[p] = GetEnvU32(env[p], args)
      /\ given'[p] = [clock |-> c, args |-> args, statOk |-> statOk]
  BY <1>0 DEF TypeOK
<1>b. env[p] \in SUBSET Int /\ \A m, n \in env[p] : m = n
  BY <1>0, IdentityAssumption DEF TypeOK
<1>1. TypeOK'
  <2>1. traceClock' \in [Copy -> SystemClock] /\ perfettoClock' \in [Copy -> 0 .. 6]
    BY <1>0, ClocksMatch DEF TypeOK
  <2>2. processUuid' \in [Copy -> Uuid] BY <1>0, GetProcessUuidType DEF TypeOK
  <2>3. setting' \in [Copy -> 0 .. UintMax] BY <1>0, <1>b, EnvironmentFits DEF TypeOK
  <2>4. /\ isInitialized' \in [Copy -> BOOLEAN]
        /\ given' \in [Copy -> [clock : 0 .. 6, args : 0 .. UintMax, statOk : BOOLEAN]]
        /\ clients' \in [Copy -> SUBSET (0 .. 6)]
        /\ refused' \in [Copy -> SUBSET (0 .. 6)]
    BY <1>0 DEF TypeOK
  <2> QED BY <1>0, <2>1, <2>2, <2>3, <2>4 DEF TypeOK
<1>2. NothingBefore' BY <1>a DEF IInv, NothingBefore
<1>3. ClockFixed'
  <2> SUFFICES ASSUME NEW q \in Copy, isInitialized'[q]
               PROVE /\ perfettoClock'[q] \in 1 .. 6
                     /\ traceClock'[q] = BuiltinClock[perfettoClock'[q]]
                     /\ traceClock'[q] \in works'
                     /\ given'[q].clock # 0 => perfettoClock'[q] = given'[q].clock
    BY DEF ClockFixed
  <2>1. CASE q = p BY <1>a, <2>1, ClocksMatch
  <2>2. CASE q # p BY <1>a, <2>2 DEF IInv, ClockFixed
  <2> QED BY <2>1, <2>2
<1>4. UuidFixed'
  <2> SUFFICES ASSUME NEW q \in Copy, isInitialized'[q]
               PROVE processUuid'[q] = GetProcessUuid(q, given'[q].statOk)
    BY DEF UuidFixed, GetProcessUuid
  <2>1. CASE q = p
    <3>1. given'[p].statOk = statOk BY <1>a
    <3> QED BY <1>a, <2>1, <3>1
  <2>2. CASE q # p BY <1>a, <2>2 DEF IInv, UuidFixed
  <2> QED BY <2>1, <2>2
<1>5. SettingFixed' BY <1>a DEF IInv, SettingFixed
<1>6. RefusalsJustified' BY DEF IInv, RefusalsJustified
<1>7. DefaultsRight' BY <1>a DEF IInv, NothingBefore, DefaultsRight
<1>8. TracksRight'
  <2>1. \A q \in Copy : isInitialized[q] => isInitialized'[q] BY <1>a
  <2>2. \A q \in Copy : isInitialized[q] => processUuid'[q] = processUuid[q] BY <1>a
  <2> QED BY <2>1, <2>2 DEF IInv, TracksRight
<1>9. DescriptorsRight' /\ ProcessesDescribed'
  <2>1. \A d \in descriptors : d.of \in Copy /\ d.of # p
    BY <1>0 DEF IInv, NothingBefore, TypeOK, Descriptor
  <2>2. \A d \in descriptors : processUuid'[d.of] = processUuid[d.of] BY <1>a, <2>1
  <2>3. DescriptorsRight' BY <2>2 DEF IInv, DescriptorsRight
  <2>4. ProcessesDescribed'
    <3> SUFFICES ASSUME NEW d \in descriptors
                 PROVE \E e \in descriptors : e.of = d.of /\ e.id = 0 /\ e.uuid = <<0, processUuid'[d.of]>>
      BY DEF ProcessesDescribed
    <3> QED BY <2>2 DEF IInv, ProcessesDescribed
  <2> QED BY <2>3, <2>4
<1>10. TimestampsResolve' BY DEF IInv, TimestampsResolve
<1> QED
  BY <1>1, <1>2, <1>3, <1>4, <1>5, <1>6, <1>7, <1>8, <1>9, <1>10 DEF IInv

\* A step that changes neither what is fixed nor the trace.
LEMMA NothingNew ==
  ASSUME IInv, UNCHANGED <<works, env, stateVars, given, traceVars>>
  PROVE  /\ NothingBefore' /\ ClockFixed' /\ UuidFixed' /\ SettingFixed'
         /\ DefaultsRight' /\ ProcessesDescribed' /\ TimestampsResolve'
<1> USE DEF IInv, stateVars, traceVars
<1>1. NothingBefore' BY DEF NothingBefore
<1>2. ClockFixed' BY DEF ClockFixed
<1>3. UuidFixed' BY DEF UuidFixed, GetProcessUuid
<1>4. SettingFixed' BY DEF SettingFixed, GetEnvU32
<1>5. DefaultsRight' BY DEF DefaultsRight
<1>6. ProcessesDescribed' BY DEF ProcessesDescribed
<1>7. TimestampsResolve' BY DEF TimestampsResolve
<1> QED BY <1>1, <1>2, <1>3, <1>4, <1>5, <1>6, <1>7

LEMMA InitCallInvariant ==
  ASSUME IInv, NEW p \in Copy, NEW c \in Asks[p], NEW args \in Args,
         NEW statOk \in BOOLEAN, InitCall(p, c, args, statOk)
  PROVE  IInv'
<1>0. c \in 0 .. 6 /\ args \in 0 .. UintMax BY IdentityAssumption
<1>u. UNCHANGED <<works, env, tracks, early, traceVars>> BY DEF InitCall
<1>1. CASE isInitialized[p]
  <2>1. /\ clients' = [clients EXCEPT ![p] = @ \cup {c}]
        /\ UNCHANGED <<stateVars, given, refused>>
    BY <1>1 DEF InitCall
  <2>2. TypeOK' BY <1>0, <1>u, <2>1 DEF IInv, TypeOK, stateVars, traceVars
  <2>3. RefusalsJustified' BY <1>u, <2>1 DEF IInv, RefusalsJustified
  <2>4. TracksRight' BY <1>u, <2>1 DEF IInv, TracksRight, stateVars
  <2>5. DescriptorsRight' BY <1>u, <2>1 DEF IInv, DescriptorsRight, stateVars, traceVars
  <2> QED BY <1>u, <2>1, <2>2, <2>3, <2>4, <2>5, NothingNew DEF IInv
<1>2. CASE ~isInitialized[p] /\ ClockFor(c)[1] \in works
  <2>1. Initialize(p, c, args, statOk) BY <1>2 DEF InitCall
  <2> QED BY <1>0, <1>u, <1>2, <2>1, InitializeInvariant
<1>3. CASE ~isInitialized[p] /\ ClockFor(c)[1] \notin works
  <2>1. Refuse(p, c) BY <1>3 DEF InitCall
  <2>2. TypeOK' BY <1>0, <1>u, <2>1 DEF IInv, TypeOK, Refuse, stateVars, traceVars
  <2>3. RefusalsJustified'
    <3>1. ASSUME NEW q \in Copy, 0 \in refused'[q]
          PROVE  0 \in refused[q] \/ c = 0
      BY <2>1, <3>1 DEF Refuse, IInv, TypeOK
    <3>2. c = 0 => works \cap {"BOOTTIME", "MONOTONIC", "REALTIME"} = {}
      BY <1>0, <1>3, ClocksMatch
    <3> QED BY <1>u, <3>1, <3>2 DEF IInv, RefusalsJustified
  <2>4. UNCHANGED <<stateVars, given>> BY <2>1 DEF Refuse
  <2>5. TracksRight' BY <1>u, <2>4 DEF IInv, TracksRight, stateVars
  <2>6. DescriptorsRight' BY <1>u, <2>4 DEF IInv, DescriptorsRight, stateVars, traceVars
  <2> QED BY <1>u, <2>2, <2>3, <2>4, <2>5, <2>6, NothingNew DEF IInv
<1> QED BY <1>1, <1>2, <1>3

LEMMA RegisterTrackInvariant ==
  ASSUME IInv, NEW p \in Copy, RegisterTrack(p)
  PROVE  IInv'
<1> DEFINE Track == [uuid |-> GetTrackUuid(p, Offset + Len(tracks[p])),
                     parent |-> processUuid[p]]
<1>0. TypeOK BY DEF IInv
<1>u. UNCHANGED <<works, env, stateVars, historyVars, traceVars>> BY DEF RegisterTrack
<1>t. /\ tracks[p] \in Seq([uuid : TrackUuid, parent : Uuid]) /\ Len(tracks[p]) \in Nat
      /\ Len(tracks[p]) < MaxTracks
  <2>1. Len(tracks[p]) < MaxTracks BY DEF RegisterTrack
  <2>2. tracks[p] \in Seq([uuid : TrackUuid, parent : Uuid]) BY <1>0 DEF TypeOK
  <2> QED BY <2>1, <2>2, LenProperties
<1>1. Track \in [uuid : TrackUuid, parent : Uuid]
  <2>1. processUuid[p] \in Uuid /\ Offset + Len(tracks[p]) \in Nat
    BY <1>0, <1>t, IdentityAssumption DEF TypeOK
  <2> QED BY <2>1 DEF GetTrackUuid, TrackUuid
<1>2. tracks' = [tracks EXCEPT ![p] = Append(tracks[p], Track)] BY DEF RegisterTrack
<1> HIDE DEF Track
<1>3. /\ Len(tracks'[p]) = Len(tracks[p]) + 1
      /\ tracks'[p][Len(tracks[p]) + 1] = Track
      /\ \A k \in 1 .. Len(tracks[p]) : tracks'[p][k] = tracks[p][k]
      /\ tracks'[p] \in Seq([uuid : TrackUuid, parent : Uuid])
      /\ \A q \in Copy \ {p} : tracks'[q] = tracks[q]
  <2>1. /\ tracks'[p] = Append(tracks[p], Track)
        /\ \A q \in Copy \ {p} : tracks'[q] = tracks[q]
    BY <1>0, <1>2 DEF TypeOK
  <2> QED BY <1>1, <1>t, <2>1, AppendProperties
<1>4. /\ early'[p] = IF isInitialized[p] THEN early[p] ELSE early[p] \cup {Len(tracks[p]) + 1}
      /\ \A q \in Copy \ {p} : early'[q] = early[q]
      /\ early' \in [Copy -> SUBSET (1 .. MaxTracks)]
  <2>1. CASE isInitialized[p] BY <1>0, <2>1 DEF RegisterTrack, TypeOK
  <2>2. CASE ~isInitialized[p]
    <3>1. early' = [early EXCEPT ![p] = @ \cup {Len(tracks[p]) + 1}]
      BY <2>2 DEF RegisterTrack
    <3>2. Len(tracks[p]) + 1 \in 1 .. MaxTracks BY <1>t, IdentityAssumption
    <3> QED BY <1>0, <2>2, <3>1, <3>2 DEF TypeOK
  <2> QED BY <2>1, <2>2
<1>5. TypeOK'
  <2>1. tracks' \in [Copy -> Seq([uuid : TrackUuid, parent : Uuid])]
    BY <1>0, <1>2, <1>3 DEF TypeOK
  <2> QED BY <1>0, <1>u, <1>4, <2>1 DEF TypeOK, stateVars, historyVars, traceVars
<1>6. TracksRight'
  <2>1. ASSUME NEW q \in Copy PROVE early'[q] \subseteq 1 .. Len(tracks'[q])
    BY <1>3, <1>4, <1>t DEF IInv, TracksRight
  <2>2. ASSUME NEW q \in Copy, NEW k \in 1 .. Len(tracks'[q])
        PROVE  /\ k \notin early'[q] => isInitialized'[q]
               /\ tracks'[q][k].parent = IF k \in early'[q] THEN None ELSE processUuid'[q]
               /\ tracks'[q][k].uuid = <<Offset + k - 1, tracks'[q][k].parent>>
    <3>0. isInitialized'[q] = isInitialized[q] /\ processUuid'[q] = processUuid[q]
      BY <1>u DEF stateVars
    <3>1. CASE q # p
      <4>1. tracks'[q] = tracks[q] /\ early'[q] = early[q] BY <1>3, <1>4, <3>1
      <4> QED BY <3>0, <4>1 DEF IInv, TracksRight
    <3>2. CASE q = p /\ k \in 1 .. Len(tracks[p])
      <4>1. tracks'[q][k] = tracks[q][k] /\ (k \in early'[q] <=> k \in early[q])
        BY <1>3, <1>4, <1>t, <3>2
      <4> QED BY <3>0, <3>2, <4>1 DEF IInv, TracksRight
    <3>3. CASE q = p /\ k = Len(tracks[p]) + 1
      <4>1. k \notin early[p] BY <1>t, <3>3 DEF IInv, TracksRight
      <4>2. k \in early'[p] <=> ~isInitialized[p] BY <1>4, <3>3, <4>1
      <4>3. tracks'[q][k] = Track BY <1>3, <3>3
      <4>4. /\ Track.parent = processUuid[p]
            /\ Track.uuid = <<Offset + Len(tracks[p]), processUuid[p]>>
        BY DEF Track, GetTrackUuid
      <4>5. Offset + Len(tracks[p]) = Offset + k - 1 BY <3>3, <1>t, IdentityAssumption
      <4>6. ~isInitialized[p] => processUuid[p] = None BY DEF IInv, NothingBefore
      <4> QED BY <3>0, <3>3, <4>2, <4>3, <4>4, <4>5, <4>6
    <3> QED BY <1>3, <1>t, <3>1, <3>2, <3>3
  <2> QED BY <2>1, <2>2 DEF TracksRight
<1>7. DescriptorsRight'
  <2>1. \A q \in Copy, k \in Nat :
          k \in 1 .. Len(tracks[q]) =>
            k \in 1 .. Len(tracks'[q]) /\ tracks'[q][k] = tracks[q][k]
    BY <1>3, <1>t
  <2>2. \A d \in descriptors : d.of \in Copy BY <1>0 DEF TypeOK, Descriptor
  <2>3. UNCHANGED <<descriptors, processUuid>> BY <1>u DEF stateVars, traceVars
  <2>4. ASSUME NEW d \in descriptors, NEW k \in 1 .. Len(tracks[d.of])
        PROVE  k \in 1 .. Len(tracks'[d.of]) /\ tracks'[d.of][k] = tracks[d.of][k]
    BY <2>1, <2>2, <1>3, <1>t
  <2> QED BY <2>3, <2>4 DEF IInv, DescriptorsRight
<1>8. RefusalsJustified' BY <1>u DEF IInv, RefusalsJustified, historyVars
<1>9. UNCHANGED given BY <1>u DEF historyVars
<1> QED BY <1>u, <1>5, <1>6, <1>7, <1>8, <1>9, NothingNew DEF IInv

\* What a packet of a process says of its clock, in any form, is right.
LEMMA StampsRight ==
  ASSUME IInv, NEW p \in Copy, isInitialized[p], NEW u \in {perfettoClock[p], 6}
  PROVE  /\ perfettoClock[p] \in 1 .. 6 /\ Label(p) \in 0 .. 6
         /\ traceClock[p] = BuiltinClock[IF Label(p) = 0 THEN u ELSE Label(p)]
         /\ BuiltinOf(traceClock[p]) \in 1 .. 6
         /\ BuiltinClock[BuiltinOf(traceClock[p])] = traceClock[p]
<1>1. perfettoClock[p] \in 1 .. 6 /\ traceClock[p] = BuiltinClock[perfettoClock[p]]
  BY DEF IInv, ClockFixed
<1>2. traceClock[p] \in SystemClock BY DEF IInv, TypeOK
<1>3. traceClock[p] = BuiltinClock[IF Label(p) = 0 THEN u ELSE Label(p)]
  <2>1. CASE perfettoClock[p] = 6 BY <1>1, <2>1 DEF Label
  <2>2. CASE perfettoClock[p] # 6 BY <1>1, <2>2 DEF Label
  <2> QED BY <2>1, <2>2
<1>4. Label(p) \in 0 .. 6 BY <1>1 DEF Label
<1> QED BY <1>1, <1>2, <1>3, <1>4, BuiltinRight

LEMMA WriteInvariant ==
  ASSUME IInv, NEW p \in Copy, NEW t \in Tid, NEW s \in SystemClock, NEW late \in BOOLEAN,
         Write(p, t, s, late), ~late => s = traceClock[p]
  PROVE  IInv'
<1>0. TypeOK BY DEF IInv
<1>i. isInitialized[p] BY DEF Write
<1>u. UNCHANGED <<works, env, stateVars, historyVars, tracks, early>> BY DEF Write
<1>d. perfettoClock[p] \in 1 .. 6 /\ Label(p) \in 0 .. 6 BY <1>i, StampsRight
<1>1. /\ \A w \in written' :
           /\ w \in Timestamp
           /\ ~w.late => \A v \in {w.default, 6} :
                           w.clock = BuiltinClock[IF w.label = 0 THEN v ELSE w.label]
  <2> DEFINE Good(w) ==
        /\ w \in Timestamp
        /\ ~w.late => \A v \in {w.default, 6} :
                        w.clock = BuiltinClock[IF w.label = 0 THEN v ELSE w.label]
             Event == Stamp(Label(p), perfettoClock[p], s, late)
             Update == Stamp(Label(p), perfettoClock[p], traceClock[p], FALSE)
             Snap == Stamp(BuiltinOf(traceClock[p]), perfettoClock[p], traceClock[p], FALSE)
  <2>0. traceClock[p] \in SystemClock BY <1>0 DEF TypeOK
  <2>1. Good(Event)
    <3>1. Event \in Timestamp BY <1>d DEF Timestamp, Stamp
    <3>2. /\ Event.label = Label(p) /\ Event.default = perfettoClock[p]
          /\ Event.clock = s /\ Event.late = late
      BY DEF Stamp
    <3> HIDE DEF Event
    <3>3. ASSUME ~Event.late, NEW v \in {Event.default, 6}
          PROVE Event.clock = BuiltinClock[IF Event.label = 0 THEN v ELSE Event.label]
      BY <1>i, <3>2, <3>3, StampsRight
    <3> QED BY <3>1, <3>3
  <2>2. Good(Update)
    <3>1. Update \in Timestamp BY <1>d, <2>0 DEF Timestamp, Stamp
    <3>2. /\ Update.label = Label(p) /\ Update.default = perfettoClock[p]
          /\ Update.clock = traceClock[p]
      BY DEF Stamp
    <3> HIDE DEF Update
    <3>3. ASSUME NEW v \in {Update.default, 6}
          PROVE Update.clock = BuiltinClock[IF Update.label = 0 THEN v ELSE Update.label]
      BY <1>i, <3>2, <3>3, StampsRight
    <3> QED BY <3>1, <3>3
  <2>3. Good(Snap)
    <3>0. /\ BuiltinOf(traceClock[p]) \in 1 .. 6
          /\ BuiltinClock[BuiltinOf(traceClock[p])] = traceClock[p]
      BY <1>i, StampsRight
    <3>1. Snap \in Timestamp BY <1>d, <2>0, <3>0 DEF Timestamp, Stamp
    <3>2. /\ Snap.label = BuiltinOf(traceClock[p]) /\ Snap.clock = traceClock[p] BY DEF Stamp
    <3> HIDE DEF Snap
    <3>3. Snap.label # 0 BY <3>0, <3>2
    <3>4. Snap.clock = BuiltinClock[Snap.label] BY <3>0, <3>2, Zenon
    <3> QED BY <3>1, <3>3, <3>4
  <2>4. CASE default[p][t] = None
    <3>1. written' = {Update, Snap} \cup {Event} BY <2>4 DEF Write, UpdateStamps
    <3> HIDE DEF Good, Update, Snap, Event
    <3>2. \A w \in written' : Good(w) BY <2>1, <2>2, <2>3, <3>1
    <3> QED BY <3>2 DEF Good
  <2>5. CASE default[p][t] # None
    <3>1. default[p][t] = perfettoClock[p] BY <2>5 DEF IInv, DefaultsRight
    <3>2. written' = {Event} BY <2>5, <3>1 DEF Write
    <3> HIDE DEF Good, Update, Snap, Event
    <3>3. \A w \in written' : Good(w) BY <2>1, <3>2
    <3> QED BY <3>3 DEF Good
  <2> QED BY <2>4, <2>5
<1>2. /\ default' = [default EXCEPT ![p][t] = perfettoClock[p]]
      /\ \/ descriptors' = descriptors
         \/ descriptors' = descriptors \cup Described(p, t)
  <2>1. CASE default[p][t] = None BY <2>1 DEF Write, DoIncrementalUpdate
  <2>2. CASE default[p][t] # None
    <3>1. default[p][t] = perfettoClock[p] BY <2>2 DEF IInv, DefaultsRight
    <3>2. default' = default /\ descriptors' = descriptors BY <2>2 DEF Write
    <3>3. default = [default EXCEPT ![p][t] = perfettoClock[p]] BY <1>0, <3>1 DEF TypeOK
    <3> QED BY <3>2, <3>3
  <2> QED BY <2>1, <2>2
<1>3. \A d \in Described(p, t) : d \in Descriptor /\ d.of = p
  <2>1. /\ processUuid[p] \in Uuid /\ None \in Uuid /\ t \in Nat /\ Offset \in Nat
    BY <1>0, IdentityAssumption DEF TypeOK, Uuid
  <2>2. tracks[p] \in Seq([uuid : TrackUuid, parent : Uuid]) BY <1>0 DEF TypeOK
  <2>3. ASSUME NEW k \in 1 .. Len(tracks[p])
        PROVE  Offset + k - 1 \in Nat /\ tracks[p][k] \in [uuid : TrackUuid, parent : Uuid]
    <3>1. tracks[p][k] \in [uuid : TrackUuid, parent : Uuid] BY <2>2, ElementOfSeq
    <3> QED BY <2>1, <3>1
  <2> QED BY <2>1, <2>3 DEF Described, Descriptor, GetTrackUuid, TrackUuid
<1>4. TypeOK'
  <2>1. default' \in [Copy -> [Tid -> 0 .. 6 \cup {None}]] BY <1>0, <1>2, <1>d DEF TypeOK
  <2>2. descriptors' \subseteq Descriptor BY <1>0, <1>2, <1>3 DEF TypeOK
  <2>3. written' \subseteq Timestamp BY <1>1
  <2> QED BY <1>0, <1>u, <2>1, <2>2, <2>3 DEF TypeOK, stateVars, historyVars
<1>5. DefaultsRight' /\ NothingBefore'
  <2>1. ASSUME NEW q \in Copy, NEW r \in Tid
        PROVE  default'[q][r] = IF q = p /\ r = t THEN perfettoClock[p] ELSE default[q][r]
    BY <1>0, <1>2 DEF TypeOK
  <2>2. DefaultsRight' BY <1>u, <2>1 DEF IInv, DefaultsRight, stateVars
  <2>3. \A d \in descriptors' : d \in descriptors \/ d.of = p BY <1>2, <1>3
  <2>4. NothingBefore' BY <1>i, <1>u, <2>1, <2>3 DEF IInv, NothingBefore, stateVars
  <2> QED BY <2>2, <2>4
<1>6. ClockFixed' /\ UuidFixed' /\ SettingFixed'
  <2> USE <1>u DEF IInv, stateVars, historyVars
  <2>1. ClockFixed' BY DEF ClockFixed
  <2>2. UuidFixed' BY DEF UuidFixed, GetProcessUuid
  <2>3. SettingFixed' BY DEF SettingFixed, GetEnvU32
  <2> QED BY <2>1, <2>2, <2>3
<1>7. RefusalsJustified' /\ TracksRight'
  BY <1>u DEF IInv, RefusalsJustified, TracksRight, stateVars, historyVars
<1>8. DescriptorsRight'
  <2>1. ASSUME NEW d \in Described(p, t)
        PROVE  \/ d.id \in {0} \cup Tid /\ d.uuid = <<d.id, processUuid[d.of]>>
                  /\ (d.id # 0 => d.parent = processUuid[d.of])
               \/ \E k \in 1 .. Len(tracks[d.of]) :
                    d.id = Offset + k - 1 /\ d.uuid = tracks[d.of][k].uuid
                    /\ d.parent = tracks[d.of][k].parent
    BY DEF Described, GetTrackUuid
  <2> QED BY <1>u, <1>2, <2>1 DEF IInv, DescriptorsRight, stateVars
<1>9. ProcessesDescribed'
  <2> DEFINE D == [of |-> p, id |-> 0, uuid |-> GetTrackUuid(p, 0), parent |-> None]
  <2>1. D \in Described(p, t) /\ D.of = p /\ D.id = 0 /\ D.uuid = <<0, processUuid[p]>>
    BY DEF Described, GetTrackUuid
  <2> HIDE DEF D
  <2>2. \A d \in descriptors : \E e \in descriptors :
          e.of = d.of /\ e.id = 0 /\ e.uuid = <<0, processUuid[d.of]>>
    BY DEF IInv, ProcessesDescribed
  <2>3. processUuid' = processUuid BY <1>u DEF stateVars
  <2> QED BY <1>2, <1>3, <2>1, <2>2, <2>3 DEF ProcessesDescribed
<1>10. TimestampsResolve' BY <1>1 DEF TimestampsResolve
<1> QED BY <1>4, <1>5, <1>6, <1>7, <1>8, <1>9, <1>10 DEF IInv

LEMMA ClearInvariant ==
  ASSUME IInv, NEW p \in Copy, NEW t \in Tid, ClearIncrementalState(p, t)
  PROVE  IInv'
<1>0. TypeOK BY DEF IInv
<1>u. /\ UNCHANGED <<works, env, stateVars, historyVars, tracks, early, descriptors, written>>
      /\ default' = [default EXCEPT ![p][t] = None]
  BY DEF ClearIncrementalState
<1>1. TypeOK' BY <1>0, <1>u DEF TypeOK, stateVars, historyVars
<1>2. ASSUME NEW q \in Copy, NEW r \in Tid
      PROVE  default'[q][r] = None \/ default'[q][r] = default[q][r]
  BY <1>0, <1>u DEF TypeOK
<1>3. NothingBefore' /\ DefaultsRight'
  BY <1>u, <1>2 DEF IInv, NothingBefore, DefaultsRight, stateVars
<1>4. ClockFixed' /\ UuidFixed' /\ SettingFixed'
  <2> USE <1>u DEF IInv, stateVars, historyVars
  <2>1. ClockFixed' BY DEF ClockFixed
  <2>2. UuidFixed' BY DEF UuidFixed, GetProcessUuid
  <2>3. SettingFixed' BY DEF SettingFixed, GetEnvU32
  <2> QED BY <2>1, <2>2, <2>3
<1>5. RefusalsJustified' /\ TracksRight' /\ DescriptorsRight'
  BY <1>u DEF IInv, RefusalsJustified, TracksRight, DescriptorsRight, stateVars, historyVars
<1>6. ProcessesDescribed' /\ TimestampsResolve'
  BY <1>u DEF IInv, ProcessesDescribed, TimestampsResolve, stateVars
<1> QED BY <1>1, <1>3, <1>4, <1>5, <1>6 DEF IInv

\* The inductive invariant of the processes and their trace.
THEOREM Invariant == Spec => []IInv
<1>1. Init => IInv BY InitInvariant
<1>2. IInv /\ [Next]_vars => IInv'
  <2> SUFFICES ASSUME IInv, [Next]_vars PROVE IInv' OBVIOUS
  <2>1. ASSUME NEW p \in Copy, NEW c \in Asks[p], NEW args \in Args,
               NEW statOk \in BOOLEAN, InitCall(p, c, args, statOk)
        PROVE  IInv'
    BY <2>1, InitCallInvariant
  <2>2. ASSUME NEW p \in Copy, RegisterTrack(p) PROVE IInv'
    BY <2>2, RegisterTrackInvariant
  <2>3. ASSUME NEW p \in Copy, NEW t \in Tid, WriteEvent(p, t) PROVE IInv'
    <3>1. traceClock[p] \in SystemClock BY DEF IInv, TypeOK
    <3>2. Write(p, t, traceClock[p], FALSE) BY <2>3 DEF WriteEvent
    <3> QED BY <3>1, <3>2, WriteInvariant
  <2>4. ASSUME NEW p \in Copy, NEW t \in Tid, NEW c \in 1 .. 6, WriteTimedEvent(p, t, c)
        PROVE  IInv'
    <3>1. BuiltinClock[c] \in SystemClock
      <4>1. c \in {1, 2, 3, 4, 5, 6} OBVIOUS
      <4> QED BY <4>1 DEF BuiltinClock, SystemClock
    <3>2. Write(p, t, BuiltinClock[c], c # given[p].clock) BY <2>4 DEF WriteTimedEvent
    <3>3. ASSUME c = given[p].clock PROVE BuiltinClock[c] = traceClock[p]
      <4>1. isInitialized[p] BY <3>2 DEF Write
      <4>2. given[p].clock # 0 BY <3>3
      <4>3. /\ traceClock[p] = BuiltinClock[perfettoClock[p]]
            /\ perfettoClock[p] = given[p].clock
        BY <4>1, <4>2 DEF IInv, ClockFixed
      <4> QED BY <3>3, <4>3
    <3>4. (c # given[p].clock) \in BOOLEAN OBVIOUS
    <3> QED BY <3>1, <3>2, <3>3, <3>4, WriteInvariant
  <2>5. ASSUME NEW p \in Copy, NEW t \in Tid, ClearIncrementalState(p, t) PROVE IInv'
    BY <2>5, ClearInvariant
  <2>6. ASSUME UNCHANGED vars PROVE IInv'
    <3>1. UNCHANGED <<works, env, stateVars, historyVars, tracks, early, traceVars>>
      BY <2>6 DEF vars
    <3>2. UNCHANGED given BY <3>1 DEF historyVars
    <3>3. TypeOK' BY <3>1 DEF IInv, TypeOK, stateVars, historyVars, traceVars
    <3>4. RefusalsJustified' BY <3>1 DEF IInv, RefusalsJustified, historyVars
    <3>5. TracksRight' BY <3>1 DEF IInv, TracksRight, stateVars
    <3>6. DescriptorsRight' BY <3>1 DEF IInv, DescriptorsRight, stateVars, traceVars
    <3> QED BY <3>1, <3>2, <3>3, <3>4, <3>5, <3>6, NothingNew DEF IInv
  <2> QED BY <2>1, <2>2, <2>3, <2>4, <2>5, <2>6 DEF Next
<1> QED BY <1>1, <1>2, PTL DEF Spec

-----------------------------------------------------------------------------
(* The properties *)

\* Every variable keeps its type, for any number of processes and threads.
THEOREM TypeCorrect == Spec => []TypeOK
<1>1. IInv => TypeOK BY DEF IInv
<1> QED BY <1>1, Invariant, PTL

\* Every timestamp is placed on the clock it was read from, by readers that use
\* the defaults of a sequence and by readers that do not.
THEOREM TimestampsCorrect == Spec => []TimestampsResolve
<1>1. IInv => TimestampsResolve BY DEF IInv
<1> QED BY <1>1, Invariant, PTL

\* No two tracks of the trace have one uuid, whichever processes they are of, but
\* for tracks with one id of the copies in one process.
THEOREM UuidsCorrect == Spec => []UuidsDistinct
<1>1. ASSUME IInv, NEW d \in descriptors, Regular(d)
      PROVE  d.of \in Copy /\ d.uuid = <<d.id, GetProcessUuid(d.of, TRUE)>>
  <2>1. d.of \in Copy BY <1>1 DEF IInv, TypeOK, Descriptor
  <2>2. isInitialized[d.of] BY <1>1, <2>1 DEF IInv, NothingBefore
  <2>3. processUuid[d.of] = GetProcessUuid(d.of, TRUE)
    <3>1. processUuid[d.of] = GetProcessUuid(d.of, given[d.of].statOk)
      BY <1>1, <2>1, <2>2 DEF IInv, UuidFixed
    <3> QED BY <1>1, <3>1 DEF GetProcessUuid, Regular
  <2>4. CASE d.uuid = <<d.id, processUuid[d.of]>> BY <2>1, <2>3, <2>4
  <2>5. ASSUME NEW k \in 1 .. Len(tracks[d.of]), d.id = Offset + k - 1,
               d.uuid = tracks[d.of][k].uuid
        PROVE  d.uuid = <<d.id, processUuid[d.of]>>
    <3>1. k \notin early[d.of] BY <1>1, <2>5 DEF Early, Regular
    <3> QED BY <1>1, <2>1, <2>5, <3>1 DEF IInv, TracksRight
  <2> QED BY <1>1, <2>1, <2>3, <2>4, <2>5 DEF IInv, DescriptorsRight
<1>2. IInv => UuidsDistinct
  <2> SUFFICES ASSUME IInv, NEW d \in descriptors, NEW e \in descriptors, d.uuid = e.uuid,
                      Regular(d), Regular(e)
               PROVE  SameProcess(d.of, e.of) /\ d.id = e.id
    BY DEF UuidsDistinct
  <2>1. /\ d.of \in Copy /\ d.uuid = <<d.id, GetProcessUuid(d.of, TRUE)>>
        /\ e.of \in Copy /\ e.uuid = <<e.id, GetProcessUuid(e.of, TRUE)>>
    BY <1>1
  <2>2. d.id = e.id /\ GetProcessUuid(d.of, TRUE) = GetProcessUuid(e.of, TRUE)
    <3>1. <<d.id, GetProcessUuid(d.of, TRUE)>> = <<e.id, GetProcessUuid(e.of, TRUE)>>
      BY <2>1
    <3> QED BY <3>1, Zenon
  <2>3. Pid[d.of] = Pid[e.of] /\ {Namespace[d.of]} = {Namespace[e.of]}
    BY <2>2 DEF GetProcessUuid
  <2>4. Namespace[d.of] = Namespace[e.of] BY <2>3, Zenon
  <2> QED BY <2>2, <2>3, <2>4 DEF SameProcess
<1> QED BY <1>2, Invariant, PTL

\* Every thread and every track registered after percetto_init is found under
\* the track of its own process.
THEOREM TracksCorrect == Spec => []TracksUnderProcess
<1>1. IInv => TracksUnderProcess
  <2> SUFFICES ASSUME IInv, NEW d \in descriptors, d.id # 0, ~Early(d)
               PROVE  \E e \in descriptors : e.of = d.of /\ e.id = 0 /\ e.uuid = <<0, d.parent>>
    BY DEF TracksUnderProcess
  <2>1. d.of \in Copy BY DEF IInv, TypeOK, Descriptor
  <2>2. d.parent = processUuid[d.of]
    <3>1. ASSUME NEW k \in 1 .. Len(tracks[d.of]), d.id = Offset + k - 1,
                 d.parent = tracks[d.of][k].parent
          PROVE  d.parent = processUuid[d.of]
      <4>1. k \notin early[d.of] BY <3>1 DEF Early
      <4> QED BY <2>1, <3>1, <4>1 DEF IInv, TracksRight
    <3> QED BY <3>1 DEF IInv, DescriptorsRight
  <2> QED BY <2>2 DEF IInv, ProcessesDescribed
<1> QED BY <1>1, Invariant, PTL

\* A setting is the environment's number if it fits, otherwise the program's.
THEOREM SettingsCorrect == Spec => []SettingsIntended
<1>1. IInv => SettingsIntended
  <2> SUFFICES ASSUME IInv, NEW p \in Copy, isInitialized[p]
               PROVE  /\ setting[p] \in env[p] \cup {given[p].args}
                      /\ \A n \in env[p] : n \in 0 .. UintMax => setting[p] = n
    BY DEF SettingsIntended
  <2>1. setting[p] = GetEnvU32(env[p], given[p].args) BY DEF IInv, SettingFixed
  <2>2. /\ env[p] \in SUBSET Int /\ given[p].args \in 0 .. UintMax
        /\ \A m, n \in env[p] : m = n
    BY IdentityAssumption DEF IInv, TypeOK
  <2> QED BY <2>1, <2>2, EnvironmentFits
<1> QED BY <1>1, Invariant, PTL

\* DONT_CARE finds a clock if there is one, and the clock in use works.
THEOREM ClockCorrect == Spec => []ClockFound
<1>1. IInv => ClockFound BY DEF IInv, RefusalsJustified, ClockFixed, ClockFound
<1> QED BY <1>1, Invariant, PTL
=============================================================================

-------------------------------- MODULE Atrace --------------------------------
(***************************************************************************)
(* percetto-atrace.c and the macros of percetto-atrace.h: an ATRACE_ANY or *)
(* ATRACE_COUNTER call site creates its category, and its counter track,   *)
(* when it is first reached, and keeps the pointers in static atomics that *)
(* later calls read without the lock.                                      *)
(***************************************************************************)
EXTENDS Naturals, Sequences, FiniteSets

CONSTANTS
  Site,           \* call sites of the macros
  Counter,        \* those of ATRACE_COUNTER
  TagsOf,         \* ATRACE_TAG at each site: the numbers of the bits that are 1
  NameOf,         \* address of the name at each ATRACE_COUNTER site
  Thread,
  None,
  LastTag,        \* the bit of ATRACE_TAG_LAST
  MaxGroups,      \* PERCETTO_MAX_GROUP_CATEGORIES
  MaxGroupSize,   \* PERCETTO_MAX_GROUP_SIZE
  MaxTracks       \* PERCETTO_MAX_TRACKS

ASSUME SitesAssumption ==
  /\ Counter \subseteq Site /\ None \notin Site \cup Thread
  /\ TagsOf \in [Site -> SUBSET Nat] /\ DOMAIN NameOf = Counter

ASSUME LimitsAssumption ==
  /\ LastTag \in Nat /\ MaxGroups \in Nat /\ MaxTracks \in Nat
  /\ MaxGroupSize \in Nat /\ MaxGroupSize >= 2

VARIABLES
  status,         \* s_percetto_status
  lock,           \* holder of s_lock
  groups,         \* s_groups: tags, members and registration of each category
  counters,       \* s_tracks: name and registration of each track
  cat, trk,       \* the static pointers of each site, Null and 0 at first
  pc, site,       \* label of each thread, and the site it is at
  inits           \* history: calls of percetto_init

trackers == <<groups, counters>>
sites == <<cat, trk>>
vars == <<status, lock, trackers, sites, pc, site, inits>>

\* Category pointers: NULL, &s_category_never, g_percetto_categories[i] and
\* &s_groups.categories[i - 1].
Null == [kind |-> "null", i |-> 0]
Never == [kind |-> "never", i |-> 0]
RegularPtr(i) == [kind |-> "regular", i |-> i]
GroupPtr(i) == [kind |-> "group", i |-> i]

ValidTags == 0 .. LastTag

CategoryPtr ==
  {Null, Never} \cup {RegularPtr(i) : i \in ValidTags}
    \cup {GroupPtr(i) : i \in 1 .. MaxGroups}

Registration == {"none", "ok", "refused"}

Label ==
  {"idle", "status", "initlock", "init", "initunlock", "lock", "counter", "regtrack",
   "storetrk", "category", "reggroup", "storecat", "unlock", "mask", "event"}

\* Labels at which a thread holds s_lock.
Locked ==
  {"init", "initunlock", "counter", "regtrack", "storetrk", "category", "reggroup",
   "storecat", "unlock"}

TypeOK ==
  /\ status \in {"not_started", "ok", "error"}
  /\ lock \in Thread \cup {None}
  /\ Len(groups) <= MaxGroups
  /\ groups \in Seq([tags : SUBSET Nat, members : SUBSET ValidTags, reg : Registration])
  /\ Len(counters) <= MaxTracks
  /\ counters \in Seq([name : {NameOf[s] : s \in Counter}, reg : Registration])
  /\ cat \in [Site -> CategoryPtr]
  /\ trk \in [Site -> 0 .. MaxTracks]
  /\ pc \in [Thread -> Label]
  /\ site \in [Thread -> Site \cup {None}]
  /\ inits \in Nat

Init ==
  /\ status = "not_started"
  /\ lock = None
  /\ groups = <<>> /\ counters = <<>>
  /\ cat = [s \in Site |-> Null]
  /\ trk = [s \in Site |-> 0]
  /\ pc = [t \in Thread |-> "idle"]
  /\ site = [t \in Thread |-> None]
  /\ inits = 0

Goto(t, l) == pc' = [pc EXCEPT ![t] = l]

-----------------------------------------------------------------------------
(* The macros and the lazy initialisation *)

\* ATRACE_ANY, ATRACE_COUNTER: the static pointer is loaded.
Macro(t, s) ==
  /\ pc[t] = "idle"
  /\ site' = [site EXCEPT ![t] = s]
  /\ Goto(t, IF cat[s] = Null THEN "status" ELSE "mask")
  /\ UNCHANGED <<status, lock, trackers, sites, inits>>

\* ATRACE_INIT
AtraceInitCall(t) ==
  /\ pc[t] = "idle"
  /\ Goto(t, "initlock")
  /\ UNCHANGED <<status, lock, trackers, sites, site, inits>>

\* The status is read before the lock is taken.
ReadStatus(t) ==
  /\ pc[t] = "status"
  /\ Goto(t, IF status = "not_started" THEN "initlock" ELSE "lock")
  /\ UNCHANGED <<status, lock, trackers, sites, site, inits>>

LockInit(t) ==
  /\ pc[t] = "initlock" /\ lock = None
  /\ lock' = t
  /\ Goto(t, "init")
  /\ UNCHANGED <<status, trackers, sites, site, inits>>

\* Mutant of AtraceInit: the status is not read again under the lock.
AtraceInitAgain(t, ok) ==
  /\ pc[t] = "init"
  /\ status' = IF ok THEN "ok" ELSE "error"
  /\ inits' = inits + 1
  /\ Goto(t, "initunlock")
  /\ UNCHANGED <<lock, trackers, sites, site>>

\* atrace_init, with the lock: percetto_init is called unless it has been.
AtraceInit(t, ok) ==
  /\ pc[t] = "init"
  /\ IF status = "not_started"
       THEN /\ status' = IF ok THEN "ok" ELSE "error"
            /\ inits' = inits + 1
       ELSE UNCHANGED <<status, inits>>
  /\ Goto(t, "initunlock")
  /\ UNCHANGED <<lock, trackers, sites, site>>

UnlockInit(t) ==
  /\ pc[t] = "initunlock"
  /\ lock' = None
  /\ Goto(t, IF site[t] = None THEN "idle" ELSE "lock")
  /\ UNCHANGED <<status, trackers, sites, site, inits>>

-----------------------------------------------------------------------------
(* atrace_create_category, atrace_create_category_and_counter *)

\* Mutant of Steps: the category is created first.
StepsCategoryFirst(s) ==
  IF s \in Counter THEN <<"category", "counter", "unlock">> ELSE <<"category", "unlock">>

\* What is done with the lock: "make sure counter is stored before category".
Steps(s) ==
  IF s \in Counter THEN <<"counter", "category", "unlock">> ELSE <<"category", "unlock">>

GotoAfter(t, l) ==
  \E k \in 1 .. Len(Steps(site[t])) - 1 :
    Steps(site[t])[k] = l /\ Goto(t, Steps(site[t])[k + 1])

\* Mutant of Lock: the trackers are used without mutual exclusion.
LockNothing(t) ==
  /\ pc[t] = "lock"
  /\ lock' = t
  /\ Goto(t, Head(Steps(site[t])))
  /\ UNCHANGED <<status, trackers, sites, site, inits>>

Lock(t) ==
  /\ pc[t] = "lock" /\ lock = None
  /\ lock' = t
  /\ Goto(t, Head(Steps(site[t])))
  /\ UNCHANGED <<status, trackers, sites, site, inits>>

\* atrace_create_counter_locked: a track for this name is looked for.
CountersFor(s) == {k \in 1 .. Len(counters) : counters[k].name = NameOf[s]}

\* Percetto could not be initialised, or there is no room.
NoCounter(t) ==
  /\ pc[t] = "counter"
  /\ \/ status # "ok"
     \/ CountersFor(site[t]) = {} /\ Len(counters) = MaxTracks
  /\ GotoAfter(t, "counter")
  /\ UNCHANGED <<status, lock, trackers, sites, site, inits>>

CounterFound(t) ==
  /\ pc[t] = "counter" /\ status = "ok"
  /\ \E k \in CountersFor(site[t]) :
       /\ \A j \in CountersFor(site[t]) : k <= j
       /\ trk' = [trk EXCEPT ![site[t]] = k]
  /\ GotoAfter(t, "counter")
  /\ UNCHANGED <<status, lock, trackers, cat, site, inits>>

NewCounter(t) ==
  /\ pc[t] = "counter" /\ status = "ok"
  /\ CountersFor(site[t]) = {} /\ Len(counters) < MaxTracks
  /\ counters' = Append(counters, [name |-> NameOf[site[t]], reg |-> "none"])
  /\ Goto(t, "regtrack")
  /\ UNCHANGED <<status, lock, groups, sites, site, inits>>

\* percetto_register_track, whose result is dropped, is done with the lock.
RegisterTrack(t, result) ==
  /\ pc[t] = "regtrack"
  /\ counters' = [counters EXCEPT ![Len(counters)].reg = result]
  /\ Goto(t, "storetrk")
  /\ UNCHANGED <<status, lock, groups, sites, site, inits>>

StoreTrack(t) ==
  /\ pc[t] = "storetrk"
  /\ trk' = [trk EXCEPT ![site[t]] = Len(counters)]
  /\ GotoAfter(t, "counter")
  /\ UNCHANGED <<status, lock, trackers, cat, site, inits>>

\* The categories of the first MaxGroupSize valid tags; more are left out.
FirstTags(T) ==
  {i \in T \cap ValidTags :
     Cardinality({j \in T \cap ValidTags : j < i}) < MaxGroupSize}

Members(s) == FirstTags(TagsOf[s])

\* Mutant of GroupsFor: no category is looked for.
GroupsForNone(s) == {}

\* Mutant of GroupsFor: a group with a tag in common is taken.
GroupsForAnyTag(s) ==
  {k \in 1 .. Len(groups) : groups[k].tags \cap TagsOf[s] # {}}

\* atrace_create_category_locked: a group for these tags is looked for.
GroupsFor(s) == {k \in 1 .. Len(groups) : groups[k].tags = TagsOf[s]}

\* Mutant of RoomForGroup: off by one.
RoomForOneMore == Len(groups) <= MaxGroups

RoomForGroup == Len(groups) < MaxGroups

Usable(s) == status = "ok" /\ Members(s) # {}

StoreCategoryPtr(t, p) ==
  /\ cat' = [cat EXCEPT ![site[t]] = p]
  /\ GotoAfter(t, "category")
  /\ UNCHANGED <<status, lock, trackers, trk, site, inits>>

\* Mutant of CategoryNever: the pointer stays NULL, so that it is tried again.
CategoryNeverRetry(t) ==
  /\ pc[t] = "category"
  /\ \/ ~Usable(site[t])
     \/ /\ GroupsFor(site[t]) = {} /\ Cardinality(Members(site[t])) > 1
        /\ ~RoomForGroup
  /\ GotoAfter(t, "category")
  /\ UNCHANGED <<status, lock, trackers, sites, site, inits>>

CategoryNever(t) ==
  /\ pc[t] = "category"
  /\ \/ ~Usable(site[t])
     \/ /\ GroupsFor(site[t]) = {} /\ Cardinality(Members(site[t])) > 1
        /\ ~RoomForGroup
  /\ StoreCategoryPtr(t, Never)

CategoryFound(t) ==
  /\ pc[t] = "category" /\ Usable(site[t])
  /\ \E k \in GroupsFor(site[t]) :
       /\ \A j \in GroupsFor(site[t]) : k <= j
       /\ StoreCategoryPtr(t, GroupPtr(k))

CategoryRegular(t) ==
  /\ pc[t] = "category" /\ Usable(site[t]) /\ GroupsFor(site[t]) = {}
  /\ \E i \in Members(site[t]) :
       Members(site[t]) = {i} /\ StoreCategoryPtr(t, RegularPtr(i))

NewGroup(t) ==
  /\ pc[t] = "category" /\ Usable(site[t]) /\ GroupsFor(site[t]) = {}
  /\ Cardinality(Members(site[t])) > 1 /\ RoomForGroup
  /\ groups' = Append(groups, [tags |-> TagsOf[site[t]], members |-> Members(site[t]),
                               reg |-> "none"])
  /\ Goto(t, "reggroup")
  /\ UNCHANGED <<status, lock, counters, sites, site, inits>>

\* percetto_register_group_category, whose result is dropped.
RegisterGroup(t, result) ==
  /\ pc[t] = "reggroup"
  /\ groups' = [groups EXCEPT ![Len(groups)].reg = result]
  /\ Goto(t, "storecat")
  /\ UNCHANGED <<status, lock, counters, sites, site, inits>>

StoreCategory(t) ==
  /\ pc[t] = "storecat"
  /\ StoreCategoryPtr(t, GroupPtr(Len(groups)))

Unlock(t) ==
  /\ pc[t] = "unlock"
  /\ lock' = None
  /\ Goto(t, "mask")
  /\ UNCHANGED <<status, trackers, sites, site, inits>>

-----------------------------------------------------------------------------
(* The event *)

\* Sessions enable only what Percetto knows.
MayBeEnabled(p) ==
  \/ p.kind = "regular"
  \/ p.kind = "group" /\ groups[p.i].reg = "ok"

\* The category is loaded for its mask ...
LoadMask(t, enabled) ==
  /\ pc[t] = "mask"
  /\ enabled => MayBeEnabled(cat[site[t]])
  /\ Goto(t, IF enabled THEN "event" ELSE "idle")
  /\ site' = [site EXCEPT ![t] = IF enabled THEN @ ELSE None]
  /\ UNCHANGED <<status, lock, trackers, sites, inits>>

\* ... and again, with the track, for the event, which TraceTrackEvent writes.
AtraceEvent(t) ==
  /\ pc[t] = "event"
  /\ Goto(t, "idle")
  /\ site' = [site EXCEPT ![t] = None]
  /\ UNCHANGED <<status, lock, trackers, sites, inits>>

-----------------------------------------------------------------------------
CreateStep(t) ==
  \/ Lock(t) \/ Unlock(t)
  \/ NoCounter(t) \/ CounterFound(t) \/ NewCounter(t) \/ StoreTrack(t)
  \/ CategoryNever(t) \/ CategoryFound(t) \/ CategoryRegular(t) \/ NewGroup(t)
  \/ StoreCategory(t)
  \/ \E result \in {"ok", "refused"} : RegisterTrack(t, result) \/ RegisterGroup(t, result)

\* A step of a call in progress.
Step(t) ==
  \/ ReadStatus(t) \/ LockInit(t) \/ UnlockInit(t)
  \/ \E ok \in BOOLEAN : AtraceInit(t, ok)
  \/ CreateStep(t)
  \/ \E enabled \in BOOLEAN : LoadMask(t, enabled)
  \/ AtraceEvent(t)

Call(t) == AtraceInitCall(t) \/ \E s \in Site : Macro(t, s)

Next == \E t \in Thread : Call(t) \/ Step(t)

SafeSpec == Init /\ [][Next]_vars

\* A thread inside a call is scheduled again.  The mutex is not fair: no thread
\* is promised the lock when another one takes it again and again.
Spec == SafeSpec /\ \A t \in Thread : WF_vars(Step(t))

-----------------------------------------------------------------------------
(* Properties *)

\* However many threads find the status unset, percetto_init is called once.
InitOnce == inits <= 1

\* "Check if we already have a matching group category for these tags": no two
\* groups have the same tags, no two counters the same name, so that the limits
\* are reached only by different ones.
TrackersUnique ==
  /\ \A j, k \in 1 .. Len(groups) : groups[j].tags = groups[k].tags => j = k
  /\ \A j, k \in 1 .. Len(counters) : counters[j].name = counters[k].name => j = k

\* The pointers of a site do not change once they are set, although several
\* threads may be creating them: a call that loads its category twice gets the
\* mask and the category of the same one.
SitesWriteOnce ==
  [][\A s \in Site :
       /\ cat[s] # Null => cat'[s] = cat[s]
       /\ trk[s] # 0 => trk'[s] = trk[s]]_vars

\* "Holding lock during register to avoid another thread using the same category
\* before it's ready": no site has a pointer to a group or track before its
\* registration is over.
PublishedReady ==
  \A s \in Site :
    /\ cat[s].kind = "group" => groups[cat[s].i].reg # "none"
    /\ trk[s] # 0 => counters[trk[s]].reg # "none"

\* A site's category is the one that its tags stand for.  It is the disabled one
\* only if there are no tags, Percetto could not be initialised, or the tags take
\* a group and other combinations have taken them all.
SitesResolved ==
  \A s \in Site :
    LET tags == TagsOf[s] \cap ValidTags IN
    \/ cat[s] = Null
    \/ /\ cat[s] = Never
       /\ \/ status = "error" \/ tags = {}
          \/ /\ Cardinality(tags) > 1 /\ Len(groups) = MaxGroups
             /\ \A k \in 1 .. MaxGroups : groups[k].tags # TagsOf[s]
    \/ \E i \in ValidTags : cat[s] = RegularPtr(i) /\ tags = {i}
    \/ \E k \in 1 .. Len(groups) :
         /\ cat[s] = GroupPtr(k) /\ groups[k].tags = TagsOf[s]
         /\ groups[k].members \subseteq tags
         /\ Cardinality(groups[k].members) \in 2 .. MaxGroupSize
         /\ groups[k].members # tags => Cardinality(groups[k].members) = MaxGroupSize

\* A counter event is on the track of its name, even when another thread is just
\* creating the pointers the event is sent with, unless the tracks are used up.
CountersTracked ==
  \A t \in Thread :
    pc[t] = "event" /\ site[t] \in Counter =>
      LET k == trk[site[t]] IN
      \/ k # 0 /\ counters[k].name = NameOf[site[t]]
      \/ /\ k = 0 /\ Len(counters) = MaxTracks
         /\ \A j \in 1 .. MaxTracks : counters[j].name # NameOf[site[t]]

\* Every macro returns although the lock is not fair, provided ATRACE_INIT is not
\* called for ever: a site is created only until its pointer is set, so the
\* macros stop asking for the lock.
CallsReturn ==
  <>[][\A t \in Thread : ~AtraceInitCall(t)]_vars
    => \A t \in Thread : pc[t] # "idle" ~> pc[t] = "idle"
=============================================================================

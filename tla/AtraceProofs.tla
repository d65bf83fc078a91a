----------------------------- MODULE AtraceProofs -----------------------------
(***************************************************************************)
(* Proofs about Atrace, for any call sites, threads and limits.  The       *)
(* inductive invariant Inv has layers: who holds the lock and what the     *)
(* status is (ControlInv); what is known of the trackers at each label of  *)
(* the thread with the lock, and of the pointers that lead to them         *)
(* (GroupsInv, CountersInv); what a category pointer says of the track of  *)
(* its site (TrackFirst), and an event of its category (EventInv).         *)
(***************************************************************************)
EXTENDS Atrace, FiniteSetTheorems, SequenceTheorems, WellFoundedInduction, TLAPS

AtSite == Label \ {"idle", "initlock", "init", "initunlock"}

\* The lock's holder is the thread at a label under the lock, and a label of
\* ATRACE_COUNTER alone is reached at counter sites only.  The tracker being
\* registered is the last one.
LabelInv ==
  \A t \in Thread :
    /\ pc[t] \in Locked <=> lock = t
    /\ pc[t] \in AtSite => site[t] \in Site
    /\ pc[t] \in {"counter", "regtrack", "storetrk"} => site[t] \in Counter
    /\ pc[t] \in {"regtrack", "storetrk"} => Len(counters) > 0
    /\ pc[t] \in {"reggroup", "storecat"} => Len(groups) > 0

\* percetto_init has been called if and only if the status says so, and it has
\* before a thread takes the lock to create something.
StatusInv ==
  /\ status = "not_started" => inits = 0
  /\ status # "not_started" => inits = 1
  /\ \A t \in Thread :
       pc[t] \in {"initunlock", "lock"} \cup (Locked \ {"init"}) =>
         status # "not_started"

ControlInv == TypeOK /\ LabelInv /\ StatusInv

\* The category pointer that a site gets: what it depends on can no longer change,
\* so that another thread creating the category finds the same one.
Fits(s, p) ==
  \/ /\ p = Never
     /\ \/ status = "error" \/ Members(s) = {}
        \/ Len(groups) = MaxGroups /\ GroupsFor(s) = {} /\ Cardinality(Members(s)) > 1
  \/ \E i \in ValidTags :
       p = RegularPtr(i) /\ status = "ok" /\ Members(s) = {i} /\ GroupsFor(s) = {}
  \/ \E k \in GroupsFor(s) :
       p = GroupPtr(k) /\ status = "ok" /\ groups[k].reg # "none"

\* Groups have different tags, two at least; only the last one may be without its
\* registration, and then its creator holds the lock.
GroupsInv ==
  /\ \A j, k \in 1 .. Len(groups) : groups[j].tags = groups[k].tags => j = k
  /\ \A k \in 1 .. Len(groups) :
       /\ Cardinality(FirstTags(groups[k].tags)) > 1
       /\ groups[k].members = FirstTags(groups[k].tags)
  /\ \A k \in 1 .. Len(groups) :
       groups[k].reg = "none" =>
         k = Len(groups) /\ lock \in Thread /\ pc[lock] = "reggroup"
  /\ \A t \in Thread :
       pc[t] \in {"reggroup", "storecat"} =>
         status = "ok" /\ groups[Len(groups)].tags = TagsOf[site[t]]
  /\ \A s \in Site : cat[s] # Null => Fits(s, cat[s])

\* The same of counters.
CountersInv ==
  /\ \A j, k \in 1 .. Len(counters) : counters[j].name = counters[k].name => j = k
  /\ \A k \in 1 .. Len(counters) :
       counters[k].reg = "none" =>
         k = Len(counters) /\ lock \in Thread /\ pc[lock] = "regtrack"
  /\ \A t \in Thread :
       pc[t] \in {"regtrack", "storetrk"} =>
         counters[Len(counters)].name = NameOf[site[t]]
  /\ \A s \in Site :
       trk[s] # 0 =>
         s \in Counter /\ trk[s] \in CountersFor(s) /\ counters[trk[s]].reg # "none"

\* The track of a counter site has been looked for.
Tracked(s) ==
  \/ trk[s] # 0
  \/ status = "error"
  \/ Len(counters) = MaxTracks /\ CountersFor(s) = {}

\* Counters are stored before categories.
TrackFirst ==
  /\ \A s \in Counter : cat[s] # Null => Tracked(s)
  /\ \A t \in Thread :
       pc[t] \in {"category", "reggroup", "storecat"} /\ site[t] \in Counter =>
         Tracked(site[t])

\* An event is sent for a category that a session can enable.
EventInv ==
  \A t \in Thread : pc[t] = "event" => cat[site[t]].kind \in {"regular", "group"}

Inv == ControlInv /\ GroupsInv /\ CountersInv /\ TrackFirst /\ EventInv

-----------------------------------------------------------------------------
(* Labels *)

LEMMA FirstLabel ==
  ASSUME NEW s \in Site
  PROVE  Head(Steps(s)) = IF s \in Counter THEN "counter" ELSE "category"
BY DEF Steps

LEMMA AfterCounter ==
  ASSUME NEW t \in Thread, GotoAfter(t, "counter")
  PROVE  Goto(t, "category")
BY DEF GotoAfter, Steps

LEMMA AfterCategory ==
  ASSUME NEW t \in Thread, GotoAfter(t, "category")
  PROVE  Goto(t, "unlock")
BY DEF GotoAfter, Steps

LEMMA PtrTypes ==
  /\ Null \in CategoryPtr /\ Never \in CategoryPtr
  /\ \A i \in ValidTags : RegularPtr(i) \in CategoryPtr
  /\ \A i \in 1 .. MaxGroups : GroupPtr(i) \in CategoryPtr
BY DEF CategoryPtr

LEMMA FirstTagsValid == \A T : FirstTags(T) \subseteq ValidTags
BY DEF FirstTags

-----------------------------------------------------------------------------
(* Trackers: what Append and the registration of the last element do *)

CounterTracker == [name : {NameOf[s] : s \in Counter}, reg : Registration]
GroupTracker == [tags : SUBSET Nat, members : SUBSET ValidTags, reg : Registration]

LEMMA RegisterLast ==
  ASSUME NEW S, NEW q \in Seq(S), Len(q) > 0, NEW v, NEW r,
         r = [q EXCEPT ![Len(q)].reg = v], [q[Len(q)] EXCEPT !.reg = v] \in S
  PROVE  /\ r \in Seq(S)
         /\ Len(r) = Len(q)
         /\ \A k \in 1 .. Len(q) : k # Len(q) => r[k] = q[k]
         /\ r[Len(q)] = [q[Len(q)] EXCEPT !.reg = v]
<1> DEFINE e == [q[Len(q)] EXCEPT !.reg = v]
<1>1. r = [q EXCEPT ![Len(q)] = e]
  OBVIOUS
<1>2. Len(q) \in 1 .. Len(q) /\ e \in S
  BY LenProperties
<1> HIDE DEF e
<1>3. /\ [q EXCEPT ![Len(q)] = e] \in Seq(S)
      /\ Len([q EXCEPT ![Len(q)] = e]) = Len(q)
      /\ \A j \in 1 .. Len(q) :
           [q EXCEPT ![Len(q)] = e][j] = IF j = Len(q) THEN e ELSE q[j]
  BY <1>2, ExceptSeq
<1>4. r[Len(q)] = e
  BY <1>1, <1>2, <1>3
<1> QED
  BY <1>1, <1>3, <1>4 DEF e

LEMMA RegisterCounter ==
  ASSUME NEW q \in Seq(CounterTracker), Len(q) > 0, NEW v \in Registration,
         NEW r, r = [q EXCEPT ![Len(q)].reg = v]
  PROVE  /\ r \in Seq(CounterTracker)
         /\ Len(r) = Len(q)
         /\ \A k \in 1 .. Len(q) : r[k].name = q[k].name
         /\ \A k \in 1 .. Len(q) : k # Len(q) => r[k] = q[k]
         /\ r[Len(q)].reg = v
<1>1. Len(q) \in 1 .. Len(q)
  BY LenProperties
<1>2. q[Len(q)] \in CounterTracker
  BY <1>1, ElementOfSeq
<1>3. [q[Len(q)] EXCEPT !.reg = v] \in CounterTracker
  BY <1>2 DEF CounterTracker
<1>4. /\ r \in Seq(CounterTracker)
      /\ Len(r) = Len(q)
      /\ \A k \in 1 .. Len(q) : k # Len(q) => r[k] = q[k]
      /\ r[Len(q)] = [q[Len(q)] EXCEPT !.reg = v]
  BY <1>3, RegisterLast
<1>5. r[Len(q)].name = q[Len(q)].name /\ r[Len(q)].reg = v
  BY <1>2, <1>4 DEF CounterTracker
<1> QED
  BY <1>4, <1>5

LEMMA RegisterGroupTracker ==
  ASSUME NEW q \in Seq(GroupTracker), Len(q) > 0, NEW v \in Registration,
         NEW r, r = [q EXCEPT ![Len(q)].reg = v]
  PROVE  /\ r \in Seq(GroupTracker)
         /\ Len(r) = Len(q)
         /\ \A k \in 1 .. Len(q) : r[k].tags = q[k].tags /\ r[k].members = q[k].members
         /\ \A k \in 1 .. Len(q) : k # Len(q) => r[k] = q[k]
         /\ r[Len(q)].reg = v
<1>1. Len(q) \in 1 .. Len(q)
  BY LenProperties
<1>2. q[Len(q)] \in GroupTracker
  BY <1>1, ElementOfSeq
<1>3. [q[Len(q)] EXCEPT !.reg = v] \in GroupTracker
  BY <1>2 DEF GroupTracker
<1>4. /\ r \in Seq(GroupTracker)
      /\ Len(r) = Len(q)
      /\ \A k \in 1 .. Len(q) : k # Len(q) => r[k] = q[k]
      /\ r[Len(q)] = [q[Len(q)] EXCEPT !.reg = v]
  BY <1>3, RegisterLast
<1>5. /\ r[Len(q)].tags = q[Len(q)].tags /\ r[Len(q)].members = q[Len(q)].members
      /\ r[Len(q)].reg = v
  BY <1>2, <1>4 DEF GroupTracker
<1> QED
  BY <1>4, <1>5

-----------------------------------------------------------------------------
(* The lock and the status *)

LEMMA ControlInit == Init => ControlInv
BY SitesAssumption, LimitsAssumption, PtrTypes
DEF Init, ControlInv, TypeOK, LabelInv, StatusInv, Label, Locked, AtSite

\* The steps that change neither the status nor a tracker nor a pointer.
LEMMA ControlWalk ==
  ASSUME ControlInv, NEW t \in Thread,
         \/ Call(t) \/ ReadStatus(t) \/ LockInit(t) \/ UnlockInit(t) \/ Lock(t) \/ Unlock(t)
         \/ (\E enabled \in BOOLEAN : LoadMask(t, enabled)) \/ AtraceEvent(t)
  PROVE  ControlInv'
<1> USE SitesAssumption
        DEF ControlInv, TypeOK, LabelInv, StatusInv, Label, Locked, AtSite, Goto,
            trackers, sites
<1>1. CASE AtraceInitCall(t)
  BY <1>1 DEF AtraceInitCall
<1>2. ASSUME NEW s \in Site, Macro(t, s) PROVE ControlInv'
  BY <1>2 DEF Macro
<1>3. CASE ReadStatus(t)
  BY <1>3 DEF ReadStatus
<1>4. CASE LockInit(t)
  BY <1>4 DEF LockInit
<1>5. CASE UnlockInit(t)
  BY <1>5 DEF UnlockInit
<1>6. CASE Lock(t)
  BY <1>6, FirstLabel DEF Lock
<1>7. CASE Unlock(t)
  BY <1>7 DEF Unlock
<1>8. ASSUME NEW enabled \in BOOLEAN, LoadMask(t, enabled) PROVE ControlInv'
  <2>1. \/ Goto(t, "event") /\ UNCHANGED site
        \/ Goto(t, "idle") /\ site' = [site EXCEPT ![t] = None]
    <3>1. CASE enabled
      BY <1>8, <3>1 DEF LoadMask
    <3>2. CASE ~enabled
      BY <1>8, <3>2 DEF LoadMask
    <3> QED
      BY <3>1, <3>2
  <2>2. pc[t] = "mask" /\ UNCHANGED <<status, lock, trackers, sites, inits>>
    BY <1>8 DEF LoadMask
  <2>3. CASE Goto(t, "event") /\ UNCHANGED site
    BY <2>2, <2>3
  <2>4. CASE Goto(t, "idle") /\ site' = [site EXCEPT ![t] = None]
    BY <2>2, <2>4
  <2> QED
    BY <2>1, <2>3, <2>4
<1>9. CASE AtraceEvent(t)
  BY <1>9 DEF AtraceEvent
<1> QED
  BY <1>1, <1>2, <1>3, <1>4, <1>5, <1>6, <1>7, <1>8, <1>9 DEF Call

LEMMA ControlAtraceInit ==
  ASSUME ControlInv, NEW t \in Thread, NEW ok \in BOOLEAN, AtraceInit(t, ok)
  PROVE  ControlInv'
BY SitesAssumption
DEF ControlInv, TypeOK, LabelInv, StatusInv, Label, Locked, AtSite, Goto, trackers, sites,
    AtraceInit

\* A step of the thread with the lock: only its own label changes.
LEMMA LockedStep ==
  ASSUME ControlInv, NEW t \in Thread, pc[t] \in Locked, NEW l \in Locked \ {"init"},
         status # "not_started", UNCHANGED <<status, lock, site, inits>>, Goto(t, l),
         site[t] \in Site, l # "counter", TypeOK',
         l \in {"regtrack", "storetrk"} => site[t] \in Counter /\ Len(counters') > 0,
         l \in {"reggroup", "storecat"} => Len(groups') > 0
  PROVE  ControlInv'
BY DEF ControlInv, TypeOK, LabelInv, StatusInv, Label, Locked, AtSite, Goto

LEMMA ControlCounter ==
  ASSUME ControlInv, NEW t \in Thread,
         \/ NoCounter(t) \/ CounterFound(t) \/ NewCounter(t) \/ StoreTrack(t)
         \/ \E result \in {"ok", "refused"} : RegisterTrack(t, result)
  PROVE  ControlInv'
<1>1. /\ pc[t] \in {"counter", "regtrack", "storetrk"} /\ pc[t] \in Locked
      /\ site[t] \in Counter /\ site[t] \in Site /\ status # "not_started"
      /\ UNCHANGED <<status, lock, site, inits>>
  BY SitesAssumption
  DEF NoCounter, CounterFound, NewCounter, StoreTrack, RegisterTrack, ControlInv, LabelInv,
      StatusInv, Locked, AtSite, Label
<1>2. /\ Len(counters) \in 0 .. MaxTracks /\ MaxTracks \in Nat
      /\ counters \in Seq(CounterTracker)
  BY LimitsAssumption, LenProperties DEF ControlInv, TypeOK, CounterTracker
<1>3. /\ "category" \in Locked \ {"init"} /\ "regtrack" \in Locked \ {"init"}
      /\ "storetrk" \in Locked \ {"init"}
      /\ Locked \subseteq Label
  BY DEF Locked, Label
<1>4. CASE NoCounter(t)
  <2>1. Goto(t, "category") /\ TypeOK'
    BY <1>3, <1>4, AfterCounter DEF NoCounter, ControlInv, TypeOK, trackers, sites, Goto
  <2> QED
    BY <1>1, <1>3, <2>1, LockedStep
<1>5. CASE CounterFound(t)
  <2>1. PICK k \in 1 .. Len(counters) : trk' = [trk EXCEPT ![site[t]] = k]
    BY <1>5 DEF CounterFound, CountersFor
  <2>2. k \in 0 .. MaxTracks
    BY <1>2
  <2>3. trk' \in [Site -> 0 .. MaxTracks]
    BY <2>1, <2>2 DEF ControlInv, TypeOK
  <2>4. Goto(t, "category") /\ TypeOK'
    BY <1>3, <1>5, <2>3, AfterCounter
    DEF CounterFound, ControlInv, TypeOK, trackers, Goto
  <2> QED
    BY <1>1, <1>3, <2>4, LockedStep
<1>6. CASE NewCounter(t)
  <2> DEFINE e == [name |-> NameOf[site[t]], reg |-> "none"]
  <2>1. e \in CounterTracker /\ counters' = Append(counters, e) /\ Len(counters) < MaxTracks
    BY <1>1, <1>6 DEF NewCounter, CounterTracker, Registration
  <2> HIDE DEF e
  <2>2. counters' \in Seq(CounterTracker) /\ Len(counters') = Len(counters) + 1
    BY <1>2, <2>1, AppendProperties
  <2>3. Len(counters') <= MaxTracks /\ Len(counters') > 0
    BY <1>2, <2>1, <2>2
  <2>4. Goto(t, "regtrack") /\ TypeOK'
    BY <1>3, <1>6, <2>2, <2>3
    DEF NewCounter, ControlInv, TypeOK, CounterTracker, sites, Goto
  <2> QED
    BY <1>1, <1>3, <2>3, <2>4, LockedStep
<1>7. CASE StoreTrack(t)
  <2>1. Goto(t, "category") /\ TypeOK'
    BY <1>2, <1>3, <1>7, AfterCounter DEF StoreTrack, ControlInv, TypeOK, trackers, Goto
  <2> QED
    BY <1>1, <1>3, <2>1, LockedStep
<1>8. ASSUME NEW result \in {"ok", "refused"}, RegisterTrack(t, result)
      PROVE  ControlInv'
  <2>1. Len(counters) > 0 /\ result \in Registration
    BY <1>8 DEF RegisterTrack, ControlInv, LabelInv, Registration
  <2>2. counters' = [counters EXCEPT ![Len(counters)].reg = result]
    BY <1>8 DEF RegisterTrack
  <2>3. counters' \in Seq(CounterTracker) /\ Len(counters') = Len(counters)
    BY <1>2, <2>1, <2>2, RegisterCounter
  <2>4. Goto(t, "storetrk") /\ TypeOK'
    BY <1>2, <1>3, <1>8, <2>3
    DEF RegisterTrack, ControlInv, TypeOK, CounterTracker, sites, Goto
  <2> QED
    BY <1>1, <1>3, <2>1, <2>3, <2>4, LockedStep
<1> QED
  BY <1>4, <1>5, <1>6, <1>7, <1>8

LEMMA ControlCategory ==
  ASSUME ControlInv, NEW t \in Thread,
         \/ CategoryNever(t) \/ CategoryFound(t) \/ CategoryRegular(t) \/ NewGroup(t)
         \/ StoreCategory(t)
         \/ \E result \in {"ok", "refused"} : RegisterGroup(t, result)
  PROVE  ControlInv'
<1>1. /\ pc[t] \in {"category", "reggroup", "storecat"} /\ pc[t] \in Locked
      /\ site[t] \in Site /\ status # "not_started"
      /\ UNCHANGED <<status, lock, site, inits>>
  BY DEF CategoryNever, CategoryFound, CategoryRegular, NewGroup, StoreCategory,
         RegisterGroup, StoreCategoryPtr, ControlInv, LabelInv, StatusInv, Locked, AtSite,
         Label
<1>2. /\ Len(groups) \in 0 .. MaxGroups /\ MaxGroups \in Nat
      /\ groups \in Seq(GroupTracker)
  BY LimitsAssumption, LenProperties DEF ControlInv, TypeOK, GroupTracker
<1>3. /\ "unlock" \in Locked \ {"init"} /\ "reggroup" \in Locked \ {"init"}
      /\ "storecat" \in Locked \ {"init"}
      /\ Locked \subseteq Label
  BY DEF Locked, Label
<1>4. ASSUME NEW p \in CategoryPtr, StoreCategoryPtr(t, p)
      PROVE  ControlInv'
  <2>1. Goto(t, "unlock") /\ TypeOK'
    BY <1>3, <1>4, AfterCategory DEF StoreCategoryPtr, ControlInv, TypeOK, trackers, Goto
  <2> QED
    BY <1>1, <1>3, <2>1, LockedStep
<1>5. CASE CategoryNever(t)
  BY <1>4, <1>5, PtrTypes DEF CategoryNever
<1>6. CASE CategoryFound(t)
  <2>1. PICK k \in 1 .. Len(groups) : StoreCategoryPtr(t, GroupPtr(k))
    BY <1>6 DEF CategoryFound, GroupsFor
  <2>2. k \in 1 .. MaxGroups
    BY <1>2
  <2>3. GroupPtr(k) \in CategoryPtr
    BY <2>2, PtrTypes
  <2> QED
    BY <1>4, <2>1, <2>3
<1>7. CASE CategoryRegular(t)
  BY <1>4, <1>7, PtrTypes, FirstTagsValid DEF CategoryRegular, Members
<1>8. CASE NewGroup(t)
  <2> DEFINE e == [tags |-> TagsOf[site[t]], members |-> Members(site[t]), reg |-> "none"]
  <2>1. Members(site[t]) \in SUBSET ValidTags /\ TagsOf[site[t]] \in SUBSET Nat
    BY <1>1, SitesAssumption, FirstTagsValid DEF Members
  <2>2. e \in GroupTracker /\ groups' = Append(groups, e) /\ Len(groups) < MaxGroups
    BY <1>8, <2>1 DEF NewGroup, RoomForGroup, GroupTracker, Registration
  <2> HIDE DEF e
  <2>3. groups' \in Seq(GroupTracker) /\ Len(groups') = Len(groups) + 1
    BY <1>2, <2>2, AppendProperties
  <2>4. Len(groups') <= MaxGroups /\ Len(groups') > 0
    BY <1>2, <2>2, <2>3
  <2>5. Goto(t, "reggroup") /\ TypeOK'
    BY <1>3, <1>8, <2>3, <2>4
    DEF NewGroup, ControlInv, TypeOK, GroupTracker, sites, Goto
  <2> QED
    BY <1>1, <1>3, <2>4, <2>5, LockedStep
<1>9. CASE StoreCategory(t)
  <2>1. Len(groups) > 0
    BY <1>9 DEF StoreCategory, ControlInv, LabelInv
  <2>2. Len(groups) \in 1 .. MaxGroups
    BY <1>2, <2>1
  <2>3. GroupPtr(Len(groups)) \in CategoryPtr
    BY <2>2, PtrTypes
  <2> QED
    BY <1>4, <1>9, <2>3 DEF StoreCategory
<1>10. ASSUME NEW result \in {"ok", "refused"}, RegisterGroup(t, result)
       PROVE  ControlInv'
  <2>1. Len(groups) > 0 /\ result \in Registration
    BY <1>10 DEF RegisterGroup, ControlInv, LabelInv, Registration
  <2>2. groups' = [groups EXCEPT ![Len(groups)].reg = result]
    BY <1>10 DEF RegisterGroup
  <2>3. groups' \in Seq(GroupTracker) /\ Len(groups') = Len(groups)
    BY <1>2, <2>1, <2>2, RegisterGroupTracker
  <2>4. Goto(t, "storecat") /\ TypeOK'
    BY <1>2, <1>3, <1>10, <2>3
    DEF RegisterGroup, ControlInv, TypeOK, GroupTracker, sites, Goto
  <2> QED
    BY <1>1, <1>3, <2>1, <2>3, <2>4, LockedStep
<1> QED
  BY <1>5, <1>6, <1>7, <1>8, <1>9, <1>10

LEMMA ControlStep ==
  ASSUME ControlInv, [Next]_vars
  PROVE  ControlInv'
<1>1. CASE UNCHANGED vars
  BY <1>1 DEF vars, trackers, sites, ControlInv, TypeOK, LabelInv, StatusInv
<1>2. ASSUME NEW t \in Thread, Call(t) \/ Step(t)
      PROVE  ControlInv'
  BY <1>2, ControlWalk, ControlAtraceInit, ControlCounter, ControlCategory
  DEF Step, CreateStep
<1> QED
  BY <1>1, <1>2 DEF Next

-----------------------------------------------------------------------------
(* Groups *)

LEMMA SingleTag ==
  ASSUME NEW s \in Site, Cardinality(Members(s)) > 1
  PROVE  Members(s) # {} /\ \A i : Members(s) # {i}
<1>1. Cardinality({}) = 0 /\ \A i : Cardinality({i}) = 1
  BY FS_EmptySet, FS_Singleton, Zenon
<1>2. Cardinality(Members(s)) # 0 /\ Cardinality(Members(s)) # 1
  OBVIOUS
<1> QED
  BY <1>1, <1>2, Zenon

LEMMA GroupsInit == Init => GroupsInv
BY DEF Init, GroupsInv

\* Steps of threads outside the creation of a category.
LEMMA GroupsKept ==
  ASSUME ControlInv, GroupsInv, UNCHANGED <<groups, cat>>,
         status' = status \/ status = "not_started",
         NEW t \in Thread, pc[t] # "reggroup",
         lock' = lock \/ lock \in {None, t},
         NEW l \in Label \ {"reggroup", "storecat"}, Goto(t, l),
         \A u \in Thread \ {t} : site'[u] = site[u]
  PROVE  GroupsInv'
<1>1. \A u \in Thread : u # t => pc'[u] = pc[u]
  BY DEF ControlInv, TypeOK, Goto
<1>2. pc'[t] = l /\ l \notin {"reggroup", "storecat"}
  BY DEF ControlInv, TypeOK, Goto
<1>3. \A k \in 1 .. Len(groups') :
        groups'[k].reg = "none" =>
          k = Len(groups') /\ lock' \in Thread /\ pc'[lock'] = "reggroup"
  BY <1>1, SitesAssumption DEF GroupsInv
<1>4. \A u \in Thread :
        pc'[u] \in {"reggroup", "storecat"} =>
          status' = "ok" /\ groups'[Len(groups')].tags = TagsOf[site'[u]]
  BY <1>1, <1>2 DEF GroupsInv
<1>5. \A s \in Site : cat'[s] # Null => Fits(s, cat[s])'
  BY DEF GroupsInv, Fits, GroupsFor
<1> QED
  BY <1>3, <1>4, <1>5 DEF GroupsInv

LEMMA GroupSizes ==
  ASSUME GroupsInv, NEW s \in Site, GroupsFor(s) # {}
  PROVE  Cardinality(Members(s)) > 1
BY DEF GroupsInv, GroupsFor, Members

LEMMA FitsUnique ==
  ASSUME GroupsInv, NEW s \in Site, NEW p, NEW q, Fits(s, p), Fits(s, q)
  PROVE  p = q
<1>1. CASE GroupsFor(s) # {}
  <2>1. Members(s) # {} /\ \A i : Members(s) # {i}
    BY <1>1, GroupSizes, SingleTag
  <2>2. \A j, k \in GroupsFor(s) : j = k
    BY DEF GroupsInv, GroupsFor
  <2> QED
    BY <1>1, <2>1, <2>2 DEF Fits
<1>2. CASE GroupsFor(s) = {} /\ Cardinality(Members(s)) > 1
  <2>1. Members(s) # {} /\ \A i : Members(s) # {i}
    BY <1>2, SingleTag
  <2> QED
    BY <1>2, <2>1 DEF Fits
<1>3. CASE GroupsFor(s) = {} /\ ~(Cardinality(Members(s)) > 1)
  BY <1>3 DEF Fits
<1> QED
  BY <1>1, <1>2, <1>3

\* Nothing is waiting for its registration when the holder of the lock stores a
\* pointer.
LEMMA StoredFits ==
  ASSUME ControlInv, GroupsInv, NEW t \in Thread,
         CategoryNever(t) \/ CategoryFound(t) \/ CategoryRegular(t) \/ StoreCategory(t)
  PROVE  \E p : Fits(site[t], p) /\ StoreCategoryPtr(t, p)
<1>1. /\ pc[t] \in {"category", "storecat"} /\ lock = t /\ site[t] \in Site
      /\ status \in {"ok", "error"}
      /\ \A k \in 1 .. Len(groups) : groups[k].reg # "none"
  <2>1. pc[t] \in {"category", "storecat"}
    BY DEF CategoryNever, CategoryFound, CategoryRegular, StoreCategory
  <2> QED
    BY <2>1 DEF ControlInv, TypeOK, LabelInv, StatusInv, GroupsInv, Locked, AtSite, Label
<1>2. CASE CategoryNever(t)
  <2>1. StoreCategoryPtr(t, Never)
    BY <1>2 DEF CategoryNever
  <2>2. Fits(site[t], Never)
    <3>1. CASE ~Usable(site[t])
      BY <1>1, <3>1 DEF Usable, Fits
    <3>2. CASE /\ GroupsFor(site[t]) = {} /\ Cardinality(Members(site[t])) > 1
               /\ ~RoomForGroup
      <4>1. Len(groups) = MaxGroups
        BY <3>2, LimitsAssumption, LenProperties DEF RoomForGroup, ControlInv, TypeOK
      <4> QED
        BY <3>2, <4>1 DEF Fits
    <3> QED
      BY <1>2, <3>1, <3>2 DEF CategoryNever
  <2> QED
    BY <2>1, <2>2
<1>3. CASE CategoryFound(t)
  <2>1. PICK k \in GroupsFor(site[t]) : StoreCategoryPtr(t, GroupPtr(k))
    BY <1>3 DEF CategoryFound
  <2>2. k \in 1 .. Len(groups) /\ status = "ok"
    BY <1>3 DEF GroupsFor, CategoryFound, Usable
  <2>3. Fits(site[t], GroupPtr(k))
    BY <1>1, <2>2 DEF Fits
  <2> QED
    BY <2>1, <2>3
<1>4. CASE CategoryRegular(t)
  <2>1. PICK i \in Members(site[t]) :
          Members(site[t]) = {i} /\ StoreCategoryPtr(t, RegularPtr(i))
    BY <1>4 DEF CategoryRegular
  <2>2. i \in ValidTags
    BY FirstTagsValid DEF Members
  <2>3. Fits(site[t], RegularPtr(i))
    BY <1>4, <2>1, <2>2 DEF CategoryRegular, Usable, Fits
  <2> QED
    BY <2>1, <2>3
<1>5. CASE StoreCategory(t)
  <2>1. Len(groups) \in 1 .. Len(groups)
    BY <1>5, LenProperties DEF StoreCategory, ControlInv, TypeOK, LabelInv
  <2>2. Len(groups) \in GroupsFor(site[t]) /\ status = "ok"
    BY <1>5, <2>1 DEF StoreCategory, GroupsInv, GroupsFor
  <2>3. Fits(site[t], GroupPtr(Len(groups)))
    BY <1>1, <2>1, <2>2 DEF Fits
  <2> QED
    BY <1>5, <2>3 DEF StoreCategory
<1> QED
  BY <1>2, <1>3, <1>4, <1>5

LEMMA GroupsStorePtr ==
  ASSUME ControlInv, GroupsInv, NEW t \in Thread, pc[t] \in {"category", "storecat"},
         NEW p, Fits(site[t], p), StoreCategoryPtr(t, p)
  PROVE  GroupsInv'
<1>1. /\ UNCHANGED <<status, lock, groups, counters, trk, site, inits>>
      /\ cat' = [cat EXCEPT ![site[t]] = p] /\ Goto(t, "unlock")
      /\ lock = t /\ site[t] \in Site
  BY AfterCategory
  DEF StoreCategoryPtr, trackers, ControlInv, LabelInv, Locked, AtSite, Label
<1>2. \A k \in 1 .. Len(groups) : groups[k].reg # "none"
  BY <1>1 DEF GroupsInv
<1>3. pc'[t] = "unlock" /\ \A u \in Thread : u # t => pc'[u] = pc[u]
  BY <1>1 DEF ControlInv, TypeOK, Goto
<1>4. \A u \in Thread :
        pc'[u] \in {"reggroup", "storecat"} =>
          status' = "ok" /\ groups'[Len(groups')].tags = TagsOf[site'[u]]
  BY <1>1, <1>3 DEF GroupsInv
<1>5. ASSUME NEW s \in Site, cat'[s] # Null
      PROVE  Fits(s, cat'[s])
  <2>1. s # site[t] => cat'[s] = cat[s]
    BY <1>1 DEF ControlInv, TypeOK
  <2>2. s = site[t] => cat'[s] = p
    BY <1>1 DEF ControlInv, TypeOK
  <2> QED
    BY <1>5, <2>1, <2>2 DEF GroupsInv
<1>6. \A s \in Site : cat'[s] # Null => Fits(s, cat[s])'
  BY <1>1, <1>5 DEF Fits, GroupsFor
<1> QED
  BY <1>1, <1>2, <1>4, <1>6 DEF GroupsInv

LEMMA GroupsNew ==
  ASSUME ControlInv, GroupsInv, NEW t \in Thread, NewGroup(t)
  PROVE  GroupsInv'
<1> DEFINE n == Len(groups)
           e == [tags |-> TagsOf[site[t]], members |-> Members(site[t]), reg |-> "none"]
<1>1. /\ pc[t] = "category" /\ lock = t /\ site[t] \in Site /\ status = "ok"
      /\ UNCHANGED <<status, lock, cat, site>> /\ Goto(t, "reggroup")
      /\ groups \in Seq(GroupTracker) /\ n \in Nat /\ n < MaxGroups
      /\ groups' = Append(groups, e)
  BY LenProperties
  DEF NewGroup, Usable, RoomForGroup, sites, ControlInv, TypeOK, LabelInv, Locked, AtSite,
      Label, GroupTracker
<1>2. /\ GroupsFor(site[t]) = {} /\ Cardinality(Members(site[t])) > 1
  BY DEF NewGroup
<1>3. e \in GroupTracker
  <2>1. Members(site[t]) \in SUBSET ValidTags /\ TagsOf[site[t]] \in SUBSET Nat
    BY <1>1, SitesAssumption, FirstTagsValid DEF Members
  <2> QED
    BY <2>1 DEF GroupTracker, Registration
<1>4. e.tags = TagsOf[site[t]] /\ e.reg = "none" /\ e.members = Members(site[t])
  OBVIOUS
<1> HIDE DEF e
<1>5. /\ Len(groups') = n + 1
      /\ \A k \in 1 .. n : groups'[k] = groups[k]
      /\ groups'[n + 1] = e
  BY <1>1, <1>3, AppendProperties
<1> HIDE DEF n
<1>6. pc'[t] = "reggroup" /\ \A u \in Thread : u # t => pc'[u] = pc[u]
  BY <1>1 DEF ControlInv, TypeOK, Goto
<1>7. \A k \in 1 .. n + 1 : k \in 1 .. n \/ k = n + 1
  BY <1>1
<1>8. \A k \in 1 .. n : groups[k].tags # TagsOf[site[t]] /\ groups[k].reg # "none"
  BY <1>1, <1>2 DEF GroupsFor, GroupsInv, n
<1>9. \A j, k \in 1 .. Len(groups') : groups'[j].tags = groups'[k].tags => j = k
  BY <1>4, <1>5, <1>7, <1>8 DEF GroupsInv, n
<1>10. \A k \in 1 .. Len(groups') :
         /\ Cardinality(FirstTags(groups'[k].tags)) > 1
         /\ groups'[k].members = FirstTags(groups'[k].tags)
  BY <1>2, <1>4, <1>5, <1>7 DEF GroupsInv, n, Members
<1>11. \A k \in 1 .. Len(groups') :
         groups'[k].reg = "none" =>
           k = Len(groups') /\ lock' \in Thread /\ pc'[lock'] = "reggroup"
  BY <1>1, <1>5, <1>6, <1>7, <1>8
<1>12. \A u \in Thread :
         pc'[u] \in {"reggroup", "storecat"} =>
           status' = "ok" /\ groups'[Len(groups')].tags = TagsOf[site'[u]]
  <2>1. \A u \in Thread : pc[u] \in {"reggroup", "storecat"} => u = t
    BY <1>1 DEF ControlInv, LabelInv, Locked
  <2> QED
    BY <1>1, <1>4, <1>5, <1>6, <2>1
<1>13. ASSUME NEW s \in Site, cat[s] # Null
       PROVE  Fits(s, cat[s])'
  <2>1. Fits(s, cat[s])
    BY <1>13 DEF GroupsInv
  <2>2. Len(groups) # MaxGroups
    BY <1>1, LimitsAssumption DEF n
  <2>3. CASE TagsOf[s] = TagsOf[site[t]]
    <3>1. GroupsFor(s) = {} /\ Cardinality(Members(s)) > 1
      BY <1>2, <2>3 DEF GroupsFor, Members
    <3>2. Members(s) # {} /\ \A i : Members(s) # {i}
      BY <3>1, SingleTag
    <3>3. FALSE
      BY <1>1, <2>1, <2>2, <3>1, <3>2 DEF Fits
    <3> QED
      BY <3>3
  <2>4. CASE TagsOf[s] # TagsOf[site[t]]
    <3>1. GroupsFor(s)' = GroupsFor(s)
      BY <1>4, <1>5, <1>7, <2>4 DEF GroupsFor, n
    <3>2. \A k \in GroupsFor(s) : groups'[k].reg = groups[k].reg
      BY <1>5 DEF GroupsFor, n
    <3> QED
      BY <1>1, <2>1, <2>2, <3>1, <3>2 DEF Fits
  <2> QED
    BY <2>3, <2>4
<1> QED
  BY <1>1, <1>9, <1>10, <1>11, <1>12, <1>13 DEF GroupsInv

LEMMA GroupsRegister ==
  ASSUME ControlInv, GroupsInv, NEW t \in Thread, NEW result \in {"ok", "refused"},
         RegisterGroup(t, result)
  PROVE  GroupsInv'
<1> DEFINE n == Len(groups)
<1>1. /\ pc[t] = "reggroup" /\ lock = t /\ site[t] \in Site
      /\ UNCHANGED <<status, lock, cat, site>> /\ Goto(t, "storecat")
      /\ groups \in Seq(GroupTracker) /\ n > 0 /\ n \in Nat
      /\ groups' = [groups EXCEPT ![Len(groups)].reg = result]
      /\ result \in Registration /\ result # "none"
  BY LenProperties
  DEF RegisterGroup, sites, ControlInv, TypeOK, LabelInv, Locked, AtSite, Label,
      GroupTracker, Registration
<1>2. /\ Len(groups') = n
      /\ \A k \in 1 .. n :
           groups'[k].tags = groups[k].tags /\ groups'[k].members = groups[k].members
      /\ \A k \in 1 .. n : k # n => groups'[k] = groups[k]
      /\ groups'[n].reg = result
  BY <1>1, RegisterGroupTracker
<1>3. pc'[t] = "storecat" /\ \A u \in Thread : u # t => pc'[u] = pc[u]
  BY <1>1 DEF ControlInv, TypeOK, Goto
<1>4. \A k \in 1 .. n : groups[k].reg = "none" => k = n
  BY DEF GroupsInv
<1>5. \A k \in 1 .. n : groups'[k].reg # "none"
  BY <1>1, <1>2, <1>4
<1>6. n \in 1 .. n
  BY <1>1
<1>7. \A u \in Thread :
        pc'[u] \in {"reggroup", "storecat"} =>
          status' = "ok" /\ groups'[Len(groups')].tags = TagsOf[site'[u]]
  BY <1>1, <1>2, <1>3, <1>6 DEF GroupsInv
<1>8. ASSUME NEW s \in Site, cat[s] # Null
      PROVE  Fits(s, cat[s])'
  <2>1. Fits(s, cat[s])
    BY <1>8 DEF GroupsInv
  <2>2. GroupsFor(s)' = GroupsFor(s)
    BY <1>2 DEF GroupsFor
  <2>3. \A k \in GroupsFor(s) : groups'[k].reg # "none"
    BY <1>5 DEF GroupsFor
  <2> QED
    BY <1>1, <1>2, <2>1, <2>2, <2>3 DEF Fits
<1> QED
  BY <1>1, <1>2, <1>5, <1>7, <1>8 DEF GroupsInv

-----------------------------------------------------------------------------
(* Counters *)

LEMMA CountersInit == Init => CountersInv
BY SitesAssumption DEF Init, CountersInv

LEMMA CountersKept ==
  ASSUME ControlInv, CountersInv, UNCHANGED <<counters, trk>>,
         NEW t \in Thread, pc[t] # "regtrack",
         lock' = lock \/ lock \in {None, t},
         NEW l \in Label \ {"regtrack", "storetrk"}, Goto(t, l),
         \A u \in Thread \ {t} : site'[u] = site[u]
  PROVE  CountersInv'
<1>1. \A u \in Thread : u # t => pc'[u] = pc[u]
  BY DEF ControlInv, TypeOK, Goto
<1>2. pc'[t] = l /\ l \notin {"regtrack", "storetrk"}
  BY DEF ControlInv, TypeOK, Goto
<1>3. \A k \in 1 .. Len(counters') :
        counters'[k].reg = "none" =>
          k = Len(counters') /\ lock' \in Thread /\ pc'[lock'] = "regtrack"
  BY <1>1, SitesAssumption DEF CountersInv
<1>4. \A u \in Thread :
        pc'[u] \in {"regtrack", "storetrk"} =>
          counters'[Len(counters')].name = NameOf[site'[u]]
  BY <1>1, <1>2 DEF CountersInv
<1> QED
  BY <1>3, <1>4 DEF CountersInv, CountersFor

\* The track that is stored has the site's name and has been registered.
LEMMA StoredTrack ==
  ASSUME ControlInv, CountersInv, NEW t \in Thread, CounterFound(t) \/ StoreTrack(t)
  PROVE  /\ pc[t] \in {"counter", "storetrk"} /\ Goto(t, "category")
         /\ UNCHANGED <<status, lock, trackers, cat, site, inits>>
         /\ \E k \in CountersFor(site[t]) :
              counters[k].reg # "none" /\ trk' = [trk EXCEPT ![site[t]] = k]
<1>1. /\ pc[t] \in {"counter", "storetrk"} /\ Goto(t, "category")
      /\ UNCHANGED <<status, lock, trackers, cat, site, inits>>
  BY AfterCounter DEF CounterFound, StoreTrack
<1>2. \A k \in 1 .. Len(counters) : counters[k].reg # "none"
  BY <1>1 DEF ControlInv, LabelInv, CountersInv, Locked
<1>3. CASE CounterFound(t)
  <2>1. PICK k \in CountersFor(site[t]) : trk' = [trk EXCEPT ![site[t]] = k]
    BY <1>3 DEF CounterFound
  <2>2. counters[k].reg # "none"
    BY <1>2 DEF CountersFor
  <2> QED
    BY <1>1, <2>1, <2>2
<1>4. CASE StoreTrack(t)
  <2>1. Len(counters) \in 1 .. Len(counters)
    BY <1>4, LenProperties DEF StoreTrack, ControlInv, TypeOK, LabelInv
  <2>2. Len(counters) \in CountersFor(site[t])
    BY <1>4, <2>1 DEF StoreTrack, CountersInv, CountersFor
  <2> QED
    BY <1>1, <1>2, <1>4, <2>1, <2>2 DEF StoreTrack
<1> QED
  BY <1>3, <1>4

LEMMA CountersStore ==
  ASSUME ControlInv, CountersInv, NEW t \in Thread, CounterFound(t) \/ StoreTrack(t)
  PROVE  CountersInv'
<1>1. PICK k \in CountersFor(site[t]) :
        counters[k].reg # "none" /\ trk' = [trk EXCEPT ![site[t]] = k]
  BY StoredTrack
<1>2. /\ pc[t] \in {"counter", "storetrk"} /\ Goto(t, "category")
      /\ lock = t /\ site[t] \in Counter /\ UNCHANGED <<lock, counters, site>>
  BY StoredTrack DEF ControlInv, LabelInv, Locked, trackers
<1>3. \A i \in 1 .. Len(counters) : counters[i].reg # "none"
  BY <1>2 DEF CountersInv
<1>4. pc'[t] = "category" /\ \A u \in Thread : u # t => pc'[u] = pc[u]
  BY <1>2 DEF ControlInv, TypeOK, Goto
<1>5. \A u \in Thread :
        pc'[u] \in {"regtrack", "storetrk"} =>
          counters'[Len(counters')].name = NameOf[site'[u]]
  BY <1>2, <1>4 DEF CountersInv
<1>6. ASSUME NEW s \in Site, trk'[s] # 0
      PROVE  s \in Counter /\ trk'[s] \in CountersFor(s) /\ counters[trk'[s]].reg # "none"
  <2>1. s # site[t] => trk'[s] = trk[s]
    BY <1>1 DEF ControlInv, TypeOK
  <2>2. s = site[t] => trk'[s] = k
    BY <1>1 DEF ControlInv, TypeOK
  <2> QED
    BY <1>1, <1>2, <1>6, <2>1, <2>2 DEF CountersInv
<1>7. \A s \in Site : trk'[s] # 0 =>
        s \in Counter /\ trk'[s] \in CountersFor(s)' /\ counters'[trk'[s]].reg # "none"
  BY <1>2, <1>6 DEF CountersFor
<1> QED
  BY <1>2, <1>3, <1>5, <1>7 DEF CountersInv

LEMMA CountersNew ==
  ASSUME ControlInv, CountersInv, NEW t \in Thread, NewCounter(t)
  PROVE  CountersInv'
<1> DEFINE n == Len(counters)
           e == [name |-> NameOf[site[t]], reg |-> "none"]
<1>1. /\ pc[t] = "counter" /\ lock = t /\ site[t] \in Counter
      /\ UNCHANGED <<lock, trk, site>> /\ Goto(t, "regtrack")
      /\ counters \in Seq(CounterTracker) /\ n \in Nat
      /\ counters' = Append(counters, e) /\ CountersFor(site[t]) = {}
  BY LenProperties
  DEF NewCounter, sites, ControlInv, TypeOK, LabelInv, Locked, CounterTracker
<1>2. e \in CounterTracker
  BY <1>1 DEF CounterTracker, Registration
<1>3. e.name = NameOf[site[t]] /\ e.reg = "none"
  OBVIOUS
<1> HIDE DEF e
<1>4. /\ Len(counters') = n + 1
      /\ \A k \in 1 .. n : counters'[k] = counters[k]
      /\ counters'[n + 1] = e
  BY <1>1, <1>2, AppendProperties
<1> HIDE DEF n
<1>5. pc'[t] = "regtrack" /\ \A u \in Thread : u # t => pc'[u] = pc[u]
  BY <1>1 DEF ControlInv, TypeOK, Goto
<1>6. \A k \in 1 .. n + 1 : k \in 1 .. n \/ k = n + 1
  BY <1>1
<1>7. \A k \in 1 .. n : counters[k].name # NameOf[site[t]] /\ counters[k].reg # "none"
  BY <1>1 DEF CountersFor, CountersInv, n
<1>8. \A j, k \in 1 .. Len(counters') : counters'[j].name = counters'[k].name => j = k
  BY <1>3, <1>4, <1>6, <1>7 DEF CountersInv, n
<1>9. \A k \in 1 .. Len(counters') :
        counters'[k].reg = "none" =>
          k = Len(counters') /\ lock' \in Thread /\ pc'[lock'] = "regtrack"
  BY <1>1, <1>4, <1>5, <1>6, <1>7
<1>10. \A u \in Thread :
         pc'[u] \in {"regtrack", "storetrk"} =>
           counters'[Len(counters')].name = NameOf[site'[u]]
  <2>1. \A u \in Thread : pc[u] \in {"regtrack", "storetrk"} => u = t
    BY <1>1 DEF ControlInv, LabelInv, Locked
  <2> QED
    BY <1>1, <1>3, <1>4, <1>5, <2>1
<1>11. ASSUME NEW s \in Site, trk[s] # 0
       PROVE  /\ s \in Counter /\ trk[s] \in CountersFor(s)'
              /\ counters'[trk[s]].reg # "none"
  <2>1. s \in Counter /\ trk[s] \in CountersFor(s) /\ counters[trk[s]].reg # "none"
    BY <1>11 DEF CountersInv
  <2>2. trk[s] \in 1 .. n /\ trk[s] \in 1 .. n + 1
    BY <1>1, <2>1 DEF CountersFor, n
  <2> QED
    BY <1>4, <2>1, <2>2 DEF CountersFor
<1> QED
  BY <1>1, <1>8, <1>9, <1>10, <1>11 DEF CountersInv

LEMMA CountersRegister ==
  ASSUME ControlInv, CountersInv, NEW t \in Thread, NEW result \in {"ok", "refused"},
         RegisterTrack(t, result)
  PROVE  CountersInv'
<1> DEFINE n == Len(counters)
<1>1. /\ pc[t] = "regtrack" /\ lock = t
      /\ UNCHANGED <<lock, trk, site>> /\ Goto(t, "storetrk")
      /\ counters \in Seq(CounterTracker) /\ n > 0 /\ n \in Nat
      /\ counters' = [counters EXCEPT ![Len(counters)].reg = result]
      /\ result \in Registration /\ result # "none"
  BY LenProperties
  DEF RegisterTrack, sites, ControlInv, TypeOK, LabelInv, Locked, CounterTracker,
      Registration
<1>2. /\ Len(counters') = n
      /\ \A k \in 1 .. n : counters'[k].name = counters[k].name
      /\ \A k \in 1 .. n : k # n => counters'[k] = counters[k]
      /\ counters'[n].reg = result
  BY <1>1, RegisterCounter
<1>3. pc'[t] = "storetrk" /\ \A u \in Thread : u # t => pc'[u] = pc[u]
  BY <1>1 DEF ControlInv, TypeOK, Goto
<1>4. \A k \in 1 .. n : counters[k].reg = "none" => k = n
  BY DEF CountersInv
<1>5. \A k \in 1 .. n : counters'[k].reg # "none"
  BY <1>1, <1>2, <1>4
<1>6. n \in 1 .. n
  BY <1>1
<1>7. \A u \in Thread :
        pc'[u] \in {"regtrack", "storetrk"} =>
          counters'[Len(counters')].name = NameOf[site'[u]]
  BY <1>1, <1>2, <1>3, <1>6 DEF CountersInv
<1>8. \A s \in Site : CountersFor(s)' = CountersFor(s)
  BY <1>2 DEF CountersFor
<1>9. \A s \in Site : trk[s] # 0 =>
        s \in Counter /\ trk[s] \in CountersFor(s)' /\ counters'[trk[s]].reg # "none"
  BY <1>5, <1>8 DEF CountersInv, CountersFor
<1> QED
  BY <1>1, <1>2, <1>5, <1>7, <1>9 DEF CountersInv

-----------------------------------------------------------------------------
(* Steps *)

\* The steps that create nothing and store no pointer.
Walk(t) ==
  \/ Call(t) \/ ReadStatus(t) \/ LockInit(t) \/ UnlockInit(t) \/ Lock(t) \/ Unlock(t)
  \/ (\E ok \in BOOLEAN : AtraceInit(t, ok))
  \/ (\E enabled \in BOOLEAN : LoadMask(t, enabled)) \/ AtraceEvent(t) \/ NoCounter(t)

CreateCounter(t) ==
  \/ CounterFound(t) \/ NewCounter(t) \/ StoreTrack(t)
  \/ \E result \in {"ok", "refused"} : RegisterTrack(t, result)

StoreCat(t) ==
  CategoryNever(t) \/ CategoryFound(t) \/ CategoryRegular(t) \/ StoreCategory(t)

CreateGroup(t) ==
  NewGroup(t) \/ \E result \in {"ok", "refused"} : RegisterGroup(t, result)

LEMMA StepKinds ==
  ASSUME NEW t \in Thread, Call(t) \/ Step(t)
  PROVE  Walk(t) \/ CreateCounter(t) \/ StoreCat(t) \/ CreateGroup(t)
BY DEF Step, CreateStep, Walk, CreateCounter, StoreCat, CreateGroup

LEMMA WalkSteps ==
  ASSUME ControlInv, NEW t \in Thread, Walk(t)
  PROVE  /\ UNCHANGED <<trackers, sites>>
         /\ status' = status \/ status = "not_started"
         /\ lock' = lock \/ lock \in {None, t}
         /\ pc[t] \notin {"reggroup", "regtrack"}
         /\ \E l \in Label \ {"reggroup", "storecat", "regtrack", "storetrk"} :
              /\ Goto(t, l)
              /\ l = "category" =>
                   (NoCounter(t) \/ site[t] \notin Counter) /\ UNCHANGED site
              /\ l = "event" =>
                   MayBeEnabled(cat[site[t]]) /\ UNCHANGED site
         /\ \A u \in Thread \ {t} : site'[u] = site[u]
<1> USE DEF Label, trackers, sites
<1>1. CASE AtraceInitCall(t)
  BY <1>1 DEF AtraceInitCall
<1>2. ASSUME NEW s \in Site, Macro(t, s)
      PROVE  /\ UNCHANGED <<status, lock, trackers, sites>> /\ pc[t] = "idle"
             /\ site' = [site EXCEPT ![t] = s]
             /\ \E l \in {"status", "mask"} : Goto(t, l)
  BY <1>2 DEF Macro
<1>3. CASE ReadStatus(t)
  BY <1>3 DEF ReadStatus
<1>4. CASE LockInit(t)
  BY <1>4 DEF LockInit
<1>5. CASE UnlockInit(t)
  BY <1>5 DEF UnlockInit, ControlInv, LabelInv, Locked
<1>6. CASE Lock(t)
  BY <1>6, FirstLabel DEF Lock, ControlInv, LabelInv, AtSite
<1>7. CASE Unlock(t)
  BY <1>7 DEF Unlock, ControlInv, LabelInv, Locked
<1>8. ASSUME NEW ok \in BOOLEAN, AtraceInit(t, ok)
      PROVE  /\ UNCHANGED <<lock, trackers, sites, site>> /\ pc[t] = "init"
             /\ status' = status \/ status = "not_started"
             /\ Goto(t, "initunlock")
  BY <1>8 DEF AtraceInit
<1>9. ASSUME NEW enabled \in BOOLEAN, LoadMask(t, enabled)
      PROVE  /\ UNCHANGED <<status, lock, trackers, sites>> /\ pc[t] = "mask"
             /\ \/ Goto(t, "event") /\ MayBeEnabled(cat[site[t]]) /\ UNCHANGED site
                \/ Goto(t, "idle") /\ site' = [site EXCEPT ![t] = None]
  <2>1. CASE enabled
    BY <1>9, <2>1 DEF LoadMask, ControlInv, TypeOK
  <2>2. CASE ~enabled
    BY <1>9, <2>2 DEF LoadMask
  <2> QED
    BY <2>1, <2>2
<1>10. CASE AtraceEvent(t)
  BY <1>10 DEF AtraceEvent
<1>11. CASE NoCounter(t)
  BY <1>11, AfterCounter DEF NoCounter
<1>12. CASE \E s \in Site : Macro(t, s)
  BY <1>2, <1>12 DEF ControlInv, TypeOK
<1>13. CASE \E ok \in BOOLEAN : AtraceInit(t, ok)
  BY <1>8, <1>13
<1>14. CASE \E enabled \in BOOLEAN : LoadMask(t, enabled)
  BY <1>9, <1>14 DEF ControlInv, TypeOK
<1> QED
  BY <1>1, <1>3, <1>4, <1>5, <1>6, <1>7, <1>10, <1>11, <1>12, <1>13, <1>14 DEF Walk, Call

LEMMA CreateCounterFrame ==
  ASSUME ControlInv, NEW t \in Thread, CreateCounter(t)
  PROVE  /\ UNCHANGED <<status, lock, groups, cat, site>>
         /\ pc[t] \in {"counter", "regtrack", "storetrk"}
         /\ \E l \in {"regtrack", "storetrk", "category"} : Goto(t, l)
         /\ pc'[t] = "category" => CounterFound(t) \/ StoreTrack(t)
<1> USE DEF ControlInv, TypeOK, Goto
<1>1. CASE CounterFound(t)
  BY <1>1, AfterCounter DEF CounterFound, trackers
<1>2. CASE NewCounter(t)
  BY <1>2 DEF NewCounter, sites
<1>3. CASE StoreTrack(t)
  BY <1>3, AfterCounter DEF StoreTrack, trackers
<1>4. CASE \E result \in {"ok", "refused"} : RegisterTrack(t, result)
  BY <1>4 DEF RegisterTrack, sites
<1> QED
  BY <1>1, <1>2, <1>3, <1>4 DEF CreateCounter

LEMMA CreateCategoryFrame ==
  ASSUME ControlInv, NEW t \in Thread, StoreCat(t) \/ CreateGroup(t)
  PROVE  /\ UNCHANGED <<status, lock, counters, trk, site>>
         /\ pc[t] \in {"category", "reggroup", "storecat"}
         /\ \E l \in {"reggroup", "storecat", "unlock"} : Goto(t, l)
<1>1. CASE StoreCat(t)
  BY <1>1, AfterCategory
  DEF StoreCat, CategoryNever, CategoryFound, CategoryRegular, StoreCategory,
      StoreCategoryPtr, trackers
<1>2. CASE CreateGroup(t)
  BY <1>2 DEF CreateGroup, NewGroup, RegisterGroup, sites
<1> QED
  BY <1>1, <1>2

LEMMA GroupsStep ==
  ASSUME ControlInv, GroupsInv, NEW t \in Thread, Call(t) \/ Step(t)
  PROVE  GroupsInv'
<1>1. CASE Walk(t)
  BY <1>1, WalkSteps, GroupsKept DEF trackers, sites
<1>2. CASE CreateCounter(t)
  BY <1>2, CreateCounterFrame, GroupsKept DEF Label
<1>3. CASE StoreCat(t)
  <2>1. PICK p : Fits(site[t], p) /\ StoreCategoryPtr(t, p)
    BY <1>3, StoredFits DEF StoreCat
  <2>2. pc[t] \in {"category", "storecat"}
    BY <1>3 DEF StoreCat, CategoryNever, CategoryFound, CategoryRegular, StoreCategory
  <2> QED
    BY <2>1, <2>2, GroupsStorePtr
<1>4. CASE CreateGroup(t)
  BY <1>4, GroupsNew, GroupsRegister DEF CreateGroup
<1> QED
  BY <1>1, <1>2, <1>3, <1>4, StepKinds

LEMMA CountersStep ==
  ASSUME ControlInv, CountersInv, NEW t \in Thread, Call(t) \/ Step(t)
  PROVE  CountersInv'
<1>1. CASE Walk(t)
  BY <1>1, WalkSteps, CountersKept DEF trackers, sites
<1>2. CASE CreateCounter(t)
  BY <1>2, CountersStore, CountersNew, CountersRegister DEF CreateCounter
<1>3. CASE StoreCat(t) \/ CreateGroup(t)
  BY <1>3, CreateCategoryFrame, CountersKept DEF Label
<1> QED
  BY <1>1, <1>2, <1>3, StepKinds

\* A pointer that is set is stored again by threads that lost the race for the
\* lock, with the same value.
LEMMA PointersKept ==
  ASSUME ControlInv, GroupsInv, CountersInv, NEW t \in Thread, Call(t) \/ Step(t),
         NEW s \in Site
  PROVE  /\ cat[s] # Null => cat'[s] = cat[s]
         /\ trk[s] # 0 => trk'[s] = trk[s]
<1>1. CASE Walk(t)
  BY <1>1, WalkSteps DEF sites
<1>2. CASE CounterFound(t) \/ StoreTrack(t)
  <2>1. PICK k \in CountersFor(site[t]) : trk' = [trk EXCEPT ![site[t]] = k]
    BY <1>2, StoredTrack
  <2>2. ASSUME s = site[t], trk[s] # 0
        PROVE  trk[s] = k
    <3>1. trk[s] \in CountersFor(s) /\ k \in CountersFor(s)
      BY <2>1, <2>2 DEF CountersInv
    <3> QED
      BY <3>1 DEF CountersFor, CountersInv
  <2>3. cat' = cat
    BY <1>2, StoredTrack
  <2> QED
    BY <2>1, <2>2, <2>3 DEF ControlInv, TypeOK
<1>3. CASE \/ NewCounter(t) \/ CreateGroup(t)
           \/ \E result \in {"ok", "refused"} : RegisterTrack(t, result)
  BY <1>3 DEF NewCounter, CreateGroup, NewGroup, RegisterGroup, RegisterTrack, sites
<1>4. CASE StoreCat(t)
  <2>1. PICK p : Fits(site[t], p) /\ StoreCategoryPtr(t, p)
    BY <1>4, StoredFits DEF StoreCat
  <2>2. ASSUME s = site[t], cat[s] # Null
        PROVE  cat[s] = p
    <3>1. Fits(s, cat[s])
      BY <2>2 DEF GroupsInv
    <3> QED
      BY <2>1, <2>2, <3>1, FitsUnique
  <2>3. cat' = [cat EXCEPT ![site[t]] = p] /\ trk' = trk
    BY <2>1 DEF StoreCategoryPtr
  <2> QED
    BY <2>2, <2>3 DEF ControlInv, TypeOK
<1> QED
  BY <1>1, <1>2, <1>3, <1>4, StepKinds DEF CreateCounter

-----------------------------------------------------------------------------
(* The order of the two pointers *)

LEMMA TrackedKept ==
  ASSUME ControlInv, GroupsInv, CountersInv, NEW t \in Thread, Call(t) \/ Step(t),
         NEW s \in Counter, Tracked(s)
  PROVE  Tracked(s)'
<1>1. trk[s] # 0 => trk'[s] = trk[s]
  BY PointersKept, SitesAssumption
<1>2. status = "error" => status' = "error"
  BY StepKinds, WalkSteps, CreateCounterFrame, CreateCategoryFrame
<1>3. ASSUME Len(counters) = MaxTracks, CountersFor(s) = {}
      PROVE  Len(counters') = MaxTracks /\ CountersFor(s)' = {}
  <2>1. CASE UNCHANGED counters
    BY <1>3, <2>1 DEF CountersFor
  <2>2. CASE NewCounter(t)
    BY <1>3, <2>2, LimitsAssumption DEF NewCounter
  <2>3. ASSUME NEW result \in {"ok", "refused"}, RegisterTrack(t, result)
        PROVE  Len(counters') = MaxTracks /\ CountersFor(s)' = {}
    <3>1. /\ counters \in Seq(CounterTracker) /\ Len(counters) > 0 /\ result \in Registration
          /\ counters' = [counters EXCEPT ![Len(counters)].reg = result]
      BY <2>3 DEF RegisterTrack, ControlInv, TypeOK, LabelInv, CounterTracker, Registration
    <3>2. /\ Len(counters') = Len(counters)
          /\ \A k \in 1 .. Len(counters) : counters'[k].name = counters[k].name
      BY <3>1, RegisterCounter
    <3> QED
      BY <1>3, <3>2 DEF CountersFor
  <2> QED
    BY <2>1, <2>2, <2>3, StepKinds, WalkSteps, CreateCategoryFrame, StoredTrack
    DEF CreateCounter, trackers
<1> QED
  BY <1>1, <1>2, <1>3 DEF Tracked

LEMMA TrackFirstStep ==
  ASSUME ControlInv, GroupsInv, CountersInv, TrackFirst,
         NEW t \in Thread, Call(t) \/ Step(t)
  PROVE  TrackFirst'
<1>1. ASSUME NEW s \in Counter, cat'[s] # Null
      PROVE  Tracked(s)'
  <2>1. CASE cat[s] # Null
    BY <2>1, TrackedKept DEF TrackFirst
  <2>2. CASE cat[s] = Null
    <3>1. StoreCat(t)
      BY <1>1, <2>2, StepKinds, WalkSteps, CreateCounterFrame
      DEF sites, CreateGroup, NewGroup, RegisterGroup
    <3>2. PICK p : StoreCategoryPtr(t, p)
      BY <3>1, StoredFits DEF StoreCat
    <3>3. s = site[t] /\ s \in Site
      BY <1>1, <2>2, <3>2, SitesAssumption DEF StoreCategoryPtr, ControlInv, TypeOK
    <3>4. Tracked(s)
      BY <3>1, <3>3, CreateCategoryFrame DEF TrackFirst
    <3> QED
      BY <3>4, TrackedKept
  <2> QED
    BY <2>1, <2>2
<1>2. ASSUME NEW u \in Thread, pc'[u] \in {"category", "reggroup", "storecat"},
             site'[u] \in Counter
      PROVE  Tracked(site[u])'
  <2>1. CASE pc[u] \in {"category", "reggroup", "storecat"} /\ site'[u] = site[u]
    <3>1. Tracked(site[u])
      BY <1>2, <2>1 DEF TrackFirst
    <3>2. \A s \in Counter : Tracked(s) => Tracked(s)'
      BY TrackedKept
    <3> QED
      BY <1>2, <2>1, <3>1, <3>2 DEF Tracked, CountersFor
  <2>2. CASE u # t
    <3>1. pc'[u] = pc[u] /\ site'[u] = site[u]
      BY <2>2, StepKinds, WalkSteps, CreateCounterFrame, CreateCategoryFrame
      DEF Goto, ControlInv, TypeOK
    <3> QED
      BY <1>2, <2>1, <3>1
  <2>3. CASE u = t /\ Walk(t)
    <3>1. NoCounter(t) /\ UNCHANGED <<status, counters, trk, site>>
      BY <1>2, <2>3, WalkSteps DEF Goto, ControlInv, TypeOK, NoCounter, trackers, sites
    <3>2. status # "not_started"
      BY <3>1 DEF NoCounter, ControlInv, StatusInv, Locked
    <3>3. Tracked(site[t])
      BY <3>1, <3>2 DEF NoCounter, ControlInv, TypeOK, Tracked
    <3>4. site[t] \in Counter
      BY <1>2, <2>3, <3>1
    <3> QED
      BY <2>3, <3>1, <3>3 DEF Tracked, CountersFor
  <2>4. CASE u = t /\ CreateCounter(t)
    <3>1. CounterFound(t) \/ StoreTrack(t)
      BY <1>2, <2>4, CreateCounterFrame DEF Goto, ControlInv, TypeOK
    <3>2. PICK k \in CountersFor(site[t]) : trk' = [trk EXCEPT ![site[t]] = k]
      BY <3>1, StoredTrack
    <3>3. k # 0 /\ site'[t] = site[t] /\ site[t] \in Site
      BY <1>2, <2>4, <3>1, StoredTrack, SitesAssumption DEF CountersFor
    <3>4. trk'[site'[t]] # 0
      BY <3>2, <3>3 DEF ControlInv, TypeOK
    <3> QED
      BY <2>4, <3>4 DEF Tracked
  <2>5. CASE u = t /\ (StoreCat(t) \/ CreateGroup(t))
    BY <2>1, <2>5, CreateCategoryFrame
  <2> QED
    BY <2>2, <2>3, <2>4, <2>5, StepKinds
<1> QED
  BY <1>1, <1>2 DEF TrackFirst

LEMMA EventStep ==
  ASSUME ControlInv, GroupsInv, CountersInv, EventInv,
         NEW t \in Thread, Call(t) \/ Step(t)
  PROVE  EventInv'
<1>1. ASSUME NEW u \in Thread, pc'[u] = "event"
      PROVE  cat'[site'[u]].kind \in {"regular", "group"}
  <2>1. CASE pc[u] = "event" /\ site'[u] = site[u]
    <3>1. cat[site[u]].kind \in {"regular", "group"} /\ site[u] \in Site
      BY <2>1 DEF EventInv, ControlInv, LabelInv, AtSite, Label
    <3>2. cat[site[u]] # Null
      BY <3>1 DEF Null
    <3> QED
      BY <2>1, <3>1, <3>2, PointersKept
  <2>2. CASE u # t
    <3>1. pc'[u] = pc[u] /\ site'[u] = site[u]
      BY <2>2, StepKinds, WalkSteps, CreateCounterFrame, CreateCategoryFrame
      DEF Goto, ControlInv, TypeOK
    <3> QED
      BY <1>1, <2>1, <3>1
  <2>3. CASE u = t
    <3>1. Walk(t)
      BY <1>1, <2>3, StepKinds, CreateCounterFrame, CreateCategoryFrame
      DEF Goto, ControlInv, TypeOK
    <3>2. MayBeEnabled(cat[site[t]]) /\ UNCHANGED <<site, cat>>
      BY <1>1, <2>3, <3>1, WalkSteps DEF Goto, ControlInv, TypeOK, sites
    <3> QED
      BY <2>3, <3>2 DEF MayBeEnabled
  <2> QED
    BY <2>2, <2>3
<1> QED
  BY <1>1 DEF EventInv

-----------------------------------------------------------------------------
(* The members of a group *)

LEMMA SmallestOf ==
  ASSUME NEW T \in SUBSET Nat, T # {}
  PROVE  \E x \in T : \A y \in T : x <= y
<1> DEFINE R == {p \in Nat \X Nat : p[1] < p[2]}
<1>1. IsWellFoundedOn(R, Nat)
  BY NatLessThanWellFounded DEF OpToRel
<1> HIDE DEF R
<1>2. PICK x \in T : \A y \in T : <<y, x>> \notin R
  BY <1>1, WFMin
<1>3. \A y \in T : ~(y < x)
  BY <1>2 DEF R
<1> QED
  BY <1>3

LEMMA LargestOf ==
  ASSUME NEW N \in Nat, NEW T \in SUBSET (0 .. N), T # {}
  PROVE  \E x \in T : \A y \in T : y <= x
<1> DEFINE D == {N - x : x \in T}
<1>1. D \in SUBSET Nat /\ D # {}
  <2>1. \A x \in T : N - x \in Nat
    OBVIOUS
  <2> QED
    BY <2>1
<1>2. PICK d \in D : \A e \in D : d <= e
  <2> HIDE DEF D
  <2> QED
    BY <1>1, SmallestOf
<1>3. PICK x \in T : d = N - x
  BY <1>2
<1>4. \A y \in T : N - x <= N - y
  BY <1>2, <1>3
<1> QED
  BY <1>4

\* A group has the categories of all valid tags, or as many as fit.
LEMMA FirstTagsSize ==
  ASSUME NEW T
  PROVE  /\ FirstTags(T) \subseteq T \cap ValidTags
         /\ Cardinality(FirstTags(T)) \in 0 .. MaxGroupSize
         /\ FirstTags(T) # T \cap ValidTags => Cardinality(FirstTags(T)) = MaxGroupSize
<1> DEFINE V == T \cap ValidTags
           F == FirstTags(T)
           Below(i) == {j \in V : j < i}
<1>1. F = {i \in V : Cardinality(Below(i)) < MaxGroupSize}
  BY DEF FirstTags
<1>2. V \subseteq 0 .. LastTag /\ LastTag \in Nat /\ MaxGroupSize \in Nat
  BY LimitsAssumption DEF ValidTags
<1> HIDE DEF V, F, Below
<1>3. F \subseteq V
  BY <1>1
<1>4. /\ IsFiniteSet(V) /\ IsFiniteSet(F) /\ Cardinality(F) \in Nat
      /\ \A i : IsFiniteSet(Below(i)) /\ Cardinality(Below(i)) \in Nat
  <2>1. IsFiniteSet(0 .. LastTag)
    BY <1>2, FS_Interval
  <2>2. IsFiniteSet(V)
    BY <1>2, <2>1, FS_Subset
  <2>3. \A i : Below(i) \subseteq V
    BY DEF Below
  <2> QED
    BY <1>3, <2>2, <2>3, FS_Subset, FS_CardinalityType
<1>5. Cardinality(F) <= MaxGroupSize
  <2>1. CASE F = {}
    BY <1>2, <2>1, FS_EmptySet
  <2>2. CASE F # {}
    <3>1. PICK m \in F : \A y \in F : y <= m
      BY <1>2, <1>3, <2>2, LargestOf
    <3>2. F \ {m} \subseteq Below(m)
      BY <1>2, <1>3, <3>1 DEF Below
    <3>3. Cardinality(F \ {m}) <= Cardinality(Below(m))
      BY <1>4, <3>2, FS_Subset
    <3>4. Cardinality(F \ {m}) = Cardinality(F) - 1
      BY <1>4, <3>1, FS_RemoveElement
    <3>5. Cardinality(Below(m)) < MaxGroupSize
      BY <1>1, <3>1
    <3> QED
      BY <1>2, <1>4, <3>3, <3>4, <3>5
  <2> QED
    BY <2>1, <2>2
<1>6. ASSUME F # V
      PROVE  Cardinality(F) >= MaxGroupSize
  <2>1. PICK m \in V \ F : \A y \in V \ F : m <= y
    <3>1. (V \ F) \subseteq Nat
      <4>1. \A x \in V : x \in Nat
        BY <1>2
      <4> QED
        BY <4>1
    <3>2. (V \ F) # {}
      BY <1>3, <1>6
    <3> QED
      BY <3>1, <3>2, SmallestOf
  <2>2. Below(m) \subseteq F
    <3>1. ASSUME NEW y \in V, y < m
          PROVE  y \in F
      BY <1>2, <2>1, <3>1
    <3> QED
      BY <3>1 DEF Below
  <2>3. Cardinality(Below(m)) <= Cardinality(F)
    BY <1>4, <2>2, FS_Subset
  <2>4. ~(Cardinality(Below(m)) < MaxGroupSize)
    BY <1>1, <2>1
  <2> QED
    BY <1>2, <1>4, <2>3, <2>4
<1> QED
  BY <1>2, <1>3, <1>4, <1>5, <1>6 DEF V, F

\* A group of several categories stands for several valid tags, ...
LEMMA ManyTags ==
  ASSUME NEW T, Cardinality(FirstTags(T)) > 1
  PROVE  Cardinality(T \cap ValidTags) > 1
<1>1. IsFiniteSet(0 .. LastTag)
  BY LimitsAssumption, FS_Interval
<1>2. T \cap ValidTags \subseteq 0 .. LastTag
  BY DEF ValidTags
<1>3. IsFiniteSet(T \cap ValidTags)
  BY <1>1, <1>2, FS_Subset
<1>4. /\ Cardinality(FirstTags(T)) <= Cardinality(T \cap ValidTags)
      /\ Cardinality(FirstTags(T)) \in Nat /\ Cardinality(T \cap ValidTags) \in Nat
  BY <1>3, FirstTagsSize, FS_Subset, FS_CardinalityType
<1> QED
  BY <1>4

\* ... and no category, or a single one, for no tag, or this one.
LEMMA FewTags ==
  ASSUME NEW T
  PROVE  /\ FirstTags(T) = {} => T \cap ValidTags = {}
         /\ \A i : FirstTags(T) = {i} => T \cap ValidTags = {i}
<1>1. MaxGroupSize # 0 /\ MaxGroupSize # 1
  BY LimitsAssumption
<1>2. Cardinality({}) = 0 /\ \A i : Cardinality({i}) = 1
  BY FS_EmptySet, FS_Singleton, Zenon
<1>3. FirstTags(T) # T \cap ValidTags => Cardinality(FirstTags(T)) = MaxGroupSize
  BY FirstTagsSize
<1> QED
  BY <1>1, <1>2, <1>3, Zenon

-----------------------------------------------------------------------------
(* Theorems *)

LEMMA InvInit == Init => Inv
BY ControlInit, GroupsInit, CountersInit, SitesAssumption
DEF Init, Inv, TrackFirst, EventInv

LEMMA InvStep ==
  ASSUME Inv, [Next]_vars
  PROVE  Inv'
<1>1. CASE UNCHANGED vars
  <2>1. ControlInv'
    BY <1>1, ControlStep DEF Inv
  <2>2. GroupsInv'
    BY <1>1 DEF vars, trackers, sites, Inv, GroupsInv, Fits, GroupsFor
  <2>3. CountersInv'
    BY <1>1 DEF vars, trackers, sites, Inv, CountersInv, CountersFor
  <2>4. TrackFirst'
    BY <1>1 DEF vars, trackers, sites, Inv, TrackFirst, Tracked, CountersFor
  <2>5. EventInv'
    BY <1>1 DEF vars, trackers, sites, Inv, EventInv
  <2> QED
    BY <2>1, <2>2, <2>3, <2>4, <2>5 DEF Inv
<1>2. ASSUME NEW t \in Thread, Call(t) \/ Step(t)
      PROVE  Inv'
  <2>1. ControlInv'
    BY <1>2, ControlStep DEF Inv, Next
  <2> QED
    BY <1>2, <2>1, GroupsStep, CountersStep, TrackFirstStep, EventStep DEF Inv
<1> QED
  BY <1>1, <1>2 DEF Next

\* The inductive invariant of the atrace layer.
THEOREM Invariance == SafeSpec => []Inv
<1>1. Inv /\ [Next]_vars => Inv'
  BY InvStep
<1> QED
  BY <1>1, InvInit, PTL DEF SafeSpec

\* The types of the variables.
THEOREM TypeCorrect == Spec => []TypeOK
<1>1. Inv => TypeOK
  BY DEF Inv, ControlInv
<1> QED
  BY <1>1, Invariance, PTL DEF Spec

\* percetto_init is called once, whoever gets there first: the status that atrace_init
\* reads under the lock is never stale.
THEOREM InitCalledOnce == Spec => []InitOnce
<1>1. Inv => InitOnce
  BY DEF Inv, ControlInv, TypeOK, StatusInv, InitOnce
<1> QED
  BY <1>1, Invariance, PTL DEF Spec

\* Lookup and creation under one lock: no tags have two groups, no name two tracks.
THEOREM TrackersNeverTwice == Spec => []TrackersUnique
<1>1. Inv => TrackersUnique
  BY DEF Inv, GroupsInv, CountersInv, TrackersUnique
<1> QED
  BY <1>1, Invariance, PTL DEF Spec

\* A pointer is stored after the registration it points to is over.
THEOREM ReadyWhenPublished == Spec => []PublishedReady
<1>1. ASSUME Inv, NEW s \in Site
      PROVE  /\ cat[s].kind = "group" => groups[cat[s].i].reg # "none"
             /\ trk[s] # 0 => counters[trk[s]].reg # "none"
  <2>1. ASSUME cat[s].kind = "group"
        PROVE  groups[cat[s].i].reg # "none"
    <3>1. cat[s] # Null /\ cat[s] # Never /\ \A i : cat[s] # RegularPtr(i)
      BY <2>1 DEF Null, Never, RegularPtr
    <3>2. PICK k \in GroupsFor(s) : cat[s] = GroupPtr(k) /\ groups[k].reg # "none"
      BY <1>1, <3>1 DEF Inv, GroupsInv, Fits
    <3>3. cat[s].i = k
      BY <3>2 DEF GroupPtr
    <3> QED
      BY <3>2, <3>3
  <2> QED
    BY <1>1, <2>1 DEF Inv, CountersInv
<1>2. Inv => PublishedReady
  BY <1>1 DEF PublishedReady
<1> QED
  BY <1>2, Invariance, PTL DEF Spec

\* The pointers of a site are written once, whichever threads create them.
THEOREM SitesNeverChange == Spec => SitesWriteOnce
<1>1. Inv /\ [Next]_vars =>
        [\A s \in Site :
           /\ cat[s] # Null => cat'[s] = cat[s]
           /\ trk[s] # 0 => trk'[s] = trk[s]]_vars
  BY PointersKept DEF Next, Inv
<1> QED
  BY <1>1, Invariance, PTL DEF Spec, SafeSpec, SitesWriteOnce

\* Counter events are on the track of their name.
THEOREM CounterEventsTracked == Spec => []CountersTracked
<1>1. ASSUME Inv, NEW t \in Thread, pc[t] = "event", site[t] \in Counter
      PROVE  LET k == trk[site[t]] IN
             \/ k # 0 /\ counters[k].name = NameOf[site[t]]
             \/ /\ k = 0 /\ Len(counters) = MaxTracks
                /\ \A j \in 1 .. MaxTracks : counters[j].name # NameOf[site[t]]
  <2>1. site[t] \in Site /\ cat[site[t]] # Null /\ cat[site[t]] # Never
    BY <1>1, SitesAssumption DEF Inv, EventInv, Null, Never
  <2>2. status # "error"
    BY <1>1, <2>1 DEF Inv, GroupsInv, Fits
  <2>3. Tracked(site[t])
    BY <1>1, <2>1 DEF Inv, TrackFirst
  <2>4. trk[site[t]] # 0 => counters[trk[site[t]]].name = NameOf[site[t]]
    BY <1>1, <2>1 DEF Inv, CountersInv, CountersFor
  <2> QED
    BY <2>2, <2>3, <2>4 DEF Tracked, CountersFor
<1>2. Inv => CountersTracked
  BY <1>1 DEF CountersTracked
<1> QED
  BY <1>2, Invariance, PTL DEF Spec

\* Every site's category is the one its tags stand for.
THEOREM SitesAlwaysResolved == Spec => []SitesResolved
<1>1. ASSUME Inv, NEW s \in Site, cat[s] # Null
      PROVE  LET tags == TagsOf[s] \cap ValidTags IN
             \/ /\ cat[s] = Never
                /\ \/ status = "error" \/ tags = {}
                   \/ /\ Cardinality(tags) > 1 /\ Len(groups) = MaxGroups
                      /\ \A k \in 1 .. MaxGroups : groups[k].tags # TagsOf[s]
             \/ \E i \in ValidTags : cat[s] = RegularPtr(i) /\ tags = {i}
             \/ \E k \in 1 .. Len(groups) :
                  /\ cat[s] = GroupPtr(k) /\ groups[k].tags = TagsOf[s]
                  /\ groups[k].members \subseteq tags
                  /\ Cardinality(groups[k].members) \in 2 .. MaxGroupSize
                  /\ groups[k].members # tags =>
                       Cardinality(groups[k].members) = MaxGroupSize
  <2>1. Fits(s, cat[s])
    BY <1>1 DEF Inv, GroupsInv
  <2>2. CASE /\ cat[s] = Never
             /\ \/ status = "error" \/ Members(s) = {}
                \/ /\ Len(groups) = MaxGroups /\ GroupsFor(s) = {}
                   /\ Cardinality(Members(s)) > 1
    BY <2>2, FewTags, ManyTags DEF Members, GroupsFor
  <2>3. CASE \E i \in ValidTags : cat[s] = RegularPtr(i) /\ Members(s) = {i}
    BY <2>3, FewTags DEF Members
  <2>4. ASSUME NEW k \in GroupsFor(s), cat[s] = GroupPtr(k)
        PROVE  /\ k \in 1 .. Len(groups) /\ groups[k].tags = TagsOf[s]
               /\ groups[k].members \subseteq TagsOf[s] \cap ValidTags
               /\ Cardinality(groups[k].members) \in 2 .. MaxGroupSize
               /\ groups[k].members # TagsOf[s] \cap ValidTags =>
                    Cardinality(groups[k].members) = MaxGroupSize
    <3>1. k \in 1 .. Len(groups) /\ groups[k].tags = TagsOf[s]
      BY <2>4 DEF GroupsFor
    <3>2. /\ groups[k].members = FirstTags(TagsOf[s])
          /\ Cardinality(FirstTags(TagsOf[s])) > 1
      BY <1>1, <3>1 DEF Inv, GroupsInv
    <3> QED
      BY <3>1, <3>2, FirstTagsSize, LimitsAssumption
  <2> QED
    BY <2>1, <2>2, <2>3, <2>4 DEF Fits
<1>2. Inv => SitesResolved
  BY <1>1 DEF SitesResolved
<1> QED
  BY <1>2, Invariance, PTL DEF Spec

-----------------------------------------------------------------------------
(* No pointer is NULL when it is used *)

\* A thread that has created its site's category, or found it in the static
\* pointer, has one to load the mask and the event's category from.
PointerSet ==
  \A t \in Thread : pc[t] \in {"unlock", "mask", "event"} => cat[site[t]] # Null

LEMMA PointerSetStep ==
  ASSUME Inv, PointerSet, NEW t \in Thread, Call(t) \/ Step(t), Inv'
  PROVE  PointerSet'
<1>1. pc \in [Thread -> Label] /\ site \in [Thread -> Site \cup {None}]
  BY DEF Inv, ControlInv, TypeOK
<1>2. /\ \A u \in Thread : pc[u] \in {"unlock", "mask", "event"} => site[u] \in Site
      /\ \A u \in Thread : pc'[u] \in {"unlock", "mask", "event"} => site'[u] \in Site
  BY DEF Inv, ControlInv, LabelInv, AtSite, Label
<1>3. \A s \in Site : cat[s] # Null => cat'[s] = cat[s]
  BY PointersKept DEF Inv
<1>4. ASSUME NEW u \in Thread \ {t}
      PROVE  pc'[u] = pc[u] /\ site'[u] = site[u]
  <2>1. CASE Walk(t)
    BY <1>1, <2>1, WalkSteps DEF Goto, Inv
  <2>2. CASE CreateCounter(t)
    BY <1>1, <2>2, CreateCounterFrame DEF Goto, Inv
  <2>3. CASE StoreCat(t) \/ CreateGroup(t)
    BY <1>1, <2>3, CreateCategoryFrame DEF Goto, Inv
  <2> QED
    BY <2>1, <2>2, <2>3, StepKinds
<1>5. ASSUME pc'[t] \in {"unlock", "mask", "event"}
      PROVE  cat'[site'[t]] # Null
  <2>1. CASE \E s \in Site : Macro(t, s)
    BY <1>1, <1>5, <2>1 DEF Macro, Goto, sites
  <2>2. CASE Unlock(t)
    BY <1>1, <2>2 DEF Unlock, PointerSet, sites
  <2>3. CASE \E enabled \in BOOLEAN : LoadMask(t, enabled)
    <3>1. PICK enabled \in BOOLEAN : LoadMask(t, enabled)
      BY <2>3
    <3>2. enabled /\ UNCHANGED <<cat, site>> /\ pc[t] = "mask"
      BY <1>1, <1>5, <3>1 DEF LoadMask, Goto, sites
    <3> QED
      BY <3>2 DEF PointerSet
  <2>4. CASE StoreCat(t)
    <3>1. PICK q : Fits(site[t], q) /\ StoreCategoryPtr(t, q)
      BY <2>4, StoredFits DEF StoreCat, Inv
    <3>2. q # Null
      BY <3>1 DEF Fits, Null, Never, RegularPtr, GroupPtr
    <3>3. cat' = [cat EXCEPT ![site[t]] = q] /\ site' = site
      BY <3>1 DEF StoreCategoryPtr
    <3>4. site'[t] \in Site
      BY <1>2, <1>5
    <3> QED
      BY <3>2, <3>3, <3>4 DEF Inv, ControlInv, TypeOK
  <2>5. CASE CreateGroup(t)
    BY <1>1, <1>5, <2>5 DEF CreateGroup, NewGroup, RegisterGroup, Goto
  <2>6. CASE CreateCounter(t)
    BY <1>1, <1>5, <2>6, CreateCounterFrame DEF Goto, Inv
  <2>7. CASE \/ AtraceInitCall(t) \/ ReadStatus(t) \/ LockInit(t) \/ UnlockInit(t)
             \/ AtraceEvent(t) \/ \E ok \in BOOLEAN : AtraceInit(t, ok)
    BY <1>1, <1>5, <2>7
    DEF AtraceInitCall, ReadStatus, LockInit, UnlockInit, AtraceEvent, AtraceInit, Goto
  <2>8. CASE Lock(t)
    <3>1. site[t] \in Site /\ Goto(t, Head(Steps(site[t])))
      BY <2>8 DEF Lock, Inv, ControlInv, LabelInv, AtSite, Label
    <3>2. Head(Steps(site[t])) \in {"counter", "category"}
      BY <3>1, FirstLabel
    <3> QED
      BY <1>1, <1>5, <3>1, <3>2 DEF Goto
  <2>9. CASE NoCounter(t)
    BY <1>1, <1>5, <2>9, AfterCounter DEF NoCounter, Goto
  <2> QED
    BY <2>1, <2>2, <2>3, <2>4, <2>5, <2>6, <2>7, <2>8, <2>9, StepKinds DEF Walk, Call
<1> QED
  BY <1>2, <1>3, <1>4, <1>5 DEF PointerSet

\* The macros never use a NULL category, although sites are created by other
\* threads meanwhile, and creation may fail: then it leaves the disabled one.
THEOREM PointersSet == SafeSpec => []PointerSet
<1>1. Init => PointerSet
  BY DEF Init, PointerSet
<1>2. Inv /\ Inv' /\ PointerSet /\ [Next]_vars => PointerSet'
  <2> SUFFICES ASSUME Inv, Inv', PointerSet, [Next]_vars PROVE PointerSet'
    OBVIOUS
  <2>1. CASE UNCHANGED vars
    BY <2>1 DEF vars, sites, PointerSet
  <2>2. CASE Next
    BY <2>2, PointerSetStep DEF Next
  <2> QED
    BY <2>1, <2>2
<1> QED
  BY <1>1, <1>2, Invariance, PTL DEF SafeSpec

-----------------------------------------------------------------------------
(* The lock, and bounded calls *)

\* The most steps that a call has left at label l; seven of them, or two for
\* atrace_init, with the lock.
Rank(l) ==
  CASE l = "status" -> 14 [] l = "initlock" -> 13 [] l = "init" -> 12
    [] l = "initunlock" -> 11 [] l = "lock" -> 10 [] l = "counter" -> 9
    [] l = "regtrack" -> 8 [] l = "storetrk" -> 7 [] l = "category" -> 6
    [] l = "reggroup" -> 5 [] l = "storecat" -> 4 [] l = "unlock" -> 3
    [] l = "mask" -> 2 [] l = "event" -> 1 [] OTHER -> 0

\* With the lock a thread is at one of two stretches of labels.
RanksBounded ==
  \A t \in Thread :
    /\ Rank(pc[t]) \in 0 .. 14 /\ (Rank(pc[t]) = 0 <=> pc[t] = "idle")
    /\ lock = t <=> Rank(pc[t]) \in 3 .. 9 \/ Rank(pc[t]) \in {11, 12}

\* Every step of a thread brings its call nearer to the return, and nobody else
\* moves the thread.  What threads share is changed by the one with the lock,
\* which is passed on only by that thread's own step.
LockedCallsAdvance ==
  \A t \in Thread :
    /\ Step(t) => Rank(pc'[t]) < Rank(pc[t])
    /\ pc'[t] # pc[t] => Step(t) \/ Call(t)
    /\ Call(t) => pc[t] = "idle" /\ pc'[t] \in {"status", "mask", "initlock"}
    /\ lock = t => \/ Step(t) /\ lock' \in {t, None}
                   \/ UNCHANGED <<lock, status, trackers, sites>>
    /\ lock = None => UNCHANGED <<status, trackers, sites>>

LEMMA StepGoesOn ==
  ASSUME ControlInv, NEW t \in Thread, Step(t)
  PROVE  Rank(pc'[t]) < Rank(pc[t])
<1>1. pc \in [Thread -> Label] /\ \A l : Goto(t, l) => pc'[t] = l
  BY DEF ControlInv, TypeOK, Goto
<1> USE DEF Rank
<1>2. CASE ReadStatus(t)
  BY <1>1, <1>2 DEF ReadStatus
<1>3. CASE LockInit(t)
  BY <1>1, <1>3 DEF LockInit
<1>4. CASE UnlockInit(t)
  BY <1>1, <1>4 DEF UnlockInit
<1>5. ASSUME NEW ok \in BOOLEAN, AtraceInit(t, ok) PROVE Rank(pc'[t]) < Rank(pc[t])
  BY <1>1, <1>5 DEF AtraceInit
<1>6. CASE Lock(t)
  <2>1. site[t] \in Site /\ pc[t] = "lock"
    BY <1>6 DEF Lock, ControlInv, LabelInv, AtSite, Label
  <2>2. pc'[t] \in {"counter", "category"}
    BY <1>1, <1>6, <2>1, FirstLabel DEF Lock
  <2> QED
    BY <2>1, <2>2
<1>7. CASE Unlock(t)
  BY <1>1, <1>7 DEF Unlock
<1>8. CASE NoCounter(t) \/ CounterFound(t) \/ StoreTrack(t)
  <2>1. pc[t] \in {"counter", "storetrk"} /\ pc'[t] = "category"
    BY <1>1, <1>8, AfterCounter DEF NoCounter, CounterFound, StoreTrack
  <2> QED
    BY <2>1
<1>9. CASE NewCounter(t)
  BY <1>1, <1>9 DEF NewCounter
<1>10. CASE StoreCat(t)
  <2>1. pc[t] \in {"category", "storecat"} /\ pc'[t] = "unlock"
    BY <1>1, <1>10, AfterCategory
    DEF StoreCat, CategoryNever, CategoryFound, CategoryRegular, StoreCategory,
        StoreCategoryPtr
  <2> QED
    BY <2>1
<1>11. CASE NewGroup(t)
  BY <1>1, <1>11 DEF NewGroup
<1>12. ASSUME NEW result \in {"ok", "refused"}, RegisterTrack(t, result) \/ RegisterGroup(t, result)
       PROVE  Rank(pc'[t]) < Rank(pc[t])
  BY <1>1, <1>12 DEF RegisterTrack, RegisterGroup
<1>13. ASSUME NEW enabled \in BOOLEAN, LoadMask(t, enabled)
       PROVE  Rank(pc'[t]) < Rank(pc[t])
  BY <1>1, <1>13 DEF LoadMask
<1>14. CASE AtraceEvent(t)
  BY <1>1, <1>14 DEF AtraceEvent
<1> QED
  BY <1>2, <1>3, <1>4, <1>5, <1>6, <1>7, <1>8, <1>9, <1>10, <1>11, <1>12, <1>13, <1>14
  DEF Step, CreateStep, StoreCat

\* What a step of t leaves to the others, and changes only with the lock.
LEMMA StepFrame ==
  ASSUME ControlInv, NEW t \in Thread, Call(t) \/ Step(t)
  PROVE  /\ \A u \in Thread \ {t} : pc'[u] = pc[u]
         /\ (lock \in {None, t} /\ lock' \in {None, t}) \/ UNCHANGED lock
         /\ lock = t \/ UNCHANGED <<status, trackers, sites>>
<1>1. pc \in [Thread -> Label] /\ (pc[t] \in Locked <=> lock = t)
  BY DEF ControlInv, TypeOK, LabelInv
<1>2. CASE Walk(t)
  <2>1. \A u \in Thread \ {t} : pc'[u] = pc[u]
    BY <1>1, <1>2, WalkSteps DEF Goto
  <2>2. (lock \in {None, t} /\ lock' \in {None, t}) \/ UNCHANGED lock
    BY <1>1, <1>2
    DEF Walk, Call, AtraceInitCall, Macro, ReadStatus, LockInit, UnlockInit, Lock, Unlock,
        AtraceInit, LoadMask, AtraceEvent, NoCounter, Locked
  <2>3. UNCHANGED <<trackers, sites>>
    BY <1>2, WalkSteps
  <2>4. lock = t \/ UNCHANGED status
    BY <1>1, <1>2
    DEF Walk, Call, AtraceInitCall, Macro, ReadStatus, LockInit, UnlockInit, Lock, Unlock,
        AtraceInit, LoadMask, AtraceEvent, NoCounter, Locked
  <2> QED
    BY <2>1, <2>2, <2>3, <2>4
<1>3. CASE CreateCounter(t)
  BY <1>1, <1>3, CreateCounterFrame DEF Goto, Locked
<1>4. CASE StoreCat(t) \/ CreateGroup(t)
  BY <1>1, <1>4, CreateCategoryFrame DEF Goto, Locked
<1> QED
  BY <1>2, <1>3, <1>4, StepKinds

LEMMA LockedCallsAdvanceStep == ControlInv /\ [Next]_vars => LockedCallsAdvance
<1> SUFFICES ASSUME ControlInv, [Next]_vars PROVE LockedCallsAdvance
  OBVIOUS
<1> DEFINE Kept(t) ==
      /\ lock = t => \/ Step(t) /\ lock' \in {t, None}
                     \/ UNCHANGED <<lock, status, trackers, sites>>
      /\ lock = None => UNCHANGED <<status, trackers, sites>>
<1>1. ASSUME NEW t \in Thread, Call(t)
      PROVE  pc[t] = "idle" /\ pc'[t] \in {"status", "mask", "initlock"}
  BY <1>1 DEF Call, AtraceInitCall, Macro, Goto, ControlInv, TypeOK
<1>2. ASSUME NEW t \in Thread, Step(t) PROVE Rank(pc'[t]) < Rank(pc[t])
  BY <1>2, StepGoesOn
<1>3. ASSUME NEW t \in Thread
      PROVE  Kept(t) /\ (pc'[t] # pc[t] => Step(t) \/ Call(t))
  <2>1. CASE UNCHANGED vars
    BY <2>1 DEF vars
  <2>2. ASSUME NEW u \in Thread, Call(u) \/ Step(u)
        PROVE  Kept(t) /\ (pc'[t] # pc[t] => Step(t) \/ Call(t))
    <3>1. /\ u # t => pc'[t] = pc[t]
          /\ (lock \in {None, u} /\ lock' \in {None, u}) \/ UNCHANGED lock
          /\ lock = u \/ UNCHANGED <<status, trackers, sites>>
      BY <2>2, StepFrame
    <3>2. None # t /\ None # u
      BY SitesAssumption
    <3>3. Call(u) => UNCHANGED <<lock, status, trackers, sites>>
      BY DEF Call, AtraceInitCall, Macro
    <3> HIDE DEF Step, Call
    <3> QED
      BY <2>2, <3>1, <3>2, <3>3, Zenon
  <2> QED
    BY <2>1, <2>2 DEF Next
<1> QED
  BY <1>1, <1>2, <1>3 DEF LockedCallsAdvance

\* The status, the trackers and the static pointers change only under s_lock; the
\* thread that has it gives it back after seven of its own steps at most, and a
\* macro is over after fourteen, the waiting for the lock not counted.
THEOREM CallsBounded == SafeSpec => []RanksBounded /\ [][LockedCallsAdvance]_vars
<1>1. ControlInv => RanksBounded
  <2>1. ASSUME NEW l \in Label
        PROVE  /\ Rank(l) \in 0 .. 14 /\ (Rank(l) = 0 <=> l = "idle")
               /\ l \in Locked <=> Rank(l) \in 3 .. 9 \/ Rank(l) \in {11, 12}
    <3>1. Rank(l) \in 0 .. 14
      BY DEF Rank
    <3>2. Rank(l) = 0 <=> l = "idle"
      BY DEF Rank, Label
    <3>3. l \in Locked => Rank(l) \in 3 .. 9 \/ Rank(l) \in {11, 12}
      BY DEF Rank, Locked
    <3>4. l \notin Locked => Rank(l) \in {0, 1, 2, 10, 13, 14}
      BY DEF Rank, Locked, Label
    <3> QED
      BY <3>1, <3>2, <3>3, <3>4
  <2> QED
    BY <2>1 DEF ControlInv, TypeOK, LabelInv, RanksBounded
<1>2. ControlInv /\ [Next]_vars => LockedCallsAdvance
  BY LockedCallsAdvanceStep
<1>3. Inv => ControlInv
  BY DEF Inv
<1> QED
  BY <1>1, <1>2, <1>3, Invariance, PTL DEF SafeSpec

=============================================================================

-------------------------- MODULE CategorySessions --------------------------
(***************************************************************************)
(* The category registry of percetto.cc and the session masks kept on it.  *)
(*                                                                         *)
(* Three kinds of thread work on the registry without a common lock:       *)
(*   Main       the application thread that calls percetto_init, once per  *)
(*              category list, one call at a time (the documentation of    *)
(*              PERCETTO_INIT: "Not thread safe");                         *)
(*   Registrar  application threads in percetto_register_group_category;   *)
(*   Muxer      Perfetto's thread, which runs PercettoDataSource::OnSetup  *)
(*              and OnStop, one at a time.                                 *)
(*                                                                         *)
(* Every load, store and read-modify-write of a shared atomic is one step. *)
(* A mask (`sessions`, a bit per data source instance) is the set of the   *)
(* instances whose bit is 1.  Atomics are sequentially consistent.         *)
(***************************************************************************)
EXTENDS Naturals, Sequences

CONSTANTS
  Category,       \* categories with a name
  Group,          \* group categories: ext->name is NULL
  Members,        \* [Group -> SUBSET Category]: the non-NULL ext->group[]
  InitLists,      \* the category arrays passed to percetto_init
  Configs,        \* for each session configuration, what IsCategoryEnabled accepts
  Instance,       \* data source instance indices
  Registrar, Main, Muxer,
  Null,
  MaxCategories,  \* PERCETTO_MAX_CATEGORIES
  MaxGroups       \* PERCETTO_MAX_GROUP_CATEGORIES

Thread == Registrar \cup {Main, Muxer}

\* The groups that no percetto_init list names: the application registers
\* them one by one (as percetto-atrace.c does).
DynamicGroup ==
  {g \in Group : \A l \in InitLists : \A k \in 1..Len(l) : l[k] # g}

ASSUME SizesAssumption == MaxCategories \in Nat /\ MaxGroups \in Nat

ASSUME CategoriesAssumption ==
  /\ Category \cap Group = {} /\ Null \notin Category \cup Group
  /\ Members \in [Group -> SUBSET Category]
  /\ Configs \subseteq SUBSET Category
  /\ Null \notin Instance

ASSUME ThreadsAssumption ==
  Main # Muxer /\ Main \notin Registrar /\ Muxer \notin Registrar

\* PERCETTO_CATEGORY_DEFINE lists the groups after the other categories.
ASSUME ListsAssumption ==
  /\ InitLists \subseteq Seq(Category \cup Group)
  /\ \A l \in InitLists : \A j, k \in 1..Len(l) :
       j < k /\ l[j] \in Group => l[k] \in Group

VARIABLES
  \* struct Percetto
  initialized,    \* is_initialized
  categories,     \* categories[]
  categoryCount,  \* category_count
  groups,         \* groups[]
  \* struct percetto_category
  nameIid,        \* name_iid of each category
  sessions,       \* sessions of each category and group
  \* percetto_init_with_args, run by Main
  firstInit,      \* is_first_init
  args,           \* the list of the call
  inI, storeI,    \* in_i (counted from 1), store_i
  result,         \* what the last call returned
  done,           \* lists a call has accepted
  \* the data source, in Perfetto and in its handlers
  dataSource,     \* Perfetto knows the data source
  phase,          \* life cycle of the session on each instance index
  config,         \* the categories the session's configuration enables
  setupCount,     \* the category_count that OnSetup read
  inst, count, idx,  \* locals of the handler: internal_instance_index, count, i
  \* locals of add_group_category and UpdateGroupCategory, for each thread
  pc, slot, grp, pending, acc,
  \* history: groups added by percetto_init since the handlers' last pass, and
  \* groups whose mask a registering thread has written from outdated members
  unsynced

initVars == <<initialized, firstInit, args, inI, storeI, result, done, dataSource>>
categoryVars == <<categories, categoryCount, nameIid>>
sessionVars == <<phase, config, setupCount>>
handlerVars == <<inst, count, idx>>
threadVars == <<pc, slot, grp, pending, acc>>
vars == <<initVars, categoryVars, groups, sessions, sessionVars, handlerVars,
          threadVars, unsynced>>

Phase == {"free", "setup", "live", "stop"}
Label == {"idle", "store", "claim", "register", "category", "group", "member"}
CategorySlot == 0 .. MaxCategories - 1
GroupSlot == 0 .. MaxGroups - 1

InitTypes ==
  /\ initialized \in BOOLEAN /\ firstInit \in BOOLEAN /\ dataSource \in BOOLEAN
  /\ args \in InitLists \cup {<<>>}
  /\ inI \in Nat /\ inI > 0 /\ storeI \in 0 .. MaxCategories
  /\ result \in {"none", "ok", "clockError", "registerError"}
  /\ done \subseteq InitLists

RegistryTypes ==
  /\ categories \in [CategorySlot -> Category \cup {Null}]
  /\ categoryCount \in 0 .. MaxCategories
  /\ nameIid \in [Category -> 0 .. MaxCategories]
  /\ groups \in [GroupSlot -> Group \cup {Null}]
  /\ sessions \in [Category \cup Group -> SUBSET Instance]
  /\ unsynced \subseteq Group

SessionTypes ==
  /\ phase \in [Instance -> Phase]
  /\ config \in [Instance -> SUBSET Category]
  /\ setupCount \in [Instance -> 0 .. MaxCategories]
  /\ inst \in Instance \cup {Null}
  /\ count \in 0 .. MaxCategories /\ idx \in 0 .. MaxCategories

ThreadTypes ==
  /\ pc \in [Thread -> Label]
  /\ slot \in [Thread -> 0 .. MaxGroups]
  /\ grp \in [Thread -> Group \cup {Null}]
  /\ pending \in [Thread -> SUBSET Category]
  /\ acc \in [Thread -> SUBSET Instance]

TypeOK == InitTypes /\ RegistryTypes /\ SessionTypes /\ ThreadTypes

Init ==
  /\ initialized = FALSE /\ firstInit = FALSE /\ dataSource = FALSE
  /\ categories = [k \in CategorySlot |-> Null] /\ categoryCount = 0
  /\ nameIid = [c \in Category |-> 0]
  /\ groups = [k \in GroupSlot |-> Null]
  /\ sessions = [c \in Category \cup Group |-> {}]
  /\ args = <<>> /\ inI = 1 /\ storeI = 0 /\ result = "none" /\ done = {}
  /\ phase = [i \in Instance |-> "free"]
  /\ config = [i \in Instance |-> {}]
  /\ setupCount = [i \in Instance |-> 0]
  /\ inst = Null /\ count = 0 /\ idx = 0
  /\ pc = [t \in Thread |-> "idle"]
  /\ slot = [t \in Thread |-> 0]
  /\ grp = [t \in Thread |-> Null]
  /\ pending = [t \in Thread |-> {}]
  /\ acc = [t \in Thread |-> {}]
  /\ unsynced = {}

IsGroupCategory(c) == c \in Group

\* A call of thread t returns: its locals are gone.
Return(t) ==
  /\ pc' = [pc EXCEPT ![t] = "idle"]
  /\ slot' = [slot EXCEPT ![t] = 0]
  /\ grp' = [grp EXCEPT ![t] = Null]
  /\ pending' = [pending EXCEPT ![t] = {}]
  /\ acc' = [acc EXCEPT ![t] = {}]

-----------------------------------------------------------------------------
(* percetto_init_with_args *)

EnterInit(l) ==
  /\ pc[Main] = "idle" /\ l \in InitLists \ done
  /\ firstInit' = ~initialized
  /\ initialized' = TRUE
  /\ args' = l /\ inI' = 1
  /\ pc' = [pc EXCEPT ![Main] = "store"]
  /\ UNCHANGED <<result, done, dataSource, categories, nameIid, groups, sessions,
                 sessionVars, handlerVars, slot, grp, pending, acc, unsynced>>

\* Mutant of InitCall: every list is stored from slot 0 on.
InitCallFromZero(l) ==
  EnterInit(l) /\ storeI' = 0 /\ UNCHANGED categoryCount

\* Mutant of InitCall: the count is raised before the slot is filled.
InitCallCountFirst(l) ==
  EnterInit(l) /\ storeI' = categoryCount /\ categoryCount' = categoryCount + 1

\* A list is passed again only when the call with it has failed.
InitCall(l) ==
  EnterInit(l) /\ storeI' = categoryCount /\ UNCHANGED categoryCount

\* The clock does not work: return before is_initialized is set.
InitClockError(l) ==
  /\ pc[Main] = "idle" /\ l \in InitLists \ done
  /\ ~initialized
  /\ result' = "clockError"
  /\ UNCHANGED <<initialized, firstInit, args, inI, storeI, done, dataSource,
                 categoryVars, groups, sessions, sessionVars, handlerVars,
                 threadVars, unsynced>>

AtRegular == inI <= Len(args) /\ ~IsGroupCategory(args[inI])

StoreAs(iid) ==
  /\ pc[Main] = "store" /\ AtRegular
  /\ nameIid' = [nameIid EXCEPT ![args[inI]] = iid]
  /\ categories' = [categories EXCEPT ![storeI] = args[inI]]
  /\ storeI' = storeI + 1 /\ inI' = inI + 1
  /\ UNCHANGED <<initialized, firstInit, args, result, done, dataSource,
                 categoryCount, groups, sessions, sessionVars, handlerVars,
                 threadVars, unsynced>>

\* Mutant of StoreCategory: the array's capacity is not looked at.
StoreUnchecked == StoreAs(storeI + 1)

StoreCategory == storeI < MaxCategories /\ StoreAs(storeI + 1)

\* "too many categories": the category stays unregistered, the call goes on.
SkipCategory ==
  /\ pc[Main] = "store" /\ AtRegular /\ storeI = MaxCategories
  /\ inI' = inI + 1
  /\ UNCHANGED <<initialized, firstInit, args, storeI, result, done, dataSource,
                 categoryVars, groups, sessions, sessionVars, handlerVars,
                 threadVars, unsynced>>

\* Main goes on with element k of its list: add_group_category, or the end.
NextGroup(k) ==
  /\ inI' = k
  /\ pc' = [pc EXCEPT ![Main] = IF k <= Len(args) THEN "claim" ELSE "register"]
  /\ grp' = [grp EXCEPT ![Main] = IF k <= Len(args) THEN args[k] ELSE Null]
  /\ slot' = [slot EXCEPT ![Main] = 0]
  /\ UNCHANGED <<pending, acc>>

PublishCount ==
  /\ pc[Main] = "store" /\ ~AtRegular
  /\ categoryCount' = storeI
  /\ NextGroup(inI)
  /\ UNCHANGED <<initialized, firstInit, args, storeI, result, done, dataSource,
                 categories, nameIid, groups, sessions, sessionVars,
                 handlerVars, unsynced>>

\* Base::Register on the first call, which may fail; Base::UpdateDescriptor,
\* whose outcome is not known, on the others.
RegisterDataSource(ok) ==
  /\ pc[Main] = "register"
  /\ ok \/ firstInit
  /\ dataSource' = IF firstInit THEN ok ELSE dataSource
  /\ result' = IF ok THEN "ok" ELSE "registerError"
  /\ done' = IF ok THEN done \cup {args} ELSE done
  /\ args' = <<>> /\ inI' = 1 /\ storeI' = 0 /\ firstInit' = FALSE
  /\ Return(Main)
  /\ UNCHANGED <<initialized, categoryVars, groups, sessions, sessionVars,
                 handlerVars, unsynced>>

-----------------------------------------------------------------------------
(* percetto_register_group_category and add_group_category *)

\* "Can be called from any thread after percetto_init", once per category.
RegisterGroup(r, g) ==
  /\ pc[r] = "idle" /\ result # "none"
  /\ g \in DynamicGroup
  /\ \A k \in GroupSlot : groups[k] # g
  /\ \A t \in Registrar : grp[t] # g
  /\ pc' = [pc EXCEPT ![r] = "claim"]
  /\ grp' = [grp EXCEPT ![r] = g]
  /\ UNCHANGED <<initVars, categoryVars, groups, sessions, sessionVars,
                 handlerVars, slot, pending, acc, unsynced>>

TakeSlot(t) ==
  /\ pc[t] = "claim" /\ slot[t] < MaxGroups
  /\ groups' = [groups EXCEPT ![slot[t]] = grp[t]]
  /\ IF t = Main
       THEN NextGroup(inI + 1) /\ unsynced' = unsynced \cup {grp[t]}
       ELSE /\ pc' = [pc EXCEPT ![t] = "group"]
            /\ UNCHANGED <<inI, slot, grp, pending, acc, unsynced>>
  /\ UNCHANGED <<initialized, firstInit, args, storeI, result, done, dataSource,
                 categoryVars, sessions, sessionVars, handlerVars>>

\* Mutant of ClaimSlot: a plain store instead of a compare-and-exchange, by a
\* thread that still believes the slot is free.
ClaimBlindly(t) == TakeSlot(t)

\* compare_exchange_strong(NULL, category) on the next slot succeeds ...
ClaimSlot(t) == TakeSlot(t) /\ groups[slot[t]] = Null

\* Mutant of SlotTaken: the exchange is retried on the same slot.
RetrySlot(t) ==
  /\ pc[t] = "claim" /\ slot[t] < MaxGroups
  /\ groups[slot[t]] # Null
  /\ UNCHANGED vars

\* ... or fails, and the next slot is tried ...
SlotTaken(t) ==
  /\ pc[t] = "claim" /\ slot[t] < MaxGroups
  /\ groups[slot[t]] # Null
  /\ slot' = [slot EXCEPT ![t] = @ + 1]
  /\ UNCHANGED <<initVars, categoryVars, groups, sessions, sessionVars,
                 handlerVars, pc, grp, pending, acc, unsynced>>

\* ... until there is none: "no more group categories are allowed".
NoSlotLeft(t) ==
  /\ pc[t] = "claim" /\ slot[t] = MaxGroups
  /\ IF t = Main THEN NextGroup(inI + 1) ELSE Return(t) /\ UNCHANGED inI
  /\ UNCHANGED <<initialized, firstInit, args, storeI, result, done, dataSource,
                 categoryVars, groups, sessions, sessionVars, handlerVars,
                 unsynced>>

-----------------------------------------------------------------------------
(* PercettoDataSource::OnSetup and OnStop *)

StartLoop(i, k) ==
  /\ inst' = i /\ count' = categoryCount /\ idx' = k
  /\ pc' = [pc EXCEPT ![Muxer] = "category"]
  /\ UNCHANGED <<initVars, categoryVars, groups, sessions, slot, grp, pending,
                 acc, unsynced>>

\* Mutant of BeginHandler: the loop over the categories skips the first.
BeginHandlerAtOne(i) == StartLoop(i, IF categoryCount = 0 THEN 0 ELSE 1)

BeginHandler(i) == StartLoop(i, 0)

OnSetup(i, W) ==
  /\ pc[Muxer] = "idle" /\ dataSource /\ phase[i] = "free"
  /\ phase' = [phase EXCEPT ![i] = "setup"]
  /\ config' = [config EXCEPT ![i] = W]
  /\ setupCount' = [setupCount EXCEPT ![i] = categoryCount]
  /\ BeginHandler(i)

\* The configuration is missing or cannot be parsed: OnSetup returns early.
OnSetupRejected(i) ==
  /\ pc[Muxer] = "idle" /\ dataSource /\ phase[i] = "free"
  /\ phase' = [phase EXCEPT ![i] = "live"]
  /\ UNCHANGED <<initVars, categoryVars, groups, sessions, config, setupCount,
                 handlerVars, threadVars, unsynced>>

OnStop(i) ==
  /\ pc[Muxer] = "idle" /\ phase[i] = "live"
  /\ phase' = [phase EXCEPT ![i] = "stop"]
  /\ UNCHANGED <<config, setupCount>>
  /\ BeginHandler(i)

NextCategory(cleared) ==
  /\ pc[Muxer] = "category" /\ idx < count
  /\ LET c == categories[idx] IN
       sessions' = [sessions EXCEPT ![c] =
                      IF phase[inst] = "stop" THEN @ \ cleared
                      ELSE IF c \in config[inst] THEN @ \cup {inst}
                      ELSE @]
  /\ idx' = idx + 1
  /\ UNCHANGED <<initVars, categoryVars, groups, sessionVars, inst, count,
                 threadVars, unsynced>>

\* Mutant of UpdateCategory: OnStop stores 0 instead of clearing its own bit.
UpdateCategoryStoreZero == NextCategory(Instance)

\* One turn of the loop over the categories: fetch_or in OnSetup, fetch_and
\* of the complement of the session's bit in OnStop.
UpdateCategory == NextCategory({inst})

\* The handler returns.  Only when OnStop has returned does Perfetto give the
\* index to another session.
LeaveHandler ==
  /\ IF phase[inst] = "setup"
       THEN /\ phase' = [phase EXCEPT ![inst] = "live"]
            /\ UNCHANGED <<config, setupCount>>
       ELSE /\ phase' = [phase EXCEPT ![inst] = "free"]
            /\ config' = [config EXCEPT ![inst] = {}]
            /\ setupCount' = [setupCount EXCEPT ![inst] = 0]
  /\ inst' = Null /\ count' = 0 /\ idx' = 0
  /\ Return(Muxer)
  /\ UNCHANGED <<initVars, categoryVars, groups, sessions, unsynced>>

\* Mutant of CategoriesDone: no UpdateGroupCategories.
CategoriesDoneNoGroups ==
  pc[Muxer] = "category" /\ idx = count /\ LeaveHandler

CategoriesDone ==
  /\ pc[Muxer] = "category" /\ idx = count
  /\ pc' = [pc EXCEPT ![Muxer] = "group"]
  /\ UNCHANGED <<initVars, categoryVars, groups, sessions, sessionVars,
                 handlerVars, slot, grp, pending, acc, unsynced>>

-----------------------------------------------------------------------------
(* UpdateGroupCategory and UpdateGroupCategories *)

GroupAt(k) == IF k < MaxGroups THEN groups[k] ELSE Null

GroupLoad(t) ==
  /\ pc[t] = "group" /\ GroupAt(slot[t]) # Null
  /\ grp' = [grp EXCEPT ![t] = GroupAt(slot[t])]
  /\ pending' = [pending EXCEPT ![t] = Members[GroupAt(slot[t])]]
  /\ acc' = [acc EXCEPT ![t] = {}]
  /\ pc' = [pc EXCEPT ![t] = "member"]
  /\ UNCHANGED <<initVars, categoryVars, groups, sessions, sessionVars,
                 handlerVars, slot, unsynced>>

\* The members are loaded one by one; the order does not matter and is left
\* open.
MemberLoad(t, c) ==
  /\ pc[t] = "member" /\ c \in pending[t]
  /\ acc' = [acc EXCEPT ![t] = @ \cup sessions[c]]
  /\ pending' = [pending EXCEPT ![t] = @ \ {c}]
  /\ UNCHANGED <<initVars, categoryVars, groups, sessions, sessionVars,
                 handlerVars, pc, slot, grp, unsynced>>

MemberBits(g) == UNION {sessions[c] : c \in Members[g]}

\* The mask is stored: the handler goes on to the next slot, a registering
\* thread returns.
GroupStore(t) ==
  /\ pc[t] = "member" /\ pending[t] = {}
  /\ sessions' = [sessions EXCEPT ![grp[t]] = acc[t]]
  /\ unsynced' = IF t = Muxer \/ acc[t] = MemberBits(grp[t])
                 THEN unsynced \ {grp[t]} ELSE unsynced \cup {grp[t]}
  /\ IF t = Muxer
       THEN /\ pc' = [pc EXCEPT ![t] = "group"]
            /\ slot' = [slot EXCEPT ![t] = @ + 1]
            /\ UNCHANGED <<grp, pending, acc>>
       ELSE Return(t)
  /\ UNCHANGED <<initVars, categoryVars, groups, sessionVars, handlerVars>>

\* UpdateGroupCategories ends at the end of the array or at the first NULL slot.
HandlerEnd ==
  pc[Muxer] = "group" /\ GroupAt(slot[Muxer]) = Null /\ LeaveHandler

-----------------------------------------------------------------------------
AddGroupStep(t) == ClaimSlot(t) \/ SlotTaken(t) \/ NoSlotLeft(t)

UpdateGroupStep(t) ==
  GroupLoad(t) \/ GroupStore(t) \/ \E c \in Category : MemberLoad(t, c)

MainStep ==
  \/ StoreCategory \/ SkipCategory \/ PublishCount
  \/ AddGroupStep(Main)
  \/ \E ok \in BOOLEAN : RegisterDataSource(ok)

RegistrarStep(r) == AddGroupStep(r) \/ UpdateGroupStep(r)

MuxerStep ==
  UpdateCategory \/ CategoriesDone \/ UpdateGroupStep(Muxer) \/ HandlerEnd

\* The calls the application and Perfetto decide to make.
Call ==
  \/ \E l \in InitLists : InitCall(l) \/ InitClockError(l)
  \/ \E r \in Registrar, g \in Group : RegisterGroup(r, g)
  \/ \E i \in Instance :
       \/ \E W \in Configs : OnSetup(i, W)
       \/ OnSetupRejected(i)
       \/ OnStop(i)

Next == Call \/ MainStep \/ MuxerStep \/ \E r \in Registrar : RegistrarStep(r)

SafeSpec == Init /\ [][Next]_vars

\* A thread inside a call is scheduled again; nothing forces a call to be made.
Fairness ==
  /\ WF_vars(MainStep) /\ WF_vars(MuxerStep)
  /\ \A r \in Registrar : WF_vars(RegistrarStep(r))

Spec == SafeSpec /\ Fairness

-----------------------------------------------------------------------------
(* Properties *)

\* Every slot below category_count holds a category, and the interning id of
\* that category leads back to it.  OnSetup, OnStop and the tracing threads
\* read those slots without a lock, so the count may only be published after
\* the slots and the ids are written (percetto.cc, percetto_init_with_args).
RegistryConsistent ==
  \A k \in CategorySlot : k < categoryCount =>
    /\ categories[k] \in Category
    /\ nameIid[categories[k]] > 0
    /\ categories[nameIid[categories[k]] - 1] = categories[k]

\* What the session on index i enables: the categories its configuration
\* accepts among those registered when OnSetup ran.
Wanted(i) ==
  {c \in config[i] : \E k \in CategorySlot : k < setupCount[i] /\ categories[k] = c}

\* A live session has its bit in exactly the categories it wants, and an index
\* that Perfetto may hand to another session has its bit nowhere: a new session
\* never inherits categories from the one that had the index before it.
MasksExact ==
  \A i \in Instance, c \in Category :
    /\ phase[i] = "free" => i \notin sessions[c]
    /\ phase[i] = "live" => (i \in sessions[c] <=> c \in Wanted(i))

\* The group array has no holes, so "a NULL slot signifies the end of the
\* array" hides no group from a handler, and the slot a registering thread
\* has won is still its own when it goes on to UpdateGroupCategory.
GroupsReachable ==
  /\ \A j, k \in GroupSlot : j < k /\ groups[k] # Null => groups[j] # Null
  /\ \A r \in Registrar :
       pc[r] \in {"group", "member"} => groups[slot[r]] = grp[r]

\* g is in the array and no thread is still registering it.
Registered(g) ==
  /\ \E k \in GroupSlot : groups[k] = g
  /\ \A r \in Registrar : grp[r] # g

\* "group->sessions = (child1->sessions | child2->sessions)" once every call
\* has returned, as the comments on UpdateGroupCategory ("Thread safe") and
\* UpdateGroupCategories say.  The code does not keep it: see README.
GroupsAgree ==
  (\A t \in Thread : pc[t] = "idle") =>
    \A g \in Group : Registered(g) => sessions[g] = MemberBits(g)

\* What the code does keep: between handlers a group disagrees with its members
\* only if the last write of its mask came from a registering thread whose
\* members changed while it was adding them up, or if percetto_init added it
\* and no handler has run since.
GroupsAgreeUnlessRaced ==
  pc[Muxer] = "idle" =>
    \A g \in Group \ unsynced : Registered(g) => sessions[g] = MemberBits(g)

\* percetto_init returns 0 only if Perfetto accepted the data source ("@return
\* 0 on success or negative error code on failure").  The code does not keep
\* it: see README.
OkMeansRegistered == result = "ok" => dataSource

\* What readers rely on when they read the arrays without a lock: a published
\* category slot and a non-NULL group slot never change again.
SlotsWriteOnce ==
  [][/\ categoryCount' >= categoryCount
     /\ \A k \in CategorySlot :
          k < categoryCount => categories'[k] = categories[k]
     /\ \A k \in GroupSlot : groups[k] # Null => groups'[k] = groups[k]]_vars

\* The lock-free registration is wait-free: whatever the other threads do, a
\* thread in percetto_register_group_category returns, and so do percetto_init
\* and the handlers.
CallsReturn ==
  \A t \in Thread : pc[t] # "idle" ~> pc[t] = "idle"

\* A group mask that a race left wrong stays wrong at most until the next
\* session starts or stops: that handler's pass over the groups repairs it.
RaceRepairedByNextHandler ==
  \A g \in Group :
    (pc[Muxer] = "category" /\ Registered(g) /\ g \in unsynced)
      ~> (g \notin unsynced /\ sessions[g] = MemberBits(g))

\* The masks of the named categories implement the session board: the steps of
\* registration, of group updates and of other threads are stutters of it.
Board == INSTANCE SessionBoard WITH
  mask <- [c \in Category |-> sessions[c]],
  wanted <- [i \in Instance |-> Wanted(i)]

BoardSafe == Board!SafeSpec

\* ... and with fair scheduling each session that is being set up or stopped
\* gets there.
BoardSpec == Board!Spec
=============================================================================

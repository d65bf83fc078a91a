------------------------ MODULE CategorySessionsProofs ------------------------
(***************************************************************************)
(* Proofs about CategorySessions, for any number of categories, groups,    *)
(* instances and registering threads.                                      *)
(*                                                                         *)
(* The inductive invariant is built in layers, each of which is inductive  *)
(* given the ones before it: where each thread is (ControlOK), what the    *)
(* slots hold (RegistryInv), what each session has published so far        *)
(* (MasksInv), who owns which group slot (GroupSlotsInv), and how far the  *)
(* handler's pass over the groups has come (GroupMasksInv).                *)
(***************************************************************************)
EXTENDS CategorySessions, FiniteSetTheorems, TLAPS

-----------------------------------------------------------------------------
(* The layers of the inductive invariant *)

\* The labels of each thread, and what its locals hold there.
ControlOK ==
  /\ pc[Main] \in {"idle", "store", "claim", "register"}
  /\ pc[Muxer] \in {"idle", "category", "group", "member"}
  /\ \A r \in Registrar : pc[r] \in {"idle", "claim", "group", "member"}
  /\ pc[Main] # "idle" => args \in InitLists
  /\ pc[Main] = "claim" =>
       inI <= Len(args) /\ args[inI] = grp[Main]
  /\ \A t \in Thread : pc[t] \in {"claim", "member"} => grp[t] \in Group
  /\ \A t \in Thread : pc[t] = "member" => slot[t] < MaxGroups
  /\ pc[Muxer] # "idle" => inst \in Instance

TypeInv == TypeOK /\ ControlOK

\* The end of the categories stored so far, published or not.
Stored == IF pc[Main] = "store" THEN storeI ELSE categoryCount

RegistryInv ==
  /\ categoryCount <= Stored
  /\ \A k \in CategorySlot : k < Stored =>
       /\ categories[k] \in Category
       /\ nameIid[categories[k]] \in 1 .. Stored
       /\ categories[nameIid[categories[k]] - 1] = categories[k]

\* Category c is in one of the first n slots of array a.
InSlots(a, c, n) == \E k \in CategorySlot : k < n /\ a[k] = c

\* The handler of session i has the bits of the slots before idx done.
SessionInv(i) ==
  /\ setupCount[i] <= categoryCount
  /\ phase[i] \in {"setup", "stop"} <=> (pc[Muxer] # "idle" /\ inst = i)
  /\ phase[i] = "free" =>
       config[i] = {} /\ \A c \in Category : i \notin sessions[c]
  /\ phase[i] = "live" =>
       \A c \in Category :
         i \in sessions[c] <=> c \in config[i] /\ InSlots(categories, c, setupCount[i])
  /\ phase[i] = "setup" =>
       /\ count = setupCount[i]
       /\ \A c \in Category :
            i \in sessions[c] <=> c \in config[i] /\ InSlots(categories, c, idx)
  /\ phase[i] = "stop" =>
       \A c \in Category :
         i \in sessions[c] => InSlots(categories, c, count) /\ ~InSlots(categories, c, idx)

MasksInv ==
  /\ idx <= count /\ count <= categoryCount
  /\ pc[Muxer] \in {"group", "member"} => idx = count
  /\ \A i \in Instance : SessionInv(i)

\* Slots are filled from the front, and a thread knows what it has seen.
GroupSlotsInv ==
  /\ \A j, k \in GroupSlot : j < k /\ groups[k] # Null => groups[j] # Null
  /\ \A t \in Thread : \A j \in GroupSlot :
       j < slot[t] => groups[j] # Null
  /\ \A t \in Thread :
       pc[t] = "member" \/ (pc[t] = "group" /\ t # Muxer) =>
         slot[t] \in GroupSlot /\ grp[t] \in Group /\ groups[slot[t]] = grp[t]

\* No two threads register one group, nor one that is in the array.
OwnershipInv ==
  /\ \A r \in Registrar :
       /\ pc[r] # "idle" => grp[r] \in DynamicGroup
       /\ pc[r] = "idle" => grp[r] = Null
       /\ pc[r] = "claim" => \A k \in GroupSlot : groups[k] # grp[r]
  /\ \A q, r \in Registrar : q # r /\ grp[q] # Null => grp[q] # grp[r]

\* The bits that the categories of C have in the masks m.
Bits(m, C) == UNION {m[c] : c \in C}

\* Group g disagrees with its members only if a race or percetto_init left it.
Settled(g) ==
  (\A r \in Registrar : grp[r] # g) /\ g \notin unsynced
    => sessions[g] = Bits(sessions, Members[g])

GroupMasksInv ==
  /\ pc[Muxer] \in {"idle", "category"} => slot[Muxer] = 0
  /\ pc[Muxer] = "member" =>
       /\ pending[Muxer] \subseteq Members[grp[Muxer]]
       /\ acc[Muxer] = Bits(sessions, Members[grp[Muxer]] \ pending[Muxer])
  /\ pc[Muxer] # "category" =>
       \A k \in GroupSlot :
         groups[k] # Null /\ (pc[Muxer] = "idle" \/ k < slot[Muxer])
           => Settled(groups[k])


-----------------------------------------------------------------------------
(* Type correctness *)

\* The elements of a list; what follows a group in it is a group.
LEMMA ListElements ==
  ASSUME args \in InitLists
  PROVE  /\ Len(args) \in Nat
         /\ \A k \in Nat : k > 0 /\ k <= Len(args) => args[k] \in Category \cup Group
         /\ \A j, k \in Nat : j > 0 /\ j <= k /\ k <= Len(args) /\ args[j] \in Group
              => args[k] \in Group
<1>1. args \in Seq(Category \cup Group)
  BY ListsAssumption
<1>2. \A j, k \in 1 .. Len(args) : j < k /\ args[j] \in Group => args[k] \in Group
  BY ListsAssumption
<1> QED
  BY <1>1, <1>2

\* A thread other than the handlers' returns from its call.
LEMMA ReturnTypes ==
  ASSUME ThreadTypes, ControlOK, NEW t \in Thread, Return(t),
         UNCHANGED <<args, inI, inst>>
  PROVE  ThreadTypes' /\ (t # Muxer => ControlOK')
<1>1. ThreadTypes'
  BY SizesAssumption DEF ThreadTypes, Return, Label
<1>2. ASSUME t # Muxer PROVE ControlOK'
  BY <1>2, ThreadsAssumption DEF ThreadTypes, ControlOK, Return, Thread
<1> QED
  BY <1>1, <1>2

\* Main goes on with a group of its list, or with the registration.
LEMMA NextGroupTypes ==
  ASSUME ThreadTypes, ControlOK, args \in InitLists, NEW k \in Nat, k > 0,
         k <= Len(args) => args[k] \in Group,
         NextGroup(k), UNCHANGED <<args, inst>>
  PROVE  ThreadTypes' /\ ControlOK'
<1>1. (IF k <= Len(args) THEN args[k] ELSE Null) \in Group \cup {Null}
  OBVIOUS
<1>2. ThreadTypes'
  <2>1. pc' \in [Thread -> Label]
    BY DEF ThreadTypes, NextGroup, Label
  <2>2. grp' \in [Thread -> Group \cup {Null}]
    BY <1>1 DEF ThreadTypes, NextGroup
  <2> QED
    BY <2>1, <2>2, SizesAssumption DEF ThreadTypes, NextGroup
<1>3. ControlOK'
  BY ThreadsAssumption DEF ThreadTypes, ControlOK, NextGroup, Thread
<1> QED
  BY <1>2, <1>3

LEMMA MaskTypes ==
  ASSUME sessions \in [Category \cup Group -> SUBSET Instance], NEW c, NEW S,
         c \in Category \cup Group => S \in SUBSET Instance,
         sessions' = [sessions EXCEPT ![c] = S]
  PROVE  sessions' \in [Category \cup Group -> SUBSET Instance]
OBVIOUS

LEMMA LeaveHandlerTypes ==
  ASSUME SessionTypes, LeaveHandler
  PROVE  SessionTypes'
BY SizesAssumption DEF SessionTypes, LeaveHandler, Phase

\* Each variable keeps its type, and each thread its labels and locals.
LEMMA TypeInvInit == Init => TypeInv
<1> SUFFICES ASSUME Init PROVE TypeInv
  OBVIOUS
<1> USE SizesAssumption DEF Init, Thread
<1>1. InitTypes
  <2>1. initialized \in BOOLEAN /\ firstInit \in BOOLEAN /\ dataSource \in BOOLEAN
    OBVIOUS
  <2> QED
    BY <2>1 DEF InitTypes
<1>2. RegistryTypes
  BY DEF RegistryTypes, CategorySlot, GroupSlot
<1>3. SessionTypes
  BY DEF SessionTypes, Phase
<1>4. ThreadTypes
  BY DEF ThreadTypes, Label
<1>5. ControlOK
  BY DEF ControlOK
<1> QED
  BY <1>1, <1>2, <1>3, <1>4, <1>5 DEF TypeInv, TypeOK

LEMMA TypeInvStep == TypeInv /\ [Next]_vars => TypeInv'
<1> SUFFICES ASSUME TypeInv, [Next]_vars PROVE TypeInv'
  OBVIOUS
<1> USE SizesAssumption, CategoriesAssumption, ThreadsAssumption
    DEF TypeInv, TypeOK, InitTypes, RegistryTypes, SessionTypes, ThreadTypes,
    ControlOK, Thread, CategorySlot, GroupSlot, Phase, Label,
    initVars, categoryVars, sessionVars, handlerVars, threadVars
<1>1. ASSUME NEW l \in InitLists, InitCall(l) PROVE TypeInv'
  BY <1>1 DEF InitCall, EnterInit
<1>2. ASSUME NEW l \in InitLists, InitClockError(l) PROVE TypeInv'
  BY <1>2 DEF InitClockError
<1>3. ASSUME NEW r \in Registrar, NEW g \in Group, RegisterGroup(r, g) PROVE TypeInv'
  BY <1>3 DEF RegisterGroup
<1>4. ASSUME NEW i \in Instance, NEW W \in Configs, OnSetup(i, W) PROVE TypeInv'
  BY <1>4 DEF OnSetup, BeginHandler, StartLoop
<1>5. ASSUME NEW i \in Instance, OnSetupRejected(i) PROVE TypeInv'
  BY <1>5 DEF OnSetupRejected
<1>6. ASSUME NEW i \in Instance, OnStop(i) PROVE TypeInv'
  BY <1>6 DEF OnStop, BeginHandler, StartLoop
<1>7. CASE StoreCategory
  <2>1. storeI \in CategorySlot /\ storeI + 1 \in 0 .. MaxCategories
    BY <1>7 DEF StoreCategory, StoreAs
  <2>2. args[inI] \in Category
    BY <1>7, ListElements DEF StoreCategory, StoreAs, AtRegular, IsGroupCategory
  <2>3. RegistryTypes'
    BY <1>7, <2>1, <2>2 DEF StoreCategory, StoreAs
  <2>4. InitTypes' /\ SessionTypes'
    BY <1>7 DEF StoreCategory, StoreAs
  <2>5. ThreadTypes' /\ ControlOK'
    BY <1>7, <2>1 DEF StoreCategory, StoreAs
  <2> HIDE DEF InitTypes, RegistryTypes, SessionTypes, ThreadTypes, ControlOK
  <2> QED
    BY <2>3, <2>4, <2>5
<1>8. CASE SkipCategory
  BY <1>8 DEF SkipCategory
<1>9. CASE PublishCount
  <2>1. args \in InitLists /\ inI \in Nat /\ inI > 0
    BY <1>9 DEF PublishCount
  <2>2. inI <= Len(args) => args[inI] \in Group
    BY <1>9, <2>1, ListElements DEF PublishCount, AtRegular, IsGroupCategory
  <2>3. NextGroup(inI) /\ UNCHANGED <<args, inst>>
    BY <1>9 DEF PublishCount
  <2>4. ThreadTypes' /\ ControlOK'
    <3> HIDE DEF ThreadTypes, ControlOK
    <3> QED
      BY <2>1, <2>2, <2>3, NextGroupTypes DEF TypeInv, TypeOK
  <2>5. categoryCount' \in 0 .. MaxCategories /\ inI' \in Nat /\ inI' > 0
    BY <1>9, <2>1 DEF PublishCount, NextGroup
  <2> QED
    BY <1>9, <2>4, <2>5 DEF PublishCount
<1>10. ASSUME NEW ok \in BOOLEAN, RegisterDataSource(ok) PROVE TypeInv'
  <2>1. dataSource' \in BOOLEAN
    BY <1>10 DEF RegisterDataSource
  <2>2. result' \in {"ok", "registerError"}
    BY <1>10 DEF RegisterDataSource
  <2>3. done' \subseteq InitLists
    BY <1>10 DEF RegisterDataSource
  <2>4. firstInit' \in BOOLEAN /\ initialized' \in BOOLEAN
    BY <1>10 DEF RegisterDataSource
  <2>5. args' = <<>> /\ inI' = 1 /\ storeI' = 0
    BY <1>10 DEF RegisterDataSource
  <2>6. InitTypes'
    BY <2>1, <2>2, <2>3, <2>4, <2>5
  <2> QED
    BY <1>10, <2>6 DEF RegisterDataSource, Return
<1>11. ASSUME NEW t \in Thread, ClaimSlot(t) PROVE TypeInv'
  <2>1. grp[t] \in Group /\ slot[t] \in GroupSlot
    BY <1>11 DEF ClaimSlot, TakeSlot
  <2>2. CASE t = Main
    <3>1. inI + 1 <= Len(args) => args[inI + 1] \in Group
      BY <1>11, <2>1, <2>2, ListElements DEF ClaimSlot, TakeSlot
    <3>2. NextGroup(inI + 1) /\ UNCHANGED <<args, inst>> /\ args \in InitLists
      BY <1>11, <2>2 DEF ClaimSlot, TakeSlot
    <3>3. inI + 1 \in Nat /\ inI + 1 > 0
      OBVIOUS
    <3>4. ThreadTypes' /\ ControlOK'
      <4> HIDE DEF ThreadTypes, ControlOK
      <4> QED
        BY <3>1, <3>2, <3>3, NextGroupTypes DEF TypeInv, TypeOK
    <3> QED
      BY <1>11, <2>1, <2>2, <3>4 DEF ClaimSlot, TakeSlot, NextGroup
  <2>3. CASE t \in Registrar
    <3>1. pc' = [pc EXCEPT ![t] = "group"] /\ UNCHANGED <<inI, slot, grp, pending, acc>>
      BY <1>11, <2>3 DEF ClaimSlot, TakeSlot
    <3>2. ThreadTypes'
      BY <3>1
    <3>3. ControlOK'
      BY <1>11, <2>3, <3>1 DEF ClaimSlot, TakeSlot
    <3> QED
      BY <1>11, <2>1, <2>3, <3>1, <3>2, <3>3 DEF ClaimSlot, TakeSlot
  <2> QED
    BY <1>11, <2>2, <2>3 DEF ClaimSlot, TakeSlot
<1>12. ASSUME NEW t \in Thread, SlotTaken(t) PROVE TypeInv'
  BY <1>12 DEF SlotTaken
<1>13. ASSUME NEW t \in Thread, NoSlotLeft(t) PROVE TypeInv'
  <2>1. CASE t = Main
    <3>1. inI + 1 <= Len(args) => args[inI + 1] \in Group
      BY <1>13, <2>1, ListElements DEF NoSlotLeft
    <3>2. ThreadTypes' /\ ControlOK'
      <4>1. NextGroup(inI + 1) /\ UNCHANGED <<args, inst>> /\ args \in InitLists
        BY <1>13, <2>1 DEF NoSlotLeft
      <4>2. inI + 1 \in Nat /\ inI + 1 > 0
        OBVIOUS
      <4> HIDE DEF ThreadTypes, ControlOK
      <4> QED
        BY <3>1, <4>1, <4>2, NextGroupTypes DEF TypeInv, TypeOK
    <3> QED
      BY <1>13, <2>1, <3>2 DEF NoSlotLeft, NextGroup
  <2>2. CASE t \in Registrar
    <3>1. ThreadTypes' /\ ControlOK'
      BY <1>13, <2>2, ReturnTypes DEF NoSlotLeft
    <3>2. UNCHANGED <<initialized, firstInit, args, inI, storeI, result, done, dataSource,
                      categoryVars, groups, sessions, sessionVars, handlerVars, unsynced>>
      BY <1>13, <2>2 DEF NoSlotLeft
    <3>3. InitTypes' /\ RegistryTypes' /\ SessionTypes'
      BY <3>2
    <3> QED
      BY <3>1, <3>3
  <2> QED
    BY <1>13, <2>1, <2>2 DEF NoSlotLeft
<1>14. CASE UpdateCategory
  <2> DEFINE old == sessions[categories[idx]]
             new == IF phase[inst] = "stop" THEN old \ {inst}
                    ELSE IF categories[idx] \in config[inst] THEN old \cup {inst}
                    ELSE old
  <2>1. sessions' = [sessions EXCEPT ![categories[idx]] = new]
    BY <1>14 DEF UpdateCategory, NextCategory
  <2>2. categories[idx] \in Category \cup Group => new \in SUBSET Instance
    BY <1>14 DEF UpdateCategory, NextCategory
  <2>3. sessions \in [Category \cup Group -> SUBSET Instance]
    OBVIOUS
  <2> HIDE DEF new
  <2>4. sessions' \in [Category \cup Group -> SUBSET Instance]
    BY ONLY <2>1, <2>2, <2>3, MaskTypes
  <2> QED
    BY <1>14, <2>4 DEF UpdateCategory, NextCategory
<1>15. CASE CategoriesDone
  BY <1>15 DEF CategoriesDone
<1>16. ASSUME NEW t \in Thread, GroupLoad(t) PROVE TypeInv'
  BY <1>16 DEF GroupLoad, GroupAt
<1>17. ASSUME NEW t \in Thread, NEW c \in Category, MemberLoad(t, c) PROVE TypeInv'
  BY <1>17 DEF MemberLoad
<1>18. ASSUME NEW t \in Thread, GroupStore(t) PROVE TypeInv'
  <2>1. sessions' \in [Category \cup Group -> SUBSET Instance]
    BY <1>18, MaskTypes DEF GroupStore
  <2>2. unsynced' \subseteq Group
    BY <1>18 DEF GroupStore
  <2>3. RegistryTypes'
    BY <1>18, <2>1, <2>2 DEF GroupStore
  <2>4. CASE t = Muxer
    <3>1. slot[Muxer] + 1 \in 0 .. MaxGroups
      BY <1>18, <2>4 DEF GroupStore
    <3>2. /\ pc' = [pc EXCEPT ![Muxer] = "group"]
          /\ slot' = [slot EXCEPT ![Muxer] = slot[Muxer] + 1]
          /\ UNCHANGED <<grp, pending, acc>>
      BY <1>18, <2>4 DEF GroupStore
    <3>3. ThreadTypes'
      BY <3>1, <3>2
    <3>4. pc[Muxer] = "member" /\ UNCHANGED <<args, inI, inst>>
      BY <1>18, <2>4 DEF GroupStore
    <3>5. ControlOK'
      BY <3>2, <3>4
    <3> QED
      BY <1>18, <2>3, <2>4, <3>3, <3>5 DEF GroupStore
  <2>5. CASE t # Muxer
    <3>1. ThreadTypes' /\ ControlOK'
      BY <1>18, <2>5, ReturnTypes DEF GroupStore
    <3> QED
      BY <1>18, <2>3, <3>1 DEF GroupStore
  <2> QED
    BY <2>4, <2>5
<1>19. CASE HandlerEnd
  <2>1. SessionTypes'
    BY <1>19, LeaveHandlerTypes DEF HandlerEnd
  <2> QED
    BY <1>19, <2>1 DEF HandlerEnd, LeaveHandler, Return
<1>20. CASE UNCHANGED vars
  BY <1>20 DEF vars
<1> HIDE DEF TypeInv
<1>21. ASSUME Call PROVE TypeInv'
  BY <1>1, <1>2, <1>3, <1>4, <1>5, <1>6, <1>21 DEF Call
<1>22. ASSUME NEW t \in Thread, AddGroupStep(t) \/ UpdateGroupStep(t) PROVE TypeInv'
  BY <1>11, <1>12, <1>13, <1>16, <1>17, <1>18, <1>22 DEF AddGroupStep, UpdateGroupStep
<1>23. ASSUME MainStep PROVE TypeInv'
  BY <1>7, <1>8, <1>9, <1>10, <1>22, <1>23 DEF MainStep
<1>24. ASSUME MuxerStep PROVE TypeInv'
  BY <1>14, <1>15, <1>19, <1>22, <1>24 DEF MuxerStep
<1>25. ASSUME NEW r \in Registrar, RegistrarStep(r) PROVE TypeInv'
  BY <1>22, <1>25 DEF RegistrarStep
<1> QED
  BY <1>20, <1>21, <1>23, <1>24, <1>25 DEF Next

\* Every variable of the registry and of the handlers keeps its type: no slot
\* index, count or interning id leaves its array (percetto.cc, struct Percetto).
THEOREM TypeCorrect == SafeSpec => []TypeOK
<1>1. SafeSpec => []TypeInv
  BY TypeInvInit, TypeInvStep, PTL DEF SafeSpec
<1> QED
  BY <1>1, PTL DEF TypeInv

-----------------------------------------------------------------------------
(* The category registry *)

LEMMA RegistryInvStep == TypeInv /\ RegistryInv /\ [Next]_vars => RegistryInv'
<1> SUFFICES ASSUME TypeInv, RegistryInv, [Next]_vars PROVE RegistryInv'
  OBVIOUS
<1>a. /\ ThreadTypes /\ categoryCount \in 0 .. MaxCategories
      /\ storeI \in 0 .. MaxCategories /\ MaxCategories \in Nat
      /\ Main \in Thread /\ Muxer \in Thread /\ Registrar \subseteq Thread
  BY SizesAssumption DEF TypeInv, TypeOK, InitTypes, RegistryTypes, Thread
<1>1. ASSUME UNCHANGED categoryVars, Stored' = Stored PROVE RegistryInv'
  BY <1>1 DEF RegistryInv, categoryVars
<1>2. ASSUME UNCHANGED <<categoryVars, storeI>>, pc'[Main] = pc[Main]
      PROVE  RegistryInv'
  BY <1>1, <1>2 DEF Stored, categoryVars
<1>3. CASE StoreCategory
  <2>1. args[inI] \in Category
    BY <1>3, ListElements DEF StoreCategory, StoreAs, AtRegular, IsGroupCategory,
       TypeInv, TypeOK, InitTypes, ControlOK
  <2>2. /\ nameIid' = [nameIid EXCEPT ![args[inI]] = storeI + 1]
        /\ categories' = [categories EXCEPT ![storeI] = args[inI]]
        /\ categoryCount' = categoryCount
        /\ Stored = storeI /\ Stored' = storeI + 1
        /\ storeI \in CategorySlot
    BY <1>3, <1>a DEF StoreCategory, StoreAs, Stored, CategorySlot, threadVars
  <2>3. /\ categories \in [CategorySlot -> Category \cup {Null}]
        /\ nameIid \in [Category -> 0 .. MaxCategories]
    BY DEF TypeInv, TypeOK, RegistryTypes
  <2>4. ASSUME NEW k \in CategorySlot, k < Stored'
        PROVE  /\ categories'[k] \in Category
               /\ nameIid'[categories'[k]] \in 1 .. Stored'
               /\ categories'[nameIid'[categories'[k]] - 1] = categories'[k]
    <3>1. CASE categories'[k] = args[inI]
      BY <1>a, <2>1, <2>2, <2>3, <3>1
    <3>2. CASE categories'[k] # args[inI]
      <4>1. k < Stored /\ categories'[k] = categories[k]
        BY <1>a, <2>2, <2>3, <2>4, <3>2 DEF CategorySlot
      <4>2. /\ categories[k] \in Category
            /\ nameIid[categories[k]] \in 1 .. Stored
            /\ categories[nameIid[categories[k]] - 1] = categories[k]
        BY <4>1 DEF RegistryInv
      <4>3. nameIid'[categories[k]] = nameIid[categories[k]]
        BY <2>2, <2>3, <3>2, <4>1, <4>2
      <4>4. nameIid[categories[k]] - 1 \in CategorySlot \ {storeI}
        BY <1>a, <2>2, <4>2 DEF CategorySlot
      <4>5. categories'[nameIid[categories[k]] - 1] = categories[k]
        BY <2>2, <2>3, <4>2, <4>4
      <4> QED
        BY <1>a, <2>2, <4>1, <4>2, <4>3, <4>5
    <3> QED
      BY <3>1, <3>2
  <2> QED
    BY <1>a, <2>2, <2>4 DEF RegistryInv
<1>4. CASE PublishCount
  <2>1. Stored' = Stored /\ categoryCount' = Stored
    BY <1>4, <1>a DEF PublishCount, NextGroup, Stored, ThreadTypes
  <2> QED
    BY <1>4, <1>a, <2>1 DEF PublishCount, RegistryInv, Stored
<1>5. ASSUME NEW l \in InitLists, InitCall(l) PROVE RegistryInv'
  <2>1. Stored' = Stored
    BY <1>5, <1>a DEF InitCall, EnterInit, Stored, ThreadTypes
  <2> QED
    BY <1>1, <1>5, <2>1 DEF InitCall, EnterInit, categoryVars
<1>6. ASSUME NEW ok \in BOOLEAN, RegisterDataSource(ok) PROVE RegistryInv'
  <2>1. Stored' = Stored
    BY <1>6, <1>a DEF RegisterDataSource, Return, Stored, ThreadTypes, categoryVars
  <2> QED
    BY <1>1, <1>6, <2>1 DEF RegisterDataSource
<1>7. ASSUME NEW t \in Thread, ClaimSlot(t) \/ SlotTaken(t) \/ NoSlotLeft(t)
      PROVE  RegistryInv'
  <2>1. UNCHANGED categoryVars
    BY <1>7 DEF ClaimSlot, TakeSlot, SlotTaken, NoSlotLeft
  <2>2. Stored' = Stored
    BY <1>7, <1>a, <2>1 DEF ClaimSlot, TakeSlot, SlotTaken, NoSlotLeft, NextGroup,
       Return, Stored, ThreadTypes, categoryVars, initVars
  <2> QED
    BY <1>1, <2>1, <2>2
<1>8. CASE SkipCategory
  BY <1>2, <1>8 DEF SkipCategory, threadVars
<1>9. ASSUME NEW l \in InitLists, InitClockError(l) PROVE RegistryInv'
  BY <1>2, <1>9 DEF InitClockError, threadVars
<1>10. ASSUME NEW r \in Registrar, NEW g \in Group, RegisterGroup(r, g)
       PROVE  RegistryInv'
  BY <1>2, <1>10, <1>a, ThreadsAssumption DEF RegisterGroup, initVars, ThreadTypes
<1>11. ASSUME NEW i \in Instance,
              OnSetupRejected(i) \/ OnStop(i) \/ \E W \in Configs : OnSetup(i, W)
       PROVE  RegistryInv'
  BY <1>2, <1>11, <1>a, ThreadsAssumption DEF OnSetup, OnSetupRejected, OnStop,
     BeginHandler, StartLoop, initVars, threadVars, ThreadTypes
<1>12. CASE UpdateCategory \/ CategoriesDone \/ HandlerEnd
  BY <1>2, <1>12, <1>a, ThreadsAssumption DEF UpdateCategory, NextCategory,
     CategoriesDone, HandlerEnd, LeaveHandler, Return, initVars, threadVars, ThreadTypes
<1>13. ASSUME NEW t \in Registrar \cup {Muxer}, UpdateGroupStep(t) PROVE RegistryInv'
  BY <1>2, <1>13, <1>a, ThreadsAssumption DEF UpdateGroupStep, GroupLoad, MemberLoad,
     GroupStore, Return, initVars, ThreadTypes, Thread
<1>14. CASE UNCHANGED vars
  BY <1>2, <1>14 DEF vars, initVars, threadVars, categoryVars
<1> QED
  BY <1>3, <1>4, <1>5, <1>6, <1>7, <1>8, <1>9, <1>10, <1>11, <1>12, <1>13, <1>14, <1>a
  DEF Next, Call, MainStep, MuxerStep, RegistrarStep, AddGroupStep

LEMMA RegistryInvInit == Init => RegistryInv
BY SizesAssumption DEF Init, RegistryInv, Stored, CategorySlot, Thread

\* Whoever reads category_count finds that many categories in the array, and
\* each event of one of them carries an id that announces just that category:
\* percetto_init_with_args writes slots and ids before it raises the count.
THEOREM RegistryCorrect == SafeSpec => []RegistryConsistent
<1>1. TypeInv /\ RegistryInv => RegistryConsistent
  BY SizesAssumption DEF TypeInv, TypeOK, InitTypes, RegistryTypes, RegistryInv,
     RegistryConsistent, Stored, CategorySlot
<1> QED
  BY <1>1, TypeInvInit, TypeInvStep, RegistryInvInit, RegistryInvStep, PTL DEF SafeSpec

-----------------------------------------------------------------------------
(* The masks of the categories *)

\* What readers of the category array rely on in one step.
SlotsKept ==
  /\ categoryCount <= categoryCount'
  /\ \A k \in CategorySlot : k < categoryCount => categories'[k] = categories[k]

LEMMA SlotsKeptStep == TypeInv /\ RegistryInv /\ [Next]_vars => SlotsKept
<1> SUFFICES ASSUME TypeInv, RegistryInv, [Next]_vars PROVE SlotsKept
  OBVIOUS
<1>a. /\ categories \in [CategorySlot -> Category \cup {Null}]
      /\ categoryCount \in Nat /\ storeI \in Nat
  BY SizesAssumption DEF TypeInv, TypeOK, InitTypes, RegistryTypes
<1>1. ASSUME UNCHANGED categoryVars PROVE SlotsKept
  BY <1>1, <1>a DEF SlotsKept, categoryVars
<1>2. CASE StoreCategory
  <2>1. categoryCount <= storeI
    BY <1>2 DEF StoreCategory, StoreAs, RegistryInv, Stored
  <2> QED
    BY <1>2, <1>a, <2>1 DEF StoreCategory, StoreAs, SlotsKept, CategorySlot
<1>3. CASE PublishCount
  BY <1>3, <1>a DEF PublishCount, RegistryInv, Stored, SlotsKept
<1>4. ASSUME NEW l \in InitLists, InitCall(l) \/ InitClockError(l) PROVE SlotsKept
  BY <1>1, <1>4 DEF InitCall, EnterInit, InitClockError, categoryVars
<1>5. CASE SkipCategory \/ \E ok \in BOOLEAN : RegisterDataSource(ok)
  BY <1>1, <1>5 DEF SkipCategory, RegisterDataSource
<1>6. ASSUME NEW t \in Thread, AddGroupStep(t) \/ UpdateGroupStep(t) PROVE SlotsKept
  BY <1>1, <1>6 DEF AddGroupStep, ClaimSlot, TakeSlot, SlotTaken, NoSlotLeft,
     UpdateGroupStep, GroupLoad, MemberLoad, GroupStore
<1>7. ASSUME NEW r \in Registrar, NEW g \in Group, RegisterGroup(r, g) PROVE SlotsKept
  BY <1>1, <1>7 DEF RegisterGroup
<1>8. ASSUME NEW i \in Instance,
             OnSetupRejected(i) \/ OnStop(i) \/ \E W \in Configs : OnSetup(i, W)
      PROVE  SlotsKept
  BY <1>1, <1>8 DEF OnSetup, OnSetupRejected, OnStop, BeginHandler, StartLoop
<1>9. CASE UpdateCategory \/ CategoriesDone \/ HandlerEnd
  BY <1>1, <1>9 DEF UpdateCategory, NextCategory, CategoriesDone, HandlerEnd, LeaveHandler
<1>10. CASE UNCHANGED vars
  BY <1>1, <1>10 DEF vars
<1> QED
  BY <1>2, <1>3, <1>4, <1>5, <1>6, <1>7, <1>8, <1>9, <1>10
  DEF Next, Call, MainStep, MuxerStep, RegistrarStep, Thread

LEMMA InSlotsFacts ==
  ASSUME TypeInv
  PROVE  /\ \A c : ~InSlots(categories, c, 0)
         /\ \A c : \A m, n \in Nat : m <= n /\ InSlots(categories, c, m) => InSlots(categories, c, n)
         /\ \A c : \A n \in CategorySlot :
              InSlots(categories, c, n + 1) <=> InSlots(categories, c, n) \/ c = categories[n]
BY SizesAssumption DEF InSlots, CategorySlot

LEMMA InSlotsKept ==
  ASSUME TypeInv, SlotsKept, NEW c, NEW n \in Nat, n <= categoryCount
  PROVE  InSlots(categories', c, n) <=> InSlots(categories, c, n)
<1>1. categoryCount \in Nat
  BY SizesAssumption DEF TypeInv, TypeOK, RegistryTypes
<1> QED
  BY <1>1, SizesAssumption DEF InSlots, SlotsKept, CategorySlot

\* The slots that a handler walks over hold categories.
LEMMA RegistrySlots ==
  ASSUME TypeInv, RegistryInv, NEW k \in Nat, k < categoryCount
  PROVE  k \in CategorySlot /\ categories[k] \in Category
BY SizesAssumption DEF TypeInv, TypeOK, InitTypes, RegistryTypes, RegistryInv, Stored,
   CategorySlot

\* Writing the mask of a group leaves those of the categories alone.
LEMMA GroupStoreKeepsMasks ==
  ASSUME TypeInv, NEW t \in Thread, GroupStore(t)
  PROVE  \A c \in Category : sessions'[c] = sessions[c]
BY CategoriesAssumption DEF TypeInv, TypeOK, RegistryTypes, ControlOK, GroupStore

LEMMA MasksInvInit == Init => MasksInv
BY SizesAssumption, CategoriesAssumption
DEF Init, MasksInv, SessionInv, Thread

LEMMA MasksInvStep ==
  TypeInv /\ RegistryInv /\ MasksInv /\ [Next]_vars => MasksInv'
<1> SUFFICES ASSUME TypeInv, RegistryInv, MasksInv, [Next]_vars PROVE MasksInv'
  OBVIOUS
<1>a. SlotsKept
  BY SlotsKeptStep
<1>b. /\ categoryCount \in 0 .. MaxCategories /\ MaxCategories \in Nat
      /\ count \in Nat /\ idx \in Nat
      /\ setupCount \in [Instance -> 0 .. MaxCategories]
      /\ phase \in [Instance -> Phase] /\ config \in [Instance -> SUBSET Category]
      /\ sessions \in [Category \cup Group -> SUBSET Instance]
      /\ pc \in [Thread -> Label]
      /\ Muxer \in Thread /\ Main \in Thread /\ Registrar \subseteq Thread
      /\ Main # Muxer /\ Muxer \notin Registrar
      /\ pc[Muxer] \in {"idle", "category", "group", "member"}
  BY SizesAssumption, ThreadsAssumption DEF TypeInv, TypeOK, RegistryTypes,
     SessionTypes, ThreadTypes, ControlOK, Thread
<1>d. categoryCount' \in Nat
  BY TypeInvStep, SizesAssumption DEF TypeInv, TypeOK, RegistryTypes
<1>c. \A c, n : n \in Nat /\ n <= categoryCount =>
        (InSlots(categories', c, n) <=> InSlots(categories, c, n))
  BY <1>a, InSlotsKept
<1>1. ASSUME UNCHANGED <<sessionVars, handlerVars>>,
             \A c \in Category : sessions'[c] = sessions[c],
             pc'[Muxer] = pc[Muxer] \/
               {pc[Muxer], pc'[Muxer]} \subseteq {"group", "member"}
      PROVE  MasksInv'
  <2>1. ASSUME NEW i \in Instance PROVE SessionInv(i)'
    <3>1. SessionInv(i)
      BY DEF MasksInv
    <3>2. /\ setupCount[i] \in Nat /\ setupCount[i] <= categoryCount
          /\ idx <= categoryCount /\ count <= categoryCount
      BY <1>b, <3>1 DEF SessionInv, MasksInv
    <3>3. \A c : \A n \in {setupCount[i], idx, count} :
            InSlots(categories', c, n) <=> InSlots(categories, c, n)
      BY <1>b, <1>c, <3>2
    <3>4. setupCount'[i] <= categoryCount'
      BY <1>1, <1>a, <1>b, <1>d, <3>2 DEF SlotsKept, sessionVars
    <3> QED
      BY <1>1, <3>1, <3>3, <3>4 DEF SessionInv, sessionVars, handlerVars
  <2> QED
    BY <1>1, <1>a, <1>b, <1>d, <2>1 DEF MasksInv, SlotsKept, handlerVars
<1>2. ASSUME NEW i \in Instance, NEW W \in Configs, OnSetup(i, W) PROVE MasksInv'
  <2>1. /\ pc[Muxer] = "idle" /\ pc'[Muxer] = "category" /\ phase[i] = "free"
        /\ phase' = [phase EXCEPT ![i] = "setup"]
        /\ config' = [config EXCEPT ![i] = W]
        /\ setupCount' = [setupCount EXCEPT ![i] = categoryCount]
        /\ inst' = i /\ count' = categoryCount /\ idx' = 0
        /\ UNCHANGED <<sessions, categories, categoryCount>>
    BY <1>2, <1>b DEF OnSetup, BeginHandler, StartLoop, categoryVars
  <2>2. ASSUME NEW j \in Instance PROVE SessionInv(j)'
    <3>1. SessionInv(j)
      BY DEF MasksInv
    <3>2. CASE j = i
      BY <1>b, <2>1, <3>1, <3>2, InSlotsFacts DEF SessionInv
    <3>3. CASE j # i
      BY <1>b, <2>1, <3>1, <3>3 DEF SessionInv
    <3> QED
      BY <3>2, <3>3
  <2> QED
    BY <1>b, <2>1, <2>2 DEF MasksInv
<1>3. ASSUME NEW i \in Instance, OnSetupRejected(i) PROVE MasksInv'
  <2>1. /\ pc[Muxer] = "idle" /\ phase[i] = "free"
        /\ phase' = [phase EXCEPT ![i] = "live"]
        /\ UNCHANGED <<config, setupCount, inst, count, idx, pc, sessions,
                       categories, categoryCount>>
    BY <1>3 DEF OnSetupRejected, handlerVars, threadVars, categoryVars
  <2>2. ASSUME NEW j \in Instance PROVE SessionInv(j)'
    BY <1>b, <2>1 DEF SessionInv, MasksInv
  <2> QED
    BY <2>1, <2>2 DEF MasksInv
<1>4. ASSUME NEW i \in Instance, OnStop(i) PROVE MasksInv'
  <2>1. /\ pc[Muxer] = "idle" /\ pc'[Muxer] = "category" /\ phase[i] = "live"
        /\ phase' = [phase EXCEPT ![i] = "stop"]
        /\ inst' = i /\ count' = categoryCount /\ idx' = 0
        /\ UNCHANGED <<config, setupCount, sessions, categories, categoryCount>>
    BY <1>4, <1>b DEF OnStop, BeginHandler, StartLoop, categoryVars
  <2>2. ASSUME NEW j \in Instance PROVE SessionInv(j)'
    <3>1. SessionInv(j)
      BY DEF MasksInv
    <3>2. CASE j = i
      BY <1>b, <2>1, <3>1, <3>2, InSlotsFacts DEF SessionInv
    <3>3. CASE j # i
      BY <1>b, <2>1, <3>1, <3>3 DEF SessionInv
    <3> QED
      BY <3>2, <3>3
  <2> QED
    BY <1>b, <2>1, <2>2 DEF MasksInv
<1>5. CASE UpdateCategory
  <2> DEFINE c0 == categories[idx]
  <2>1. /\ pc[Muxer] = "category" /\ idx < count /\ idx' = idx + 1
        /\ sessions' = [sessions EXCEPT ![c0] =
                          IF phase[inst] = "stop" THEN sessions[c0] \ {inst}
                          ELSE IF c0 \in config[inst] THEN sessions[c0] \cup {inst}
                          ELSE sessions[c0]]
        /\ UNCHANGED <<phase, config, setupCount, inst, count, pc,
                       categories, categoryCount>>
    BY <1>5 DEF UpdateCategory, NextCategory, sessionVars, threadVars, categoryVars
  <2>2. inst \in Instance /\ phase[inst] \in {"setup", "stop"}
    BY <2>1 DEF TypeInv, ControlOK, MasksInv, SessionInv
  <2>3. idx \in CategorySlot /\ c0 \in Category
    BY <1>b, <2>1, RegistrySlots DEF MasksInv, CategorySlot
  <2>4. \A c \in Category :
          InSlots(categories, c, idx + 1) <=> InSlots(categories, c, idx) \/ c = c0
    BY <2>3, InSlotsFacts
  <2>5. ASSUME NEW j \in Instance PROVE SessionInv(j)'
    <3>1. SessionInv(j)
      BY DEF MasksInv
    <3>2. CASE j = inst
      BY <1>b, <2>1, <2>2, <2>3, <2>4, <3>1, <3>2 DEF SessionInv
    <3>3. CASE j # inst
      <4>1. \A c \in Category : j \in sessions'[c] <=> j \in sessions[c]
        BY <1>b, <2>1, <2>3, <3>3
      <4>2. phase[j] \notin {"setup", "stop"}
        BY <3>1, <3>3 DEF SessionInv
      <4> QED
        BY <2>1, <3>1, <3>3, <4>1, <4>2 DEF SessionInv
    <3> QED
      BY <3>2, <3>3
  <2> QED
    BY <1>b, <2>1, <2>5 DEF MasksInv
<1>6. CASE CategoriesDone
  <2>1. /\ pc[Muxer] = "category" /\ pc'[Muxer] = "group" /\ idx = count
        /\ UNCHANGED <<phase, config, setupCount, inst, count, idx, sessions,
                       categories, categoryCount>>
    BY <1>6, <1>b DEF CategoriesDone, sessionVars, handlerVars, categoryVars
  <2>2. ASSUME NEW j \in Instance PROVE SessionInv(j)'
    BY <2>1 DEF SessionInv, MasksInv
  <2> QED
    BY <2>1, <2>2 DEF MasksInv
<1>7. CASE HandlerEnd
  <2>1. /\ pc[Muxer] = "group" /\ pc'[Muxer] = "idle" /\ idx = count
        /\ inst \in Instance
        /\ UNCHANGED <<sessions, categories, categoryCount>>
        /\ idx' = 0 /\ count' = 0 /\ inst' = Null
    BY <1>7, <1>b DEF HandlerEnd, LeaveHandler, Return, categoryVars, MasksInv,
       TypeInv, ControlOK
  <2>2. \/ /\ phase[inst] = "setup"
           /\ phase' = [phase EXCEPT ![inst] = "live"]
           /\ UNCHANGED <<config, setupCount>>
        \/ /\ phase[inst] = "stop"
           /\ phase' = [phase EXCEPT ![inst] = "free"]
           /\ config' = [config EXCEPT ![inst] = {}]
           /\ setupCount' = [setupCount EXCEPT ![inst] = 0]
    BY <1>7, <2>1 DEF HandlerEnd, LeaveHandler, MasksInv, SessionInv
  <2>3. ASSUME NEW j \in Instance PROVE SessionInv(j)'
    <3>1. SessionInv(j)
      BY DEF MasksInv
    <3>2. CASE j = inst
      BY <1>b, <2>1, <2>2, <3>1, <3>2 DEF SessionInv
    <3>3. CASE j # inst
      BY <1>b, <2>1, <2>2, <3>1, <3>3 DEF SessionInv
    <3> QED
      BY <3>2, <3>3
  <2> QED
    BY <1>b, <2>1, <2>3 DEF MasksInv
<1>8. ASSUME NEW t \in Registrar \cup {Muxer}, UpdateGroupStep(t) PROVE MasksInv'
  <2>1. UNCHANGED <<sessionVars, handlerVars>>
    BY <1>8 DEF UpdateGroupStep, GroupLoad, MemberLoad, GroupStore
  <2>2. \A c \in Category : sessions'[c] = sessions[c]
    BY <1>8, <1>b, GroupStoreKeepsMasks DEF UpdateGroupStep, GroupLoad, MemberLoad
  <2>3. pc'[Muxer] = pc[Muxer] \/
          {pc[Muxer], pc'[Muxer]} \subseteq {"group", "member"}
    BY <1>8, <1>b DEF UpdateGroupStep, GroupLoad, MemberLoad, GroupStore, Return
  <2> QED
    BY <1>1, <2>1, <2>2, <2>3
<1>9. ASSUME NEW t \in Registrar \cup {Main}, AddGroupStep(t) PROVE MasksInv'
  BY <1>1, <1>9, <1>b DEF AddGroupStep, ClaimSlot, TakeSlot, SlotTaken, NoSlotLeft,
     NextGroup, Return
<1>10. CASE StoreCategory \/ SkipCategory
  BY <1>1, <1>10, <1>b DEF StoreCategory, StoreAs, SkipCategory, threadVars
<1>11. CASE PublishCount
  BY <1>1, <1>11, <1>b DEF PublishCount, NextGroup
<1>12. ASSUME NEW ok \in BOOLEAN, RegisterDataSource(ok) PROVE MasksInv'
  BY <1>1, <1>12, <1>b DEF RegisterDataSource, Return
<1>13. ASSUME NEW l \in InitLists, InitCall(l) \/ InitClockError(l) PROVE MasksInv'
  BY <1>1, <1>13, <1>b DEF InitCall, EnterInit, InitClockError, threadVars
<1>14. ASSUME NEW r \in Registrar, NEW g \in Group, RegisterGroup(r, g) PROVE MasksInv'
  BY <1>1, <1>14, <1>b DEF RegisterGroup
<1>15. CASE UNCHANGED vars
  BY <1>1, <1>15 DEF vars, threadVars
<1> QED
  BY <1>2, <1>3, <1>4, <1>5, <1>6, <1>7, <1>8, <1>9, <1>10, <1>11, <1>12, <1>13,
     <1>14, <1>15, <1>b
  DEF Next, Call, MainStep, MuxerStep, RegistrarStep

\* A live session collects events of exactly the categories its configuration
\* accepts; an index that Perfetto hands to the next session carries no bit of
\* the one before, however the calls interleave (OnSetup, OnStop).
THEOREM MasksCorrect == SafeSpec => []MasksExact
<1>1. TypeInv /\ MasksInv => MasksExact
  BY DEF TypeInv, TypeOK, SessionTypes, MasksInv, SessionInv, MasksExact, Wanted, InSlots
<1> QED
  BY <1>1, TypeInvInit, TypeInvStep, RegistryInvInit, RegistryInvStep, MasksInvInit,
     MasksInvStep, PTL DEF SafeSpec

-----------------------------------------------------------------------------
(* The group array *)

LEMMA GroupSlotsInvInit == Init => GroupSlotsInv
BY SizesAssumption DEF Init, GroupSlotsInv, GroupSlot, Thread

LEMMA GroupSlotsInvStep == TypeInv /\ GroupSlotsInv /\ [Next]_vars => GroupSlotsInv'
<1> SUFFICES ASSUME TypeInv, GroupSlotsInv, [Next]_vars PROVE GroupSlotsInv'
  OBVIOUS
<1>a. /\ groups \in [GroupSlot -> Group \cup {Null}]
      /\ slot \in [Thread -> 0 .. MaxGroups] /\ grp \in [Thread -> Group \cup {Null}]
      /\ pc \in [Thread -> Label] /\ MaxGroups \in Nat /\ Null \notin Group
      /\ \A t \in Thread : pc[t] \in {"claim", "member"} => grp[t] \in Group
      /\ pc[Main] \notin {"group", "member"}
  BY SizesAssumption, CategoriesAssumption
  DEF TypeInv, TypeOK, RegistryTypes, ThreadTypes, ControlOK
<1>b. /\ Muxer \in Thread /\ Main \in Thread /\ Registrar \subseteq Thread
      /\ Main # Muxer /\ Muxer \notin Registrar
  BY ThreadsAssumption DEF Thread
<1>1. ASSUME UNCHANGED groups,
             \A t \in Thread :
               \/ UNCHANGED <<pc[t], slot[t], grp[t]>>
               \/ /\ slot'[t] \in {0, slot[t]}
                  /\ pc'[t] \notin {"group", "member"} \/ (t = Muxer /\ pc'[t] = "group")
      PROVE  GroupSlotsInv'
  BY <1>1, <1>a DEF GroupSlotsInv, GroupSlot
<1>2. ASSUME NEW t \in Thread, ClaimSlot(t) PROVE GroupSlotsInv'
  <2> DEFINE s == slot[t]
  <2>1. /\ pc[t] = "claim" /\ s \in GroupSlot /\ groups[s] = Null /\ grp[t] \in Group
        /\ groups' = [groups EXCEPT ![s] = grp[t]]
    BY <1>2, <1>a DEF ClaimSlot, TakeSlot, GroupSlot
  <2>2. ASSUME NEW q \in Thread, q # t
        PROVE  slot'[q] = slot[q] /\ grp'[q] = grp[q] /\ pc'[q] = pc[q]
    BY <1>2, <1>a, <2>2 DEF ClaimSlot, TakeSlot, NextGroup
  <2>3. \/ t # Main /\ slot'[t] = s /\ grp'[t] = grp[t] /\ pc'[t] = "group"
        \/ slot'[t] = 0 /\ pc'[t] \notin {"group", "member"}
    BY <1>2, <1>a DEF ClaimSlot, TakeSlot, NextGroup
  <2>4. \A j, k \in GroupSlot : j < k /\ groups'[k] # Null => groups'[j] # Null
    BY <1>a, <2>1 DEF GroupSlotsInv
  <2>5. \A q \in Thread : \A j \in GroupSlot : j < slot'[q] => groups'[j] # Null
    BY <1>a, <2>1, <2>2, <2>3 DEF GroupSlotsInv, GroupSlot
  <2>6. ASSUME NEW q \in Thread,
               pc'[q] = "member" \/ (pc'[q] = "group" /\ q # Muxer)
        PROVE  slot'[q] \in GroupSlot /\ grp'[q] \in Group /\ groups'[slot'[q]] = grp'[q]
    <3>1. CASE q = t
      BY <1>a, <2>1, <2>3, <2>6, <3>1
    <3>2. CASE q # t
      <4>1. slot[q] \in GroupSlot /\ grp[q] \in Group /\ groups[slot[q]] = grp[q]
        BY <2>2, <2>6, <3>2 DEF GroupSlotsInv
      <4>2. slot[q] # s
        BY <1>a, <2>1, <4>1
      <4> QED
        BY <1>a, <2>1, <2>2, <3>2, <4>1, <4>2
    <3> QED
      BY <3>1, <3>2
  <2> QED
    BY <2>4, <2>5, <2>6 DEF GroupSlotsInv
<1>3. ASSUME NEW t \in Thread, SlotTaken(t) PROVE GroupSlotsInv'
  <2>1. /\ pc[t] = "claim" /\ slot[t] \in GroupSlot /\ groups[slot[t]] # Null
        /\ slot' = [slot EXCEPT ![t] = slot[t] + 1] /\ UNCHANGED <<groups, pc, grp>>
    BY <1>3, <1>a DEF SlotTaken, GroupSlot
  <2>2. \A q \in Thread : \A j \in GroupSlot : j < slot'[q] => groups'[j] # Null
    BY <1>a, <2>1 DEF GroupSlotsInv, GroupSlot
  <2> QED
    BY <1>a, <2>1, <2>2 DEF GroupSlotsInv
<1>4. ASSUME NEW t \in Thread, NoSlotLeft(t) PROVE GroupSlotsInv'
  <2>1. UNCHANGED groups
    BY <1>4 DEF NoSlotLeft
  <2>2. CASE t = Main
    BY <1>1, <1>4, <1>a, <2>1, <2>2 DEF NoSlotLeft, NextGroup
  <2>3. CASE t # Main
    BY <1>1, <1>4, <1>a, <2>1, <2>3 DEF NoSlotLeft, Return
  <2> QED
    BY <2>2, <2>3
<1>5. ASSUME NEW t \in Thread, GroupLoad(t) PROVE GroupSlotsInv'
  <2>1. slot[t] \in GroupSlot /\ GroupAt(slot[t]) = groups[slot[t]]
    BY <1>5, <1>a DEF GroupLoad, GroupAt, GroupSlot
  <2>2. /\ groups[slot[t]] \in Group
        /\ pc' = [pc EXCEPT ![t] = "member"]
        /\ grp' = [grp EXCEPT ![t] = groups[slot[t]]] /\ UNCHANGED <<groups, slot>>
    BY <1>5, <1>a, <2>1 DEF GroupLoad
  <2> QED
    BY <1>a, <2>1, <2>2 DEF GroupSlotsInv
<1>6. ASSUME NEW t \in Thread, NEW c \in Category, MemberLoad(t, c) PROVE GroupSlotsInv'
  BY <1>1, <1>6 DEF MemberLoad
<1>7. ASSUME NEW t \in Thread, GroupStore(t) PROVE GroupSlotsInv'
  <2>1. pc[t] = "member" /\ UNCHANGED groups
    BY <1>7 DEF GroupStore
  <2>2. CASE t = Muxer
    <3>1. /\ slot' = [slot EXCEPT ![t] = slot[t] + 1]
          /\ pc' = [pc EXCEPT ![t] = "group"] /\ UNCHANGED grp
      BY <1>7, <2>2 DEF GroupStore
    <3>2. slot[t] \in GroupSlot /\ groups[slot[t]] # Null
      BY <1>a, <2>1 DEF GroupSlotsInv
    <3>3. \A q \in Thread : \A j \in GroupSlot : j < slot'[q] => groups'[j] # Null
      BY <1>a, <2>1, <3>1, <3>2 DEF GroupSlotsInv, GroupSlot
    <3> QED
      BY <1>a, <2>1, <2>2, <3>1, <3>3 DEF GroupSlotsInv
  <2>3. CASE t # Muxer
    BY <1>1, <1>7, <1>a, <2>1, <2>3 DEF GroupStore, Return
  <2> QED
    BY <2>2, <2>3
<1>8. CASE HandlerEnd
  BY <1>1, <1>8, <1>a, <1>b DEF HandlerEnd, LeaveHandler, Return
<1>9. CASE UpdateCategory \/ CategoriesDone
  BY <1>1, <1>9, <1>a, <1>b DEF UpdateCategory, NextCategory, CategoriesDone, threadVars
<1>10. ASSUME NEW i \in Instance,
              OnSetupRejected(i) \/ OnStop(i) \/ \E W \in Configs : OnSetup(i, W)
       PROVE  GroupSlotsInv'
  BY <1>1, <1>10, <1>a, <1>b DEF OnSetup, OnSetupRejected, OnStop, BeginHandler,
     StartLoop, threadVars
<1>11. ASSUME NEW r \in Registrar, NEW g \in Group, RegisterGroup(r, g)
       PROVE  GroupSlotsInv'
  BY <1>1, <1>11, <1>a, <1>b DEF RegisterGroup
<1>12. ASSUME NEW l \in InitLists, InitCall(l) \/ InitClockError(l) PROVE GroupSlotsInv'
  BY <1>1, <1>12, <1>a, <1>b DEF InitCall, EnterInit, InitClockError, threadVars
<1>13. CASE StoreCategory \/ SkipCategory
  BY <1>1, <1>13 DEF StoreCategory, StoreAs, SkipCategory, threadVars
<1>14. CASE PublishCount
  BY <1>1, <1>14, <1>a, <1>b DEF PublishCount, NextGroup
<1>15. ASSUME NEW ok \in BOOLEAN, RegisterDataSource(ok) PROVE GroupSlotsInv'
  BY <1>1, <1>15, <1>a, <1>b DEF RegisterDataSource, Return
<1>16. CASE UNCHANGED vars
  BY <1>1, <1>16 DEF vars, threadVars
<1> QED
  BY <1>2, <1>3, <1>4, <1>5, <1>6, <1>7, <1>8, <1>9, <1>10, <1>11, <1>12, <1>13,
     <1>14, <1>15, <1>16, <1>b
  DEF Next, Call, MainStep, MuxerStep, RegistrarStep, AddGroupStep, UpdateGroupStep

\* A handler that stops at the first NULL slot has missed no group, and a
\* registering thread updates the slot it has won (add_group_category,
\* UpdateGroupCategories).
THEOREM GroupsFound == SafeSpec => []GroupsReachable
<1>1. TypeInv /\ GroupSlotsInv => GroupsReachable
  BY ThreadsAssumption DEF GroupSlotsInv, GroupsReachable, Thread
<1> QED
  BY <1>1, TypeInvInit, TypeInvStep, GroupSlotsInvInit, GroupSlotsInvStep, PTL DEF SafeSpec

LEMMA GroupSlotsKept ==
  TypeInv /\ [Next]_vars =>
    \A k \in GroupSlot : groups[k] # Null => groups'[k] = groups[k]
<1> SUFFICES ASSUME TypeInv, [Next]_vars, NEW k \in GroupSlot, groups[k] # Null
             PROVE  groups'[k] = groups[k]
  OBVIOUS
<1>a. groups \in [GroupSlot -> Group \cup {Null}]
  BY DEF TypeInv, TypeOK, RegistryTypes
<1>1. ASSUME NEW t \in Thread, ClaimSlot(t) PROVE groups'[k] = groups[k]
  BY <1>1, <1>a DEF ClaimSlot, TakeSlot
<1>2. ASSUME UNCHANGED groups PROVE groups'[k] = groups[k]
  BY <1>2
<1>3. ASSUME NEW t \in Thread, AddGroupStep(t) \/ UpdateGroupStep(t)
      PROVE  groups'[k] = groups[k]
  BY <1>1, <1>2, <1>3 DEF AddGroupStep, SlotTaken, NoSlotLeft, UpdateGroupStep, GroupLoad,
     MemberLoad, GroupStore
<1>4. ASSUME Call PROVE groups'[k] = groups[k]
  BY <1>2, <1>4 DEF Call, InitCall, EnterInit, InitClockError, RegisterGroup, OnSetup,
     OnSetupRejected, OnStop, BeginHandler, StartLoop
<1>5. CASE StoreCategory \/ SkipCategory \/ PublishCount
             \/ \E ok \in BOOLEAN : RegisterDataSource(ok)
  BY <1>2, <1>5 DEF StoreCategory, StoreAs, SkipCategory, PublishCount, RegisterDataSource
<1>6. CASE UpdateCategory \/ CategoriesDone \/ HandlerEnd
  BY <1>2, <1>6 DEF UpdateCategory, NextCategory, CategoriesDone, HandlerEnd, LeaveHandler
<1>7. CASE UNCHANGED vars
  BY <1>2, <1>7 DEF vars
<1> QED
  BY <1>3, <1>4, <1>5, <1>6, <1>7 DEF Next, MainStep, MuxerStep, RegistrarStep, Thread

\* Readers need no lock: what a step publishes in either array no later step
\* changes.
THEOREM WriteOnce == SafeSpec => SlotsWriteOnce
<1>1. TypeInv /\ RegistryInv /\ [Next]_vars
        => [/\ categoryCount' >= categoryCount
            /\ \A k \in CategorySlot :
                 k < categoryCount => categories'[k] = categories[k]
            /\ \A k \in GroupSlot :
                 groups[k] # Null => groups'[k] = groups[k]]_vars
  <2> SUFFICES ASSUME TypeInv, RegistryInv, [Next]_vars
               PROVE  /\ categoryCount' >= categoryCount
                      /\ \A k \in CategorySlot :
                           k < categoryCount => categories'[k] = categories[k]
                      /\ \A k \in GroupSlot :
                           groups[k] # Null => groups'[k] = groups[k]
    OBVIOUS
  <2>1. categoryCount \in Nat /\ categoryCount' \in Nat
    BY TypeInvStep, SizesAssumption DEF TypeInv, TypeOK, RegistryTypes
  <2> QED
    BY <2>1, SlotsKeptStep, GroupSlotsKept DEF SlotsKept
<1> QED
  BY <1>1, TypeInvInit, TypeInvStep, RegistryInvInit, RegistryInvStep, PTL
  DEF SafeSpec, SlotsWriteOnce

-----------------------------------------------------------------------------
(* Who registers which group *)

LEMMA OwnershipInvInit == Init => OwnershipInv
BY CategoriesAssumption DEF Init, OwnershipInv, Thread

LEMMA OwnershipInvStep ==
  TypeInv /\ GroupSlotsInv /\ OwnershipInv /\ [Next]_vars => OwnershipInv'
<1> SUFFICES ASSUME TypeInv, GroupSlotsInv, OwnershipInv, [Next]_vars
             PROVE  OwnershipInv'
  OBVIOUS
<1>a. /\ groups \in [GroupSlot -> Group \cup {Null}]
      /\ slot \in [Thread -> 0 .. MaxGroups] /\ grp \in [Thread -> Group \cup {Null}]
      /\ pc \in [Thread -> Label] /\ MaxGroups \in Nat /\ Null \notin Group
      /\ \A t \in Thread : pc[t] \in {"claim", "member"} => grp[t] \in Group
      /\ pc[Main] \notin {"group", "member"}
      /\ DynamicGroup \subseteq Group
  BY SizesAssumption, CategoriesAssumption
  DEF TypeInv, TypeOK, RegistryTypes, ThreadTypes, ControlOK, DynamicGroup
<1>b. /\ Muxer \in Thread /\ Main \in Thread /\ Registrar \subseteq Thread
      /\ Main # Muxer /\ Muxer \notin Registrar /\ Main \notin Registrar
  BY ThreadsAssumption DEF Thread
<1>1. ASSUME UNCHANGED groups, \A r \in Registrar : UNCHANGED <<pc[r], grp[r]>>
      PROVE  OwnershipInv'
  BY <1>1 DEF OwnershipInv
<1>2. ASSUME UNCHANGED groups, NEW t \in Thread, Return(t) PROVE OwnershipInv'
  BY <1>2, <1>a, <1>b DEF Return, OwnershipInv
<1>3. ASSUME NEW r \in Registrar, ClaimSlot(r) PROVE OwnershipInv'
  <2>1. /\ pc[r] = "claim" /\ slot[r] \in GroupSlot
        /\ groups' = [groups EXCEPT ![slot[r]] = grp[r]]
        /\ pc' = [pc EXCEPT ![r] = "group"] /\ UNCHANGED grp
    BY <1>3, <1>a, <1>b DEF ClaimSlot, TakeSlot, GroupSlot
  <2> QED
    BY <1>a, <1>b, <2>1 DEF OwnershipInv
<1>4. CASE ClaimSlot(Main)
  <2>1. /\ pc[Main] = "claim" /\ slot[Main] \in GroupSlot
        /\ groups' = [groups EXCEPT ![slot[Main]] = grp[Main]]
        /\ \A r \in Registrar : UNCHANGED <<pc[r], grp[r]>>
    BY <1>4, <1>a, <1>b DEF ClaimSlot, TakeSlot, NextGroup, GroupSlot
  <2>2. grp[Main] \notin DynamicGroup
    <3>1. args \in InitLists /\ inI \in Nat /\ inI > 0 /\ inI <= Len(args)
          /\ args[inI] = grp[Main]
      BY <2>1 DEF TypeInv, TypeOK, InitTypes, ControlOK
    <3>2. inI \in 1 .. Len(args)
      BY <3>1, ListElements
    <3> QED
      BY <3>1, <3>2 DEF DynamicGroup
  <2> QED
    BY <1>a, <1>b, <2>1, <2>2 DEF OwnershipInv
<1>5. ASSUME NEW t \in Registrar \cup {Main}, SlotTaken(t) PROVE OwnershipInv'
  BY <1>1, <1>5 DEF SlotTaken
<1>6. ASSUME NEW t \in Registrar \cup {Main}, NoSlotLeft(t) PROVE OwnershipInv'
  BY <1>1, <1>2, <1>6, <1>a, <1>b DEF NoSlotLeft, NextGroup
<1>7. ASSUME NEW t \in Registrar \cup {Muxer}, GroupLoad(t) PROVE OwnershipInv'
  <2>1. CASE t = Muxer
    BY <1>1, <1>7, <1>a, <1>b, <2>1 DEF GroupLoad
  <2>2. CASE t \in Registrar
    <3>1. /\ slot[t] \in GroupSlot /\ groups[slot[t]] = grp[t] /\ pc[t] = "group"
      BY <1>7, <1>b, <2>2 DEF GroupLoad, GroupSlotsInv
    <3>2. GroupAt(slot[t]) = grp[t]
      BY <1>a, <3>1 DEF GroupAt, GroupSlot
    <3>3. UNCHANGED <<grp, groups>> /\ pc' = [pc EXCEPT ![t] = "member"]
      BY <1>7, <1>a, <3>2 DEF GroupLoad
    <3> QED
      BY <1>a, <1>b, <2>2, <3>1, <3>3 DEF OwnershipInv
  <2> QED
    BY <2>1, <2>2
<1>8. ASSUME NEW t \in Registrar \cup {Muxer}, NEW c \in Category, MemberLoad(t, c)
      PROVE  OwnershipInv'
  BY <1>1, <1>8 DEF MemberLoad
<1>9. ASSUME NEW t \in Registrar \cup {Muxer}, GroupStore(t) PROVE OwnershipInv'
  BY <1>1, <1>2, <1>9, <1>a, <1>b DEF GroupStore
<1>10. ASSUME NEW r \in Registrar, NEW g \in Group, RegisterGroup(r, g)
       PROVE  OwnershipInv'
  BY <1>10, <1>a, <1>b DEF RegisterGroup, OwnershipInv
<1>11. CASE HandlerEnd
  BY <1>2, <1>11, <1>b DEF HandlerEnd, LeaveHandler
<1>12. CASE UpdateCategory \/ CategoriesDone
  BY <1>1, <1>12, <1>a, <1>b DEF UpdateCategory, NextCategory, CategoriesDone, threadVars
<1>13. ASSUME NEW i \in Instance,
              OnSetupRejected(i) \/ OnStop(i) \/ \E W \in Configs : OnSetup(i, W)
       PROVE  OwnershipInv'
  BY <1>1, <1>13, <1>a, <1>b DEF OnSetup, OnSetupRejected, OnStop, BeginHandler,
     StartLoop, threadVars
<1>14. ASSUME NEW l \in InitLists, InitCall(l) \/ InitClockError(l) PROVE OwnershipInv'
  BY <1>1, <1>14, <1>a, <1>b DEF InitCall, EnterInit, InitClockError, threadVars
<1>15. CASE StoreCategory \/ SkipCategory
  BY <1>1, <1>15 DEF StoreCategory, StoreAs, SkipCategory, threadVars
<1>16. CASE PublishCount
  BY <1>1, <1>16, <1>a, <1>b DEF PublishCount, NextGroup
<1>17. ASSUME NEW ok \in BOOLEAN, RegisterDataSource(ok) PROVE OwnershipInv'
  BY <1>2, <1>17, <1>b DEF RegisterDataSource
<1>18. CASE UNCHANGED vars
  BY <1>1, <1>18 DEF vars, threadVars
<1> QED
  BY <1>3, <1>4, <1>5, <1>6, <1>7, <1>8, <1>9, <1>10, <1>11, <1>12, <1>13,
     <1>14, <1>15, <1>16, <1>17, <1>18
  DEF Next, Call, MainStep, MuxerStep, RegistrarStep, AddGroupStep, UpdateGroupStep

-----------------------------------------------------------------------------
(* The masks of the groups *)

LEMMA BitsKept ==
  ASSUME NEW m, NEW n, \A c \in Category : m[c] = n[c], NEW C \in SUBSET Category
  PROVE  Bits(m, C) = Bits(n, C)
<1>1. {m[c] : c \in C} = {n[c] : c \in C}
  OBVIOUS
<1> QED
  BY <1>1 DEF Bits

LEMMA BitsFacts ==
  /\ \A m : Bits(m, {}) = {}
  /\ \A m, C, c : Bits(m, C \cup {c}) = Bits(m, C) \cup m[c]
<1>1. ASSUME NEW m PROVE Bits(m, {}) = {}
  BY DEF Bits
<1>2. ASSUME NEW m, NEW C, NEW c
      PROVE  Bits(m, C \cup {c}) = Bits(m, C) \cup m[c]
  <2>1. \A x : x \in UNION {m[d] : d \in C \cup {c}}
                 <=> x \in UNION {m[d] : d \in C} \/ x \in m[c]
    OBVIOUS
  <2> QED
    BY <2>1 DEF Bits
<1> QED
  BY <1>1, <1>2

LEMMA GroupMasksInvInit == Init => GroupMasksInv
BY DEF Init, GroupMasksInv, Thread

LEMMA GroupMasksInvStep ==
  TypeInv /\ GroupSlotsInv /\ OwnershipInv /\ GroupMasksInv /\ [Next]_vars
    => GroupMasksInv'
<1> SUFFICES ASSUME TypeInv, GroupSlotsInv, OwnershipInv, GroupMasksInv, [Next]_vars
             PROVE  GroupMasksInv'
  OBVIOUS
<1>a. /\ groups \in [GroupSlot -> Group \cup {Null}]
      /\ sessions \in [Category \cup Group -> SUBSET Instance]
      /\ slot \in [Thread -> 0 .. MaxGroups] /\ grp \in [Thread -> Group \cup {Null}]
      /\ pc \in [Thread -> Label] /\ pending \in [Thread -> SUBSET Category]
      /\ acc \in [Thread -> SUBSET Instance]
      /\ MaxGroups \in Nat /\ Null \notin Group
      /\ \A t \in Thread : pc[t] \in {"claim", "member"} => grp[t] \in Group
      /\ pc[Muxer] \in {"idle", "category", "group", "member"}
      /\ pc[Main] \notin {"group", "member"}
  BY SizesAssumption, CategoriesAssumption
  DEF TypeInv, TypeOK, RegistryTypes, ThreadTypes, ControlOK
<1>b. /\ Muxer \in Thread /\ Main \in Thread /\ Registrar \subseteq Thread
      /\ Main # Muxer /\ Muxer \notin Registrar /\ Main \notin Registrar
  BY ThreadsAssumption DEF Thread
<1>1. ASSUME UNCHANGED <<groups, sessions, unsynced, pc[Muxer], slot[Muxer],
                         grp[Muxer], pending[Muxer], acc[Muxer]>>,
             \A r \in Registrar : \A k \in GroupSlot :
               groups[k] # Null /\ groups[k] = grp[r] => grp'[r] = grp[r]
      PROVE  GroupMasksInv'
  BY <1>1, <1>a DEF GroupMasksInv, Settled
<1>2. ASSUME NEW t \in Registrar \cup {Main}, ClaimSlot(t) PROVE GroupMasksInv'
  <2>1. /\ slot[t] \in GroupSlot /\ grp[t] \in Group /\ groups[slot[t]] = Null
        /\ groups' = [groups EXCEPT ![slot[t]] = grp[t]]
        /\ UNCHANGED <<sessions, pc[Muxer], slot[Muxer], grp[Muxer], pending[Muxer],
                       acc[Muxer]>>
        /\ \A r \in Registrar : UNCHANGED grp[r]
        /\ unsynced \subseteq unsynced'
        /\ t = Main => grp[t] \in unsynced'
    BY <1>2, <1>a, <1>b DEF ClaimSlot, TakeSlot, NextGroup, GroupSlot
  <2>2. ASSUME NEW k \in GroupSlot, groups'[k] # Null, pc'[Muxer] # "category",
               pc'[Muxer] = "idle" \/ k < slot'[Muxer]
        PROVE  Settled(groups[k])'
    <3>1. CASE k = slot[t]
      BY <1>a, <2>1, <3>1 DEF Settled
    <3>2. CASE k # slot[t]
      BY <1>a, <2>1, <2>2, <3>2 DEF Settled, GroupMasksInv
    <3> QED
      BY <3>1, <3>2
  <2> QED
    BY <2>1, <2>2 DEF GroupMasksInv
<1>3. ASSUME NEW t \in Registrar \cup {Main}, SlotTaken(t) PROVE GroupMasksInv'
  BY <1>1, <1>3, <1>a, <1>b DEF SlotTaken
<1>4. ASSUME NEW t \in Registrar \cup {Main}, NoSlotLeft(t) PROVE GroupMasksInv'
  <2>1. pc[t] = "claim" /\ UNCHANGED <<groups, sessions, unsynced>>
    BY <1>4 DEF NoSlotLeft
  <2>2. CASE t = Main
    BY <1>1, <1>4, <1>a, <1>b, <2>1, <2>2 DEF NoSlotLeft, NextGroup
  <2>3. CASE t \in Registrar
    <3>1. \A k \in GroupSlot : groups[k] # grp[t]
      BY <2>1, <2>3 DEF OwnershipInv
    <3> QED
      BY <1>1, <1>4, <1>a, <1>b, <2>1, <2>3, <3>1 DEF NoSlotLeft, Return
  <2> QED
    BY <2>2, <2>3
<1>5. ASSUME NEW r \in Registrar, GroupStore(r) PROVE GroupMasksInv'
  <2>1. /\ grp[r] \in Group /\ pc[r] = "member"
        /\ sessions' = [sessions EXCEPT ![grp[r]] = acc[r]]
        /\ unsynced' = IF acc[r] = Bits(sessions, Members[grp[r]])
                       THEN unsynced \ {grp[r]} ELSE unsynced \cup {grp[r]}
        /\ UNCHANGED <<groups, pc[Muxer], slot[Muxer], grp[Muxer], pending[Muxer],
                       acc[Muxer]>>
        /\ \A q \in Registrar \ {r} : grp'[q] = grp[q]
    BY <1>5, <1>a, <1>b DEF GroupStore, Return, MemberBits, Bits
  <2>2. \A c \in Category : sessions'[c] = sessions[c]
    BY <1>5, <1>b, GroupStoreKeepsMasks
  <2>3. ASSUME NEW k \in GroupSlot, groups[k] # Null,
               pc[Muxer] # "category", pc[Muxer] = "idle" \/ k < slot[Muxer]
        PROVE  Settled(groups[k])'
    <3>1. groups[k] \in Group /\ Settled(groups[k])
      BY <1>a, <2>3 DEF GroupMasksInv
    <3>2. Bits(sessions', Members[groups[k]]) = Bits(sessions, Members[groups[k]])
      BY <2>2, <3>1, BitsKept, CategoriesAssumption
    <3>3. CASE groups[k] = grp[r]
      BY <1>a, <2>1, <3>1, <3>2, <3>3 DEF Settled
    <3>4. CASE groups[k] # grp[r]
      BY <1>a, <2>1, <3>1, <3>2, <3>4 DEF Settled
    <3> QED
      BY <3>3, <3>4
  <2>4. ASSUME pc[Muxer] = "member"
        PROVE  Bits(sessions', Members[grp[Muxer]] \ pending[Muxer]) =
               Bits(sessions, Members[grp[Muxer]] \ pending[Muxer])
    BY <1>a, <1>b, <2>2, <2>4, BitsKept, CategoriesAssumption
  <2> QED
    BY <2>1, <2>3, <2>4 DEF GroupMasksInv
<1>6. CASE GroupStore(Muxer)
  <2> DEFINE g == grp[Muxer]
  <2>1. /\ g \in Group /\ pc[Muxer] = "member" /\ pc'[Muxer] = "group"
        /\ slot'[Muxer] = slot[Muxer] + 1
        /\ sessions' = [sessions EXCEPT ![g] = acc[Muxer]]
        /\ unsynced' = unsynced \ {g} /\ UNCHANGED <<groups, grp>>
    BY <1>6, <1>a, <1>b DEF GroupStore
  <2>2. acc[Muxer] = Bits(sessions, Members[g])
    <3>1. Members[g] \ pending[Muxer] = Members[g]
      BY <1>6 DEF GroupStore
    <3> QED
      BY <2>1, <3>1 DEF GroupMasksInv
  <2>3. \A c \in Category : sessions'[c] = sessions[c]
    BY <1>6, <1>b, GroupStoreKeepsMasks
  <2>4. ASSUME NEW k \in GroupSlot, groups[k] # Null, k < slot[Muxer] + 1
        PROVE  Settled(groups[k])'
    <3>1. groups[k] \in Group
      BY <1>a, <2>4
    <3>2. Bits(sessions', Members[groups[k]]) = Bits(sessions, Members[groups[k]])
      BY <2>3, <3>1, BitsKept, CategoriesAssumption
    <3>3. CASE groups[k] = g
      BY <1>a, <2>1, <2>2, <3>1, <3>2, <3>3 DEF Settled
    <3>4. CASE groups[k] # g
      <4>1. groups[slot[Muxer]] = g
        BY <1>b, <2>1 DEF GroupSlotsInv
      <4>2. k < slot[Muxer]
        BY <1>a, <1>b, <2>4, <3>4, <4>1 DEF GroupSlot
      <4>3. Settled(groups[k])
        BY <2>1, <2>4, <4>2 DEF GroupMasksInv
      <4> QED
        BY <1>a, <2>1, <3>1, <3>2, <3>4, <4>3 DEF Settled
    <3> QED
      BY <3>3, <3>4
  <2> QED
    BY <2>1, <2>4 DEF GroupMasksInv
<1>7. CASE GroupLoad(Muxer)
  <2>1. /\ pc[Muxer] = "group" /\ pc'[Muxer] = "member"
        /\ pending'[Muxer] = Members[grp'[Muxer]] /\ acc'[Muxer] = {}
        /\ UNCHANGED <<groups, sessions, unsynced, slot>>
        /\ \A r \in Registrar : grp'[r] = grp[r]
    BY <1>7, <1>a, <1>b DEF GroupLoad
  <2>2. Bits(sessions, Members[grp'[Muxer]] \ pending'[Muxer]) = {}
    BY <2>1, BitsFacts
  <2> QED
    BY <2>1, <2>2 DEF GroupMasksInv, Settled
<1>8. ASSUME NEW c \in Category, MemberLoad(Muxer, c) PROVE GroupMasksInv'
  <2> DEFINE M == Members[grp[Muxer]]
  <2>1. /\ pc[Muxer] = "member" /\ c \in pending[Muxer] /\ UNCHANGED <<grp, pc, slot>>
        /\ acc'[Muxer] = acc[Muxer] \cup sessions[c]
        /\ pending'[Muxer] = pending[Muxer] \ {c}
        /\ UNCHANGED <<groups, sessions, unsynced>>
    BY <1>8, <1>a, <1>b DEF MemberLoad
  <2>2. M \ (pending[Muxer] \ {c}) = (M \ pending[Muxer]) \cup {c}
    BY <2>1 DEF GroupMasksInv
  <2>3. acc[Muxer] = Bits(sessions, M \ pending[Muxer])
    BY <2>1 DEF GroupMasksInv
  <2>4. Bits(sessions, (M \ pending[Muxer]) \cup {c}) =
          Bits(sessions, M \ pending[Muxer]) \cup sessions[c]
    BY BitsFacts
  <2>5. acc'[Muxer] = Bits(sessions, M \ pending'[Muxer])
    BY <2>1, <2>2, <2>3, <2>4
  <2> QED
    BY <2>1, <2>5 DEF GroupMasksInv, Settled
<1>9. ASSUME NEW r \in Registrar, GroupLoad(r) PROVE GroupMasksInv'
  <2>1. slot[r] \in GroupSlot /\ groups[slot[r]] = grp[r]
    BY <1>9, <1>b DEF GroupLoad, GroupSlotsInv
  <2>2. GroupAt(slot[r]) = grp[r]
    BY <1>a, <2>1 DEF GroupAt, GroupSlot
  <2> QED
    BY <1>1, <1>9, <1>a, <1>b, <2>2 DEF GroupLoad
<1>10. ASSUME NEW r \in Registrar, NEW c \in Category, MemberLoad(r, c)
       PROVE  GroupMasksInv'
  BY <1>1, <1>10, <1>a, <1>b DEF MemberLoad
<1>11. CASE HandlerEnd
  <2>1. /\ pc[Muxer] = "group" /\ pc'[Muxer] = "idle" /\ slot'[Muxer] = 0
        /\ GroupAt(slot[Muxer]) = Null
        /\ UNCHANGED <<groups, sessions, unsynced>>
        /\ \A r \in Registrar : grp'[r] = grp[r]
    BY <1>11, <1>a, <1>b DEF HandlerEnd, LeaveHandler, Return
  <2>2. ASSUME NEW k \in GroupSlot, groups[k] # Null PROVE k < slot[Muxer]
    BY <1>a, <1>b, <2>1, <2>2 DEF GroupAt, GroupSlotsInv, GroupSlot
  <2> QED
    BY <2>1, <2>2 DEF GroupMasksInv, Settled
<1>12. CASE UpdateCategory
  <2>1. pc[Muxer] = "category" /\ UNCHANGED <<pc, slot>>
    BY <1>12 DEF UpdateCategory, NextCategory, threadVars
  <2> QED
    BY <2>1 DEF GroupMasksInv
<1>13. CASE CategoriesDone
  <2>1. pc[Muxer] = "category" /\ pc'[Muxer] = "group" /\ UNCHANGED slot
    BY <1>13, <1>a, <1>b DEF CategoriesDone
  <2> QED
    BY <1>a, <2>1 DEF GroupMasksInv, GroupSlot
<1>14. ASSUME NEW i \in Instance, OnStop(i) \/ \E W \in Configs : OnSetup(i, W)
       PROVE  GroupMasksInv'
  <2>1. pc[Muxer] = "idle" /\ pc'[Muxer] = "category" /\ UNCHANGED slot
    BY <1>14, <1>a, <1>b DEF OnSetup, OnStop, BeginHandler, StartLoop
  <2> QED
    BY <2>1 DEF GroupMasksInv
<1>15. ASSUME NEW i \in Instance, OnSetupRejected(i) PROVE GroupMasksInv'
  BY <1>1, <1>15, <1>a DEF OnSetupRejected, threadVars
<1>16. ASSUME NEW l \in InitLists, InitCall(l) \/ InitClockError(l) PROVE GroupMasksInv'
  BY <1>1, <1>16, <1>a, <1>b DEF InitCall, EnterInit, InitClockError, threadVars
<1>17. CASE StoreCategory \/ SkipCategory
  BY <1>1, <1>17 DEF StoreCategory, StoreAs, SkipCategory, threadVars
<1>18. CASE PublishCount
  BY <1>1, <1>18, <1>a, <1>b DEF PublishCount, NextGroup
<1>19. ASSUME NEW ok \in BOOLEAN, RegisterDataSource(ok) PROVE GroupMasksInv'
  BY <1>1, <1>19, <1>a, <1>b DEF RegisterDataSource, Return
<1>20. ASSUME NEW r \in Registrar, NEW g \in Group, RegisterGroup(r, g)
       PROVE  GroupMasksInv'
  BY <1>1, <1>20, <1>a, <1>b DEF RegisterGroup, OwnershipInv
<1>21. CASE UNCHANGED vars
  BY <1>1, <1>21 DEF vars, threadVars
<1> QED
  BY <1>2, <1>3, <1>4, <1>5, <1>6, <1>7, <1>8, <1>9, <1>10, <1>11, <1>12, <1>13,
     <1>14, <1>15, <1>16, <1>17, <1>18, <1>19, <1>20, <1>21
  DEF Next, Call, MainStep, MuxerStep, RegistrarStep, AddGroupStep, UpdateGroupStep

\* Between handlers a group's mask is the union of its members' masks unless a
\* registering thread lost a race or percetto_init has just added the group:
\* the handlers themselves never leave a group wrong (UpdateGroupCategories).
THEOREM GroupMasksCorrect == SafeSpec => []GroupsAgreeUnlessRaced
<1>1. TypeInv /\ GroupMasksInv => GroupsAgreeUnlessRaced
  BY CategoriesAssumption DEF GroupMasksInv, Settled, GroupsAgreeUnlessRaced, Registered,
     MemberBits, Bits, GroupSlot
<1> QED
  BY <1>1, TypeInvInit, TypeInvStep, GroupSlotsInvInit, GroupSlotsInvStep,
     OwnershipInvInit, OwnershipInvStep, GroupMasksInvInit, GroupMasksInvStep, PTL
  DEF SafeSpec

-----------------------------------------------------------------------------
(* A race spoils the mask of a group at most once *)

\* A dynamic group that is registered, and whose mask is as the last handler left
\* it, stays so.
RepairKept ==
  \A g \in DynamicGroup :
    Registered(g) /\ g \notin unsynced => Registered(g)' /\ g \notin unsynced'

\* A registrar's group is its own from its call to its return.
LEMMA GrpStep ==
  ASSUME TypeInv, GroupSlotsInv, [Next]_vars, NEW r \in Registrar
  PROVE  \/ grp'[r] \in {grp[r], Null}
         \/ \E g \in Group : RegisterGroup(r, g) /\ grp'[r] = g
<1>a. /\ groups \in [GroupSlot -> Group \cup {Null}]
      /\ slot \in [Thread -> 0 .. MaxGroups] /\ grp \in [Thread -> Group \cup {Null}]
      /\ MaxGroups \in Nat
      /\ pc[Main] \notin {"group", "member"}
      /\ r \in Thread /\ r # Muxer /\ r # Main
  BY SizesAssumption, ThreadsAssumption
  DEF TypeInv, TypeOK, RegistryTypes, ThreadTypes, ControlOK, Thread
<1> DEFINE P == grp'[r] \in {grp[r], Null}
<1>1. ASSUME UNCHANGED grp PROVE P
  BY <1>1
<1>2. ASSUME NEW t \in Thread, Return(t) PROVE P
  BY <1>2, <1>a DEF Return
<1>3. ASSUME NEW k, NextGroup(k) PROVE P
  BY <1>3, <1>a DEF NextGroup
<1>4. ASSUME NEW t \in Thread, GroupLoad(t) PROVE P
  <2>1. CASE t # r
    BY <1>4, <1>a, <2>1 DEF GroupLoad
  <2>2. CASE t = r
    <3>1. /\ slot[r] \in GroupSlot /\ groups[slot[r]] = grp[r]
      BY <1>4, <1>a, <2>2 DEF GroupLoad, GroupSlotsInv
    <3>2. GroupAt(slot[r]) = grp[r]
      BY <1>a, <3>1 DEF GroupAt, GroupSlot
    <3> QED
      BY <1>4, <1>a, <2>2, <3>2 DEF GroupLoad
  <2> QED
    BY <2>1, <2>2
<1>5. ASSUME NEW t \in Thread, AddGroupStep(t) PROVE P
  BY <1>1, <1>2, <1>3, <1>5 DEF AddGroupStep, ClaimSlot, TakeSlot, SlotTaken, NoSlotLeft
<1>6. ASSUME NEW t \in Thread, UpdateGroupStep(t) PROVE P
  BY <1>1, <1>2, <1>4, <1>6 DEF UpdateGroupStep, MemberLoad, GroupStore
<1>7. ASSUME NEW q \in Registrar, NEW g \in Group, RegisterGroup(q, g)
      PROVE  P \/ \E h \in Group : RegisterGroup(r, h) /\ grp'[r] = h
  <2>1. CASE q = r
    BY <1>7, <1>a, <2>1 DEF RegisterGroup
  <2>2. CASE q # r
    BY <1>7, <1>a, <2>2 DEF RegisterGroup
  <2> QED
    BY <2>1, <2>2
<1>8. ASSUME NEW l \in InitLists, InitCall(l) \/ InitClockError(l) PROVE P
  BY <1>1, <1>8 DEF InitCall, EnterInit, InitClockError, threadVars
<1>9. ASSUME NEW i \in Instance,
             OnSetupRejected(i) \/ OnStop(i) \/ \E W \in Configs : OnSetup(i, W)
      PROVE  P
  BY <1>1, <1>9 DEF OnSetup, OnSetupRejected, OnStop, BeginHandler, StartLoop, threadVars
<1>10. CASE MainStep
  <2>1. Main \in Thread BY DEF Thread
  <2> QED
    BY <1>1, <1>2, <1>3, <1>5, <1>10, <2>1 DEF MainStep, StoreCategory, StoreAs, SkipCategory,
       PublishCount, RegisterDataSource, threadVars
<1>11. CASE MuxerStep
  <2>1. Muxer \in Thread BY DEF Thread
  <2> QED
    BY <1>1, <1>2, <1>6, <1>11, <2>1 DEF MuxerStep, UpdateCategory, NextCategory,
       CategoriesDone, HandlerEnd, LeaveHandler, threadVars
<1>12. ASSUME NEW q \in Registrar, RegistrarStep(q) PROVE P
  BY <1>5, <1>6, <1>12 DEF RegistrarStep, Thread
<1>13. CASE UNCHANGED vars
  BY <1>1, <1>13 DEF vars, threadVars
<1> QED
  BY <1>7, <1>8, <1>9, <1>10, <1>11, <1>12, <1>13 DEF Next, Call

\* Only percetto_init and a registering thread of the group itself mark it.
LEMMA UnsyncedStep ==
  ASSUME TypeInv, [Next]_vars, NEW g, g \in unsynced', g \notin unsynced
  PROVE  \/ pc[Main] = "claim" /\ g = grp[Main]
         \/ \E r \in Registrar : g = grp[r]
<1> DEFINE P == \/ pc[Main] = "claim" /\ g = grp[Main]
                \/ \E r \in Registrar : g = grp[r]
<1>a. pc[Main] \notin {"group", "member"}
  BY DEF TypeInv, ControlOK
<1>1. ASSUME UNCHANGED unsynced PROVE P
  BY <1>1
<1>2. ASSUME NEW t \in Thread, AddGroupStep(t) PROVE P
  BY <1>1, <1>2 DEF AddGroupStep, ClaimSlot, TakeSlot, SlotTaken, NoSlotLeft
<1>3. ASSUME NEW t \in Thread, UpdateGroupStep(t) PROVE P
  <2>1. CASE GroupStore(t)
    BY <1>a, <2>1 DEF GroupStore, Thread
  <2> QED
    BY <1>1, <1>3, <2>1 DEF UpdateGroupStep, GroupLoad, MemberLoad
<1>4. CASE Call
  BY <1>1, <1>4 DEF Call, InitCall, EnterInit, InitClockError, RegisterGroup, OnSetup,
     OnSetupRejected, OnStop, BeginHandler, StartLoop
<1>5. CASE MainStep
  <2>1. Main \in Thread BY DEF Thread
  <2> QED
    BY <1>1, <1>2, <1>5, <2>1 DEF MainStep, StoreCategory, StoreAs, SkipCategory, PublishCount,
       RegisterDataSource
<1>6. CASE MuxerStep
  <2>1. Muxer \in Thread BY DEF Thread
  <2> QED
    BY <1>1, <1>3, <1>6, <2>1 DEF MuxerStep, UpdateCategory, NextCategory, CategoriesDone,
       HandlerEnd, LeaveHandler
<1>7. ASSUME NEW r \in Registrar, RegistrarStep(r) PROVE P
  BY <1>2, <1>3, <1>7 DEF RegistrarStep, Thread
<1>8. CASE UNCHANGED vars
  BY <1>1, <1>8 DEF vars
<1> QED
  BY <1>4, <1>5, <1>6, <1>7, <1>8 DEF Next

LEMMA RepairStep ==
  TypeInv /\ GroupSlotsInv /\ OwnershipInv /\ [Next]_vars => RepairKept
<1> SUFFICES ASSUME TypeInv, GroupSlotsInv, OwnershipInv, [Next]_vars,
                    NEW g \in DynamicGroup, Registered(g), g \notin unsynced
             PROVE  Registered(g)' /\ g \notin unsynced'
  BY DEF RepairKept
<1>a. g \in Group /\ Null \notin Group
  BY CategoriesAssumption DEF DynamicGroup
<1>1. \E k \in GroupSlot : groups'[k] = g
  BY <1>a, GroupSlotsKept DEF Registered
<1>2. ASSUME NEW r \in Registrar PROVE grp'[r] # g
  <2>1. grp[r] # g
    BY DEF Registered
  <2>2. ~ RegisterGroup(r, g)
    BY DEF RegisterGroup, Registered
  <2> QED
    BY <1>a, <2>1, <2>2, GrpStep
<1>3. ASSUME pc[Main] = "claim" PROVE g # grp[Main]
  <2>1. args \in InitLists /\ inI \in Nat /\ inI > 0 /\ inI <= Len(args)
        /\ args[inI] = grp[Main]
    BY <1>3 DEF TypeInv, TypeOK, InitTypes, ControlOK
  <2>2. inI \in 1 .. Len(args)
    BY <2>1, ListElements
  <2> QED
    BY <2>1, <2>2 DEF DynamicGroup
<1>4. g \notin unsynced'
  BY <1>3, UnsyncedStep DEF Registered
<1> QED
  BY <1>1, <1>2, <1>4 DEF Registered

\* Only the call of percetto_register_group_category that registers a group can
\* leave its mask outdated: once a handler has repaired it, or if it was right
\* when the call returned, it is right between handlers for good.
THEOREM RepairIsFinal == SafeSpec => [][RepairKept]_vars
BY RepairStep, TypeInvInit, TypeInvStep, GroupSlotsInvInit, GroupSlotsInvStep,
   OwnershipInvInit, OwnershipInvStep, PTL DEF SafeSpec

-----------------------------------------------------------------------------
(* The masks implement the session board *)

\* The categories of W that are in the first n slots of array a.
Listed(a, W, n) == {c \in W : InSlots(a, c, n)}

\* The variables of the board.
boardMask == [c \in Category |-> sessions[c]]
boardWanted == [i \in Instance |-> Listed(categories, config[i], setupCount[i])]

LEMMA BoardInit == Init => Board!Init
<1> SUFFICES ASSUME Init PROVE Board!Init
  OBVIOUS
<1>1. \A i \in Instance : Wanted(i) = {}
  BY DEF Init, Wanted
<1> QED
  BY <1>1 DEF Init, Board!Init

LEMMA BoardStep ==
  TypeInv /\ RegistryInv /\ MasksInv /\ [Next]_vars => [Board!Next]_(Board!vars)
<1> SUFFICES ASSUME TypeInv, RegistryInv, MasksInv, [Next]_vars
             PROVE  [Board!Next]_(Board!vars)
  OBVIOUS
<1>a. SlotsKept
  BY SlotsKeptStep
<1>b. /\ categoryCount \in 0 .. MaxCategories /\ MaxCategories \in Nat
      /\ count \in Nat /\ idx \in Nat
      /\ setupCount \in [Instance -> 0 .. MaxCategories]
      /\ phase \in [Instance -> Phase] /\ config \in [Instance -> SUBSET Category]
      /\ sessions \in [Category \cup Group -> SUBSET Instance]
      /\ pc \in [Thread -> Label]
      /\ Muxer \in Thread /\ Main \in Thread /\ Registrar \subseteq Thread
      /\ Main # Muxer /\ Muxer \notin Registrar
      /\ pc[Muxer] \in {"idle", "category", "group", "member"}
      /\ \A i \in Instance : setupCount[i] \in Nat /\ setupCount[i] <= categoryCount
      /\ \A i \in Instance : SessionInv(i)
  BY SizesAssumption, ThreadsAssumption DEF TypeInv, TypeOK, RegistryTypes,
     SessionTypes, ThreadTypes, ControlOK, Thread, MasksInv, SessionInv
<1>c. \A W, n : n \in Nat /\ n <= categoryCount =>
        Listed(categories', W, n) = Listed(categories, W, n)
  BY <1>a, InSlotsKept DEF Listed
<1>d. /\ Board!vars = <<boardMask, phase, boardWanted>>
      /\ (Board!vars)' = <<boardMask', phase', boardWanted'>>
  BY DEF Board!vars, boardMask, boardWanted, Wanted, Listed, InSlots
<1>e. /\ boardMask = [c \in Category |-> sessions[c]]
      /\ boardMask' = [c \in Category |-> sessions'[c]]
      /\ boardWanted = [i \in Instance |-> Wanted(i)]
      /\ boardWanted' = [i \in Instance |-> Wanted(i)']
  BY DEF boardMask, boardWanted, Wanted, Listed, InSlots
<1>1. ASSUME UNCHANGED sessionVars, \A c \in Category : sessions'[c] = sessions[c]
      PROVE  UNCHANGED Board!vars
  <2>1. boardWanted' = boardWanted
    BY <1>1, <1>b, <1>c DEF boardWanted, sessionVars
  <2>2. boardMask' = boardMask
    BY <1>1 DEF boardMask
  <2> QED
    BY <1>1, <1>d, <2>1, <2>2 DEF sessionVars
<1>2. ASSUME NEW i \in Instance, NEW W \in Configs, OnSetup(i, W)
      PROVE  \E V \in SUBSET Category : Board!Setup(i, V)
  <2> DEFINE V == Listed(categories, W, categoryCount)
  <2>1. /\ pc[Muxer] = "idle" /\ phase[i] = "free"
        /\ phase' = [phase EXCEPT ![i] = "setup"]
        /\ config' = [config EXCEPT ![i] = W]
        /\ setupCount' = [setupCount EXCEPT ![i] = categoryCount]
        /\ UNCHANGED <<sessions, categories, categoryCount>>
    BY <1>2, <1>b DEF OnSetup, BeginHandler, StartLoop, categoryVars
  <2>2. V \in SUBSET Category
    BY CategoriesAssumption DEF Listed
  <2>3. boardWanted' = [boardWanted EXCEPT ![i] = V]
    BY <1>b, <2>1 DEF boardWanted
  <2>4. Board!Quiet
    BY <1>b, <2>1 DEF Board!Quiet, SessionInv, Phase
  <2> QED
    BY <1>e, <2>1, <2>2, <2>3, <2>4 DEF Board!Setup, boardMask
<1>3. ASSUME NEW i \in Instance, OnSetupRejected(i) PROVE Board!Reject(i)
  <2>1. /\ pc[Muxer] = "idle" /\ phase[i] = "free"
        /\ phase' = [phase EXCEPT ![i] = "live"]
        /\ UNCHANGED <<config, setupCount, sessions, categories>>
    BY <1>3 DEF OnSetupRejected, categoryVars
  <2>2. Board!Quiet
    BY <1>b, <2>1 DEF Board!Quiet, SessionInv, Phase
  <2> QED
    BY <1>e, <2>1, <2>2 DEF Board!Reject, boardMask, boardWanted
<1>4. ASSUME NEW i \in Instance, OnStop(i) PROVE Board!Stop(i)
  <2>1. /\ pc[Muxer] = "idle" /\ phase[i] = "live"
        /\ phase' = [phase EXCEPT ![i] = "stop"]
        /\ UNCHANGED <<config, setupCount, sessions, categories>>
    BY <1>4 DEF OnStop, BeginHandler, StartLoop, categoryVars
  <2>2. Board!Quiet
    BY <1>b, <2>1 DEF Board!Quiet, SessionInv, Phase
  <2> QED
    BY <1>e, <2>1, <2>2 DEF Board!Stop, boardMask, boardWanted
<1>5. CASE UpdateCategory
  <2> DEFINE c0 == categories[idx]
  <2>1. /\ pc[Muxer] = "category" /\ idx < count
        /\ sessions' = [sessions EXCEPT ![c0] =
                          IF phase[inst] = "stop" THEN sessions[c0] \ {inst}
                          ELSE IF c0 \in config[inst] THEN sessions[c0] \cup {inst}
                          ELSE sessions[c0]]
        /\ UNCHANGED <<phase, config, setupCount, categories>>
    BY <1>5 DEF UpdateCategory, NextCategory, sessionVars, categoryVars
  <2>2. inst \in Instance /\ phase[inst] \in {"setup", "stop"}
    BY <2>1, <1>b DEF TypeInv, ControlOK, SessionInv
  <2>3. idx \in CategorySlot /\ c0 \in Category
    BY <1>b, <2>1, RegistrySlots DEF MasksInv, CategorySlot
  <2>4. boardWanted' = boardWanted
    BY <2>1 DEF boardWanted
  <2>5. CASE phase[inst] = "stop"
    <3>1. boardMask' = [boardMask EXCEPT ![c0] = @ \ {inst}]
      BY <1>b, <2>1, <2>3, <2>5 DEF boardMask
    <3>2. Board!Disable(inst, c0)
      BY <1>e, <2>1, <2>4, <2>5, <3>1 DEF Board!Disable
    <3>3. Board!Progress(inst)
      BY <2>3, <3>2 DEF Board!Progress, Board!Enable, Board!Disable
    <3> QED
      BY <2>2, <3>3 DEF Board!Next
  <2>6. CASE phase[inst] = "setup" /\ c0 \in config[inst]
    <3>1. boardMask' = [boardMask EXCEPT ![c0] = @ \cup {inst}]
      BY <1>b, <2>1, <2>3, <2>6 DEF boardMask
    <3>2. c0 \in boardWanted[inst]
      BY <1>b, <2>1, <2>2, <2>3, <2>6 DEF boardWanted, Listed, InSlots, SessionInv
    <3>3. Board!Enable(inst, c0)
      BY <1>e, <2>1, <2>4, <2>6, <3>1, <3>2 DEF Board!Enable
    <3>4. Board!Progress(inst)
      BY <2>3, <3>3 DEF Board!Progress, Board!Enable, Board!Disable
    <3> QED
      BY <2>2, <3>4 DEF Board!Next
  <2>7. CASE phase[inst] = "setup" /\ c0 \notin config[inst]
    <3>1. boardMask' = boardMask
      BY <1>b, <2>1, <2>3, <2>7 DEF boardMask
    <3> QED
      BY <1>d, <2>1, <2>4, <3>1
  <2> QED
    BY <2>2, <2>5, <2>6, <2>7
<1>6. CASE HandlerEnd
  <2>1. /\ pc[Muxer] = "group" /\ idx = count /\ inst \in Instance
        /\ UNCHANGED <<sessions, categories>>
    BY <1>6 DEF HandlerEnd, LeaveHandler, categoryVars, MasksInv, TypeInv, ControlOK
  <2>2. SessionInv(inst) /\ phase[inst] \in {"setup", "stop"}
    BY <1>b, <2>1 DEF SessionInv
  <2>3. CASE phase[inst] = "setup"
    <3>1. phase' = [phase EXCEPT ![inst] = "live"] /\ UNCHANGED <<config, setupCount>>
      BY <1>6, <2>3 DEF HandlerEnd, LeaveHandler
    <3>2. \A c \in boardWanted[inst] : inst \in boardMask[c]
      BY <1>b, <2>1, <2>2, <2>3 DEF SessionInv, boardWanted, boardMask, Listed
    <3>3. Board!Ready(inst)
      BY <1>e, <2>1, <2>3, <3>1, <3>2 DEF Board!Ready, boardWanted, boardMask
    <3> QED
      BY <2>1, <3>3 DEF Board!Next, Board!Progress
  <2>4. CASE phase[inst] = "stop"
    <3>1. /\ phase' = [phase EXCEPT ![inst] = "free"]
          /\ config' = [config EXCEPT ![inst] = {}]
          /\ setupCount' = [setupCount EXCEPT ![inst] = 0]
      BY <1>6, <2>4 DEF HandlerEnd, LeaveHandler
    <3>2. \A c \in Category : inst \notin boardMask[c]
      BY <2>1, <2>2, <2>4 DEF SessionInv, boardMask
    <3>3. boardWanted' = [boardWanted EXCEPT ![inst] = {}]
      BY <1>b, <2>1, <3>1 DEF boardWanted, Listed
    <3>4. Board!Release(inst)
      BY <1>e, <2>1, <2>4, <3>1, <3>2, <3>3 DEF Board!Release, boardMask
    <3> QED
      BY <2>1, <3>4 DEF Board!Next, Board!Progress
  <2> QED
    BY <2>2, <2>3, <2>4
<1>7. CASE CategoriesDone
  BY <1>1, <1>7 DEF CategoriesDone
<1>8. ASSUME NEW t \in Thread, UpdateGroupStep(t) PROVE UNCHANGED Board!vars
  <2>1. \A c \in Category : sessions'[c] = sessions[c]
    BY <1>8, GroupStoreKeepsMasks DEF UpdateGroupStep, GroupLoad, MemberLoad
  <2> QED
    BY <1>1, <1>8, <2>1 DEF UpdateGroupStep, GroupLoad, MemberLoad, GroupStore
<1>9. ASSUME NEW t \in Thread, AddGroupStep(t) PROVE UNCHANGED Board!vars
  BY <1>1, <1>9 DEF AddGroupStep, ClaimSlot, TakeSlot, SlotTaken, NoSlotLeft
<1>10. CASE StoreCategory \/ SkipCategory \/ PublishCount
              \/ \E ok \in BOOLEAN : RegisterDataSource(ok)
  BY <1>1, <1>10 DEF StoreCategory, StoreAs, SkipCategory, PublishCount,
     RegisterDataSource
<1>11. ASSUME NEW l \in InitLists, InitCall(l) \/ InitClockError(l)
       PROVE  UNCHANGED Board!vars
  BY <1>1, <1>11 DEF InitCall, EnterInit, InitClockError
<1>12. ASSUME NEW r \in Registrar, NEW g \in Group, RegisterGroup(r, g)
       PROVE  UNCHANGED Board!vars
  BY <1>1, <1>12 DEF RegisterGroup
<1>13. CASE UNCHANGED vars
  BY <1>1, <1>13 DEF vars
<1>14. CASE \E i \in Instance : OnSetupRejected(i) \/ OnStop(i)
                \/ \E W \in Configs : OnSetup(i, W)
  BY <1>2, <1>3, <1>4, <1>14 DEF Board!Next
<1> QED
  BY <1>5, <1>6, <1>7, <1>8, <1>9, <1>10, <1>11, <1>12, <1>13, <1>14, <1>b
  DEF Next, Call, MainStep, MuxerStep, RegistrarStep

\* Whatever else runs, the masks change as if sessions came and went alone:
\* OnSetup and OnStop implement the session board.
THEOREM ImplementsBoard == SafeSpec => BoardSafe
<1> QED
  BY TypeInvInit, TypeInvStep, RegistryInvInit, RegistryInvStep, MasksInvInit,
     MasksInvStep, BoardInit, BoardStep, PTL DEF SafeSpec, BoardSafe, Board!SafeSpec

\* What the board keeps true, for the masks of the named categories.
BoardFacts == INSTANCE SessionBoardProofs WITH
  mask <- [c \in Category |-> sessions[c]],
  wanted <- [i \in Instance |-> Wanted(i)]

LEMMA BoardFactsHold == SafeSpec => BoardFacts!SafeSpec
<1>1. Board!Init => BoardFacts!Init
  BY DEF Board!Init, BoardFacts!Init
<1>2. [Board!Next]_(Board!vars) => [BoardFacts!Next]_(BoardFacts!vars)
  BY DEF Board!Next, BoardFacts!Next, Board!vars, BoardFacts!vars, Board!Progress,
     BoardFacts!Progress, Board!Setup, BoardFacts!Setup, Board!Reject, BoardFacts!Reject,
     Board!Enable, BoardFacts!Enable, Board!Ready, BoardFacts!Ready, Board!Stop,
     BoardFacts!Stop, Board!Disable, BoardFacts!Disable, Board!Release,
     BoardFacts!Release, Board!Quiet, BoardFacts!Quiet
<1> QED
  BY <1>1, <1>2, ImplementsBoard, PTL DEF BoardSafe, Board!SafeSpec, BoardFacts!SafeSpec

\* Not even in the middle of a handler does a category carry the bit of a session
\* that does not want it, and no index without a session has a bit anywhere.
THEOREM MasksNeverForeign ==
  SafeSpec => [](\A i \in Instance, c \in Category :
                   i \in sessions[c] => phase[i] # "free" /\ c \in Wanted(i))
<1>1. BoardFacts!BoardInv =>
        \A i \in Instance, c \in Category :
          i \in sessions[c] => phase[i] # "free" /\ c \in Wanted(i)
  BY DEF BoardFacts!BoardInv, BoardFacts!BitsWanted
<1> QED
  BY <1>1, BoardFactsHold, BoardFacts!BoardCorrect, PTL

\* OnSetup only sets bits and OnStop only clears them, each its own session's: a
\* tracing thread sees no bit of a live session come or go, whatever else runs.
BitsChangeInOwnHandler ==
  \A i \in Instance, c \in Category :
    /\ i \in sessions'[c] /\ i \notin sessions[c] => phase[i] = "setup" /\ inst = i
    /\ i \in sessions[c] /\ i \notin sessions'[c] => phase[i] = "stop" /\ inst = i

LEMMA OwnHandler ==
  MasksInv /\ BoardFacts!BitsChangeInHandlers => BitsChangeInOwnHandler
<1> SUFFICES ASSUME MasksInv, BoardFacts!BitsChangeInHandlers,
                    NEW i \in Instance, NEW c \in Category
             PROVE  /\ i \in sessions'[c] /\ i \notin sessions[c]
                         => phase[i] = "setup" /\ inst = i
                    /\ i \in sessions[c] /\ i \notin sessions'[c]
                         => phase[i] = "stop" /\ inst = i
  BY DEF BitsChangeInOwnHandler
<1>1. phase[i] \in {"setup", "stop"} => inst = i
  BY DEF MasksInv, SessionInv
<1> QED
  BY <1>1 DEF BoardFacts!BitsChangeInHandlers

\* Lifted from the board: the masks of the registry change in the handlers of the
\* session alone, one at a time.
THEOREM MasksStable == SafeSpec => [][BitsChangeInOwnHandler]_vars
<1>1. UNCHANGED BoardFacts!vars => BoardFacts!BitsChangeInHandlers
  <2> SUFFICES ASSUME UNCHANGED BoardFacts!vars, NEW i \in Instance, NEW c \in Category
               PROVE  i \in sessions'[c] <=> i \in sessions[c]
    BY DEF BoardFacts!BitsChangeInHandlers
  <2>1. [d \in Category |-> sessions'[d]] = [d \in Category |-> sessions[d]]
    BY DEF BoardFacts!vars
  <2> QED
    BY <2>1
<1>2. MasksInv /\ [BoardFacts!BitsChangeInHandlers]_(BoardFacts!vars)
        => [BitsChangeInOwnHandler]_vars
  BY <1>1, OwnHandler
<1> QED
  BY <1>2, BoardFactsHold, BoardFacts!BitsStable, TypeInvInit, TypeInvStep,
     RegistryInvInit, RegistryInvStep, MasksInvInit, MasksInvStep, PTL DEF SafeSpec

-----------------------------------------------------------------------------
(* Calls are bounded *)

\* The most steps UpdateGroupCategory takes: the group's load, a load for each
\* member, the store.
UpdateSteps == Cardinality(Category) + 2

\* The most steps a call of percetto_register_group_category has left.
RegistrarLeft(r) ==
  CASE pc[r] = "claim" -> (MaxGroups - slot[r]) + UpdateSteps + 1
    [] pc[r] = "group" -> UpdateSteps
    [] pc[r] = "member" -> Cardinality(pending[r]) + 1
    [] OTHER -> 0

\* The most steps the handler has left: a turn for each category, an update for
\* each group.
HandlerLeft ==
  CASE pc[Muxer] = "category" -> (count - idx) + MaxGroups * UpdateSteps + 2
    [] pc[Muxer] = "group" -> (MaxGroups - slot[Muxer]) * UpdateSteps + 1
    [] pc[Muxer] = "member" ->
         (MaxGroups - slot[Muxer] - 1) * UpdateSteps + Cardinality(pending[Muxer]) + 2
    [] OTHER -> 0

\* The most steps percetto_init has left: for each element of its list, at worst
\* a walk over all of groups[].
InitLeft ==
  CASE pc[Main] = "store" -> (Len(args) + 1 - inI) * (MaxGroups + 2) + 2
    [] pc[Main] = "claim" ->
         (Len(args) - inI) * (MaxGroups + 2) + (MaxGroups - slot[Main]) + 2
    [] pc[Main] = "register" -> 1
    [] OTHER -> 0

StepsLeft(t) ==
  IF t = Main THEN InitLeft ELSE IF t = Muxer THEN HandlerLeft ELSE RegistrarLeft(t)

ThreadStep(t) ==
  IF t = Main THEN MainStep ELSE IF t = Muxer THEN MuxerStep ELSE RegistrarStep(t)

\* Each step of a thread brings its call nearer to the return, and no step of
\* another thread takes it further away.
CallsAdvance ==
  \A t \in Thread :
    /\ ThreadStep(t) => StepsLeft(t)' < StepsLeft(t)
    /\ pc[t] # "idle" => StepsLeft(t)' <= StepsLeft(t)

\* The list's index is at most one behind its end.
IndexInv == pc[Main] = "store" => inI <= Len(args) + 1

LEMMA Products ==
  ASSUME NEW n \in Nat, NEW m \in Nat
  PROVE  n * m \in Nat /\ (n + 1) * m = n * m + m
OBVIOUS

LEMMA UpdateStepsType ==
  ASSUME IsFiniteSet(Category)
  PROVE  /\ UpdateSteps \in Nat /\ UpdateSteps = Cardinality(Category) + 2
         /\ \A S \in SUBSET Category :
              /\ IsFiniteSet(S) /\ Cardinality(S) \in Nat
              /\ Cardinality(S) + 2 <= UpdateSteps
<1>1. Cardinality(Category) \in Nat
  BY FS_CardinalityType
<1>2. ASSUME NEW S \in SUBSET Category
      PROVE  IsFiniteSet(S) /\ Cardinality(S) \in Nat /\ Cardinality(S) <= Cardinality(Category)
  BY FS_Subset, FS_CardinalityType
<1> QED
  BY <1>1, <1>2 DEF UpdateSteps

LEMMA RegistrarLeftType ==
  ASSUME IsFiniteSet(Category), TypeInv, NEW r \in Registrar
  PROVE  RegistrarLeft(r) \in Nat
<1>1. /\ slot[r] \in 0 .. MaxGroups /\ pending[r] \in SUBSET Category /\ MaxGroups \in Nat
  BY SizesAssumption DEF TypeInv, TypeOK, ThreadTypes, Thread
<1> QED
  BY <1>1, UpdateStepsType DEF RegistrarLeft

LEMMA HandlerLeftType ==
  ASSUME IsFiniteSet(Category), TypeInv, MasksInv
  PROVE  HandlerLeft \in Nat
<1>1. /\ slot[Muxer] \in 0 .. MaxGroups /\ pending[Muxer] \in SUBSET Category
      /\ MaxGroups \in Nat /\ count \in Nat /\ idx \in Nat /\ idx <= count
      /\ pc[Muxer] = "member" => slot[Muxer] < MaxGroups
  BY SizesAssumption DEF TypeInv, TypeOK, ThreadTypes, SessionTypes, ControlOK, Thread, MasksInv
<1>2. MaxGroups * UpdateSteps \in Nat /\ (MaxGroups - slot[Muxer]) * UpdateSteps \in Nat
  <2>1. MaxGroups - slot[Muxer] \in Nat
    BY <1>1
  <2> QED
    BY <1>1, <2>1, Products, UpdateStepsType
<1>3. ASSUME pc[Muxer] = "member"
      PROVE  (MaxGroups - slot[Muxer] - 1) * UpdateSteps \in Nat
  <2>1. MaxGroups - slot[Muxer] - 1 \in Nat
    BY <1>1, <1>3
  <2> QED
    BY <2>1, Products, UpdateStepsType
<1> QED
  BY <1>1, <1>2, <1>3, UpdateStepsType DEF HandlerLeft

LEMMA InitLeftType == TypeInv /\ IndexInv => InitLeft \in Nat
<1> SUFFICES ASSUME TypeInv, IndexInv PROVE InitLeft \in Nat
  OBVIOUS
<1>1. /\ slot[Main] \in 0 .. MaxGroups /\ MaxGroups \in Nat /\ inI \in Nat
      /\ pc[Main] = "claim" => inI <= Len(args)
      /\ pc[Main] # "idle" => Len(args) \in Nat
  BY SizesAssumption, ListElements
  DEF TypeInv, TypeOK, ThreadTypes, InitTypes, ControlOK, Thread
<1>2. ASSUME pc[Main] = "store" PROVE (Len(args) + 1 - inI) * (MaxGroups + 2) \in Nat
  <2>1. Len(args) + 1 - inI \in Nat
    BY <1>1, <1>2 DEF IndexInv
  <2> QED
    BY <1>1, <2>1, Products
<1>3. ASSUME pc[Main] = "claim" PROVE (Len(args) - inI) * (MaxGroups + 2) \in Nat
  <2>1. Len(args) - inI \in Nat
    BY <1>1, <1>3
  <2> QED
    BY <1>1, <2>1, Products
<1> QED
  BY <1>1, <1>2, <1>3 DEF InitLeft

LEMMA RegistrarAdvances ==
  ASSUME IsFiniteSet(Category), TypeInv, NEW r \in Registrar, RegistrarStep(r)
  PROVE  RegistrarLeft(r)' < RegistrarLeft(r)
<1>a. /\ r \in Thread /\ r # Main /\ r # Muxer
      /\ pc \in [Thread -> Label] /\ slot \in [Thread -> 0 .. MaxGroups]
      /\ pending \in [Thread -> SUBSET Category] /\ MaxGroups \in Nat
      /\ groups \in [GroupSlot -> Group \cup {Null}] /\ Members \in [Group -> SUBSET Category]
  BY SizesAssumption, ThreadsAssumption, CategoriesAssumption
  DEF TypeInv, TypeOK, ThreadTypes, RegistryTypes, Thread
<1>b. UpdateSteps \in Nat /\ UpdateSteps >= 2
  BY UpdateStepsType, FS_CardinalityType
<1> USE DEF RegistrarLeft
<1>1. CASE ClaimSlot(r)
  BY <1>1, <1>a, <1>b DEF ClaimSlot, TakeSlot
<1>2. CASE SlotTaken(r)
  <2>1. /\ pc[r] = "claim" /\ slot[r] < MaxGroups
        /\ slot'[r] = slot[r] + 1 /\ pc' = pc
    BY <1>2, <1>a DEF SlotTaken
  <2> QED
    BY <2>1, <1>a, <1>b
<1>3. CASE NoSlotLeft(r)
  <2>1. pc[r] = "claim" /\ slot[r] = MaxGroups /\ pc'[r] = "idle"
    BY <1>3, <1>a DEF NoSlotLeft, Return
  <2> QED
    BY <2>1, <1>a, <1>b
<1>4. CASE GroupLoad(r)
  <2> DEFINE g == GroupAt(slot[r])
  <2>1. /\ pc[r] = "group" /\ pc'[r] = "member" /\ pending'[r] = Members[g] /\ g # Null
    BY <1>4, <1>a DEF GroupLoad
  <2>2. g \in Group
    BY <2>1, <1>a DEF GroupAt, GroupSlot
  <2>3. Members[g] \in SUBSET Category
    BY <2>2, <1>a
  <2>4. Cardinality(Members[g]) \in Nat /\ Cardinality(Members[g]) + 2 <= UpdateSteps
    BY <2>3, UpdateStepsType
  <2> QED
    BY <2>1, <2>4, <1>b
<1>5. ASSUME NEW c \in Category, MemberLoad(r, c)
      PROVE  RegistrarLeft(r)' < RegistrarLeft(r)
  <2>1. /\ pc[r] = "member" /\ pc'[r] = "member" /\ c \in pending[r]
        /\ pending'[r] = pending[r] \ {c}
    BY <1>5, <1>a DEF MemberLoad
  <2>2. IsFiniteSet(pending[r]) /\ Cardinality(pending[r]) \in Nat
    BY <1>a, UpdateStepsType
  <2>3. Cardinality(pending[r] \ {c}) = Cardinality(pending[r]) - 1
    BY <2>1, <2>2, FS_RemoveElement
  <2> QED
    BY <2>1, <2>2, <2>3
<1>6. CASE GroupStore(r)
  <2>1. pc[r] = "member" /\ pc'[r] = "idle"
    BY <1>6, <1>a DEF GroupStore, Return
  <2>2. Cardinality(pending[r]) \in Nat
    BY <1>a, UpdateStepsType
  <2> QED
    BY <2>1, <2>2
<1> QED
  BY <1>1, <1>2, <1>3, <1>4, <1>5, <1>6 DEF RegistrarStep, AddGroupStep, UpdateGroupStep

LEMMA HandlerAdvances ==
  ASSUME IsFiniteSet(Category), TypeInv, MasksInv, GroupMasksInv, MuxerStep
  PROVE  HandlerLeft' < HandlerLeft
<1>a. /\ Muxer \in Thread /\ Muxer # Main
      /\ pc \in [Thread -> Label] /\ slot \in [Thread -> 0 .. MaxGroups]
      /\ pending \in [Thread -> SUBSET Category] /\ MaxGroups \in Nat
      /\ groups \in [GroupSlot -> Group \cup {Null}] /\ Members \in [Group -> SUBSET Category]
      /\ count \in Nat /\ idx \in Nat /\ idx <= count
      /\ pc[Muxer] = "category" => slot[Muxer] = 0
      /\ pc[Muxer] = "member" => slot[Muxer] < MaxGroups
  BY SizesAssumption, ThreadsAssumption, CategoriesAssumption
  DEF TypeInv, TypeOK, ThreadTypes, RegistryTypes, SessionTypes, ControlOK, Thread, MasksInv,
      GroupMasksInv
<1>b. UpdateSteps \in Nat /\ UpdateSteps >= 2
  BY UpdateStepsType, FS_CardinalityType
<1>c. \A n \in Nat : n * UpdateSteps \in Nat /\ (n + 1) * UpdateSteps = n * UpdateSteps + UpdateSteps
  BY <1>b, Products
<1> USE DEF HandlerLeft
<1>1. CASE UpdateCategory
  <2>1. pc[Muxer] = "category" /\ pc' = pc /\ idx < count /\ idx' = idx + 1 /\ count' = count
    BY <1>1 DEF UpdateCategory, NextCategory, threadVars
  <2>2. MaxGroups * UpdateSteps \in Nat
    BY <1>a, <1>c
  <2> QED
    BY <2>1, <2>2, <1>a
<1>2. CASE CategoriesDone
  <2>1. /\ pc[Muxer] = "category" /\ pc'[Muxer] = "group" /\ idx = count /\ slot' = slot
        /\ slot[Muxer] = 0
    BY <1>2, <1>a DEF CategoriesDone
  <2>2. MaxGroups * UpdateSteps \in Nat /\ MaxGroups - slot'[Muxer] = MaxGroups
    BY <2>1, <1>a, <1>c
  <2> QED
    BY <2>1, <2>2, <1>a
<1>3. CASE GroupLoad(Muxer)
  <2> DEFINE g == GroupAt(slot[Muxer])
             n == MaxGroups - slot[Muxer] - 1
  <2>1. /\ pc[Muxer] = "group" /\ pc'[Muxer] = "member" /\ pending'[Muxer] = Members[g]
        /\ g # Null /\ slot' = slot
    BY <1>3, <1>a DEF GroupLoad
  <2>2. g \in Group /\ slot[Muxer] < MaxGroups
    BY <2>1, <1>a DEF GroupAt, GroupSlot
  <2>3. Members[g] \in SUBSET Category
    BY <2>2, <1>a
  <2>4. Cardinality(Members[g]) \in Nat /\ Cardinality(Members[g]) + 2 <= UpdateSteps
    BY <2>3, UpdateStepsType
  <2>5. n \in Nat /\ n + 1 = MaxGroups - slot[Muxer]
    BY <2>2, <1>a
  <2>6. /\ n * UpdateSteps \in Nat
        /\ (MaxGroups - slot[Muxer]) * UpdateSteps = n * UpdateSteps + UpdateSteps
    BY <2>5, <1>c
  <2>7. HandlerLeft = n * UpdateSteps + UpdateSteps + 1
    BY <2>1, <2>6, <1>b
  <2>8. HandlerLeft' = n * UpdateSteps + Cardinality(Members[g]) + 2
    BY <2>1
  <2> QED
    BY <2>4, <2>6, <2>7, <2>8, <1>b
<1>4. ASSUME NEW c \in Category, MemberLoad(Muxer, c) PROVE HandlerLeft' < HandlerLeft
  <2> DEFINE n == MaxGroups - slot[Muxer] - 1
  <2>1. /\ pc[Muxer] = "member" /\ pc'[Muxer] = "member" /\ c \in pending[Muxer]
        /\ pending'[Muxer] = pending[Muxer] \ {c} /\ slot' = slot
    BY <1>4, <1>a DEF MemberLoad
  <2>2. IsFiniteSet(pending[Muxer]) /\ Cardinality(pending[Muxer]) \in Nat
    BY <1>a, UpdateStepsType
  <2>3. Cardinality(pending[Muxer] \ {c}) = Cardinality(pending[Muxer]) - 1
    BY <2>1, <2>2, FS_RemoveElement
  <2>4. n \in Nat
    BY <2>1, <1>a
  <2>5. n * UpdateSteps \in Nat
    BY <2>4, <1>c
  <2>6. HandlerLeft = n * UpdateSteps + Cardinality(pending[Muxer]) + 2
    BY <2>1
  <2>7. HandlerLeft' = n * UpdateSteps + Cardinality(pending[Muxer] \ {c}) + 2
    BY <2>1
  <2> QED
    BY <2>2, <2>3, <2>5, <2>6, <2>7
<1>5. CASE GroupStore(Muxer)
  <2> DEFINE n == MaxGroups - slot[Muxer] - 1
  <2>1. /\ pc[Muxer] = "member" /\ pc'[Muxer] = "group" /\ slot'[Muxer] = slot[Muxer] + 1
    BY <1>5, <1>a DEF GroupStore
  <2>2. Cardinality(pending[Muxer]) \in Nat
    BY <1>a, UpdateStepsType
  <2>3. n \in Nat /\ MaxGroups - slot'[Muxer] = n
    BY <2>1, <1>a
  <2>4. n * UpdateSteps \in Nat
    BY <2>3, <1>c
  <2>5. HandlerLeft = n * UpdateSteps + Cardinality(pending[Muxer]) + 2
    BY <2>1
  <2>6. HandlerLeft' = n * UpdateSteps + 1
    BY <2>1, <2>3
  <2> QED
    BY <2>2, <2>4, <2>5, <2>6
<1>6. CASE HandlerEnd
  <2>1. pc[Muxer] = "group" /\ pc'[Muxer] = "idle"
    BY <1>6, <1>a DEF HandlerEnd, LeaveHandler, Return
  <2>2. (MaxGroups - slot[Muxer]) * UpdateSteps \in Nat
    <3>1. MaxGroups - slot[Muxer] \in Nat
      BY <1>a
    <3> QED
      BY <3>1, <1>c
  <2> QED
    BY <2>1, <2>2
<1> QED
  BY <1>1, <1>2, <1>3, <1>4, <1>5, <1>6 DEF MuxerStep, UpdateGroupStep

LEMMA InitAdvances ==
  ASSUME TypeInv, IndexInv, MainStep
  PROVE  InitLeft' < InitLeft
<1>a. /\ Main \in Thread /\ pc \in [Thread -> Label]
      /\ slot \in [Thread -> 0 .. MaxGroups] /\ MaxGroups \in Nat
      /\ inI \in Nat /\ inI > 0
      /\ pc[Main] = "claim" => inI <= Len(args)
      /\ pc[Main] # "idle" => Len(args) \in Nat
  BY SizesAssumption, ListElements
  DEF TypeInv, TypeOK, ThreadTypes, InitTypes, ControlOK, Thread
<1> DEFINE U == MaxGroups + 2
<1>c. /\ U \in Nat /\ U >= 2 /\ U = MaxGroups + 2
      /\ \A n \in Nat : n * U \in Nat /\ (n + 1) * U = n * U + U
  BY <1>a, Products
<1> HIDE DEF U
<1>d. /\ pc[Main] = "store" => InitLeft = (Len(args) + 1 - inI) * U + 2
      /\ pc[Main] = "claim" =>
           InitLeft = (Len(args) - inI) * U + (MaxGroups - slot[Main]) + 2
      /\ pc[Main] = "register" => InitLeft = 1
  BY DEF InitLeft, U
<1>e. /\ pc'[Main] = "store" => InitLeft' = (Len(args') + 1 - inI') * U + 2
      /\ pc'[Main] = "claim" =>
           InitLeft' = (Len(args') - inI') * U + (MaxGroups - slot'[Main]) + 2
      /\ pc'[Main] = "register" => InitLeft' = 1
      /\ pc'[Main] = "idle" => InitLeft' = 0
  BY DEF InitLeft, U
\* The claim of the next element leaves no more than a turn of the list.
<1>n. ASSUME NEW k \in Nat, k <= Len(args) + 1, Len(args) \in Nat,
             NextGroup(k), args' = args
      PROVE  InitLeft' <= (Len(args) + 1 - k) * U + 1
  <2>1. CASE k <= Len(args)
    <3>1. pc'[Main] = "claim" /\ slot'[Main] = 0 /\ inI' = k
      BY <1>a, <1>n, <2>1 DEF NextGroup
    <3>2. Len(args) - k \in Nat /\ Len(args) - k + 1 = Len(args) + 1 - k
      BY <1>n, <2>1
    <3>3. (Len(args) - k) * U \in Nat /\ (Len(args) + 1 - k) * U = (Len(args) - k) * U + U
      BY <3>2, <1>c
    <3>4. InitLeft' = (Len(args) - k) * U + MaxGroups + 2
      BY <1>a, <1>n, <1>e, <3>1, <3>3
    <3> QED
      BY <1>a, <1>c, <3>3, <3>4
  <2>2. CASE k = Len(args) + 1
    <3>1. pc'[Main] = "register"
      BY <1>a, <1>n, <2>2 DEF NextGroup
    <3>2. Len(args) + 1 - k = 0
      BY <1>n, <2>2
    <3>3. (Len(args) + 1 - k) * U \in Nat
      BY <3>2, <1>c
    <3> QED
      BY <1>e, <3>1, <3>3
  <2> QED
    BY <1>n, <2>1, <2>2
<1>1. CASE StoreCategory \/ SkipCategory
  <2>1. /\ pc[Main] = "store" /\ pc' = pc /\ args' = args /\ inI' = inI + 1 /\ inI <= Len(args)
    BY <1>1 DEF StoreCategory, StoreAs, SkipCategory, AtRegular, threadVars
  <2>2. Len(args) - inI \in Nat /\ Len(args) - inI + 1 = Len(args) + 1 - inI
        /\ Len(args) + 1 - (inI + 1) = Len(args) - inI
    BY <1>a, <2>1
  <2>3. (Len(args) - inI) * U \in Nat /\ (Len(args) + 1 - inI) * U = (Len(args) - inI) * U + U
    BY <2>2, <1>c
  <2> DEFINE rest == (Len(args) - inI) * U
  <2>4. InitLeft = rest + U + 2
    BY <1>d, <2>1, <2>3
  <2>5. InitLeft' = rest + 2
    BY <1>e, <2>1, <2>2
  <2>6. rest \in Nat
    BY <2>3
  <2> HIDE DEF rest
  <2> QED
    BY <1>c, <2>4, <2>5, <2>6
<1>2. CASE PublishCount
  <2>1. pc[Main] = "store" /\ NextGroup(inI) /\ args' = args
    BY <1>2 DEF PublishCount
  <2>2. Len(args) \in Nat /\ inI <= Len(args) + 1
    BY <1>a, <2>1 DEF IndexInv
  <2>3. Len(args) + 1 - inI \in Nat
    BY <1>a, <2>2
  <2>4. (Len(args) + 1 - inI) * U \in Nat
    BY <2>3, <1>c
  <2>5. InitLeft' <= (Len(args) + 1 - inI) * U + 1
    BY <1>a, <1>n, <2>1, <2>2
  <2>6. InitLeft' \in Nat
    <3>1. TypeInv' /\ IndexInv'
      <4>1. TypeInv'
        BY <1>2, TypeInvStep DEF Next, MainStep
      <4>2. pc'[Main] # "store"
        BY <1>a, <2>1 DEF NextGroup
      <4> QED
        BY <4>1, <4>2 DEF IndexInv
    <3>2. (InitLeft \in Nat)'
      BY <3>1, InitLeftType, PTL
    <3> QED
      BY <3>2
  <2> QED
    BY <1>d, <2>1, <2>4, <2>5, <2>6
<1>3. CASE ClaimSlot(Main) \/ NoSlotLeft(Main)
  <2>1. /\ pc[Main] = "claim" /\ NextGroup(inI + 1) /\ args' = args
    BY <1>3 DEF ClaimSlot, TakeSlot, NoSlotLeft
  <2>2. Len(args) \in Nat /\ inI <= Len(args) /\ inI + 1 \in Nat
        /\ Len(args) + 1 - (inI + 1) = Len(args) - inI
    BY <1>a, <2>1
  <2>3. InitLeft' <= (Len(args) - inI) * U + 1
    <3>1. InitLeft' <= (Len(args) + 1 - (inI + 1)) * U + 1
      BY <1>a, <1>n, <2>1, <2>2
    <3> QED
      BY <2>2, <3>1
  <2>4. (Len(args) - inI) * U \in Nat
    <3>1. Len(args) - inI \in Nat
      BY <1>a, <2>2
    <3> QED
      BY <3>1, <1>c
  <2>5. InitLeft' \in Nat
    <3>1. TypeInv' /\ IndexInv'
      <4>1. TypeInv'
        BY <1>3, TypeInvStep DEF Next, MainStep, AddGroupStep
      <4>2. pc'[Main] # "store"
        BY <1>a, <2>1 DEF NextGroup
      <4> QED
        BY <4>1, <4>2 DEF IndexInv
    <3>2. (InitLeft \in Nat)'
      BY <3>1, InitLeftType, PTL
    <3> QED
      BY <3>2
  <2> QED
    BY <1>a, <1>d, <2>1, <2>3, <2>4, <2>5
<1>4. CASE SlotTaken(Main)
  <2>1. /\ pc[Main] = "claim" /\ pc' = pc /\ slot'[Main] = slot[Main] + 1
        /\ slot[Main] < MaxGroups /\ args' = args /\ inI' = inI
    BY <1>4, <1>a DEF SlotTaken, initVars
  <2>2. (Len(args) - inI) * U \in Nat
    <3>1. Len(args) - inI \in Nat
      BY <1>a, <2>1
    <3> QED
      BY <3>1, <1>c
  <2>3. InitLeft = (Len(args) - inI) * U + (MaxGroups - slot[Main]) + 2
        /\ InitLeft' = (Len(args) - inI) * U + (MaxGroups - (slot[Main] + 1)) + 2
    BY <1>d, <1>e, <2>1
  <2> QED
    BY <1>a, <2>2, <2>3
<1>5. ASSUME NEW ok \in BOOLEAN, RegisterDataSource(ok) PROVE InitLeft' < InitLeft
  <2>1. pc[Main] = "register" /\ pc'[Main] = "idle"
    BY <1>5, <1>a DEF RegisterDataSource, Return
  <2> QED
    BY <1>d, <1>e, <2>1
<1> QED
  BY <1>1, <1>2, <1>3, <1>4, <1>5 DEF MainStep, AddGroupStep

\* The call of t is where it was.
LEMMA SamePlace ==
  ASSUME NEW t \in Thread, UNCHANGED <<pc[t], slot[t], pending[t]>>,
         t = Main => UNCHANGED <<args, inI>>, t = Muxer => UNCHANGED <<count, idx>>
  PROVE  StepsLeft(t)' = StepsLeft(t)
<1>1. CASE t = Main
  BY <1>1 DEF StepsLeft, InitLeft
<1>2. CASE t = Muxer /\ t # Main
  BY <1>2 DEF StepsLeft, HandlerLeft
<1>3. CASE t # Muxer /\ t # Main
  BY <1>3 DEF StepsLeft, RegistrarLeft
<1> QED
  BY <1>1, <1>2, <1>3

\* Other threads, and the beginnings of calls, leave a call where it is.
LEMMA OthersKeepPlace ==
  ASSUME TypeInv, [Next]_vars, NEW t \in Thread, ~ThreadStep(t), pc[t] # "idle"
  PROVE  StepsLeft(t)' = StepsLeft(t)
<1>a. /\ pc \in [Thread -> Label] /\ slot \in [Thread -> 0 .. MaxGroups]
      /\ pending \in [Thread -> SUBSET Category]
      /\ Main # Muxer /\ Main \notin Registrar /\ Muxer \notin Registrar
      /\ Thread = Registrar \cup {Main, Muxer}
  BY ThreadsAssumption DEF TypeInv, TypeOK, ThreadTypes, Thread
<1> DEFINE Same == /\ UNCHANGED <<pc[t], slot[t], pending[t]>>
                   /\ t = Main => UNCHANGED <<args, inI>>
                   /\ t = Muxer => UNCHANGED <<count, idx>>
<1>1. ASSUME MainStep PROVE Same
  <2>1. t # Main
    BY <1>1 DEF ThreadStep
  <2>2. ASSUME NextGroup(inI) \/ NextGroup(inI + 1) \/ Return(Main)
        PROVE  UNCHANGED <<pc[t], slot[t], pending[t]>>
    BY <1>a, <2>1, <2>2 DEF NextGroup, Return
  <2>3. UNCHANGED <<pc[t], slot[t], pending[t]>>
    BY <1>1, <1>a, <2>1, <2>2 DEF MainStep, StoreCategory, StoreAs, SkipCategory, PublishCount,
       AddGroupStep, ClaimSlot, TakeSlot, SlotTaken, NoSlotLeft, RegisterDataSource, threadVars
  <2>4. UNCHANGED <<count, idx>>
    BY <1>1 DEF MainStep, StoreCategory, StoreAs, SkipCategory, PublishCount,
       AddGroupStep, ClaimSlot, TakeSlot, SlotTaken, NoSlotLeft, RegisterDataSource, handlerVars
  <2> QED
    BY <2>1, <2>3, <2>4
<1>2. ASSUME MuxerStep PROVE Same
  <2>1. t # Muxer
    BY <1>2, <1>a DEF ThreadStep
  <2>2. ASSUME Return(Muxer) PROVE UNCHANGED <<pc[t], slot[t], pending[t]>>
    BY <1>a, <2>1, <2>2 DEF Return
  <2>3. UNCHANGED <<pc[t], slot[t], pending[t]>>
    BY <1>2, <1>a, <2>1, <2>2 DEF MuxerStep, UpdateCategory, NextCategory, CategoriesDone,
       UpdateGroupStep, GroupLoad, MemberLoad, GroupStore, HandlerEnd, LeaveHandler, threadVars
  <2>4. UNCHANGED <<args, inI>>
    BY <1>2 DEF MuxerStep, UpdateCategory, NextCategory, CategoriesDone,
       UpdateGroupStep, GroupLoad, MemberLoad, GroupStore, HandlerEnd, LeaveHandler, initVars
  <2> QED
    BY <2>1, <2>3, <2>4
<1>3. ASSUME NEW r \in Registrar, RegistrarStep(r) PROVE Same
  <2>1. t # r /\ r # Main /\ r # Muxer
    BY <1>3, <1>a DEF ThreadStep
  <2>2. ASSUME Return(r) PROVE UNCHANGED <<pc[t], slot[t], pending[t]>>
    BY <1>a, <2>1, <2>2 DEF Return
  <2>3. CASE AddGroupStep(r)
    <3>1. UNCHANGED <<pc[t], slot[t], pending[t]>>
      BY <1>a, <2>1, <2>2, <2>3 DEF AddGroupStep, ClaimSlot, TakeSlot, SlotTaken, NoSlotLeft
    <3>2. UNCHANGED <<args, inI, count, idx>>
      BY <2>1, <2>3 DEF AddGroupStep, ClaimSlot, TakeSlot, SlotTaken, NoSlotLeft, initVars,
         handlerVars
    <3> QED
      BY <3>1, <3>2
  <2>4. CASE UpdateGroupStep(r)
    <3>1. UNCHANGED <<pc[t], slot[t], pending[t]>>
      BY <1>a, <2>1, <2>2, <2>4 DEF UpdateGroupStep, GroupLoad, MemberLoad, GroupStore
    <3>2. UNCHANGED <<args, inI, count, idx>>
      BY <2>4 DEF UpdateGroupStep, GroupLoad, MemberLoad, GroupStore, initVars, handlerVars
    <3> QED
      BY <3>1, <3>2
  <2> QED
    BY <1>3, <2>3, <2>4 DEF RegistrarStep
<1>4. ASSUME NEW l \in InitLists, InitCall(l) PROVE Same
  BY <1>4, <1>a DEF InitCall, EnterInit, handlerVars
<1>5. ASSUME NEW l \in InitLists, InitClockError(l) PROVE Same
  BY <1>5 DEF InitClockError, handlerVars, threadVars
<1>6. ASSUME NEW r \in Registrar, NEW g \in Group, RegisterGroup(r, g) PROVE Same
  BY <1>6, <1>a DEF RegisterGroup, initVars, handlerVars
<1>7. ASSUME NEW i \in Instance, OnStop(i) \/ \E W \in Configs : OnSetup(i, W) PROVE Same
  BY <1>7, <1>a DEF OnStop, OnSetup, BeginHandler, StartLoop, initVars
<1>8. ASSUME NEW i \in Instance, OnSetupRejected(i) PROVE Same
  BY <1>8 DEF OnSetupRejected, initVars, handlerVars, threadVars
<1>9. ASSUME UNCHANGED vars PROVE Same
  BY <1>9 DEF vars, initVars, handlerVars, threadVars
<1>10. Same
  BY <1>1, <1>2, <1>3, <1>4, <1>5, <1>6, <1>7, <1>8, <1>9 DEF Next, Call
<1> QED
  BY <1>10, SamePlace

LEMMA IndexInvInit == Init => IndexInv
BY DEF Init, IndexInv, Thread

LEMMA IndexInvStep == TypeInv /\ IndexInv /\ [Next]_vars => IndexInv'
<1> SUFFICES ASSUME TypeInv, IndexInv, [Next]_vars, pc'[Main] = "store"
             PROVE  inI' <= Len(args') + 1
  BY DEF IndexInv
<1>a. /\ pc \in [Thread -> Label] /\ Main \in Thread /\ inI \in Nat
      /\ Main # Muxer /\ Main \notin Registrar
      /\ pc[Main] = "store" => inI <= Len(args) + 1 /\ Len(args) \in Nat
  BY ThreadsAssumption, ListElements
  DEF TypeInv, TypeOK, InitTypes, ThreadTypes, ControlOK, IndexInv, Thread
<1> DEFINE Kept == pc'[Main] = pc[Main] /\ args' = args /\ inI' = inI
<1>1. ASSUME Kept PROVE inI' <= Len(args') + 1
  BY <1>1, <1>a
<1>2. ASSUME NEW l \in InitLists, InitCall(l) PROVE inI' <= Len(args') + 1
  <2>1. Len(l) \in Nat
    BY ListsAssumption
  <2> QED
    BY <1>2, <2>1 DEF InitCall, EnterInit
<1>3. CASE StoreCategory \/ SkipCategory
  BY <1>3, <1>a DEF StoreCategory, StoreAs, SkipCategory, AtRegular
<1>4. CASE PublishCount \/ ClaimSlot(Main) \/ NoSlotLeft(Main)
  BY <1>4, <1>a DEF PublishCount, ClaimSlot, TakeSlot, NoSlotLeft, NextGroup
<1>5. CASE SlotTaken(Main)
  BY <1>5, <1>a DEF SlotTaken, TypeInv, ControlOK
<1>6. ASSUME NEW ok \in BOOLEAN, RegisterDataSource(ok) PROVE FALSE
  BY <1>6, <1>a DEF RegisterDataSource, Return
<1>7. ASSUME NEW r \in Registrar, RegistrarStep(r) PROVE Kept
  BY <1>7, <1>a DEF RegistrarStep, AddGroupStep, ClaimSlot, TakeSlot, SlotTaken, NoSlotLeft,
     UpdateGroupStep, GroupLoad, MemberLoad, GroupStore, Return, initVars
<1>8. ASSUME MuxerStep PROVE Kept
  BY <1>8, <1>a DEF MuxerStep, UpdateCategory, NextCategory, CategoriesDone,
     UpdateGroupStep, GroupLoad, MemberLoad, GroupStore, HandlerEnd, LeaveHandler, Return,
     initVars, threadVars
<1>9. ASSUME NEW r \in Registrar, NEW g \in Group, RegisterGroup(r, g) PROVE Kept
  BY <1>9, <1>a DEF RegisterGroup, initVars
<1>10. ASSUME NEW i \in Instance,
              OnStop(i) \/ OnSetupRejected(i) \/ \E W \in Configs : OnSetup(i, W)
       PROVE  Kept
  BY <1>10, <1>a DEF OnStop, OnSetup, OnSetupRejected, BeginHandler, StartLoop, initVars,
     threadVars
<1>11. ASSUME NEW l \in InitLists, InitClockError(l) PROVE Kept
  BY <1>11 DEF InitClockError, threadVars
<1>12. ASSUME UNCHANGED vars PROVE Kept
  BY <1>12 DEF vars, initVars, threadVars
<1> QED
  BY <1>1, <1>2, <1>3, <1>4, <1>5, <1>6, <1>7, <1>8, <1>9, <1>10, <1>11, <1>12
  DEF Next, Call, MainStep, AddGroupStep

\* No call has infinitely many steps left, and a registering thread's has as many
\* as there are slots to try and members to load, and three.
StepsBounded ==
  /\ \A t \in Thread : StepsLeft(t) \in Nat
  /\ \A r \in Registrar : StepsLeft(r) <= MaxGroups + Cardinality(Category) + 3

LEMMA StepsAreBounded ==
  ASSUME IsFiniteSet(Category), TypeInv, MasksInv, IndexInv
  PROVE  StepsBounded
<1>a. Main # Muxer /\ Main \notin Registrar /\ Muxer \notin Registrar
  BY ThreadsAssumption
<1>1. ASSUME NEW t \in Thread PROVE StepsLeft(t) \in Nat
  <2>1. t \in Registrar \/ t = Main \/ t = Muxer
    BY DEF Thread
  <2> QED
    BY <2>1, <1>a, InitLeftType, HandlerLeftType, RegistrarLeftType DEF StepsLeft
<1>2. ASSUME NEW r \in Registrar
      PROVE  StepsLeft(r) <= MaxGroups + Cardinality(Category) + 3
  <2>1. /\ slot[r] \in 0 .. MaxGroups /\ pending[r] \in SUBSET Category
        /\ MaxGroups \in Nat /\ Cardinality(Category) \in Nat
    BY SizesAssumption, FS_CardinalityType DEF TypeInv, TypeOK, ThreadTypes, Thread
  <2>2. StepsLeft(r) = RegistrarLeft(r)
    BY <1>a DEF StepsLeft
  <2>3. Cardinality(pending[r]) \in Nat /\ Cardinality(pending[r]) + 2 <= UpdateSteps
    BY <2>1, UpdateStepsType
  <2> QED
    BY <2>1, <2>2, <2>3, UpdateStepsType DEF RegistrarLeft
<1> QED
  BY <1>1, <1>2 DEF StepsBounded

LEMMA CallsAdvanceStep ==
  ASSUME IsFiniteSet(Category), TypeInv, MasksInv, GroupMasksInv, IndexInv, [Next]_vars,
         StepsBounded, StepsBounded'
  PROVE  CallsAdvance
<1> SUFFICES ASSUME NEW t \in Thread
             PROVE  /\ ThreadStep(t) => StepsLeft(t)' < StepsLeft(t)
                    /\ pc[t] # "idle" => StepsLeft(t)' <= StepsLeft(t)
  BY DEF CallsAdvance
<1>a. t \in Registrar \/ t = Main \/ t = Muxer
  BY DEF Thread
<1>b. Main # Muxer /\ Main \notin Registrar /\ Muxer \notin Registrar
  BY ThreadsAssumption
<1>1. StepsLeft(t) \in Nat /\ StepsLeft(t)' \in Nat
  BY DEF StepsBounded
<1>2. ASSUME ThreadStep(t) PROVE StepsLeft(t)' < StepsLeft(t)
  BY <1>2, <1>a, <1>b, InitAdvances, HandlerAdvances, RegistrarAdvances DEF StepsLeft, ThreadStep
<1>3. ASSUME ~ThreadStep(t), pc[t] # "idle" PROVE StepsLeft(t)' = StepsLeft(t)
  BY <1>3, OthersKeepPlace
<1> QED
  BY <1>1, <1>2, <1>3

\* percetto_register_group_category is wait-free: whatever other threads do in
\* between, a call returns after at most MaxGroups + Cardinality(Category) + 3
\* steps of its own.  percetto_init and the handlers also take a bounded number
\* of steps, however many groups are added while a handler walks over them.
THEOREM WaitFree ==
  ASSUME IsFiniteSet(Category)
  PROVE  SafeSpec => []StepsBounded /\ [][CallsAdvance]_vars
<1>1. TypeInv /\ MasksInv /\ IndexInv => StepsBounded
  BY StepsAreBounded
<1>2. /\ TypeInv /\ MasksInv /\ GroupMasksInv /\ IndexInv /\ [Next]_vars
      /\ StepsBounded /\ StepsBounded'
      => CallsAdvance
  BY CallsAdvanceStep
<1> QED
  BY <1>1, <1>2, TypeInvInit, TypeInvStep, RegistryInvInit, RegistryInvStep, MasksInvInit,
     MasksInvStep, GroupSlotsInvInit, GroupSlotsInvStep, OwnershipInvInit, OwnershipInvStep,
     GroupMasksInvInit, GroupMasksInvStep, IndexInvInit, IndexInvStep, PTL DEF SafeSpec

-----------------------------------------------------------------------------
(* What TraceEvents takes a group's mask to be *)

VARIABLE seen    \* history: bits that the masks of each group's members have ever shown

SeenSpec ==
  /\ SafeSpec
  /\ seen = [g \in Group |-> {}]
  /\ [][seen' = [g \in Group |-> seen[g] \cup Bits(sessions', Members[g])]]_<<vars, seen>>

\* Members' masks, a sum of them that a thread is still making, and the group's
\* mask, show only what has been seen.
SeenInv ==
  /\ seen \in [Group -> SUBSET Instance]
  /\ \A g \in Group : \A c \in Members[g] : sessions[c] \subseteq seen[g]
  /\ \A g \in Group : sessions[g] \subseteq seen[g]
  /\ \A t \in Thread :
       pc[t] = "member" =>
         pending[t] \subseteq Members[grp[t]] /\ acc[t] \subseteq seen[grp[t]]

\* A group's mask changes as UpdateGroupCategory of TraceEvents says: the group is in
\* the array, and the mask is made of bits seen in its members' masks.
GroupMaskSeen ==
  \A g \in Group :
    sessions'[g] # sessions[g] =>
      (\E k \in GroupSlot : groups[k] = g) /\ sessions'[g] \in SUBSET seen[g]

\* The steps outside UpdateGroupCategory and the handlers' loop.
Elsewhere ==
  /\ sessions' = sessions
  /\ \A t \in Thread :
       pc'[t] = "member" =>
         pc[t] = "member" /\ acc'[t] = acc[t] /\ pending'[t] = pending[t] /\ grp'[t] = grp[t]

LEMMA MaskSteps ==
  ASSUME TypeInv, [Next]_vars
  PROVE  \/ UpdateCategory \/ Elsewhere
         \/ \E t \in Thread :
              GroupLoad(t) \/ GroupStore(t) \/ \E c \in Category : MemberLoad(t, c)
<1>a. /\ pc \in [Thread -> Label]
      /\ Main \in Thread /\ Muxer \in Thread /\ Registrar \subseteq Thread
  BY DEF TypeInv, TypeOK, ThreadTypes, Thread
<1> DEFINE Moved(t) == \A u \in Thread : u # t => pc'[u] = pc[u] /\ grp'[u] = grp[u]
                           /\ pending'[u] = pending[u] /\ acc'[u] = acc[u]
<1>b. /\ grp \in [Thread -> Group \cup {Null}] /\ pending \in [Thread -> SUBSET Category]
      /\ acc \in [Thread -> SUBSET Instance]
  BY DEF TypeInv, TypeOK, ThreadTypes
<1>c. ASSUME NEW t \in Thread, Return(t) PROVE Moved(t) /\ pc'[t] = "idle"
  BY <1>a, <1>b, <1>c DEF Return
<1>d. ASSUME NEW k, NextGroup(k) PROVE Moved(Main) /\ pc'[Main] # "member"
  BY <1>a, <1>b, <1>d DEF NextGroup
<1>e. ASSUME NEW t \in Thread, sessions' = sessions, Moved(t), pc'[t] # "member"
      PROVE  Elsewhere
  BY <1>e DEF Elsewhere
<1>f. ASSUME UNCHANGED <<sessions, pc, grp, pending, acc>> PROVE Elsewhere
  BY <1>f DEF Elsewhere
<1> HIDE DEF Moved
<1>1. ASSUME NEW l \in InitLists, InitCall(l) \/ InitClockError(l) PROVE Elsewhere
  <2>1. CASE InitCall(l)
    <3>1. sessions' = sessions /\ Moved(Main) /\ pc'[Main] # "member"
      BY <1>a, <2>1 DEF InitCall, EnterInit, Moved
    <3> QED
      BY <1>a, <1>e, <3>1
  <2>2. CASE InitClockError(l)
    BY <1>f, <2>2 DEF InitClockError, threadVars
  <2> QED
    BY <1>1, <2>1, <2>2
<1>2. ASSUME NEW r \in Registrar, NEW g \in Group, RegisterGroup(r, g) PROVE Elsewhere
  <2>1. sessions' = sessions /\ Moved(r) /\ pc'[r] # "member"
    BY <1>a, <1>b, <1>2 DEF RegisterGroup, Moved
  <2> QED
    BY <1>a, <1>e, <2>1
<1>3. ASSUME NEW i \in Instance,
             (\E W \in Configs : OnSetup(i, W)) \/ OnSetupRejected(i) \/ OnStop(i)
      PROVE  Elsewhere
  <2>1. CASE OnSetupRejected(i)
    BY <1>f, <2>1 DEF OnSetupRejected, threadVars
  <2>2. CASE BeginHandler(i)
    <3>1. sessions' = sessions /\ Moved(Muxer) /\ pc'[Muxer] # "member"
      BY <1>a, <2>2 DEF BeginHandler, StartLoop, Moved
    <3> QED
      BY <1>a, <1>e, <3>1
  <2> QED
    BY <1>3, <2>1, <2>2 DEF OnSetup, OnStop
<1>4. CASE StoreCategory \/ SkipCategory
  BY <1>4, <1>f DEF StoreCategory, StoreAs, SkipCategory, threadVars
<1>5. CASE PublishCount \/ \E ok \in BOOLEAN : RegisterDataSource(ok)
  <2>1. sessions' = sessions /\ Moved(Main) /\ pc'[Main] # "member"
    BY <1>5, <1>a, <1>c, <1>d DEF PublishCount, RegisterDataSource
  <2> QED
    BY <1>a, <1>e, <2>1
<1>6. ASSUME NEW t \in Thread, AddGroupStep(t) PROVE Elsewhere
  <2>1. CASE ClaimSlot(t)
    <3>1. sessions' = sessions
      BY <2>1 DEF ClaimSlot, TakeSlot
    <3>2. Moved(t) /\ pc'[t] # "member"
      BY <1>a, <1>d, <2>1 DEF ClaimSlot, TakeSlot, Moved
    <3> QED
      BY <1>e, <3>1, <3>2
  <2>2. CASE SlotTaken(t)
    BY <1>f, <2>2 DEF SlotTaken
  <2>3. CASE NoSlotLeft(t)
    <3>1. sessions' = sessions
      BY <2>3 DEF NoSlotLeft
    <3>2. Moved(t) /\ pc'[t] # "member"
      BY <1>c, <1>d, <2>3 DEF NoSlotLeft
    <3> QED
      BY <1>e, <3>1, <3>2
  <2> QED
    BY <1>6, <2>1, <2>2, <2>3 DEF AddGroupStep
<1>7. CASE CategoriesDone
  <2>1. sessions' = sessions /\ Moved(Muxer) /\ pc'[Muxer] # "member"
    BY <1>a, <1>7 DEF CategoriesDone, Moved
  <2> QED
    BY <1>a, <1>e, <2>1
<1>8. CASE HandlerEnd
  <2>1. sessions' = sessions /\ Moved(Muxer) /\ pc'[Muxer] # "member"
    BY <1>a, <1>c, <1>8 DEF HandlerEnd, LeaveHandler
  <2> QED
    BY <1>a, <1>e, <2>1
<1>9. CASE UNCHANGED vars
  BY <1>f, <1>9 DEF vars, threadVars
<1> QED
  BY <1>a, <1>1, <1>2, <1>3, <1>4, <1>5, <1>6, <1>7, <1>8, <1>9
  DEF Next, Call, MainStep, MuxerStep, RegistrarStep, UpdateGroupStep

LEMMA SeenInvStep ==
  ASSUME TypeInv, RegistryInv, MasksInv, GroupSlotsInv, SeenInv, [Next]_vars,
         seen' = [g \in Group |-> seen[g] \cup Bits(sessions', Members[g])]
  PROVE  SeenInv' /\ GroupMaskSeen
<1>a. /\ sessions \in [Category \cup Group -> SUBSET Instance]
      /\ pc \in [Thread -> Label] /\ grp \in [Thread -> Group \cup {Null}]
      /\ pending \in [Thread -> SUBSET Category] /\ acc \in [Thread -> SUBSET Instance]
      /\ Members \in [Group -> SUBSET Category] /\ Category \cap Group = {}
  <2>1. Members \in [Group -> SUBSET Category] /\ Category \cap Group = {}
    BY CategoriesAssumption
  <2>2. /\ sessions \in [Category \cup Group -> SUBSET Instance]
        /\ pc \in [Thread -> Label] /\ grp \in [Thread -> Group \cup {Null}]
        /\ pending \in [Thread -> SUBSET Category] /\ acc \in [Thread -> SUBSET Instance]
    BY DEF TypeInv, TypeOK, SessionTypes, RegistryTypes, ThreadTypes
  <2> QED
    BY <2>1, <2>2
<1>b. sessions' \in [Category \cup Group -> SUBSET Instance]
  <2>1. TypeInv'
    BY TypeInvStep
  <2> QED
    BY <2>1 DEF TypeInv, TypeOK, SessionTypes, RegistryTypes
<1>1. seen' \in [Group -> SUBSET Instance]
  BY <1>a, <1>b DEF SeenInv, Bits
<1>2. \A g \in Group : seen[g] \subseteq seen'[g]
  OBVIOUS
<1>3. \A g \in Group : \A c \in Members[g] : sessions'[c] \subseteq seen'[g]
  BY DEF Bits
<1>4. ASSUME NEW t \in Thread, pc[t] = "member" PROVE grp[t] \in Group
  BY <1>4 DEF GroupSlotsInv
<1>5. CASE UpdateCategory
  <2>1. categories[idx] \in Category
    <3>1. idx \in Nat /\ count \in Nat /\ categoryCount \in Nat /\ idx < count
      BY <1>5, SizesAssumption
      DEF UpdateCategory, NextCategory, TypeInv, TypeOK, RegistryTypes, SessionTypes
    <3>2. count <= categoryCount
      BY DEF MasksInv
    <3> QED
      BY <3>1, <3>2, RegistrySlots
  <2>2. /\ UNCHANGED <<pc, grp, pending, acc>>
        /\ \A g \in Group : sessions'[g] = sessions[g]
    BY <1>5, <1>a, <2>1 DEF UpdateCategory, NextCategory, threadVars
  <2> QED
    BY <1>1, <1>2, <1>3, <1>4, <2>2 DEF SeenInv, GroupMaskSeen
<1>6. CASE Elsewhere
  BY <1>6, <1>1, <1>2, <1>3, <1>4 DEF SeenInv, GroupMaskSeen, Elsewhere
<1>7. ASSUME NEW t \in Thread, GroupLoad(t) PROVE SeenInv' /\ GroupMaskSeen
  <2>1. UNCHANGED sessions
    BY <1>7 DEF GroupLoad
  <2>2. ASSUME NEW u \in Thread, pc'[u] = "member"
        PROVE  pending'[u] \subseteq Members[grp'[u]] /\ acc'[u] \subseteq seen'[grp'[u]]
    <3>1. CASE u = t
      BY <1>7, <1>a, <3>1 DEF GroupLoad
    <3>2. CASE u # t
      <4>1. pc[u] = "member" /\ grp'[u] = grp[u] /\ pending'[u] = pending[u] /\ acc'[u] = acc[u]
        BY <1>7, <1>a, <2>2, <3>2 DEF GroupLoad
      <4> QED
        BY <4>1, <1>2, <1>4 DEF SeenInv
    <3> QED
      BY <3>1, <3>2
  <2> QED
    BY <1>1, <1>2, <1>3, <2>1, <2>2 DEF SeenInv, GroupMaskSeen
<1>8. ASSUME NEW t \in Thread, NEW c \in Category, MemberLoad(t, c)
      PROVE  SeenInv' /\ GroupMaskSeen
  <2>1. /\ UNCHANGED <<sessions, pc, grp>> /\ pc[t] = "member" /\ c \in pending[t]
        /\ acc' = [acc EXCEPT ![t] = acc[t] \cup sessions[c]]
        /\ pending' = [pending EXCEPT ![t] = pending[t] \ {c}]
    BY <1>8 DEF MemberLoad
  <2>2. acc[t] \cup sessions[c] \subseteq seen[grp[t]]
    BY <2>1, <1>4 DEF SeenInv
  <2>3. ASSUME NEW u \in Thread, pc'[u] = "member"
        PROVE  pending'[u] \subseteq Members[grp'[u]] /\ acc'[u] \subseteq seen'[grp'[u]]
    BY <1>a, <1>2, <1>4, <2>1, <2>2, <2>3 DEF SeenInv
  <2> QED
    BY <1>1, <1>2, <1>3, <2>1, <2>3 DEF SeenInv, GroupMaskSeen
<1>9. ASSUME NEW t \in Thread, GroupStore(t) PROVE SeenInv' /\ GroupMaskSeen
  <2>1. /\ pc[t] = "member" /\ sessions' = [sessions EXCEPT ![grp[t]] = acc[t]]
        /\ grp[t] \in Group /\ slot[t] \in GroupSlot /\ groups[slot[t]] = grp[t]
    BY <1>9 DEF GroupStore, GroupSlotsInv
  <2>2. acc[t] \subseteq seen[grp[t]]
    BY <2>1 DEF SeenInv
  <2>3. \A g \in Group : sessions'[g] = IF g = grp[t] THEN acc[t] ELSE sessions[g]
    BY <1>a, <2>1
  <2>4. ASSUME NEW u \in Thread, pc'[u] = "member"
        PROVE  pc[u] = "member" /\ grp'[u] = grp[u] /\ pending'[u] = pending[u] /\ acc'[u] = acc[u]
    BY <1>9, <1>a, <2>4 DEF GroupStore, Return
  <2>5. GroupMaskSeen
    BY <2>1, <2>2, <2>3 DEF GroupMaskSeen
  <2>6. \A g \in Group : sessions'[g] \subseteq seen'[g]
    BY <1>2, <2>2, <2>3 DEF SeenInv
  <2>7. \A u \in Thread :
          pc'[u] = "member" =>
            pending'[u] \subseteq Members[grp'[u]] /\ acc'[u] \subseteq seen'[grp'[u]]
    BY <1>2, <1>4, <2>4 DEF SeenInv
  <2> QED
    BY <1>1, <1>3, <2>5, <2>6, <2>7 DEF SeenInv
<1> QED
  BY <1>5, <1>6, <1>7, <1>8, <1>9, MaskSteps

\* However long a thread was interrupted between its loads and its store, and
\* whichever handlers ran meanwhile, the mask that it gives a group is made of bits
\* that members had at some time: the group masks of TraceEvents include those of the code.
THEOREM GroupMasksSeen == SeenSpec => [][GroupMaskSeen]_<<vars, seen>>
<1>1. Init /\ seen = [g \in Group |-> {}] => SeenInv
  BY CategoriesAssumption DEF Init, SeenInv, Thread
<1>2. /\ TypeInv /\ RegistryInv /\ MasksInv /\ GroupSlotsInv /\ SeenInv /\ [Next]_vars
      /\ [seen' = [g \in Group |-> seen[g] \cup Bits(sessions', Members[g])]]_<<vars, seen>>
      => SeenInv' /\ [GroupMaskSeen]_<<vars, seen>>
  <2> SUFFICES ASSUME TypeInv, RegistryInv, MasksInv, GroupSlotsInv, SeenInv, [Next]_vars,
                      [seen' = [g \in Group |-> seen[g] \cup Bits(sessions', Members[g])]]_<<vars, seen>>
               PROVE  SeenInv' /\ [GroupMaskSeen]_<<vars, seen>>
    OBVIOUS
  <2>1. CASE UNCHANGED <<vars, seen>>
    BY <2>1 DEF vars, threadVars, SeenInv
  <2>2. CASE seen' = [g \in Group |-> seen[g] \cup Bits(sessions', Members[g])]
    BY <2>2, SeenInvStep
  <2> QED
    BY <2>1, <2>2
<1> QED
  BY <1>1, <1>2, TypeInvInit, TypeInvStep, RegistryInvInit, RegistryInvStep, MasksInvInit,
     MasksInvStep, GroupSlotsInvInit, GroupSlotsInvStep, PTL DEF SeenSpec, SafeSpec

=============================================================================

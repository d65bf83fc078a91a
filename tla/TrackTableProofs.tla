-------------------------- MODULE TrackTableProofs --------------------------
(***************************************************************************)
(* What the track table keeps true.  TrackRegistry implements the table,   *)
(* so the array of tracks keeps it as well.                                *)
(***************************************************************************)
EXTENDS TrackTable, TLAPS

TypeOK ==
  /\ owner \in [Slot -> Track \cup {Null}]
  /\ outcome \in [Track -> {"none", "ok", "full"}]

\* A track has a slot, and only one, just if its registration has succeeded.
OwnersRegistered ==
  /\ \A k \in Slot : owner[k] # Null => outcome[owner[k]] = "ok"
  /\ \A x \in Track : outcome[x] = "ok" => \E k \in Slot : owner[k] = x
  /\ \A j, k \in Slot : owner[j] # Null /\ owner[j] = owner[k] => j = k

\* The taken slots are the first ones, and all of them if a track was refused.
SlotsDense ==
  /\ \A j, k \in Slot : j < k /\ owner[k] # Null => owner[j] # Null
  /\ \A x \in Track : outcome[x] = "full" => \A k \in Slot : owner[k] # Null

TableInv == TypeOK /\ OwnersRegistered /\ SlotsDense

\* A slot keeps its owner, and a call's outcome stands.
TableKept ==
  /\ \A k \in Slot : owner[k] # Null => owner'[k] = owner[k]
  /\ \A x \in Track : outcome[x] # "none" => outcome'[x] = outcome[x]

LEMMA TableInvInit ==
  ASSUME Null \notin Track, Init
  PROVE  TableInv
BY DEF Init, TableInv, TypeOK, OwnersRegistered, SlotsDense

LEMMA TableInvStep ==
  ASSUME Null \notin Track, MaxTracks \in Nat, TableInv, [Next]_vars
  PROVE  TableInv'
<1> USE DEF TableInv, TypeOK
<1>1. ASSUME NEW x \in Track, Accept(x) PROVE TableInv'
  <2>1. PICK s \in Slot :
          /\ owner[s] = Null /\ \A j \in Slot : j < s => owner[j] # Null
          /\ owner' = [owner EXCEPT ![s] = x]
    BY <1>1 DEF Accept
  <2>2. outcome[x] = "none" /\ outcome' = [outcome EXCEPT ![x] = "ok"]
    BY <1>1 DEF Accept
  <2>3. TypeOK'
    BY <2>1, <2>2
  <2>4. \A k \in Slot : owner[k] # x
    BY <2>2 DEF OwnersRegistered
  <2>5. OwnersRegistered'
    BY <2>1, <2>2, <2>4 DEF OwnersRegistered
  <2>6. SlotsDense'
    BY <2>1, <2>2 DEF SlotsDense, Slot
  <2> QED
    BY <2>3, <2>5, <2>6
<1>2. ASSUME NEW x \in Track, Refuse(x) PROVE TableInv'
  BY <1>2 DEF Refuse, OwnersRegistered, SlotsDense
<1>3. CASE UNCHANGED vars
  BY <1>3 DEF vars, OwnersRegistered, SlotsDense
<1> QED
  BY <1>1, <1>2, <1>3 DEF Next

LEMMA TableKeptStep ==
  ASSUME TableInv, [Next]_vars
  PROVE  TableKept
<1> USE DEF TableInv, TypeOK, TableKept
<1>1. ASSUME NEW x \in Track, Accept(x) PROVE TableKept
  BY <1>1 DEF Accept
<1>2. ASSUME NEW x \in Track, Refuse(x) PROVE TableKept
  BY <1>2 DEF Refuse
<1>3. CASE UNCHANGED vars
  BY <1>3 DEF vars
<1> QED
  BY <1>1, <1>2, <1>3 DEF Next

\* Registered tracks own one slot each, from the front, and a track is refused
\* only when no slot is left.
THEOREM TableCorrect ==
  ASSUME Null \notin Track, MaxTracks \in Nat
  PROVE  Spec => []TableInv
<1>1. Init => TableInv
  BY TableInvInit
<1>2. TableInv /\ [Next]_vars => TableInv'
  BY TableInvStep
<1> QED
  BY <1>1, <1>2, PTL DEF Spec

\* A slot never changes hands and a call's result never becomes untrue.
THEOREM TablePermanent ==
  ASSUME Null \notin Track, MaxTracks \in Nat
  PROVE  Spec => [][TableKept]_vars
<1>1. TableInv /\ [Next]_vars => TableKept
  BY TableKeptStep
<1> QED
  BY <1>1, TableCorrect, PTL DEF Spec
=============================================================================

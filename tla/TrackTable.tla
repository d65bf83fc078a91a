----------------------------- MODULE TrackTable -----------------------------
(***************************************************************************)
(* What percetto_register_track promises: registering a track is one       *)
(* atomic step, which gives the track the first free slot for the rest of  *)
(* the process's life, or refuses it because every slot is taken.          *)
(* TrackRegistry implements this specification without a lock.             *)
(***************************************************************************)
EXTENDS Naturals

CONSTANTS Track, MaxTracks, Null

VARIABLES
  owner,      \* [0 .. MaxTracks - 1 -> Track \cup {Null}]
  outcome     \* [Track -> {"none", "ok", "full"}]: what the call returned

vars == <<owner, outcome>>

Slot == 0 .. MaxTracks - 1

Init ==
  /\ owner = [k \in Slot |-> Null]
  /\ outcome = [x \in Track |-> "none"]

Accept(x) ==
  /\ outcome[x] = "none"
  /\ \E k \in Slot :
       /\ owner[k] = Null /\ \A j \in Slot : j < k => owner[j] # Null
       /\ owner' = [owner EXCEPT ![k] = x]
  /\ outcome' = [outcome EXCEPT ![x] = "ok"]

Refuse(x) ==
  /\ outcome[x] = "none"
  /\ \A k \in Slot : owner[k] # Null
  /\ outcome' = [outcome EXCEPT ![x] = "full"]
  /\ UNCHANGED owner

Next == \E x \in Track : Accept(x) \/ Refuse(x)

Spec == Init /\ [][Next]_vars
=============================================================================

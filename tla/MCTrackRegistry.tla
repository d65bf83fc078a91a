---------------------------- MODULE MCTrackRegistry ----------------------------
(* Small instances of TrackRegistry for TLC. *)
EXTENDS TrackRegistry, TLC

\* Tracks, registrars and tracers are interchangeable: for runs without
\* temporal properties.
Symmetry ==
  Permutations(Track) \cup Permutations(Registrar) \cup Permutations(Tracer)
===============================================================================

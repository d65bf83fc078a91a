\* The comment on custom track IDs against a track that was refused.
CONSTANTS
  Track = {x1, x2, x3}
  Registrar = {r1, r2}
  Tracer = {t1}
  Null = Null
  ProcessUuid = ProcessUuid
  MaxTracks = 2
SPECIFICATION SafeSpec
SYMMETRY Symmetry
INVARIANT EventsNeverMisattributed

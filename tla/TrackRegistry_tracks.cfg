\* Three threads register three tracks in two slots while another traces
\* on a packet sequence of its own; every call returns.
CONSTANTS
  Track = {x1, x2, x3}
  Registrar = {r1, r2, r3}
  Tracer = {t1}
  Null = Null
  ProcessUuid = ProcessUuid
  MaxTracks = 2
SPECIFICATION Spec
INVARIANTS TypeOK DescriptorsFinal EventsResolve
PROPERTIES TableSpec CallsReturn

\* Two processes with the same pid in different namespaces.
CONSTANTS
  p1 = p1
  p2 = p2
  Copy = {p1, p2}
  Pid <- Pids
  Namespace <- Inodes
  Tid = {1}
  Offset = 10
  UintMax = 3
  Working <- SomeKernels
  Asks <- SomeClocks
  Args = {1}
  Envs <- Numbers
  None = None
  MaxTracks = 2
SPECIFICATION Spec
INVARIANTS TimestampsResolve UuidsDistinct TracksUnderProcess SettingsIntended ClockFound
CHECK_DEADLOCK FALSE

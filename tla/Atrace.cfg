\* Two threads at sites that share tags and names, with too few groups and tracks
\* for all of them.  Fair scheduling, but no fairness of the lock.
CONSTANTS
  a = a
  b = b
  c = c
  d = d
  n1 = n1
  n2 = n2
  Site = {a, b, c, d}
  Counter = {a, b, c}
  TagsOf <- Tags
  NameOf <- Names
  Thread = {t1, t2}
  None = None
  LastTag = 2
  MaxGroups = 2
  MaxGroupSize = 2
  MaxTracks = 1
SPECIFICATION Spec
INVARIANTS TypeOK InitOnce TrackersUnique PublishedReady SitesResolved CountersTracked
PROPERTIES SitesWriteOnce CallsReturn

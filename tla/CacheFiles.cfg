\* Two processes; a question delivered twice, and one that differs in its messages; any kill
\* and any clear.
SPECIFICATION Spec
CONSTANTS
  Procs = {p1, p2}
  Requests <- MCRequests
  Inodes = {i1, i2}
  None = None
  Pending = Pending
  Torn = Torn
  MaxPaid = 2
  id1 = id1
  id2 = id2
  id3 = id3
  short = short
  middle = middle
  long = long
SYMMETRY Alike
VIEW Live
CONSTRAINT TwoOut
INVARIANTS EntryIsWhole HitsAreGenuine
PROPERTIES CacheIsAtomic
CHECK_DEADLOCK FALSE

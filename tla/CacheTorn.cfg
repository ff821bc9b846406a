\* Two processes that ask one question: what a kill leaves.
SPECIFICATION Spec
CONSTANTS
  Procs = {p1, p2}
  Requests <- One
  Inodes = {i1, i2, i3, i4}
  None = None
  Pending = Pending
  Torn = Torn
  MaxPaid = 2
  id1 = id1
  id2 = id2
  id3 = id3
  short = short
  middle = middle
  long = long
SYMMETRY AnyInode
INVARIANTS NoTornEntry
CHECK_DEADLOCK FALSE

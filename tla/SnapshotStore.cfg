\* Two sources, two captures at once, four snapshots, a budget of two large ones.
SPECIFICATION RetentionSpec
CONSTANTS
  a = a
  b = b
  j1 = j1
  j2 = j2
  Source = {a, b}
  Job = {j1, j2}
  Sizes = {1, 2, 5}
  MaxRetained = 4
  MaximumSnapshots = 2
  TTL = 1
  NSnapshots = 4
  MaxTime = 2
INVARIANTS
  RetentionInv
PROPERTIES
  NothingDroppedInVain
SYMMETRY Symmetry
\* Time ends: the system stops when every snapshot has been captured.
CHECK_DEADLOCK FALSE

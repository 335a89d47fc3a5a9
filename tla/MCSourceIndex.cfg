SPECIFICATION IndexSpec
CONSTANTS
  a = a  b = b  p1 = p1  p2 = p2  g1 = g1  g2 = g2  w1 = w1  w2 = w2
  Procs = {p1, p2}
  Tocs = {a, b}
  Listed <- MCListed
  Lists <- MCLists
  MaxLayers = 4
  Big = 1
  Cap = 2
  Absent = {b}
  MaxSeq = 2
  MaxStarts = 2
  MaxFaults = 1
  Guid <- MCGuid
  NoGuid = none
  Askers = {p1}
  Workers = {w1, w2}
  Every = 2
  MaxCancels = 1
SYMMETRY Symmetry
INVARIANTS TablesAreDirect WholeSnapshots IndexIsExpected StoredIsWhole
CHECK_DEADLOCK FALSE

SPECIFICATION FairSpec
CONSTANTS
  Levels = {l1, l2}
  Cancellers = {"ui"}
INVARIANTS WorkerAlone RunningCovers DoneIsWhole
PROPERTIES StopsAfterUnit RunningEnds CallsReturn
CHECK_DEADLOCK FALSE

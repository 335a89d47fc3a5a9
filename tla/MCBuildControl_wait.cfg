SPECIFICATION Spec
CONSTANTS
  Levels = {l1, l2}
  Cancellers = {}
INVARIANTS WaitIsFinal
CHECK_DEADLOCK FALSE

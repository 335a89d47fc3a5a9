SPECIFICATION Spec
CONSTANTS
  Callers = {"a", "x"}
  Singles = {"s"}
  Workers = {w1, w2}
  Others = {"o"}
  Levels = {"abbasid", "dumbo"}
  LevelOf <- MCLevelOf
  ItemsOf <- MCItemsOf
  Placed <- MCPlaced
  Plan <- MCPlan
  LoadFails = TRUE
  Archives = {"base", "denied"}
  OtherReads = {"base"}
  Gone = {"denied"}
  DefaultSlots = 0
  RaisedSlots = 2
INVARIANTS OneBatchAtATime AnswerIsOwn ReadersHaveCodec
PROPERTIES GivenUpWhenFull
SYMMETRY Alike

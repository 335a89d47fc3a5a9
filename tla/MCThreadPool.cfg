SPECIFICATION FairSpec
CONSTANTS
  Workers = {w1, w2}
  Tasks = {t1, t2, t3}
  Owner = owner
INVARIANTS CountExact NoLostWakeup WaiterNotForgotten DrainedAtJoin
PROPERTIES WaitSound EveryTaskRuns WaitReturns DestroyReturns

CONSTANTS
  Worker = {w1, w2}
  Producer = {p1, p2}
  Task = {t1, t2, t3}
  NoTask = NoTask
SPECIFICATION Spec
INVARIANT TypeOK
INVARIANT NoLostWakeup
INVARIANT StartsInOrder
INVARIANT DrainedAtReturn
PROPERTY EveryTaskRuns
PROPERTY DestructorReturns
CHECK_DEADLOCK FALSE

CONSTANTS
  t1 = t1
  t2 = t2
  w1 = w1
  k1 = k1
  k2 = k2
  k3 = k3
  None = None
  Uids <- MCUids
  SegOf <- MCSegOf
  Workers = {w1}
  Tasks = {k1, k2, k3}
  BudgetOf <- MCBudgetOf
  QueueSize = 1
  Mortal = {w1}
  Turns = {t1, t2}
  Plans <- MCPlans
  MaxConcurrentTurns = 1
  Uid = 7
SPECIFICATION Spec
INVARIANTS
  OneAnswerPerTask
  PendingIsOwed
PROPERTIES
  TurnsAnswered
  TasksAnswered
\* all turns may be done
CHECK_DEADLOCK FALSE

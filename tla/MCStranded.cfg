CONSTANTS
  t1 = t1
  t2 = t2
  Tasks = {t1, t2}
  Callers = {s1}
  QuarantineThreshold = 3
  Budgets <- MCBudgets
SPECIFICATION FairSpec
PROPERTIES EveryStopSettles
CHECK_DEADLOCK FALSE

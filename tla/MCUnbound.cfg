SPECIFICATION FairSpec
CONSTANTS
  QuarantineThreshold = 2
  Tasks = {t1}
  ChCap = 2
  SelfCap = 1
  Starts <- ColdOrWarm
  FaultKinds = {}
  Budgets <- UnboundBudgets
PROPERTIES StopHonoured
CHECK_DEADLOCK FALSE

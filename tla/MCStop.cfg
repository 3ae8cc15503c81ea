SPECIFICATION FairSpec
CONSTANTS
  QuarantineThreshold = 2
  Tasks = {t1}
  ChCap = 1
  SelfCap = 1
  Starts <- ColdOrWarm
  FaultKinds = {"port"}
  Budgets <- StopBudgets
PROPERTIES StopHonoured StartHonoured Settles
CHECK_DEADLOCK FALSE

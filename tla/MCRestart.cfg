SPECIFICATION Spec
CONSTANTS
  Tasks = {t1}
  ChCap = 2
  SelfCap = 2
  QuarantineThreshold = 2
  Starts <- ColdOrWarm
  FaultKinds = {"prechild", "refused", "orphan", "unpersisted", "terminate"}
  Budgets <- RestartBudgets
INVARIANTS
  OneLiveChild
  NotStranded
  Consistent
CHECK_DEADLOCK FALSE

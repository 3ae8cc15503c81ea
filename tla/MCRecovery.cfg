SPECIFICATION Spec
CONSTANTS
  Tasks = {t1}
  ChCap = 2
  SelfCap = 1
  QuarantineThreshold = 1
  Starts <- AnyStart
  FaultKinds = {"path", "port", "prechild", "terminate"}
  Budgets <- RecoveryBudgets
INVARIANTS
  AtRestNoChild
  NoLostChild
PROPERTIES
  NoSpawnAtThreshold
  NoAutomaticSpawnWhenStopped
CHECK_DEADLOCK FALSE

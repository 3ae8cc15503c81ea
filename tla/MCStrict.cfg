SPECIFICATION FairSpec
CONSTANTS
  Procs = {p1, p2}
  OSes = {"windows", "linux"}
  Commands = 2
  Faults = 2
INVARIANTS TypeOK DriftIsMarked MarkedWhileMutating
PROPERTIES AuditInOrder CrumbCleared
CHECK_DEADLOCK FALSE

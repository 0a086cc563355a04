SPECIFICATION Spec
CONSTANTS
  Workers = {w1}
  Jobs = {j1}
  Waits = {t1}
  NULL = NULL
  Backlog = 2
  Faults = {}
PROPERTIES
  ShutdownCompletes
CHECK_DEADLOCK FALSE

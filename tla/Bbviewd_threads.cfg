\* Two workers, two jobs, one wait client, every failure; the backlog holds
\* fewer connections than there are clients.
SPECIFICATION Spec
CONSTANTS
  Workers = {w1, w2}
  Jobs = {j1, j2}
  Waits = {t1}
  NULL = NULL
  Backlog = 2
  Faults = {"accept", "calloc", "hangup"}
INVARIANTS
  TypeOK
  QueueIsFifo
  ListIsPending
  NoLostSignal
  ExitOnlyDrained
PROPERTIES
  DoneIsHonest
  AckedJobsRun
  QueuedJobsRun
  ShutdownWithoutRace
  ImplementsFlushQueue
\* The daemon exits after the terminate command.
CHECK_DEADLOCK FALSE

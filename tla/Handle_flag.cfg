SPECIFICATION Spec
INVARIANTS FlagMeansInUse
CONSTANTS
  Threads = {t1, t2}
  None = None
  MaxRequests = 2
  Rules = {"collective", "still"}
  Faults = {"issue"}

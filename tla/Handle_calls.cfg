\* Two threads; every failure of FaultKinds.
SPECIFICATION Spec
CONSTANTS
  Threads = {t1, t2}
  None = None
  MaxRequests = 2
  Rules = {"collective", "still"}
  Faults = {"flush", "pack", "open", "issue", "shared"}
INVARIANTS
  TypeOK
  NoRequestLost
PROPERTIES
  NoTornDescriptor
  ReadsSeeDestination

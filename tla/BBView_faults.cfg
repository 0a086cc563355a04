\* One flush thread; every failure of FaultKinds; the file is opened once.
SPECIFICATION Spec
CONSTANTS
  Procs = {p1}
  RankOf <- OneRank
  ViewsOf <- OneViews
  Owns <- OneOwns
  Offsets = {1, 2, 3}
  Workers = {w1}
  Dest = Dest
  None = None
  Chunk = 1
  Rules = {"direct", "gaps"}
  Faults = {"flush", "pack", "open", "dest", "ompio", "job"}
  MaxOpens = 1
  MaxViews = 3
  MaxWrites = 2
INVARIANTS
  TypeOK
  FdMatchesState
  NoSilentLoss
PROPERTIES
  JobsUntouched
  ClosedIsDurable
CHECK_DEADLOCK FALSE

\* Three processes; every failure of FaultKinds, under rule "alike"; an empty file and one with data.
SPECIFICATION Spec
CONSTANTS
  Ranks = {r0, r1, r2}
  Root = r0
  Ops = {"preallocate", "set_size", "set_atomicity", "sync"}
  MaxSize = 2
  MaxCalls = 2
  StartStates = {"DEFAULT"}
  StartSizes = {0, 2}
  Dest = Dest
  Buf = 1
  Rules = {"alike", "apart"}
  Faults = {"stat", "io", "pending", "resize", "check", "sync"}
INVARIANTS
  TypeOK
  Matched
  SizeIsSet
  SameResult
  SameState
  PointerKept
PROPERTIES
  SyncAfterAll
  AllReturn
\* The program ends.
CHECK_DEADLOCK FALSE

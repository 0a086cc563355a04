\* preallocate of a file that holds data.
SPECIFICATION SafeSpec
CONSTANTS
  Ranks = {r0, r1}
  Root = r0
  Ops = {"preallocate"}
  MaxSize = 2
  MaxCalls = 1
  StartStates = {"DEFAULT"}
  StartSizes = {2}
  Dest = Dest
  Buf = 1
  Rules = {"alike", "apart"}
  Faults = {}
PROPERTIES
  ContentKept
\* The program ends.
CHECK_DEADLOCK FALSE

\* Two handles one after the other; the descriptions take one to three
\* attributes, the longest as many as the reader has room for.
SPECIFICATION Spec
CONSTANTS
  v1 = v1
  v2 = v2
  v3 = v3
  Views = {v1, v2, v3}
  Chunks <- MCChunks
  EtypeFits <- MCEtypeFits
  MaxChunks = 3
  Limit = 3
  Garbled = Garbled
  None = None
  Rules = {"reopen"}
  Hints = {"unset", "true", "other"}
  MaxOpens = 2
  Types <- MCTypes
  Depth <- MCDepth
  PageSize = 2
  Threshold = 4
INVARIANTS
  TypeOK
  DirectOnlyAligned
PROPERTIES
  ImplementsViewStore
CHECK_DEADLOCK FALSE

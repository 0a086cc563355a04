\* Five shapes of a view; transfers over the ends of blocks and copies.
SPECIFICATION Spec
CONSTANTS
  ViewSet <- MCViews
  None = None
  IntLimit = 7
  FileSizes = {0, 1, 2, 5, 8, 10, 14}
  MaxTransfer = 8
  MaxPlace = 14
INVARIANTS
  TypeOK
  CursorAgrees
  ByteOffsetAgrees
PROPERTIES
  SegmentsFollowView
  SeekEndAppends
  TransferEnds
CHECK_DEADLOCK FALSE

SPECIFICATION SafeSpec
CONSTANTS
  ViewSet <- MCViews
  None = None
  IntLimit = 7
  FileSizes = {0, 1, 2, 3, 4, 5, 8, 10, 14}
  MaxTransfer = 2
  MaxPlace = 6
PROPERTIES
  EofAvoidsGaps
CHECK_DEADLOCK FALSE

\* Two flush threads; one process buffers views that are in flight at the same
\* time and opens the file twice, another one writes the destination directly.
SPECIFICATION SafeSpec
CONSTANTS
  Procs = {p1, p2}
  RankOf <- TwoRank
  ViewsOf <- TwoViews
  Owns <- TwoOwns
  Offsets = {1, 2, 3, 4}
  Workers = {w1, w2}
  Dest = Dest
  None = None
  Chunk = 1
  Rules = {"reopen", "direct", "overlap", "gaps"}
  Faults = {"dest"}
  MaxOpens = 2
  MaxViews = 2
  MaxWrites = 3
INVARIANTS
  NoSilentLoss
  SettledIsCurrent
PROPERTIES
  JobsUntouched
CHECK_DEADLOCK FALSE

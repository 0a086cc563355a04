\* Two flush threads, views that share an offset.
SPECIFICATION SafeSpec
CONSTANTS
  Procs = {p1}
  RankOf <- OneRank
  ViewsOf <- OneViews
  Owns <- OneOwns
  Offsets = {1, 2, 3}
  Workers = {w1, w2}
  Dest = Dest
  None = None
  Chunk = 1
  Rules = {"reopen", "direct", "gaps"}
  Faults = {}
  MaxOpens = 1
  MaxViews = 2
  MaxWrites = 2
INVARIANTS
  NoSilentLoss
CHECK_DEADLOCK FALSE

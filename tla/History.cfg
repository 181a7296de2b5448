CONSTANTS
  Items    = {0, 1, 2}
  Zero     = Zero
  Capacity = 3
  MaxAsked = 7
SPECIFICATION HistorySpec
INVARIANTS TypeOK PeakIsKept OnlyHugeLimitsPanic
PROPERTY KeepsRecentEntries

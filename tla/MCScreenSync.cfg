SPECIFICATION FairSpec
CONSTANTS
  x = x
  y = y
  Texts = {x}
  Blank = blank
  Heights = {1, 2}
  HistoryLimit = 1
  MaxRevision = 3
  MaxUnread = 1
  MaxSessions = 3
  MaxCuts = 1
  StalePages = FALSE
INVARIANT TypeOK
PROPERTY Mirrors
INVARIANT LatestShown
INVARIANT OneUnacknowledged
PROPERTY CatchesUp
CHECK_DEADLOCK FALSE

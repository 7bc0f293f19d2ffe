SPECIFICATION Spec
CONSTANTS
  x = x
  y = y
  Texts = {x}
  Blank = blank
  Heights = {1, 2}
  HistoryLimit = 1
  MaxRevision = 3
  MaxUnread = 1
  MaxSessions = 2
  MaxCuts = 1
  StalePages = FALSE
INVARIANT FinalOutputShown
CHECK_DEADLOCK FALSE

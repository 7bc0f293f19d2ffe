SPECIFICATION Spec
VIEW View
CONSTANTS
  Callers = {page, other}
  Browsers = {page}
  MaxId = 2
  MaxServers = 2
  MaxChanges = 2
  MaxCalls = 2
  Viewed = {2}
  Killed = {"serving"}
  Strays = {2}
  Shared = {2}
INVARIANT TypeOK
INVARIANT LivePanesKnown
INVARIANT RecordsMatch
INVARIANT ClosedStaysClosed
INVARIANT WatchTruth
CHECK_DEADLOCK FALSE

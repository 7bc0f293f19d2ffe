SPECIFICATION Spec
CONSTANTS
  Callers = {other}
  Browsers = {}
  MaxId = 2
  MaxServers = 2
  MaxChanges = 3
  MaxCalls = 2
  Viewed = {2}
  Killed = {"recovering", "serving"}
  Strays = {2}
  Shared = {2}
INVARIANT LivePanesKnown
CHECK_DEADLOCK FALSE

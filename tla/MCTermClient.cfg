SPECIFICATION FairSpec
CONSTANTS
  k1 = k1
  k2 = k2
  Calls = {k1, k2}
  Kinds = {"state", "input", "start", "wait", "close", "interrupt"}
  MaxSups = 2
  MaxLinks = 3
  MaxCrashes = 1
  MaxTimeouts = 1
INVARIANT TypeOK
INVARIANT OneTurn
INVARIANT RepliesMatch
INVARIANT InputOnce
INVARIANT NoneHidden
PROPERTY CallsReturn
CHECK_DEADLOCK FALSE

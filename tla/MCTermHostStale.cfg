SPECIFICATION Spec
CONSTANTS
  c1 = c1
  c2 = c2
  Conns = {c1, c2}
  Keeper = keeper
  NoFiber = nobody
  MaxStarts = 2
  MaxStops = 1
  MaxChunks = 1
  MaxUnsent = 1
  Limit = 1
  Burst = 2
  FdCount = 2
  Answers = {FALSE}
  Sizes = {small}
SYMMETRY ConnSymmetry
INVARIANT NoStaleOutput
CHECK_DEADLOCK FALSE

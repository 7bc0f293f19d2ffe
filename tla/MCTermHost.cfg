SPECIFICATION Spec
CONSTANTS
  c1 = c1
  c2 = c2
  Conns = {c1, c2}
  Keeper = keeper
  NoFiber = nobody
  MaxStarts = 3
  MaxStops = 1
  MaxChunks = 0
  MaxUnsent = 1
  Limit = 1
  Burst = 2
  FdCount = 2
  Answers = {FALSE}
  Sizes = {small}
SYMMETRY ConnSymmetry
INVARIANT TypeOK
INVARIANT NoLeakedPty
INVARIANT SessionOwnsPty
INVARIANT InputReachesAddressee
CHECK_DEADLOCK FALSE

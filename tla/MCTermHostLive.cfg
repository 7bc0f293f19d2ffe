SPECIFICATION FairSpec
CONSTANTS
  c1 = c1
  c2 = c2
  Conns = {c1, c2}
  Keeper = keeper
  NoFiber = nobody
  MaxStarts = 2
  MaxStops = 0
  MaxChunks = 1
  MaxUnsent = 0
  Limit = 1
  Burst = 2
  FdCount = 2
  Answers = {TRUE, FALSE}
  Sizes = {small}
PROPERTY SupersededChildEnds
PROPERTY RequestsAnswered
PROPERTY OutputIsDrained
CHECK_DEADLOCK FALSE

SPECIFICATION FairSpec
CONSTANTS
  p = p
  q = q
  Panes = {p, q}
  Reader = reader
  Actors = {a1, a2}
  Subs = {s1}
  None = none
  MaxMessages = 2
  Asks <- PaneAsks
  Watches = {p}
  QueueCap = 1
  ByteCap = 2
  ActorCap = 2
  StreamCap = 1
  ChanCap = 1
  SendCap = 3
  Sizes = {1}
  OutputSizes = {4}
  Stuck = {q}
INVARIANT TypeOK
INVARIANT QueuesBounded
INVARIANT InOrder
INVARIANT ShutdownIsLast
INVARIANT AnsweredOnce
PROPERTY Answered
PROPERTY StreamEnds
CHECK_DEADLOCK FALSE

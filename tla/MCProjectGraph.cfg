SPECIFICATION FairSpec
CONSTANTS
  Pages = {page1}
  Others = {other}
  MaxConfig = 3
  MaxSource = 2
  MaxServers = 2
  Hides = {2}
  Undrawable <- FirstSourceBroken
INVARIANT TypeOK
INVARIANT NewestIsCurrent
INVARIANT NoticeComesFirst
PROPERTY CallsAnswered
PROPERTY CatchesUpUnlessAlike
CHECK_DEADLOCK FALSE

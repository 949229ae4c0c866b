SPECIFICATION FairSpec
CONSTANTS
  Listen = 3
  Fds = {4, 5, 6, 7}
  SelectFails = TRUE
INVARIANT AllWatched ClosesOnlyGiven OneWatcher
PROPERTY GivenIsClosed

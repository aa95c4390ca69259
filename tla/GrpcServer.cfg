CONSTANTS
  j1 = j1
  j2 = j2
  j3 = j3
  w1 = w1
  Job = {j1, j2, j3}
  Orphans = {}
  Watcher = {w1}
  MaxQueue = 1
  MaxWorkers = 1
SPECIFICATION Spec
INVARIANT TypeOK
INVARIANT OpenStreamsAreWatched
INVARIANT NothingIsMissed
PROPERTY NeverBackwards
PROPERTY WatchersCatchUp
CHECK_DEADLOCK FALSE

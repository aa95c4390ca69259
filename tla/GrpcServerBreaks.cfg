CONSTANTS
  j1 = j1
  j2 = j2
  w1 = w1
  Job = {j1, j2}
  Orphans = {}
  Watcher = {w1}
  MaxQueue = 1
  MaxWorkers = 1
SPECIFICATION Spec
INVARIANT StreamsLast
CHECK_DEADLOCK FALSE

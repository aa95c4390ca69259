CONSTANTS
  j1 = j1
  j2 = j2
  j3 = j3
  w1 = w1
  w2 = w2
  w3 = w3
  w4 = w4
  Job = {j1, j2, j3}
  Orphans = {}
  Task = {w1, w2}
  MaxQueue = 1
  MaxWorkers = 2
  Stop = Stop
  NoJob = NoJob
SPECIFICATION FairSpec
PROPERTY ShutdownReturns
CHECK_DEADLOCK FALSE

CONSTANTS
  j1 = j1
  j2 = j2
  j3 = j3
  w1 = w1
  w2 = w2
  w3 = w3
  w4 = w4
  Job = {j1}
  Orphans = {}
  Task = {w1, w2}
  MaxQueue = 2
  MaxWorkers = 1
  Stop = Stop
  NoJob = NoJob
SPECIFICATION Spec
INVARIANT StartedWorkersStay
CHECK_DEADLOCK FALSE

CONSTANTS
  j1 = j1
  j2 = j2
  c1 = c1
  c2 = c2
  Job = {j1, j2}
  Orphans = {}
  Client = {c1, c2}
  InitLimit = 1
  MaxQueue = 1
  MaxWorkers = 1
SPECIFICATION Spec
SYMMETRY Symmetry
INVARIANT TypeOK
INVARIANT StatusMatchesStage
INVARIANT NothingIsMissed
PROPERTY CreatedBeforeOutcome
CHECK_DEADLOCK FALSE

CONSTANTS
  j1 = j1
  j2 = j2
  j3 = j3
  w1 = w1
  w2 = w2
  w3 = w3
  w4 = w4
  Job = {j1, j2, j3}
  Orphans = {j3}
  Task = {w1, w2, w3, w4}
  MaxQueue = 3
  MaxWorkers = 2
  Stop = Stop
  NoJob = NoJob
SPECIFICATION Spec
SYMMETRY Symmetry
INVARIANT TypeOK
INVARIANT OnePlace
INVARIANT PendingIsOwed
INVARIANT ExecutionIsBounded
INVARIANT OnlyCancelledDelay
INVARIANT WorkersAreListed
INVARIANT UnfinishedCoversItems
PROPERTY OutcomeIsFinal
PROPERTY StartsInOrder
PROPERTY ImplementsService
CHECK_DEADLOCK FALSE

CONSTANTS
  a1 = a1
  a2 = a2
  u1 = u1
  Job = {a1, a2, u1}
  ApiJob = {a1, a2}
  UiJob = {u1}
  Invalid = {a2}
  Orphans = {}
  Api = Api
  NoJob = NoJob
  MaxQueue = 1
  MaxWorkers = 1
SPECIFICATION Spec
INVARIANT ApiMissesNothing
CHECK_DEADLOCK FALSE

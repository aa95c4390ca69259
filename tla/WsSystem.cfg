CONSTANTS
  b1 = b1
  b2 = b2
  s1 = s1
  a1 = a1
  Batch = Batch
  c1 = c1
  c2 = c2
  Job = {b1, b2, s1, a1}
  BatchJob = {b1, b2}
  Single = {s1}
  ApiJob = {a1}
  ApiConn = {c1, c2}
  Conn = {Batch, s1, c1, c2}
  Orphans = {}
  NoJob = NoJob
  NoConn = NoConn
  Api = Api
  Parties = {{Batch}, {s1}, {Api}}
  MaxUnread = 1
  MaxQueue = 2
  MaxWorkers = 1
SPECIFICATION Spec
INVARIANT TypeOK
INVARIANT ResultsAddUp
INVARIANT UpdateComesLast
INVARIANT RepliesAreOwn
PROPERTY UpdateArrives
CHECK_DEADLOCK FALSE

\* Load and run in one process: two workers that read and insert, the remainder
\* of three records unloaded; the steps of the operations implement Driver's
\* one-step operations, its liveness included.
SPECIFICATION ClientFairSpec
CONSTANTS
  MaxThreads = 2
  RecordCount = 3
  OperationCount = 2
  MaxLives = 1
  Commands <- MCLoadAndRun
  InsertStart = 0
  RequestDist = "uniform"
  NewKeys = 0
  Ordered = FALSE
  Hash <- MCHash
  Fields = {"field0"}
  WriteAllFields = FALSE
  UniformInsertStart = 10
  Ops = {"READ", "INSERT"}
INVARIANTS
  ClientTypeOK
  NoKeyLost
  NotFoundBounds
PROPERTIES
  InsertCreates
  FairSpec

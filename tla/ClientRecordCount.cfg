\* Three records asked for, two threads: two records loaded.
SPECIFICATION ClientSpec
CONSTANTS
  MaxThreads = 2
  RecordCount = 3
  OperationCount = 2
  MaxLives = 1
  Commands <- MCLoad
  InsertStart = 0
  RequestDist = "uniform"
  NewKeys = 0
  Ordered = FALSE
  Hash <- MCHash
  Fields = {"field0"}
  WriteAllFields = FALSE
  UniformInsertStart = 10
  Ops = {"READ"}
INVARIANTS
  RecordCountLoaded

\* A load in one process, a run in another: what a crash or a kill leaves.
SPECIFICATION ClientSpec
CONSTANTS
  MaxThreads = 2
  RecordCount = 3
  OperationCount = 2
  MaxLives = 3
  Commands <- MCScript
  InsertStart = 0
  RequestDist = "zipfian"
  NewKeys = 2
  Ordered = FALSE
  Hash <- MCHash
  Fields = {"field0"}
  WriteAllFields = TRUE
  UniformInsertStart = 10
  Ops = {"READ", "UPDATE", "SCAN", "RMW", "INSERT"}
INVARIANTS
  LoadIsDurable
PROPERTIES
  LoadedNeverMissed

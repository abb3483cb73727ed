\* The default DB.
SPECIFICATION Spec
CONSTANTS
  MaxThreads = 2
  RecordCount = 3
  OperationCount = 2
  MaxLives = 1
  Commands <- MCBasic
INVARIANTS
  JoinsStartedThreads

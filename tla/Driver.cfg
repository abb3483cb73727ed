\* main, its workers and the statistics threads, every command line, and a
\* second process after the first.
SPECIFICATION FairSpec
CONSTANTS
  MaxThreads = 2
  RecordCount = 3
  OperationCount = 2
  MaxLives = 2
  Commands <- MCCommands
INVARIANTS
  TypeOK
  ObjectsOutliveTheirUsers
  ReportedSum
  FinishLineTruthful
  CleanExitOnlyBeforeOpen
PROPERTIES
  EndsUnlessLoading
  FinishAnnounced

\* Two workers, two operations each, with the hiccup line in between.
SPECIFICATION Spec
CONSTANTS
  NumThreads = 2
  OpsPerThread = 2
  Kinds = {"READ"}
  Latencies = {1}
  CountsLen = 1
  Bucket <- MCBucket
  Garbage = {3}
INVARIANTS
  MeasurementsTypeOK
  NeverOvercounts
  ExecutedIsReported
  IopsNeverOverReported
  SequentialExact

\* Two reported intervals, two lookups, one failed reading.
SPECIFICATION Spec
CONSTANTS
  Tickers <- MCTickers
  Width = 8
  NumLookups = 2
  NumTransfers = 2
  AtBoot = 2
  MaxFailures = 1
  MaxIntervals = 2
INVARIANTS
  StatusTypeOK
  DeltasTelescope
  NeverOverReported
  FalsePositivesNotInvented
PROPERTIES
  SummaryComes

\* Two clients, two keys, three calls, a second process.
SPECIFICATION Spec
CONSTANTS
  Clients = {"c1", "c2"}
  Keys = {"k1", "k2"}
  Fields <- MCFields
  Values <- MCValues
  Base = 2
  Width = 2
  Vectors <- MCVectors
  Ops = {"Read", "Scan", "Insert", "Update", "Delete"}
  MaxCalls = 3
  MaxLives = 2
INVARIANTS
  RocksTypeOK
  DecodesExactly

  

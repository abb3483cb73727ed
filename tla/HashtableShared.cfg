\* One client reads the record another one updates.
SPECIFICATION Spec
CONSTANTS
  Clients = {"c1", "c2"}
  Keys = {"k1"}
  Fields = {"f1", "f2"}
  Values = {"a", "b"}
  FieldLists <- MCFieldLists
  ValueLists <- MCValueLists
  Garbage = "garbage"
  MaxCalls = 3
  Workloads <- MCOneReads
INVARIANT
  ReadsLiveMemory

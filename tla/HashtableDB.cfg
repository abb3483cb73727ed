\* Two clients, two keys, two fields: every interleaving of the calls that a
\* workload allows, four calls in all.
SPECIFICATION Spec
CONSTANTS
  Clients = {"c1", "c2"}
  Keys = {"k1", "k2"}
  Fields = {"f1", "f2"}
  Values = {"a", "b"}
  FieldLists <- MCFieldLists
  ValueLists <- MCValueLists
  Garbage = "garbage"
  MaxCalls = 4
  Workloads <- MCWorkloads
INVARIANTS
  HashtableTypeOK
  PointersAreLive
  OneOwner
PROPERTIES
  ReadBetween
  ImplementsContract

\* Two workers, one transaction each, over the generators of each distribution.
SPECIFICATION Spec
CONSTANTS
  NumThreads = 2
  NumOps = 1
  OpWeights <- MCWeights
  Grain = 8
  Period = 2
  RecordCount = 4
  NewKeys = 1
  FieldCount = 2
  Dists <- MCDists
  Hash <- MCHash
INVARIANTS
  GeneratorsTypeOK
  DrawsOnce
  ChoiceByWeight
  KeysExist
PROPERTIES
  DrawsEnd

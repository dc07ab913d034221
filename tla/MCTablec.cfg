CONSTANTS
  Keys <- MCKeys
  Hash <- MCHash
  Values = {u1, u2}
  Null = Null
  Capacity = 2
  Sizes = {1, 3}
  Word = 16
SPECIFICATION Spec
INVARIANTS
  TypeOK
  BucketsAreWhole
PROPERTIES
  ImplementsDict
  LoneEntriesSurvive
CHECK_DEADLOCK FALSE

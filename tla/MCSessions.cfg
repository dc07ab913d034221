CONSTANTS
  Threads = {t1, t2}
  Draws = 2
  Capacity = 2
  Hash <- MCHash
  Null = Null
  MaxLogins = 3
SYMMETRY MCSymmetry
SPECIFICATION Spec
INVARIANTS
  TypeOK
  TokensDiffer
  FoundIsMine
  NoUndefined
  WholeAtRest
CHECK_DEADLOCK FALSE

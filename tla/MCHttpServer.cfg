CONSTANTS
  Conns = {c1, c2, c3}
  None = None
SYMMETRY ConnSymmetry
SPECIFICATION Spec
INVARIANTS
  TypeOK
  SlotExclusive
  NoSlotLost
  LengthCounts
  NoUndefined
  EntryIsOwn
  NothingLeaks
PROPERTIES
  OnlyStopCancelsOthers
  ImplementsSlotPool
CHECK_DEADLOCK FALSE

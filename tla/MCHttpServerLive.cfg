CONSTANTS
  Conns = {c1, c2}
  None = None
SPECIFICATION FairSpec
PROPERTIES
  SlotReturned
  AcceptedIsServed
CHECK_DEADLOCK FALSE

SPECIFICATION Spec
CHECK_DEADLOCK FALSE
CONSTANTS
  Nul = "NUL"
  Lower <- MCLower
  Blank <- MCBlank
  Digit <- MCDigit
  MaxInt = 20
  Hex <- MCHex
  Methods <- MCMethods
  MethodSize = 2
  VersionSize = 4
  KeySize = 2
  ValueSize = 3
  ChunkSize = 3
  MaxHeaders = 2
  Size = 28
  Requests <- MCRequests
  Stacks <- MCStacks
  MaxSent = 2
INVARIANTS
  TypeOK
  WholeRequestServed
  AcceptedAtBeginning
  CutKeepsRequest
  SearchFindsFirst

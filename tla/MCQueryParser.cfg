CONSTANTS
  Letters <- MCLetters
  Nul = Nul
  KeyMax = 3
  ValueMax = 3
  Length = 2
  Pieces <- MCPieces
  MaxPieces = 4
SPECIFICATION Spec
INVARIANTS
  TypeOK
  FindsParameters
  OverrunAtLimit
CHECK_DEADLOCK FALSE

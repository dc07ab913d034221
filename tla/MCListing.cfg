SPECIFICATION Spec
CHECK_DEADLOCK FALSE
CONSTANTS
  Symbol <- MCSymbol
  Products <- MCProducts
  Atoi <- MCAtoi
  Values <- MCValues
  Digits <- MCDigits
  MaxRows = 2
  MaxCalls = 6
INVARIANTS
  TypeOK
  BuildsDocument
  ListingReadsBack
  ResponseIsExact

SPECIFICATION Spec

CONSTANTS
  Symbols <- MCSymbols
  Responses <- MCResponses
  Specs <- MCSpecs
  KeyOrder <- MCKeyOrder
  UIDs <- MCUIDs
  Generations = {1, 2, 11}
  MaxChanges = 2

INVARIANT PartsApart
INVARIANT DataComplete
INVARIANT KeyPreserved
PROPERTY HashTellsChange
CHECK_DEADLOCK FALSE

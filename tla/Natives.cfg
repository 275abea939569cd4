SPECIFICATION MCSpec
CONSTANTS
  Characters <- AllCharacters
  Inputs <- AllInputs
  Arguments <- AllArguments
  TiesUp <- HalvesUp
  BufferSize = 16
  NumberSize = 11
  MaxCalls = 2
INVARIANTS
  Inv
  InputGivesLines
PROPERTY InputEnds
CHECK_DEADLOCK FALSE

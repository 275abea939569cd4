SPECIFICATION FairSpec
CONSTANTS
  Programs <- MCPrograms
  Nodes <- MCNodes
  CallFree <- MCCallFree
  Anonymous <- AnonymousFunctions
INVARIANTS
  Inv
  LeftToRight
  LocationOfError
PROPERTIES
  CallersUntouched
  Ends
CHECK_DEADLOCK FALSE

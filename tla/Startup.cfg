SPECIFICATION FairSpec
CONSTANTS
  Starts <- AllStarts
  Results <- MCResults
  Natives <- MCNatives
  MaxDepth = 6
  MaxTime = 2
INVARIANTS
  Inv
  ReadOnce
  ImportsInPlace
  NativesTooLate
PROPERTY Ends
CHECK_DEADLOCK FALSE

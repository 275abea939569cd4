SPECIFICATION MCSpec
CONSTANTS
  Colours = {"red"}
  Keys = {"left"}
  Sizes = {1}
  Kinds <- AnyKinds
  MaxWindows = 2
  MaxTextures = 1
  MaxStrokes = 2
  MaxEvents = 2
INVARIANTS
  CloseAnswered
  IInv
PROPERTIES
  FrameShown
  CloseReachesScript
CHECK_DEADLOCK FALSE

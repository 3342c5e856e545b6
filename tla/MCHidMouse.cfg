CONSTANTS
  Deltas <- MCDeltas
  QueueCapacity = 2
  MaxX = 2
  MaxY = 1
  WindowWidth = 2
  TitleBarHeight = 1
SPECIFICATION MouseSpec
INVARIANTS
  CursorFollowsMouse
  DragKeepsGrip

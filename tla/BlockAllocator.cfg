CONSTANTS
  HeaderSize = 2
  PageSize = 8
  InitialPages = 2
  MaxPages = 3
  Sizes = {0, 1, 3, 9}
  MaxLive = 3
SPECIFICATION Spec
INVARIANTS
  ListsConsistent
PROPERTY
  ImplementsHeap
CHECK_DEADLOCK FALSE

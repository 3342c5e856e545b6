CONSTANTS
  Levels = 4
  Fanout = 8
  KmapPages = 1
  KmapCapacity = 9
  TablePages = 19
  WindowBase = 2560
  WindowBlocks = 2
  Machines <- MCMachines
  ImageBase = 0
  StackBase = 4080
  StackPages = 1
  MmioBase = 1024
  AcpiBase = 1536
  XhciBase = 3968
  HeapBase = 3991
  MaxSegments = 7
  Slack = 2
  MaxEvents = 2
  HeapPages = 2
  MaxHeap = 3
SPECIFICATION Spec
INVARIANTS
  HandedMapCurrent
  MemoryMapPartitions
  LoaderDataKept
  TranslationsKept
  OnlyEventsOutgrowMap
PROPERTIES
  RetryEnds
CHECK_DEADLOCK FALSE

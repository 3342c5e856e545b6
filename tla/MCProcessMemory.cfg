CONSTANTS
  procA = procA
  procB = procB
  shm = shm
  fb = fb
  MAX_ORDER = 2
  TotalPages = 15
  MemoryMaps <- MCMemoryMaps
  Modules <- MCModules
  Programs <- MCPrograms
  Levels = 2
  Fanout = 4
  HeapBase = 4
  HeapSize = 2
  PageSize = 2
  Lengths = {1, 3}
  Paths = {shm, fb}
  Framebuffer <- MCFramebuffer
  Addresses = {5}
  MaxEntries = 2
  MaxFds = 2
  Capacity = 1
  BucketCount = 2
  Hash <- MCHash
  Unset = unset
  NoFile = nofile
  MaxKernelBlocks = 1
  NoJob = nojob
  NoFrame = noframe
  NoPath = nopath
SPECIFICATION Spec
INVARIANTS
  Isolation
  PagesAccounted
PROPERTIES
  MappingsKept
CHECK_DEADLOCK FALSE

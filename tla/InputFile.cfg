CONSTANTS
  UserThreads = {u1, u2}
  KernelThreads = {input}
  IdleThread = idle
  NoThread = none
  KernelTable = ktable
  RingSize = 2
  Data = {a, b}
  NoData = nodata
  Devices = {mouse}
  MaxFiles = 2
  NoFile = nofile
  Pollers = {u2}
SPECIFICATION FairSpec
INVARIANTS
  NoLostWakeup
PROPERTIES
  UsesScheduler
  FilesAreFifos
  ReaderWoken

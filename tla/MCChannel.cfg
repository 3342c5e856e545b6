CONSTANTS
  p1 = p1
  u1 = u1
  u2 = u2
  u3 = u3
  UserThreads = {u1, u2}
  KernelThreads = {input}
  IdleThread = idle
  NoThread = none
  KernelTable = ktable
  Paths = {p1}
  Sizes = {1, 2}
  MaxEndpoints = 2
  MaxPerPath = 2
  MaxMessages = 3
  MaxFds = 2
  NoCall = nocall
SPECIFICATION FairSpec
INVARIANTS
  NoLostWakeup
  MessagesLive
PROPERTIES
  FdTransfer
  UsesScheduler
  Delivered

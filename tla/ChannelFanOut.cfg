CONSTANTS
  u1 = u1
  u2 = u2
  u3 = u3
  p1 = p1
  UserThreads = {u1, u2, u3}
  KernelThreads = {input}
  IdleThread = idle
  NoThread = none
  KernelTable = ktable
  Paths = {p1}
  Sizes = {1}
  MaxEndpoints = 3
  MaxPerPath = 3
  MaxMessages = 1
  MaxFds = 1
  NoCall = nocall
SPECIFICATION Spec
INVARIANT
  MessagesLive
CHECK_DEADLOCK FALSE

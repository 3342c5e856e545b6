CONSTANTS
  u1 = u1
  u2 = u2
  u3 = u3
  u4 = u4
  UserThreads <- MCUserThreads
  KernelThreads = {input}
  IdleThread = idle
  NoThread = none
  KernelTable = ktable
  WakeBound = 4
SPECIFICATION FairSpec
INVARIANTS
  IInv
  AddressSpaceOfCurrent
  NeverStops
PROPERTIES
  NoOvertaking
  EveryoneRuns

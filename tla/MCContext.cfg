CONSTANTS
  UserThreads = {u1, u2}
  KernelThreads = {input}
  IdleThread = idle
  NoThread = none
  KernelTable = ktable
  WakeBound = 2
  FrameWords = 35
  SwitchWords = 36
  CodeWords = 20
  LoopDepth = 4
SPECIFICATION CtxSpec
INVARIANTS
  RegistersRestored
SYMMETRY Symmetry

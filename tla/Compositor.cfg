SPECIFICATION FairSpec
CONSTANTS
  Clients = {a, b}
  Server = server
  Pixels = {red, blue}
  MaxWindows = 2
  MaxMessages = 9
  InitMayFail = TRUE
  NoRequest = NoRequest
  NoBuffer = NoBuffer
  Grey = Grey
INVARIANTS CallsDoWhatTheySay WindowsAreOwn
PROPERTY EveryRequestAnswered
CHECK_DEADLOCK FALSE

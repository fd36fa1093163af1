SPECIFICATION Spec
CONSTANTS
  NumBuffers = 3
  NumDescs = 2
  InitAdvance = 1
  Owners = {o1}
  NoOwner = NoOwner
  Waiters = {}
  WaitClients = 1
  Faults = TRUE
  Timeouts = TRUE
  MaxOverlap = 0
  Strays = FALSE
PROPERTIES
  FlushSparesActive

SPECIFICATION Spec
CONSTANTS
  NumBuffers = 4
  NumDescs = 2
  InitAdvance = 1
  Owners = {o1}
  NoOwner = NoOwner
  Waiters = {w1, w2}
  WaitClients = 1
  Faults = TRUE
  Timeouts = TRUE
  MaxOverlap = 1
  Strays = FALSE
INVARIANTS
  TypeOK
  TransfersOnlyQueued
  HardwareInStep
  NoSpuriousError
PROPERTIES
  QueueSpec
  EventStays
  QueuedGetsTransferred
  StopIdles
  SleepersWake

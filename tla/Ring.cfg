SPECIFICATION Spec
CONSTANTS
  NumFrames = 4
  Data = {d1, d2}
  Torn = Torn
  Spurious = TRUE
CHECK_DEADLOCK FALSE
INVARIANTS
  TypeOK
  WakeupPending
PROPERTIES
  QueueSpec
  ConsumerServed
  ProducerServed

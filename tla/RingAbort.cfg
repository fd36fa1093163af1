SPECIFICATION Spec
CONSTANTS
  NumFrames = 4
  Data = {d1, d2}
  Torn = Torn
  Spurious = FALSE
CHECK_DEADLOCK FALSE
PROPERTIES
  AbortFrees

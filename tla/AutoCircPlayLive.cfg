SPECIFICATION Spec
CONSTANTS
  StartFrame = 0
  EndFrame = 2
  Registers = {0}
  Pictures = {p1}
  Stale = Stale
  Repeats = {1}
  PrerollCounts = {1}
  MaxValid = 2
  CounterMod = 1
  FieldMode = TRUE
  Overlap = {"stop", "pause", "resume"}
  PeerOverlap = {"start", "stop", "abort", "pause", "resume", "preroll"}
  DesiredFrames = {}
  StartAtTime = TRUE
  StartOnIrq = TRUE
PROPERTIES
  QueuedGetsAired
  StopCompletes

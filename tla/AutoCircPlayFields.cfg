SPECIFICATION Spec
CONSTANTS
  StartFrame = 2
  EndFrame = 4
  Registers = {0, 3}
  Pictures = {p1}
  Stale = Stale
  Repeats = {1, 2}
  PrerollCounts = {1}
  MaxValid = 2
  CounterMod = 1
  FieldMode = TRUE
  Overlap = {"stop", "abort", "pause", "resume", "preroll"}
  PeerOverlap = {"start", "stop", "abort", "pause", "resume", "preroll"}
  DesiredFrames = {}
  StartAtTime = TRUE
  StartOnIrq = TRUE
PROPERTIES
  FieldsAlternate

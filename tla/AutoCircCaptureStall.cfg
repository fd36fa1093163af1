SPECIFICATION Spec
CONSTANTS
  StartFrame = 1
  EndFrame = 4
  Pictures = {p1}
  Stale = Stale
  MaxReps = 2
  CounterMod = 2
  FieldMode = FALSE
  MinLevel = 2
  Overlap = {}
  DesiredFrames = {}
  ShortPeriods = TRUE
  StartOnIrq = FALSE
  StartAtTime = TRUE
  Used = {"init", "start", "stop", "abort", "pause", "resume", "flush"}
PROPERTIES
  AvailableIsSeen

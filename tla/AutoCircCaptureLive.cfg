SPECIFICATION Spec
CONSTANTS
  StartFrame = 1
  EndFrame = 4
  Pictures = {p1}
  Stale = Stale
  MaxReps = 2
  CounterMod = 2
  FieldMode = TRUE
  MinLevel = 2
  Overlap = {"stop", "abort"}
  DesiredFrames = {}
  ShortPeriods = FALSE
  StartOnIrq = FALSE
  StartAtTime = TRUE
  Used = {"init", "start", "stop", "abort", "flush"}
PROPERTIES
  RecordedGetsFetched
  DropOnlyWhenFull
  StopCompletes

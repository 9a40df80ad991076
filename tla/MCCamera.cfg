\* The calls of a careful client; the driver and every allocation may fail.
SPECIFICATION FairSpec
CONSTANTS
  Sizes = {1, 2}
  InitialSkip = 6
  SkipStep = 3
  MaxCalls = 6
  Careful = TRUE
  Settled = TRUE
  DeviceFails = TRUE
  MemoryFails = {"preview", "raw", "record"}
INVARIANTS
  OneInside
  UsedIsThere
PROPERTIES
  ImplementsModes
  CallsReturn
CHECK_DEADLOCK FALSE

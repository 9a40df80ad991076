\* A picture, and the call after it.
SPECIFICATION FairSpec
CONSTANTS
  Sizes = {1, 2}
  InitialSkip = 6
  SkipStep = 3
  MaxCalls = 2
  Careful = TRUE
  Settled = TRUE
  DeviceFails = TRUE
  MemoryFails = {"preview", "raw", "record"}
INVARIANTS
  RefusedDuringPicture
CHECK_DEADLOCK FALSE

\* All commands, seek packets and destruction; no symmetry, for liveness.
SPECIFICATION FairSpec
CONSTANTS
  i1 = i1  i2 = i2  o1 = o1  o2 = o2
  InBuffers = {i1, i2}
  OutBuffers = {o1}
  Requests <- AllRequests
  Kinds = {"data", "seek", "config"}
  MaxLen = 1
  MaxFrames = 2
  EosFrames = {2}
  MaxCommands = 3
  Careful = TRUE
  CodecFails = TRUE
  Deinits = TRUE
  None = None
PROPERTIES CommandsHandled InputComesBack DeinitReturns
CHECK_DEADLOCK FALSE

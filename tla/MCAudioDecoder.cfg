\* Streaming, stops and restarts of a careful client; the codec may fail.
SPECIFICATION Spec
CONSTANTS
  i1 = i1  i2 = i2  o1 = o1  o2 = o2
  InBuffers = {i1, i2}
  OutBuffers = {o1, o2}
  Requests <- StopRequests
  Kinds = {"data", "config"}
  MaxLen = 2
  MaxFrames = 3
  EosFrames = {2}
  MaxCommands = 4
  Careful = TRUE
  CodecFails = TRUE
  Deinits = FALSE
  None = None
INVARIANTS OneOwner ReceivedInOrder ReadNeverBlocks CommandReturnsAll LoadedHoldsNothing QueuesOutliveUse EosAfterItsFrame
SYMMETRY Symmetry
CHECK_DEADLOCK FALSE

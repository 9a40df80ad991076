\* Streaming with pauses, flushes and stops; two input buffers.
SPECIFICATION Spec
CONSTANTS
  i1 = i1  i2 = i2  o1 = o1  o2 = o2
  OwnBuffers = {i1}
  InBuffers = {i1, i2}
  OutBuffers = {o1}
  Actual <- TwoIn
  Requests <- StreamRequests
  MaxCommands = 4
  MaxFrames = 2
  EosFrames = {2}
  Careful = FALSE
  Reentrant = FALSE
  MaxStray = 0
  Deinits = FALSE
  CodecFails = FALSE
  NoBuffer = NoBuffer
INVARIANT OwnedOnce
PROPERTY EncodesInOrder
CHECK_DEADLOCK FALSE

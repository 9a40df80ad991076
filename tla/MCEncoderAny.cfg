\* Every command, a client that respects nothing, even submits a
\* buffer that the component has, failures, destruction.
SPECIFICATION Spec
CONSTANTS
  i1 = i1  i2 = i2  o1 = o1  o2 = o2
  OwnBuffers = {o1}
  InBuffers = {i1}
  OutBuffers = {o1, o2}
  Actual <- TwoOut
  Requests <- AllRequests
  MaxCommands = 3
  MaxFrames = 2
  EosFrames = {2}
  Careful = FALSE
  Reentrant = TRUE
  MaxStray = 1
  Deinits = TRUE
  CodecFails = TRUE
  NoBuffer = NoBuffer
INVARIANTS OneTransition CodecExists PopulatedIsFull NeverTwice
CHECK_DEADLOCK FALSE

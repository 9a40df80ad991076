\* Every command of a careful client, which may destroy the component.
SPECIFICATION FairSpec
CONSTANTS
  i1 = i1  i2 = i2  o1 = o1  o2 = o2
  OwnBuffers = {i1}
  InBuffers = {i1}
  OutBuffers = {o1}
  Actual <- OneEach
  Requests <- AllRequests
  MaxCommands = 5
  MaxFrames = 2
  EosFrames = {2}
  Careful = TRUE
  Reentrant = FALSE
  MaxStray = 0
  Deinits = TRUE
  CodecFails = TRUE
  NoBuffer = NoBuffer
INVARIANT FlushedIsEmpty
PROPERTIES ImplementsComponent TransitionsAnswered CommandsAnswered DeinitReturns
CHECK_DEADLOCK FALSE

\* A light sensor and a compass, small rings and small arrays of events.
SPECIFICATION FairSpec
CONSTANTS
  Drivers <- LightAndCompass
  Order <- AsInTheCode
  Compass <- OnlyCompass
  Flagging <- OnlyLight
  Kinds <- KindsOf
  Size <- SmallRings
  KindOrder <- Numbers
  Errno = 1
  Counts = {2}
  MaxEvents <- FewEvents
  MaxCalls = 1
  MaxFailures = 1
INVARIANTS StaysInBuffer NothingLost NoMoreData
PROPERTIES CompassInOrder InitialValueTaken
CHECK_DEADLOCK FALSE

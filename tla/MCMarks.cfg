\* The array of marks with three places instead of ten.
SPECIFICATION Spec
CONSTANTS
  N = 3
  Messages = {m1, m2}
  MaxMarks = 6
  NoMark = NoMark
INVARIANT PendingAreMarks
PROPERTY ImplementsFifo
CHECK_DEADLOCK FALSE

\* Sessions of the client, the network and the control plane, calls and answers at
\* any moment; fewer calls once something has fallen into a window.
SPECIFICATION FairSpec
CONSTANTS
  MaxCalls = 3
  MaxRaced = 2
INVARIANTS IdleIsFree NoStaleAnswer
PROPERTIES StartIsServed CpEndsOthers
CHECK_DEADLOCK FALSE

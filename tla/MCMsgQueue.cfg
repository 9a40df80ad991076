\* Safety, refinement and delivery, with failing pipes; no symmetry, for liveness.
SPECIFICATION FairSpec
CONSTANTS
  Senders = {s1, s2}
  Nodes = {n1, n2, n3}
  Messages = {m1, m2, m3}
  PipeFails = TRUE
  NULL = NULL
INVARIANTS ChainIntact EventMirrorsQueue
PROPERTIES ImplementsFifo Delivered
CHECK_DEADLOCK FALSE

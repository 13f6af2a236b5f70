SPECIFICATION Spec
CONSTANTS
  o1 = o1
  o2 = o2
  Orders <- TwoOrders
  Oversized <- NoOrders
  BatchSize = 2
  MaxEvents = 2
  MaxFaults = 1
INVARIANT NoEventIsLost

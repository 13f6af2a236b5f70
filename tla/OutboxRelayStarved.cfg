SPECIFICATION FairSpec
CONSTANTS
  o1 = o1
  o2 = o2
  Orders <- TwoOrders
  Oversized <- FirstOrder
  BatchSize = 1
  MaxEvents = 2
  MaxFaults = 0
PROPERTY EventuallySent

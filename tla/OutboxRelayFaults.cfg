SPECIFICATION FairSpec
CONSTANTS
  o1 = o1
  o2 = o2
  Orders <- TwoOrders
  Oversized <- FirstOrder
  BatchSize = 2
  MaxEvents = 3
  MaxFaults = 2
INVARIANTS TypeOK SentWasWritten CopiesNeedFaults CreatedIsFirst
PROPERTY EventuallySent

SPECIFICATION Spec
CONSTANTS
  o1 = o1
  o2 = o2
  Orders <- TwoOrders
  Kinds <- Events
  Attempts = 2
  MaxMessages = 2
  MaxDisruptions = 1
INVARIANT CommittedIsRecorded
CHECK_DEADLOCK FALSE

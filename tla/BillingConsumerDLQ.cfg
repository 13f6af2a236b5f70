SPECIFICATION Spec
CONSTANTS
  o1 = o1
  o2 = o2
  Orders <- OneOrder
  Kinds <- Events
  Attempts = 2
  MaxMessages = 1
  MaxDisruptions = 1
INVARIANT GivenUpIsInDLQ
CHECK_DEADLOCK FALSE

SPECIFICATION Spec
CONSTANTS
  o1 = o1
  o2 = o2
  Orders <- OneOrder
  Kinds <- Events
  Attempts = 2
  MaxMessages = 3
  MaxDisruptions = 0
PROPERTY InvoiceStateMachine
CHECK_DEADLOCK FALSE

SPECIFICATION SystemSpec
CONSTANTS
  o1 = o1
  h1 = h1
  h2 = h2
  Orders <- MCOrders
  Handlers <- MCHandlers
  Oversized <- MCOversized
  BatchSize = 2
  MaxEvents = 3
  MaxFaults = 0
  Kinds <- MCKinds
  Attempts = 1
  MaxMessages = 3
  MaxDisruptions = 0
INVARIANTS InvoicesFollowOrders SentTakesEffect InvoicesAgree
PROPERTIES InvoicesSettleOnce ServiceIsImplemented RelayIsImplemented BillingIsImplemented
CHECK_DEADLOCK FALSE

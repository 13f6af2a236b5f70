SPECIFICATION Spec
CONSTANTS
  MaxInvoices = 4
  CreatedAt <- TwoTied
  MaxWrites = 4
  Filters <- AllFilters
  Limits <- SomeLimits
  DefaultLimit = 1
  MaxLimit = 2
INVARIANTS TypeOK WalkMissesNothing PaidWithinTotal StatsDrift
PROPERTY PollsMoveForward
CHECK_DEADLOCK FALSE

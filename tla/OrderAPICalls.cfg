SPECIFICATION APISpec
CONSTANTS
  o1 = o1
  o2 = o2
  h1 = h1
  h2 = h2
  Orders <- TwoOrders
  Handlers <- TwoHandlers
  Baskets <- SmallBaskets
  Half = 2048
  Precision = 16384
  MaxCalls = 3
  MaxCrashes = 1
SYMMETRY Symmetry
INVARIANTS APITypeOK TotalsAreSound FreeOrdersAreSmall DuplicatesAreUnsure CountersFallShort
CHECK_DEADLOCK FALSE

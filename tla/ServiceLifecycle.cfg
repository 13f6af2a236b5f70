SPECIFICATION FairSpec
CONSTANTS
  c1 = c1
  c2 = c2
  Calls <- TwoCalls
  MaxAttempts = 3
  MaxFaults = 3
INVARIANTS TypeOK TablesBeforeWork CallsKeepTheirPool
PROPERTIES StopsOnSignal ComesBack
CHECK_DEADLOCK FALSE

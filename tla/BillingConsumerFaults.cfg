SPECIFICATION FairSpec
CONSTANTS
  o1 = o1
  o2 = o2
  Orders <- OneOrder
  Kinds <- AllKinds
  Attempts = 2
  MaxMessages = 4
  MaxDisruptions = 1
INVARIANTS TypeOK CommittedHasEffect ProcessedHasEffect GaugeDrift
PROPERTIES InvoicesMoveForward ConsumersDrain
CHECK_DEADLOCK FALSE

SPECIFICATION Spec
CONSTANTS
  o1 = o1
  o2 = o2
  h1 = h1
  h2 = h2
  Orders <- TwoOrders
  Handlers <- TwoHandlers
PROPERTY OrderStateMachine

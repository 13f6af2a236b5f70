--------------------------- MODULE MCOrderService ---------------------------
EXTENDS OrderService, TLC

CONSTANTS o1, o2, h1, h2

TwoOrders == {o1, o2}
TwoHandlers == {h1, h2}

Symmetry == Permutations(Orders) \cup Permutations(Handlers)
=============================================================================

---------------------------- MODULE MCOutboxRelay ----------------------------
EXTENDS OutboxRelay

CONSTANTS o1, o2

TwoOrders == {o1, o2}
FirstOrder == {o1}
NoOrders == {}
=============================================================================

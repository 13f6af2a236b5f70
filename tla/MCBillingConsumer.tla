-------------------------- MODULE MCBillingConsumer --------------------------
EXTENDS BillingConsumer

CONSTANTS o1, o2

OneOrder == {o1}
TwoOrders == {o1, o2}
Events == {"event"}
AllKinds == {"event", "malformed", "bare"}
=============================================================================

---------------------------- MODULE MCOrderBilling ----------------------------
(* An instance of OrderBilling for TLC: an order that two requests may       *)
(* settle, and only the relay writes to the topics.                          *)
EXTENDS OrderBilling

CONSTANTS o1, h1, h2

MCOrders == {o1}
MCHandlers == {h1, h2}
MCOversized == {}
MCKinds == {"event"}
==============================================================================

----------------------------- MODULE OrderLedger -----------------------------
(***************************************************************************)
(* What the transactional outbox promises to the rest of the system: the   *)
(* status of an order and the event that announces it change in one step,  *)
(* and in no other way.  It does not promise that an order is settled once *)
(* only: handlers that read it CREATED at the same time all settle it.     *)
(***************************************************************************)
EXTENDS OrderEvents, Sequences

CONSTANTS Orders

VARIABLES status,   \* the status of every order
          ledger    \* the announced events, oldest first

vars == <<status, ledger>>

Init ==
  /\ status = [o \in Orders |-> NoRow]
  /\ ledger = <<>>

Record(o, t) ==
  /\ status' = [status EXCEPT ![o] = StatusAfter[t]]
  /\ ledger' = Append(ledger, <<o, t>>)

Open(o) == status[o] = NoRow /\ Record(o, "OrderCreated")

Settle(o, t) == status[o] # NoRow /\ Record(o, t)

Next == \E o \in Orders : Open(o) \/ \E t \in Settlements : Settle(o, t)

Spec == Init /\ [][Next]_vars
==============================================================================

------------------------------ MODULE OrderRow ------------------------------
(***************************************************************************)
(* The commerce_order row and the store methods that change it             *)
(* (sdkwork-order-repository-sqlx).  A method runs in one database         *)
(* transaction that locks the row or guards its UPDATE with the row's      *)
(* columns, so it is one action; its guard is the WHERE clause or the      *)
(* early return of the method.  A method that finds its guard false leaves *)
(* the row alone, and the callers in the other modules model what they do  *)
(* with the refusal.                                                       *)
(*                                                                         *)
(* The code also accepts the statuses draft, pending, unpaid, wait_pay,    *)
(* fulfilled and finished in its guards; no method writes them, so they    *)
(* are not states of the model.                                            *)
(***************************************************************************)

CONSTANTS Orders,    \* order ids
          Physical,  \* orders of subject product: checkout, stock, shipment
          Points     \* orders of subject points_recharge

ASSUME SubjectAssumption == /\ Physical \subseteq Orders
                            /\ Points \subseteq Orders \ Physical

VARIABLES status,            \* commerce_order.status; "none": no row yet
          payment,           \* commerce_order.payment_status
          fulfillment,       \* commerce_order.fulfillment_status
          events,            \* types of the order's commerce_order_event rows
          fulfillmentOrders  \* orders with a commerce_fulfillment_order row

rowVars == <<status, payment, fulfillment, events, fulfillmentOrders>>

\* Orders whose value is credited to an account: points recharge, token bank,
\* account package.
ValueOrders == Orders \ Physical

Status == {"none", "pending_inventory", "pending_payment", "inventory_failed",
           "paid", "shipped", "completed", "cancelled", "closed", "expired"}
Payment == {"none", "pending", "success", "failed", "canceled", "closed", "expired"}
Fulfillment == {"none", "unfulfilled", "inventory_reserved", "inventory_failed",
                "processing", "fulfilled", "awaiting_shipment", "shipped", "delivered"}
EventType == {"cancelled", "closed", "expired", "shipped", "completed",
              "payment_succeeded_after_terminal", "duplicate_payment_success"}

RowTypeOK == /\ status \in [Orders -> Status]
             /\ payment \in [Orders -> Payment]
             /\ fulfillment \in [Orders -> Fulfillment]
             /\ events \in [Orders -> SUBSET EventType]
             /\ fulfillmentOrders \subseteq Physical

RowInit == /\ status = [o \in Orders |-> "none"]
           /\ payment = [o \in Orders |-> "none"]
           /\ fulfillment = [o \in Orders |-> "none"]
           /\ events = [o \in Orders |-> {}]
           /\ fulfillmentOrders = {}

\* Writes the three status columns of o.
Update(o, s, p, f) == /\ status' = [status EXCEPT ![o] = s]
                      /\ payment' = [payment EXCEPT ![o] = p]
                      /\ fulfillment' = [fulfillment EXCEPT ![o] = f]

\* Inserts events; the id is order + type + idempotency key, ON CONFLICT DO NOTHING.
Record(o, types) == events' = [events EXCEPT ![o] = @ \cup types]

-----------------------------------------------------------------------------
(* Creation and stock reservation.                                         *)

CreateOwnerOrder(o) ==
  /\ o \in Physical
  /\ status[o] = "none"
  /\ Update(o, "pending_inventory", "pending", "unfulfilled")
  /\ UNCHANGED <<events, fulfillmentOrders>>

CreateValueOrder(o) ==
  /\ o \in ValueOrders
  /\ status[o] = "none"
  /\ Update(o, "pending_payment", "pending", "unfulfilled")
  /\ UNCHANGED <<events, fulfillmentOrders>>

MarkInventoryReserved(o) ==
  /\ o \in Physical
  /\ status[o] \in {"pending_inventory", "pending_payment"}
  /\ Update(o, "pending_payment", payment[o], "inventory_reserved")
  /\ UNCHANGED <<events, fulfillmentOrders>>

MarkInventoryFailed(o) ==
  /\ o \in Physical
  /\ status[o] = "pending_inventory"
  /\ Update(o, "inventory_failed", payment[o], "inventory_failed")
  /\ UNCHANGED <<events, fulfillmentOrders>>

-----------------------------------------------------------------------------
(* Payment result.                                                         *)

\* terminal_order_status: the statuses that suppress fulfillment.
TerminalStatus == {"paid", "completed", "cancelled", "closed", "expired"}

\* Mutant: the list of the UPDATE forgets a status.
KeptBySuccessWithoutClosed == {"completed", "cancelled", "expired"}
\* The statuses the UPDATE of mark_owner_order_payment_succeeded keeps.
KeptBySuccess == {"completed", "cancelled", "closed", "expired"}

TerminalOrderPreserved(o) == status[o] \in TerminalStatus

\* Mutant: computed from the row after the UPDATE, when every order is paid.
SuccessEventsAfterUpdate(o) ==
  IF TerminalOrderPreserved(o) THEN {"duplicate_payment_success"} ELSE {}

\* late_payment and duplicate_payment, computed from the row before the UPDATE.
SuccessEvents(o) ==
  IF ~TerminalOrderPreserved(o) THEN {}
  ELSE IF payment[o] = "success" THEN {"duplicate_payment_success"}
  ELSE {"payment_succeeded_after_terminal"}

\* Mutant: the status is overwritten whatever it is.
MarkPaymentSucceededAlways(o) ==
  /\ status[o] # "none"
  /\ Update(o, "paid", "success", fulfillment[o])
  /\ Record(o, SuccessEvents(o))
  /\ UNCHANGED fulfillmentOrders

MarkPaymentSucceeded(o) ==
  /\ status[o] # "none"
  /\ Update(o, IF status[o] \in KeptBySuccess THEN status[o] ELSE "paid",
               "success", fulfillment[o])
  /\ Record(o, SuccessEvents(o))
  /\ UNCHANGED fulfillmentOrders

\* Mutant: only the status is looked at, not the payment.
FailurePreservedByStatus(o) == TerminalOrderPreserved(o)

FailurePreserved(o) == TerminalOrderPreserved(o) \/ payment[o] = "success"

MarkPaymentFailed(o, failure) ==
  /\ status[o] # "none"
  /\ ~FailurePreserved(o)
  /\ Update(o, "cancelled", failure, fulfillment[o])
  /\ UNCHANGED <<events, fulfillmentOrders>>

-----------------------------------------------------------------------------
(* Cancellation, closing and expiry.                                       *)

Payable == {"pending_payment"}

\* cancel_owner_order and cancel_management_order: one guard, one effect.
CancelOrder(o) ==
  /\ status[o] \in Payable
  /\ Update(o, "cancelled", "closed", fulfillment[o])
  /\ Record(o, {"cancelled"})
  /\ UNCHANGED fulfillmentOrders

CloseManagementOrder(o) ==
  /\ status[o] \notin {"none", "cancelled", "closed"}
  /\ Update(o, "closed", payment[o], fulfillment[o])
  /\ Record(o, {"closed"})
  /\ UNCHANGED fulfillmentOrders

\* succeededAttempt: a commerce_payment_attempt row of o is succeeded.
ExpireDueOrder(o, succeededAttempt) ==
  /\ status[o] \in Payable
  /\ ~succeededAttempt
  /\ Update(o, "expired", "expired", fulfillment[o])
  /\ Record(o, {"expired"})
  /\ UNCHANGED fulfillmentOrders

\* Part of creating another recharge order: no event, payment column untouched,
\* payment attempts not looked at.
ExpireStaleRechargeOrder(o) ==
  /\ o \in Points
  /\ status[o] \in Payable
  /\ Update(o, "expired", payment[o], fulfillment[o])
  /\ UNCHANGED <<events, fulfillmentOrders>>

-----------------------------------------------------------------------------
(* Fulfillment.                                                            *)

\* fulfill_postgres: the first call creates the fulfillment order.
FulfillPhysical(o) ==
  /\ o \in Physical
  /\ o \notin fulfillmentOrders
  /\ payment[o] = "success"
  /\ fulfillmentOrders' = fulfillmentOrders \cup {o}
  /\ Update(o, status[o], payment[o], "awaiting_shipment")
  /\ UNCHANGED events

\* advance_owner_order_to_shipped, called when a parcel of o's fulfillment
\* order becomes shipped.
AdvanceToShipped(o) ==
  /\ o \in fulfillmentOrders
  /\ status[o] = "paid"
  /\ fulfillment[o] \in {"inventory_reserved", "awaiting_shipment"}
  /\ Update(o, "shipped", payment[o], "shipped")
  /\ Record(o, {"shipped"})
  /\ UNCHANGED fulfillmentOrders

ConfirmReceipt(o) ==
  /\ status[o] \in {"paid", "shipped"}
  /\ fulfillment[o] \in {"awaiting_shipment", "shipped"}
  /\ Update(o, "completed", payment[o], "delivered")
  /\ Record(o, {"completed"})
  /\ UNCHANGED fulfillmentOrders

\* reserve_points_recharge_fulfillment / reserve_account_value_fulfillment
ReserveFulfillment(o) ==
  /\ o \in ValueOrders
  /\ fulfillment[o] \notin {"fulfilled", "processing"}
  /\ Update(o, status[o], payment[o], "processing")
  /\ UNCHANGED <<events, fulfillmentOrders>>

ReleaseFulfillment(o) ==
  /\ o \in ValueOrders
  /\ fulfillment[o] = "processing"
  /\ Update(o, status[o], payment[o], "unfulfilled")
  /\ UNCHANGED <<events, fulfillmentOrders>>

\* The commit looks at the fulfillment column only, not at status.
CommitFulfillment(o) ==
  /\ o \in ValueOrders
  /\ fulfillment[o] # "fulfilled"
  /\ Update(o, "paid", "success", "fulfilled")
  /\ UNCHANGED <<events, fulfillmentOrders>>
=============================================================================

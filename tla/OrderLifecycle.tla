--------------------------- MODULE OrderLifecycle ---------------------------
(***************************************************************************)
(* What the order domain promises about an order, whoever calls it and     *)
(* whenever: every store method of OrderRow interleaved with every other,  *)
(* with the three facts about the payment side that the methods and their  *)
(* callers depend on.  PaymentNotify is the detailed specification and     *)
(* implements this one.                                                    *)
(*                                                                         *)
(* A caller that marked an order paid and was not told that the order was  *)
(* terminal goes on to fulfill it: the order is then in settling.  The     *)
(* caller may end at any moment, with an error, a crash or an answer.      *)
(***************************************************************************)
EXTENDS OrderRow

VARIABLES open,      \* orders a payment attempt was ever opened for
          recorded,  \* orders with a payment attempt row in status succeeded
          settling   \* orders some caller is fulfilling after marking them paid

vars == <<rowVars, open, recorded, settling>>

TypeOK == /\ RowTypeOK
          /\ open \subseteq Orders
          /\ recorded \subseteq open
          /\ settling \subseteq Orders

Init == /\ RowInit
        /\ open = {}
        /\ recorded = {}
        /\ settling = {}

-----------------------------------------------------------------------------
PaymentSideUnchanged == UNCHANGED <<open, recorded>>
CallersUnchanged == PaymentSideUnchanged /\ UNCHANGED settling

\* External: pay_owner_order opens an attempt for a payable order only.
OpenPayment(o) == /\ status[o] \in Payable
                  /\ open' = open \cup {o}
                  /\ UNCHANGED <<rowVars, recorded, settling>>

\* External: the payment side records that an attempt of o succeeded.
RecordSuccess(o) == /\ o \in open
                    /\ recorded' = recorded \cup {o}
                    /\ UNCHANGED <<rowVars, open, settling>>

\* settle_owner_order_after_payment_success: a preserved terminal order is
\* answered late_payment_requires_recovery and not fulfilled.
SettleSuccess(o) == /\ o \in recorded
                    /\ MarkPaymentSucceeded(o)
                    /\ settling' = IF TerminalOrderPreserved(o)
                                     THEN settling ELSE settling \cup {o}
                    /\ PaymentSideUnchanged

SettleFailure(o) == /\ o \in open
                    /\ \E failure \in {"failed", "canceled", "closed"} :
                         MarkPaymentFailed(o, failure)
                    /\ CallersUnchanged

\* A transaction of the fulfillment; the caller may return right after it.
FulfillStep(o) == /\ o \in settling
                  /\ \/ FulfillPhysical(o)
                     \/ ReserveFulfillment(o)
                     \/ ReleaseFulfillment(o)
                     \/ CommitFulfillment(o)
                  /\ settling' \in {settling, settling \ {o}}
                  /\ PaymentSideUnchanged

EndSettling(o) == /\ o \in settling
                  /\ settling' = settling \ {o}
                  /\ UNCHANGED rowVars
                  /\ PaymentSideUnchanged

OwnerStep(o) == /\ \/ CreateOwnerOrder(o)
                   \/ CreateValueOrder(o)
                   \/ MarkInventoryReserved(o)
                   \/ MarkInventoryFailed(o)
                   \/ CancelOrder(o)
                   \/ CloseManagementOrder(o)
                   \/ ExpireDueOrder(o, o \in recorded)
                   \/ ExpireStaleRechargeOrder(o)
                   \/ AdvanceToShipped(o)
                   \/ ConfirmReceipt(o)
                /\ CallersUnchanged

Next == \E o \in Orders : \/ OpenPayment(o)
                          \/ RecordSuccess(o)
                          \/ SettleSuccess(o)
                          \/ SettleFailure(o)
                          \/ FulfillStep(o)
                          \/ EndSettling(o)
                          \/ OwnerStep(o)

Spec == Init /\ [][Next]_vars

-----------------------------------------------------------------------------
(* Safety.                                                                 *)

\* Fulfillment has begun or ended.
Started == {"processing", "fulfilled", "awaiting_shipment", "shipped", "delivered"}

\* Orders that ended without being paid.
Dead == {"cancelled", "expired"}

\* Once a payment is recorded on the row, no later failure notice,
\* cancellation, expiry or retry takes it off again: the promise of the guard
\* of mark_owner_order_payment_failed and of the IN lists of the other methods.
CollectedMoneyIsNeverForgotten ==
  [][\A o \in Orders : payment[o] = "success" => payment'[o] = "success"]_vars

\* The status and the payment column never disagree: an order that has been
\* paid is not one that can still be cancelled, expired or paid for, and an
\* order that is paid, shipped or completed has its payment recorded.
PaidIsNotPayable ==
  \A o \in Orders :
    /\ payment[o] = "success" =>
         status[o] \notin Payable \cup {"none", "pending_inventory", "inventory_failed"}
    /\ status[o] \in {"paid", "shipped", "completed"} => payment[o] = "success"

\* Money that reached a cancelled or expired order is on the audit trail, in
\* whatever order the payment and the cancellation were processed.
LatePaymentIsAudited ==
  \A o \in Orders : (status[o] \in Dead /\ payment[o] = "success") =>
    "payment_succeeded_after_terminal" \in events[o]

\* Goods and value are handed over only for orders whose row shows the payment.
FulfillmentNeedsPayment ==
  \A o \in Orders : (fulfillment[o] \in Started \/ o \in settling) => payment[o] = "success"

\* A cancelled or expired order, even one paid late, is never being fulfilled
\* and never has been.
DeadOrderIsNeverFulfilled ==
  \A o \in Orders : status[o] \in Dead => fulfillment[o] \notin Started /\ o \notin settling

\* A payment that found its order already ended is recovered by hand: the order
\* stays ended, whichever way it ended, and nothing is ever handed over for it.
LatePaymentIsNeverFulfilled ==
  \A o \in Orders : "payment_succeeded_after_terminal" \in events[o] =>
    /\ status[o] \in Dead \cup {"closed"}
    /\ fulfillment[o] \notin Started
    /\ o \notin settling

\* A cancelled order stays cancelled; an expired one can only be closed; a
\* closed one is reopened by nothing but the commit of a fulfillment that was
\* under way when it was closed (the commit does not look at the status).
DeadOrderStaysDead ==
  [][\A o \in Orders :
       /\ status[o] = "cancelled" => status'[o] = "cancelled"
       /\ status[o] = "expired" => status'[o] \in {"expired", "closed"}
       /\ status[o] = "closed" =>
            \/ status'[o] = "closed"
            \/ o \in settling /\ fulfillment'[o] = "fulfilled"]_vars

\* A completed order was paid and delivered and says so on its audit trail,
\* and no redelivered payment takes a delivered order out of completed.
ReceiptIsConsistent ==
  \A o \in Orders :
    /\ status[o] = "completed" =>
         fulfillment[o] = "delivered" /\ "completed" \in events[o]
    /\ fulfillment[o] = "delivered" => status[o] \in {"completed", "closed"}

\* The fulfillment order and the fulfillment column, written together by
\* fulfill_postgres and separately by shipment and receipt, never drift apart,
\* and no value order is ever shipped.
FulfillmentOrderMatchesRow ==
  \A o \in Orders : o \in fulfillmentOrders <=>
    fulfillment[o] \in {"awaiting_shipment", "shipped", "delivered"}
=============================================================================

---------------------------- MODULE PhysicalOrder ----------------------------
(***************************************************************************)
(* A physical order with its stock: checkout, cancellation, closing,       *)
(* expiry, refund and return review, each a call of several transactions   *)
(* over two stores, interleaved with the settlement workers of             *)
(* PaymentNotify and with the sweep of Inventory.  No call holds a lock    *)
(* from one transaction to the next, and the fulfillment status that       *)
(* decides whether stock is given back is read before the order changes.   *)
(***************************************************************************)
EXTENDS PaymentNotify, Inventory

CONSTANTS Callers,    \* calls that can be under way beside the workers
          NoOrder,    \* what an idle caller works on
          LongWindow  \* SDKWORK_ORDER_PAYMENT_EXPIRE_SECONDS exceeds 1800

ASSUME PhysicalAssumption == /\ Physical = Orders
                             /\ Customers = Orders
                             /\ NoOrder \notin Orders
                             /\ LongWindow \in BOOLEAN

VARIABLES at, about,  \* where each caller is, and for which order
          gives,      \* callers that read a status that calls for a release
          taken,      \* workers whose call has consumed the stock
          due,        \* orders whose expired_at has passed
          claims,     \* orders with an after-sales request
          refunded    \* orders refunded by the provider, stock release tried

callVars == <<at, about, gives>>
physicalVars == <<callVars, taken, due, claims, refunded>>
allVars == <<vars, inventoryVars, physicalVars>>

CallPlaces == {"idle", "reserve", "markReserved", "markFailed", "cancel", "close",
               "expire", "release", "restock", "refund"}

PhysicalTypeOK ==
  /\ TypeOK
  /\ InventoryTypeOK
  /\ at \in [Callers -> CallPlaces]
  /\ about \in [Callers -> Orders \cup {NoOrder}]
  /\ \A c \in Callers : at[c] = "idle" <=> about[c] = NoOrder
  /\ gives \subseteq {c \in Callers : at[c] \in {"cancel", "close", "expire"}}
  /\ taken \subseteq {w \in Workers : pc[w] = "handle"}
  /\ due \subseteq Orders
  /\ claims \subseteq Orders
  /\ refunded \subseteq Orders

PhysicalInit == /\ Init
                /\ InventoryInit
                /\ at = [c \in Callers |-> "idle"]
                /\ about = [c \in Callers |-> NoOrder]
                /\ gives = {}
                /\ taken = {}
                /\ due = {}
                /\ claims = {}
                /\ refunded = {}

Call(c, o, place) == /\ at[c] = "idle"
                     /\ at' = [at EXCEPT ![c] = place]
                     /\ about' = [about EXCEPT ![c] = o]
Continue(c, place) == /\ at' = [at EXCEPT ![c] = place]
                      /\ UNCHANGED about
Return(c) == /\ at' = [at EXCEPT ![c] = "idle"]
             /\ about' = [about EXCEPT ![c] = NoOrder]
             /\ gives' = gives \ {c}

SettlementUnchanged == UNCHANGED <<paymentVars, acked, ledgerVars, workerVars, taken>>
RowOnly == SettlementUnchanged /\ UNCHANGED <<inventoryVars, due, claims, refunded>>
StockOnly == SettlementUnchanged /\ UNCHANGED <<rowVars, due, claims, refunded>>
NothingButCalls == RowOnly /\ UNCHANGED rowVars

-----------------------------------------------------------------------------
(* create_checkout_order.                                                  *)

\* A repeated request finds the order and goes on to reserve.
Checkout(c, o) ==
  /\ Call(c, o, "reserve")
  /\ CreateOwnerOrder(o) \/ (status[o] # "none" /\ UNCHANGED rowVars)
  /\ UNCHANGED gives
  /\ RowOnly

\* Rows that are all reserved or consumed are a replay.  An error is a lack of
\* stock, a replay that does not match or a store error, which may be the loss
\* of the answer to the COMMIT.
ReserveStock(c) ==
  /\ at[c] = "reserve"
  /\ \/ /\ ReserveOrder(about[c])
        /\ Continue(c, "markReserved") \/ Continue(c, "markFailed")
     \/ /\ \A l \in LinesOf(about[c]) : line[l] \in {"reserved", "consumed"}
        /\ Continue(c, "markReserved")
        /\ UNCHANGED inventoryVars
     \/ /\ Continue(c, "markFailed")
        /\ UNCHANGED inventoryVars
  /\ UNCHANGED gives
  /\ StockOnly

\* Mutant: the order is activated whatever has become of it.
MarkReservedAlways(c) ==
  /\ at[c] = "markReserved"
  /\ Update(about[c], "pending_payment", payment[about[c]], "inventory_reserved")
  /\ Return(c)
  /\ UNCHANGED <<events, fulfillmentOrders>>
  /\ RowOnly

\* Refused when the order has gone on: the reservation stays behind.
MarkReserved(c) ==
  /\ at[c] = "markReserved"
  /\ \/ MarkInventoryReserved(about[c])
     \/ /\ status[about[c]] \notin {"pending_inventory", "pending_payment"}
        /\ UNCHANGED rowVars
  /\ Return(c)
  /\ RowOnly

MarkFailedCheckout(c) ==
  /\ at[c] = "markFailed"
  /\ \/ MarkInventoryFailed(about[c])
     \/ status[about[c]] # "pending_inventory" /\ UNCHANGED rowVars
  /\ Return(c)
  /\ RowOnly

-----------------------------------------------------------------------------
(* Cancellation by the owner or the operator, closing, and expiry.         *)

Succeeded(o) == \E a \in Attempts : OrderOf[a] = o /\ attempt[a] = "succeeded"
PaymentsClosed(o) == \A a \in Attempts : OrderOf[a] = o => attempt[a] # "pending"

\* physical_order_fulfillment_requires_release, of the row as it is now.
RequiresRelease(o) == fulfillment[o] = "inventory_reserved"

\* Mutant: the stock is given back before the order is cancelled.
BeginEndingWithRelease(c, o) ==
  /\ status[o] # "none"
  /\ RequiresRelease(o)
  /\ Call(c, o, "release")
  /\ UNCHANGED gives
  /\ NothingButCalls

BeginEnding(c, o) ==
  /\ status[o] # "none"
  /\ \/ Call(c, o, "cancel")
     \/ Call(c, o, "close")
     \/ Call(c, o, "expire") /\ status[o] \in Payable /\ o \in due /\ ~Succeeded(o)
  /\ gives' = IF RequiresRelease(o) THEN gives \cup {c} ELSE gives
  /\ NothingButCalls

GoOn(c) == IF c \in gives THEN Continue(c, "release") /\ gives' = gives \ {c}
                          ELSE Return(c)

\* An order already cancelled or closed is answered without an error, and the
\* stock is given back then too.
EndOrder(c) ==
  LET o == about[c] IN
  /\ \/ /\ at[c] = "cancel"
        /\ PaymentsClosed(o)
        /\ CancelOrder(o) \/ (status[o] = "cancelled" /\ UNCHANGED rowVars)
     \/ /\ at[c] = "close"
        /\ PaymentsClosed(o)
        /\ CloseManagementOrder(o) \/ (status[o] = "closed" /\ UNCHANGED rowVars)
     \/ /\ at[c] = "expire"
        /\ ExpireDueOrder(o, Succeeded(o))
  /\ GoOn(c)
  /\ RowOnly

\* The release of an ended order and of a return review; one in error is logged
\* or answered.
ReleaseStock(c) ==
  /\ at[c] = "release"
  /\ \/ ReleaseOrder(about[c]) /\ UNCHANGED sweeping
     \/ ~ReleaseChanges(about[c]) /\ UNCHANGED inventoryVars
  /\ Return(c)
  /\ StockOnly

\* A call ends early, with an error or with the process.
GiveUp(c) == /\ at[c] # "idle"
             /\ Return(c)
             /\ NothingButCalls

-----------------------------------------------------------------------------
(* Refund and return.                                                      *)

\* A refund of a paid order that the provider confirmed.
BeginRefund(c, o) == /\ payment[o] = "success"
                     /\ Call(c, o, "refund")
                     /\ UNCHANGED gives
                     /\ NothingButCalls

ReleaseRefunded(c) ==
  /\ at[c] = "refund"
  /\ \/ ReleaseOrder(about[c]) /\ UNCHANGED sweeping
     \/ ~ReleaseChanges(about[c]) /\ UNCHANGED inventoryVars
  /\ refunded' = refunded \cup {about[c]}
  /\ Return(c)
  /\ SettlementUnchanged
  /\ UNCHANGED <<rowVars, due, claims>>

\* create_after_sales_request.
OpenClaim(o) ==
  /\ status[o] \notin {"none", "pending_payment", "cancelled", "closed", "expired"}
  /\ claims' = claims \cup {o}
  /\ SettlementUnchanged
  /\ UNCHANGED <<rowVars, inventoryVars, callVars, due, refunded>>

\* maybe_restock_physical_return, after the review that completed the request.
ReviewCompleted(c, o) ==
  /\ o \in claims
  /\ \/ RequiresRelease(o) /\ Call(c, o, "release")
     \/ /\ fulfillment[o] \in {"awaiting_shipment", "shipped", "delivered"}
        /\ Call(c, o, "restock")
  /\ UNCHANGED gives
  /\ NothingButCalls

RestockChanges(o) == /\ InStatus(o, "consumed") # {}
                     /\ \A l \in LinesOf(o) : line[l] \in {"consumed", "restocked", "released"}

RestockStock(c) ==
  /\ at[c] = "restock"
  /\ \/ RestockOrder(about[c])
     \/ ~RestockChanges(about[c]) /\ UNCHANGED inventoryVars
  /\ Return(c)
  /\ StockOnly

-----------------------------------------------------------------------------
(* Settlement with stock: fulfill_paid_physical_order is two transactions. *)

\* Mutant: rows that are no longer reserved are taken for a replay.
ConsumeMissing(w) ==
  /\ pc[w] = "handle"
  /\ w \notin taken
  /\ \/ ConsumeOrder(Order(w))
     \/ /\ InStatus(Order(w), "reserved") = {}
        /\ UNCHANGED inventoryVars
  /\ taken' = taken \cup {w}
  /\ UNCHANGED <<vars, callVars, due, claims, refunded>>
ConsumeStock(w) ==
  /\ pc[w] = "handle"
  /\ w \notin taken
  /\ \/ ConsumeOrder(Order(w))
     \/ /\ InStatus(Order(w), "consumed") = LinesOf(Order(w))
        /\ UNCHANGED inventoryVars
  /\ taken' = taken \cup {w}
  /\ UNCHANGED <<vars, callVars, due, claims, refunded>>

ConsumeRefused(w) ==
  /\ StockRefused(w)
  /\ w \notin taken
  /\ InStatus(Order(w), "reserved") \cup InStatus(Order(w), "consumed") # LinesOf(Order(w))
  /\ UNCHANGED <<inventoryVars, physicalVars>>

FulfillConsumed(w) ==
  /\ w \in taken
  /\ FulfillOrder(w)
  /\ taken' = taken \ {w}
  /\ UNCHANGED <<inventoryVars, callVars, due, claims, refunded>>

AbortWorker(w) ==
  /\ Abort(w)
  /\ taken' = taken \ {w}
  /\ UNCHANGED <<inventoryVars, callVars, due, claims, refunded>>

\* The steps of PaymentNotify that leave the stock alone.
SettlementStep ==
  /\ \/ \E a \in Attempts : PaymentStep(a)
     \/ \E w \in Workers : \/ IngestSucceeded(w)
                           \/ IngestFailed(w)
                           \/ MarkFailed(w)
                           \/ MarkSucceeded(w)
                           \/ Answer(w)
                           \/ \E a \in Attempts : EnterPipeline(w, a)
  /\ UNCHANGED <<inventoryVars, physicalVars>>

DeliveryStep(o) == /\ AdvanceToShipped(o) \/ ConfirmReceipt(o)
                   /\ UNCHANGED callVars
                   /\ RowOnly

-----------------------------------------------------------------------------
(* Time and the sweep.                                                     *)

BecomeDue(o) == /\ status[o] # "none"
                /\ o \notin due
                /\ due' = due \cup {o}
                /\ UNCHANGED <<vars, inventoryVars, callVars, taken, claims, refunded>>

\* A reservation lapses 1800 seconds after it was made, the order the payment
\* window after it was created, which is earlier unless the window is longer.
StockTime ==
  /\ \/ \E o \in Orders : \/ (LongWindow \/ o \in due) /\ Lapse(o)
                          \/ SweepRelease(o)
     \/ SweepList
     \/ SweepCrash
  /\ UNCHANGED <<vars, physicalVars>>

CallStep(c) == \/ ReserveStock(c)
               \/ MarkReserved(c)
               \/ MarkFailedCheckout(c)
               \/ EndOrder(c)
               \/ ReleaseStock(c)
               \/ ReleaseRefunded(c)
               \/ RestockStock(c)
               \/ GiveUp(c)

BeginCall(c, o) == \/ Checkout(c, o)
                   \/ BeginEnding(c, o)
                   \/ BeginRefund(c, o)
                   \/ ReviewCompleted(c, o)

PhysicalNext ==
  \/ \E c \in Callers : CallStep(c) \/ \E o \in Orders : BeginCall(c, o)
  \/ \E w \in Workers : \/ ConsumeStock(w)
                        \/ ConsumeRefused(w)
                        \/ FulfillConsumed(w)
                        \/ AbortWorker(w)
  \/ \E o \in Orders : OpenClaim(o) \/ DeliveryStep(o) \/ BecomeDue(o)
  \/ SettlementStep
  \/ StockTime

PhysicalSpec == PhysicalInit /\ [][PhysicalNext]_allVars

-----------------------------------------------------------------------------
(* Refinement.                                                             *)

\* Seen without the callers, an order with stock behaves as PaymentNotify says,
\* and the stock as Inventory says: the two stores share no transaction, and
\* neither relies on the other.
ImplementsSettlement == Spec
ImplementsInventory == InventorySpec

-----------------------------------------------------------------------------
(* Safety across the two stores.                                           *)

\* Goods in a fulfillment order have left the stock: they are sold or were
\* returned after the sale, never released under the shipment by a sweep, a
\* cancellation, a refund or a review that ran late.
FulfilledStockIsSold ==
  \A o \in Orders : o \in fulfillmentOrders =>
    \A l \in LinesOf(o) : line[l] \in {"consumed", "restocked"}

\* Stock is sold only for an order whose row shows the payment and that was
\* neither cancelled nor expired, and returned only after it was handed over.
SoldStockIsPaid ==
  \A l \in Lines :
    /\ line[l] \in {"consumed", "restocked"} =>
         payment[LineOrder[l]] = "success" /\ status[LineOrder[l]] \notin {"cancelled", "expired"}
    /\ line[l] = "restocked" => LineOrder[l] \in fulfillmentOrders

\* "valid within the payment window, expires_at in step": an order that can
\* still be paid for in its window has its stock reserved.  An after-sales
\* request opened while the order waited for stock can end that.
PayableOrderHasStock ==
  \A o \in Orders :
    (status[o] \in Payable /\ RequiresRelease(o) /\ o \notin due \cup claims) =>
      InStatus(o, "reserved") = LinesOf(o)
=============================================================================

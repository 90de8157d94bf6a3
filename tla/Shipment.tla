------------------------------ MODULE Shipment ------------------------------
(***************************************************************************)
(* The delivery of physical orders: shipments of a fulfillment order and   *)
(* their packages.  An operator's update that sets a package to shipped    *)
(* commits the package first and takes the shipment, the fulfillment order *)
(* and the order to shipped in a second transaction, which may never run.  *)
(* Beside it the order is paid, fulfilled, closed and received by the      *)
(* store methods of OrderRow, each with what it does to the stock; the     *)
(* rows of an order's reservation move together (OrderMovesAsOne of        *)
(* Inventory), so the stock of an order has one status here.               *)
(***************************************************************************)
EXTENDS OrderRow

CONSTANTS Shipments, OrderOf,    \* the shipments and the order each belongs to
          Packages, ShipmentOf   \* their packages, one per Idempotency-Key

ASSUME ShipmentAssumption == /\ Physical = Orders
                             /\ OrderOf \in [Shipments -> Orders]
                             /\ ShipmentOf \in [Packages -> Shipments]

VARIABLES stock,      \* the status of the order's reservation rows
          settling,   \* orders a settlement has marked paid and has yet to fulfill
          shipment,   \* commerce_shipment.status
          delivered,  \* orders whose commerce_fulfillment_order says shipped
          package,    \* commerce_shipment_package.status
          advancing   \* packages set to shipped by a call that has yet to advance the order

shipmentVars == <<shipment, delivered, package, advancing>>
orderVars == <<rowVars, stock, settling>>
deliveryVars == <<orderVars, shipmentVars>>

Stock == {"none", "reserved", "consumed", "released", "restocked"}
PackageStatus == {"created", "shipped"}

ShipmentTypeOK == /\ RowTypeOK
                  /\ stock \in [Orders -> Stock]
                  /\ settling \subseteq Orders
                  /\ shipment \in [Shipments -> {"none", "created", "shipped"}]
                  /\ delivered \subseteq Orders
                  /\ package \in [Packages -> PackageStatus \cup {"none"}]
                  /\ advancing \subseteq Packages

ShipmentInit == /\ RowInit
                /\ stock = [o \in Orders |-> "none"]
                /\ settling = {}
                /\ shipment = [s \in Shipments |-> "none"]
                /\ delivered = {}
                /\ package = [p \in Packages |-> "none"]
                /\ advancing = {}

-----------------------------------------------------------------------------
(* The order on its way to the customer.                                   *)

Moves(o, from, to) == stock' = [stock EXCEPT ![o] = IF @ \in from THEN to ELSE @]

PlaceOrder(o) == /\ CreateOwnerOrder(o)
                 /\ UNCHANGED <<stock, settling>>

ReserveOrderStock(o) == /\ stock[o] \in {"none", "reserved"}
                        /\ MarkInventoryReserved(o)
                        /\ Moves(o, {"none"}, "reserved")
                        /\ UNCHANGED settling

\* A success notified for the first time or again; a payment is opened for an
\* order with stock only.
PayOrder(o) == /\ fulfillment[o] \notin {"none", "unfulfilled"}
               /\ MarkPaymentSucceeded(o)
               /\ settling' = IF TerminalOrderPreserved(o) THEN settling ELSE settling \cup {o}
               /\ UNCHANGED stock

\* The settlement consumes the stock, which is refused if it was released, and
\* creates the fulfillment order in a second transaction.
ConsumeStock(o) == /\ o \in settling
                   /\ stock[o] = "reserved"
                   /\ Moves(o, {"reserved"}, "consumed")
                   /\ UNCHANGED <<rowVars, settling>>
Fulfill(o) == /\ o \in settling
              /\ stock[o] = "consumed"
              /\ FulfillPhysical(o)
              /\ settling' = settling \ {o}
              /\ UNCHANGED stock

\* Closing gives reserved stock back (the steps of the call are in PhysicalOrder).
CloseOrder(o) == /\ CloseManagementOrder(o)
                 /\ IF fulfillment[o] = "inventory_reserved"
                      THEN Moves(o, {"reserved"}, "released")
                      ELSE UNCHANGED stock
                 /\ UNCHANGED settling

ReceiveOrder(o) == /\ ConfirmReceipt(o)
                   /\ UNCHANGED <<stock, settling>>

OrderStep(o) == /\ \/ PlaceOrder(o)
                   \/ ReserveOrderStock(o)
                   \/ PayOrder(o)
                   \/ ConsumeStock(o)
                   \/ Fulfill(o)
                   \/ CloseOrder(o)
                   \/ ReceiveOrder(o)
                /\ UNCHANGED shipmentVars

-----------------------------------------------------------------------------
(* Shipments and packages.                                                 *)

\* External: the merchant's system inserts the shipment of a fulfillment order.
CreateShipment(s) == /\ shipment[s] = "none"
                     /\ OrderOf[s] \in fulfillmentOrders
                     /\ shipment' = [shipment EXCEPT ![s] = "created"]
                     /\ UNCHANGED <<orderVars, delivered, package, advancing>>

\* The status is the one the operator gives, created if none; a package that
\* is created shipped does not advance the order.
CreatePackage(p, s) == /\ shipment[ShipmentOf[p]] # "none"
                       /\ package[p] = "none"
                       /\ package' = [package EXCEPT ![p] = s]
                       /\ UNCHANGED <<orderVars, shipment, delivered, advancing>>

UpdatePackage(p, s) == /\ package[p] # "none"
                       /\ package' = [package EXCEPT ![p] = s]
                       /\ advancing' = IF s = "shipped" THEN advancing \cup {p} ELSE advancing
                       /\ UNCHANGED <<orderVars, shipment, delivered>>

\* The row advances if the order is paid and waits for its shipment.
AdvanceOrder(o) ==
  IF status[o] = "paid" /\ fulfillment[o] \in {"inventory_reserved", "awaiting_shipment"}
    THEN AdvanceToShipped(o) ELSE UNCHANGED rowVars

\* Mutant: the shipment is forgotten.
AdvanceOrderOnly(p) == /\ p \in advancing
                       /\ AdvanceOrder(OrderOf[ShipmentOf[p]])
                       /\ delivered' = delivered \cup {OrderOf[ShipmentOf[p]]}
                       /\ advancing' = advancing \ {p}
                       /\ UNCHANGED <<stock, settling, shipment, package>>

\* advance_owner_order_to_shipped: an order that does not wait for shipment keeps
\* its row, its shipment and fulfillment order say shipped all the same.
Advance(p) ==
  LET o == OrderOf[ShipmentOf[p]]
  IN /\ p \in advancing
     /\ AdvanceOrder(o)
     /\ shipment' = [shipment EXCEPT ![ShipmentOf[p]] = "shipped"]
     /\ delivered' = delivered \cup {o}
     /\ advancing' = advancing \ {p}
     /\ UNCHANGED <<stock, settling, package>>

\* The second transaction fails, or the process stops before it.
AdvanceFails(p) == /\ p \in advancing
                   /\ advancing' = advancing \ {p}
                   /\ UNCHANGED <<orderVars, shipment, delivered, package>>

PackageStep(p) == \/ \E s \in PackageStatus : CreatePackage(p, s) \/ UpdatePackage(p, s)
                  \/ Advance(p)
                  \/ AdvanceFails(p)

ShipmentNext == \/ \E o \in Orders : OrderStep(o)
                \/ \E s \in Shipments : CreateShipment(s)
                \/ \E p \in Packages : PackageStep(p)

-----------------------------------------------------------------------------
(* Safety.                                                                 *)

\* The order, its fulfillment order and a shipment become shipped together,
\* whichever package is reported first and however often calls are cut short:
\* nobody waits for an order that the shipment side does not know to be gone.
ShippedTogether ==
  \A o \in Orders :
    /\ "shipped" \in events[o] => o \in delivered
    /\ o \in delivered => \E s \in Shipments : OrderOf[s] = o /\ shipment[s] = "shipped"
=============================================================================

----------------------------- MODULE AfterSales -----------------------------
(***************************************************************************)
(* After-sales requests of physical orders: opened by the owner, edited or *)
(* withdrawn by the owner, reviewed by operators, with return shipments,   *)
(* and the stock that a completed review gives back.  A review locks the   *)
(* request; the owner's update does not: it reads the status, checks it,   *)
(* and writes in a later transaction either the status it was given or the *)
(* one it had read.  What a completed review does to the stock comes after *)
(* its commit, by the fulfillment status read then, and may never come.    *)
(*                                                                         *)
(* A request is named by its order and Idempotency-Key, and so are events  *)
(* within a request; a repeated key is answered or refused and changes     *)
(* nothing.  Sessions have an organization: the events of one without are  *)
(* refused by the database, and nothing of it is stored.                   *)
(***************************************************************************)
EXTENDS Shipment, Naturals, FiniteSets

CONSTANTS ReturnRequests, About,  \* request ids and the order each is about
          MaxEdits          \* owner's updates under way at the same time

ASSUME AfterSalesAssumption == /\ About \in [ReturnRequests -> Orders]
                               /\ MaxEdits \in Nat

VARIABLES request,   \* commerce_after_sales_request.status
          reviewed,  \* to_status of its commerce_after_sales_event rows of type reviewed
          recorded,  \* to_status of its events of types created, updated and reviewed
          returned,  \* requests with a return shipment, its event and its return_status
          edits,     \* owner's updates between the read and the write
          restock    \* what the end of a completed review still has to do

trailVars == <<reviewed, recorded>>
requestVars == <<request, trailVars, returned>>
afterSalesVars == <<requestVars, edits, restock>>
allVars == <<deliveryVars, afterSalesVars>>

RequestStatus == {"submitted", "approved", "rejected", "processing", "completed",
                  "cancelled", "withdrawn"}
Kept == "kept"  \* an update that gives no status
Edits == [request : ReturnRequests, read : RequestStatus,
          given : RequestStatus \cup {Kept}]

AfterSalesTypeOK == /\ ShipmentTypeOK
                    /\ request \in [ReturnRequests -> RequestStatus \cup {"none"}]
                    /\ reviewed \in [ReturnRequests -> SUBSET RequestStatus]
                    /\ recorded \in [ReturnRequests -> SUBSET RequestStatus]
                    /\ returned \subseteq ReturnRequests
                    /\ edits \subseteq Edits
                    /\ restock \in [ReturnRequests -> {"no", "decide", "restock", "release"}]

AfterSalesInit == /\ ShipmentInit
                  /\ request = [r \in ReturnRequests |-> "none"]
                  /\ reviewed = [r \in ReturnRequests |-> {}]
                  /\ recorded = [r \in ReturnRequests |-> {}]
                  /\ returned = {}
                  /\ edits = {}
                  /\ restock = [r \in ReturnRequests |-> "no"]

-----------------------------------------------------------------------------
(* The owner.                                                              *)

\* insert_after_sales_event, of a review or of the owner.
LogReview(r, s) == /\ reviewed' = [reviewed EXCEPT ![r] = @ \cup {s}]
                   /\ recorded' = [recorded EXCEPT ![r] = @ \cup {s}]
LogOwner(r, s) == /\ recorded' = [recorded EXCEPT ![r] = @ \cup {s}]
                  /\ UNCHANGED reviewed

\* validate_order_eligible_for_after_sales: an order that waits for its stock passes.
Eligible(o) == status[o] \notin {"none", "pending_payment", "cancelled", "closed", "expired"}

CreateAfterSalesRequest(r) == /\ Eligible(About[r])
                              /\ request[r] = "none"
                              /\ request' = [request EXCEPT ![r] = "submitted"]
                              /\ LogOwner(r, "submitted")
                              /\ UNCHANGED <<deliveryVars, returned, edits, restock>>

\* validate_owner_after_sales_status_transition, of a status that is not the one
\* read: giving that one keeps it, with an event that repeats one of the trail.
OwnerMayChange(from, to) == from = "submitted" /\ to \in {"cancelled", "withdrawn"}

\* update_after_sales_request up to the check of the status it has read.
ReadForUpdate(r, given) ==
  /\ request[r] # "none"
  /\ Cardinality(edits) < MaxEdits
  /\ given = Kept \/ OwnerMayChange(request[r], given)
  /\ edits' = edits \cup {[request |-> r, read |-> request[r], given |-> given]}
  /\ UNCHANGED <<deliveryVars, requestVars, restock>>

\* The UPDATE is not guarded by what was read: it writes the status given, or
\* the one read, over whatever a review has made of it.
WriteUpdate(e) == /\ e \in edits
                  /\ IF e.given = Kept
                       THEN /\ request' = [request EXCEPT ![e.request] = e.read]
                            /\ UNCHANGED trailVars
                       ELSE /\ request' = [request EXCEPT ![e.request] = e.given]
                            /\ LogOwner(e.request, e.given)
                  /\ edits' = edits \ {e}
                  /\ UNCHANGED <<deliveryVars, returned, restock>>

UpdateFails(e) == /\ e \in edits
                  /\ edits' = edits \ {e}
                  /\ UNCHANGED <<deliveryVars, requestVars, restock>>

\* The status of the request is not looked at.
CreateReturnShipment(r) == /\ request[r] # "none"
                           /\ returned' = returned \cup {r}
                           /\ UNCHANGED <<deliveryVars, request, trailVars, edits, restock>>

-----------------------------------------------------------------------------
(* The operator.                                                           *)

\* Mutant: a request can be completed as soon as it is approved.
OperatorMayChangeEarly(from, to) == OwnerMayChange(from, to) \/ to \in {"approved", "completed"}

\* validate_management_after_sales_status_transition
OperatorMayChange(from, to) ==
  \/ from = to
  \/ from = "submitted" /\ to \in {"approved", "rejected", "cancelled"}
  \/ from = "approved" /\ to \in {"processing", "rejected"}
  \/ from = "processing" /\ to = "completed"

\* review_after_sales_request decides by the locked row.
Review(r, to) ==
  /\ request[r] # "none"
  /\ OperatorMayChange(request[r], to)
  /\ request' = [request EXCEPT ![r] = to]
  /\ LogReview(r, to)
  /\ restock' = [restock EXCEPT ![r] = IF to = "completed" THEN "decide" ELSE @]
  /\ UNCHANGED <<deliveryVars, returned, edits>>

\* Mutant: what is in the warehouse is given back too.
DecisionUnshipped(o) == IF fulfillment[o] = "inventory_reserved" THEN "restock" ELSE "no"

\* maybe_restock_physical_return goes by the fulfillment status it reads.
Decision(o) == IF fulfillment[o] \in {"awaiting_shipment", "shipped", "delivered"} THEN "restock"
               ELSE IF fulfillment[o] = "inventory_reserved" THEN "release"
               ELSE "no"

DecideRestock(r) == /\ restock[r] = "decide"
                    /\ restock' = [restock EXCEPT ![r] = Decision(About[r])]
                    /\ UNCHANGED <<deliveryVars, requestVars, edits>>

\* restock_consumed_order_inventory: rows that are still reserved are an error.
RestockMoves(o) == Moves(o, {"consumed"}, "restocked")

\* Rows already released or restocked are skipped, consumed ones by a release.
RestoreStock(r) == /\ restock[r] \in {"restock", "release"}
                   /\ IF restock[r] = "restock" THEN RestockMoves(About[r])
                      ELSE Moves(About[r], {"reserved"}, "released")
                   /\ restock' = [restock EXCEPT ![r] = "no"]
                   /\ UNCHANGED <<rowVars, settling, shipmentVars, requestVars, edits>>

\* Errors are logged and nothing tries again; or the process stops.
RestockFails(r) == /\ restock[r] # "no"
                   /\ restock' = [restock EXCEPT ![r] = "no"]
                   /\ UNCHANGED <<deliveryVars, requestVars, edits>>

-----------------------------------------------------------------------------
RequestStep(r) == \/ CreateAfterSalesRequest(r)
                  \/ \E given \in RequestStatus \cup {Kept} : ReadForUpdate(r, given)
                  \/ CreateReturnShipment(r)
                  \/ \E to \in RequestStatus : Review(r, to)
                  \/ DecideRestock(r)
                  \/ RestoreStock(r)
                  \/ RestockFails(r)

AfterSalesNext == \/ ShipmentNext /\ UNCHANGED afterSalesVars
                  \/ \E r \in ReturnRequests : RequestStep(r)
                  \/ \E e \in edits : WriteUpdate(e) \/ UpdateFails(e)

AfterSalesSpec == AfterSalesInit /\ [][AfterSalesNext]_allVars

-----------------------------------------------------------------------------
(* Safety.                                                                 *)

\* Although an owner's update may write back a status it read long ago, a
\* request that says completed was approved, processed and completed by reviews
\* that are on its trail.
CompletedWasReviewed ==
  \A r \in ReturnRequests :
    request[r] = "completed" => {"approved", "processing", "completed"} \subseteq reviewed[r]

\* Every status a request shows is on its trail, whoever wrote it and from
\* whatever it had read: an auditor finds the transaction that introduced it.
EveryStatusIsRecorded ==
  \A r \in ReturnRequests : request[r] # "none" => request[r] \in recorded[r]

\* Stock comes back into the shop only for goods that had been sold: the order
\* is paid, it went to shipment, and a review completed a request about it.
RestockedWasReturned ==
  \A o \in Orders : stock[o] = "restocked" =>
    /\ payment[o] = "success"
    /\ o \in fulfillmentOrders
    /\ \E r \in ReturnRequests : About[r] = o /\ "completed" \in reviewed[r]
=============================================================================

--------------------------- MODULE PurchaseOrder ---------------------------
(***************************************************************************)
(* One buyer's orders for memberships and application templates            *)
(* (membership_router.rs, app_template_router.rs,                          *)
(* postgres_membership_order.rs, postgres_app_template_order.rs, and the   *)
(* deployments adapter that fulfills a template).                          *)
(*                                                                         *)
(* A creation runs one transaction under READ COMMITTED: it reads by the   *)
(* Idempotency-Key, by ownership and by purchase intent, and inserts, each *)
(* a statement of its own.  The orders it expires stay locked until it     *)
(* commits.  The ids are random, so the n-th inserted order is order n.    *)
(* Requests the catalogue refuses change nothing and are left out.         *)
(***************************************************************************)
EXTENDS OrderRow, Naturals, FiniteSets

CONSTANTS Calls,        \* concurrent HTTP calls
          Kind,         \* kind of each item a buyer can ask for
          Requests,     \* the requests: [item, key, method]
          Prices,       \* prices of an item; 0: the pricing model is FREE
          MaxNow        \* bound on the clock

Items == DOMAIN Kind
Kinds == {"membership", "quota", "template"}

ASSUME PurchaseAssumption == /\ IsFiniteSet(Orders) /\ Orders = 1 .. Cardinality(Orders)
                             /\ Physical = {} /\ Points = {}
                             /\ Kind \in [Items -> Kinds]
                             /\ \A i \in Items : Prices[i] \subseteq Nat
                             /\ \A r \in Requests : r.item \in Items
                             /\ MaxNow \in Nat

VARIABLES bought,    \* what each order is for
          price,     \* what the catalogue shows for an item
          installs,  \* deploy_app_template.install_count
          attempted, \* orders with a payment attempt
          settling,  \* templates marked paid and not yet fulfilled by their caller
          now,
          calls

vars == <<rowVars, bought, price, installs, attempted, settling, now, calls>>

NoPurchase == [item |-> "none", key |-> "none", method |-> "none", price |-> 0, expires |-> 0]
Idle == [op |-> "idle"]

Init == /\ RowInit
        /\ bought = [o \in Orders |-> NoPurchase]
        /\ price \in {f \in [Items -> UNION {Prices[i] : i \in Items}] : \A i \in Items : f[i] \in Prices[i]}
        /\ installs = [i \in Items |-> 0]
        /\ attempted = {}
        /\ settling = {}
        /\ now = 0
        /\ calls = [c \in Calls |-> Idle]

Window == 1
Subject(i) == IF Kind[i] = "template" THEN "app_template" ELSE "membership"
Open(o) == status[o] = "pending_payment"
Created == {o \in Orders : status[o] # "none"}
Goto(c, call) == calls' = [calls EXCEPT ![c] = call]
Return(c) == Goto(c, Idle)
Step(c, op) == Goto(c, [calls[c] EXCEPT !.op = op])
Answer(c, o, how) == Goto(c, [calls[c] EXCEPT !.op = "answered", !.order = o, !.how = how, !.stale = {}])

-----------------------------------------------------------------------------
(* POST memberships/orders, POST app_template/orders                       *)

\* CreateMembershipOrderCommand: the time of the request and of its expiry are
\* fixed by the router.  A quota recharge brings its own amount.
MembershipCall(r, amount) ==
  [op |-> "lookup", item |-> r.item, key |-> r.key, method |-> r.method,
   price |-> amount, at |-> now, order |-> 0, how |-> "none", stale |-> {}]

\* CreateAppTemplateOrderCommand
TemplateCall(r) == MembershipCall(r, 0)

Began == UNCHANGED <<rowVars, bought, price, installs, attempted, settling, now>>

BeginMembership(c, r, amount) ==
  /\ calls[c] = Idle
  /\ Kind[r.item] # "template"
  /\ amount \in IF Kind[r.item] = "quota" THEN Prices[r.item] ELSE {0}
  /\ Goto(c, MembershipCall(r, amount))
  /\ Began

BeginTemplate(c, r) ==
  /\ calls[c] = Idle
  /\ Kind[r.item] = "template"
  /\ Goto(c, TemplateCall(r))
  /\ Began

\* recharge_membership_package: the price is the request's.
QuotaPrice(call) == call.price

\* load_membership_package, load_published_template: the catalogue's, now.
PackagePrice(call) == price[call.item]
ListingPrice(call) == price[call.item]

PriceFor(call) == CASE Kind[call.item] = "quota" -> QuotaPrice(call)
                    [] Kind[call.item] = "membership" -> PackagePrice(call)
                    [] OTHER -> ListingPrice(call)

\* membership_order_request_fingerprint: neither price nor granted quantity.
SameRequest(o, call) == bought[o].item = call.item /\ bought[o].method = call.method

\* Mutant: the price is left out of the intent.
SameIntentAnyPrice(o, call) == bought[o].item = call.item

\* membership_purchase_intent_key, app_template_purchase_intent_key
SameIntent(o, call) == bought[o].item = call.item /\ bought[o].price = call.price

\* Orders found by the caller's key, for the same subject.
ByKey(call) == {o \in Created : bought[o].key = call.key /\ Subject(bought[o].item) = Subject(call.item)}

\* Open orders of the same intent whose window is open at the call's time.
ByIntent(call) == {o \in Created : SameIntent(o, call) /\ Open(o) /\ bought[o].expires > call.at}

\* The stored fingerprint decides between a replay and a conflict.
Replay(c, o) == IF SameRequest(o, calls[c]) THEN Answer(c, o, "key") ELSE Return(c)

Lookup(c) ==
  LET call == calls[c] IN
  /\ call.op = "lookup"
  /\ IF ByKey(call) # {}
     THEN \E o \in ByKey(call) : Replay(c, o)
     ELSE Goto(c, [call EXCEPT !.op = IF Subject(call.item) = "app_template" THEN "owned" ELSE "reuse",
                               !.price = PriceFor(call)])
  /\ UNCHANGED <<rowVars, bought, price, installs, attempted, settling, now>>

\* LOAD_SETTLED_ORDER: templates only, whatever was paid for it.
Settled(item) == {o \in Created : bought[o].item = item /\ status[o] \in {"paid", "completed"}}

Owned(c) ==
  LET call == calls[c] IN
  /\ call.op = "owned"
  /\ IF Settled(call.item) # {}
     THEN \E o \in Settled(call.item) : Answer(c, o, "owned")
     ELSE Step(c, "reuse")
  /\ UNCHANGED <<rowVars, bought, price, installs, attempted, settling, now>>

\* Rows another transaction has updated and not committed.
Locked == UNION {calls[c].stale : c \in {d \in Calls : calls[d] # Idle}}

\* expire_stale_membership_orders, expire_stale_app_template_orders: neither
\* the attempts are looked at nor an event is written.
Stale(call) == {o \in Created : SameIntent(o, call) /\ Open(o) /\ bought[o].expires <= call.at}

\* What the commit of a transaction does to the rows it expired.
ExpireStale(stale) ==
  /\ status' = [o \in Orders |-> IF o \in stale THEN "expired" ELSE status[o]]
  /\ payment' = [o \in Orders |-> IF o \in stale THEN "expired" ELSE payment[o]]

\* The UPDATE and the read by intent; an answer commits.
Reuse(c) ==
  LET call == calls[c]  stale == Stale(call) IN
  /\ call.op = "reuse"
  /\ stale \cap Locked = {}
  /\ IF ByIntent(call) # {}
     THEN /\ \E o \in ByIntent(call) : Answer(c, o, "intent")
          /\ ExpireStale(stale)
     ELSE /\ Goto(c, [call EXCEPT !.op = "insert", !.stale = stale])
          /\ UNCHANGED <<status, payment>>
  /\ UNCHANGED <<fulfillment, events, fulfillmentOrders, bought, price, installs, attempted, settling, now>>

\* uk_order_owner_idempotency: any subject.
KeyTaken(call) == {o \in Created : bought[o].key = call.key}

\* Mutant: no index on the intent.
IntentTakenNever(call) == {o \in Created : SameIntent(o, call) /\ Open(o) /\ o = 0}

\* uk_membership_order_active_purchase_intent: open orders, due or not.
IntentTaken(call) == {o \in Created : SameIntent(o, call) /\ Open(o)} \ call.stale

IsFree(call) == call.price = 0 /\ Kind[call.item] = "template"

\* Mutant: the install is counted before the result of the insert is looked at.
SettleFreeAlways(call, inserted) ==
  installs' = [installs EXCEPT ![call.item] = @ + IF IsFree(call) THEN 1 ELSE 0]

\* settle_free_order, in the transaction of the insert.
SettleFree(call, inserted) ==
  installs' = [installs EXCEPT ![call.item] = @ + IF IsFree(call) /\ inserted THEN 1 ELSE 0]

\* The item and breakdown rows of an order, and what identifies its request.
ItemRows(call) == [item |-> call.item, key |-> call.key, method |-> call.method,
                   price |-> call.price, expires |-> call.at + Window]

\* A free template is created settled.
NewStatus(call) == IF IsFree(call) THEN <<"paid", "success", "fulfilled">>
                   ELSE <<"pending_payment", "pending", "unfulfilled">>

\* The rows of the new order o, and the expiry the transaction carries.
Insert(o, call) ==
  /\ bought' = [bought EXCEPT ![o] = ItemRows(call)]
  /\ status' = [p \in Orders |-> IF p = o THEN NewStatus(call)[1]
                                 ELSE IF p \in call.stale THEN "expired" ELSE status[p]]
  /\ payment' = [p \in Orders |-> IF p = o THEN NewStatus(call)[2]
                                  ELSE IF p \in call.stale THEN "expired" ELSE payment[p]]
  /\ fulfillment' = [fulfillment EXCEPT ![o] = NewStatus(call)[3]]

\* INSERT ... ON CONFLICT DO NOTHING and the inserts that depend on it.
InsertOrder(c) ==
  LET call == calls[c]  taken == KeyTaken(call) \cup IntentTaken(call) IN
  /\ call.op = "insert"
  /\ taken \cap (Locked \ call.stale) = {}
  /\ SettleFree(call, taken = {})
  /\ IF taken = {}
     THEN \E o \in Orders \ Created :
            /\ \A p \in Orders \ Created : o <= p
            /\ Insert(o, call)
            /\ Answer(c, o, "new")
     ELSE /\ Step(c, "raced")
          /\ UNCHANGED <<status, payment, fulfillment, bought>>
  /\ UNCHANGED <<events, fulfillmentOrders, price, attempted, settling, now>>

\* The fingerprint counts for the loser of a race too.
ReplayRaced(c, o) == Replay(c, o)

\* Both reads again; a conflict rolls back.
Raced(c) ==
  LET call == calls[c] IN
  /\ call.op = "raced"
  /\ IF ByKey(call) # {}
     THEN \E o \in ByKey(call) : ReplayRaced(c, o)
     ELSE IF ByIntent(call) # {}
     THEN \E o \in ByIntent(call) : Answer(c, o, "intent")
     ELSE Return(c)
  /\ IF calls'[c] = Idle THEN UNCHANGED <<status, payment>> ELSE ExpireStale(call.stale)
  /\ UNCHANGED <<fulfillment, events, fulfillmentOrders, bought, price, installs, attempted, settling, now>>

\* A provider product is paid at once (an attempt opened, or the provider
\* fails and the order stays as it is); the cashier product is paid later.
MembershipPay(call) == call.method = "native"
TemplatePay(call) == call.method = "native" /\ Open(call.order)

Finish(c) ==
  LET call == calls[c] IN
  /\ call.op = "answered"
  /\ attempted' \in
       IF /\ Open(call.order)
          /\ IF Subject(call.item) = "app_template" THEN TemplatePay(call) ELSE MembershipPay(call)
       THEN {attempted, attempted \cup {call.order}} ELSE {attempted}
  /\ Return(c)
  /\ UNCHANGED <<rowVars, bought, price, installs, settling, now>>

-----------------------------------------------------------------------------
(* What happens to the orders meanwhile                                    *)

\* External: the cashier opens an attempt.
CashierPay(o) ==
  /\ Open(o)
  /\ attempted' = attempted \cup {o}
  /\ UNCHANGED <<rowVars, bought, price, installs, settling, now, calls>>

\* The provider reports the payment; a terminal order is not fulfilled.  The
\* grant of a membership is made by the membership service.
Settle(o) ==
  /\ o \in attempted
  /\ o \notin Locked
  /\ payment[o] # "success"
  /\ MarkPaymentSucceeded(o)
  /\ settling' = IF TerminalOrderPreserved(o) \/ Subject(bought[o].item) # "app_template"
                 THEN settling ELSE settling \cup {o}
  /\ UNCHANGED <<bought, price, installs, attempted, now, calls>>

\* fulfill_postgres: one transaction, counted by the transition.
FulfillTemplate(o) ==
  /\ o \in settling
  /\ payment[o] = "success"
  /\ fulfillment' = [fulfillment EXCEPT ![o] = "fulfilled"]
  /\ installs' = [installs EXCEPT ![bought[o].item] =
                    @ + IF fulfillment[o] # "fulfilled" THEN 1 ELSE 0]
  /\ settling' = settling \ {o}
  /\ UNCHANGED <<status, payment, events, fulfillmentOrders, bought, price, attempted, now, calls>>

\* The adapter fails or the process stops.
FulfillFails(o) ==
  /\ o \in settling
  /\ settling' = settling \ {o}
  /\ UNCHANGED <<rowVars, bought, price, installs, attempted, now, calls>>

\* The buyer cancels, or the sweep finds the order due.
EndOpenOrder(o) ==
  /\ o \notin Locked
  /\ CancelOrder(o) \/ (bought[o].expires <= now /\ ExpireDueOrder(o, FALSE))
  /\ UNCHANGED <<bought, price, installs, attempted, settling, now, calls>>

ChangePrice(i, p) ==
  /\ p \in Prices[i] \ {price[i]}
  /\ price' = [price EXCEPT ![i] = p]
  /\ UNCHANGED <<rowVars, bought, installs, attempted, settling, now, calls>>

Tick == /\ now < MaxNow
        /\ now' = now + 1
        /\ UNCHANGED <<rowVars, bought, price, installs, attempted, settling, calls>>

Next == \/ \E c \in Calls, r \in Requests :
             BeginTemplate(c, r) \/ \E p \in Prices[r.item] \cup {0} : BeginMembership(c, r, p)
        \/ \E c \in Calls : \/ Lookup(c) \/ Owned(c) \/ Reuse(c)
                            \/ InsertOrder(c) \/ Raced(c) \/ Finish(c)
        \/ \E o \in Created : \/ CashierPay(o) \/ Settle(o) \/ EndOpenOrder(o)
                              \/ FulfillTemplate(o) \/ FulfillFails(o)
        \/ \E i \in Items : \E p \in Prices[i] : ChangePrice(i, p)
        \/ Tick

PurchaseSpec == Init /\ [][Next]_vars

-----------------------------------------------------------------------------
(* Properties                                                              *)

\* Concurrent calls and retries never leave a buyer two payable orders for one
\* item at one price (the read by intent, the expiry and the partial index).
OneOpenOrderPerIntent ==
  \A o, p \in Created :
    Open(o) /\ Open(p) /\ bought[o].item = bought[p].item /\ bought[o].price = bought[p].price
      => o = p

\* An answer is for the item asked, also for the loser of a race; with the
\* caller's own key it is for the same request, and an order of another call is
\* offered at the price the call read and with its window still open.
AnswersFitTheRequest ==
  \A c \in Calls : LET call == calls[c] IN
    call.op = "answered" =>
      LET b == bought[call.order] IN
      /\ b.item = call.item
      /\ call.how = "key" => b.key = call.key /\ b.method = call.method
      /\ call.how = "intent" => b.price = call.price /\ b.expires > call.at

\* The marketplace counts an install for every template order that is
\* fulfilled, free or paid, and for no other, whoever loses a race.
InstallsCountFulfilled ==
  \A i \in Items : installs[i] =
    Cardinality({o \in Created : bought[o].item = i /\ fulfillment[o] = "fulfilled"})
=============================================================================

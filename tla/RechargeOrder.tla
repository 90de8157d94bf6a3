---------------------------- MODULE RechargeOrder ----------------------------
(***************************************************************************)
(* Recharge orders of one buyer: points, account value and coupons         *)
(* (recharge_router.rs, postgres_recharge.rs, postgres_account_value.rs,   *)
(* coupon_recharge_fulfillment.rs).  A coupon may be redeemed for nothing, *)
(* or be part of an order that is paid.                                    *)
(*                                                                         *)
(* An order's id is made of its request, so an order is its request: its   *)
(* subject, its Idempotency-Key, its amount and, for a coupon, the code    *)
(* and the benefit that was shown when the order was made.  How a paid     *)
(* points or value order is fulfilled is in PaymentNotify.                 *)
(***************************************************************************)
EXTENDS OrderRow, Naturals, FiniteSets

CONSTANTS Calls,      \* concurrent calls: the buyer's and the payment webhook's
          Codes,      \* coupon codes
          Benefits,   \* what a coupon may grant
          Subscriptions, \* the benefits that are memberships and not assets
          Scenarios,  \* sets of requests a buyer makes
          MaxNow,     \* bound on the clock
          MaxFaults   \* bound on crashes and failing commits

Subjects == {"points", "value", "coupon"}
Coupons == {o \in Orders : o.subject = "coupon"}

ASSUME RechargeAssumption ==
  /\ \A o \in Orders : o.subject \in Subjects /\ o.amount \in Nat
  /\ Points = {o \in Orders : o.subject = "points"} /\ Physical = {}
  /\ \A o \in Coupons, b \in Benefits : o.code \in Codes /\ [o EXCEPT !.benefit = b] \in Orders
  /\ Benefits # {} /\ Subscriptions \subseteq Benefits
  /\ Scenarios \subseteq SUBSET Orders
  /\ MaxNow \in Nat /\ MaxFaults \in Nat

VARIABLES asked,      \* the requests this buyer makes
          expires,    \* commerce_order.expired_at
          attempted,  \* orders with an open payment attempt
          benefit,    \* what a coupon code grants now
          redeemed,   \* the order a code was redeemed for, and what it granted
          grants,     \* orders whose grant reached the ledger or the membership
          reversed,   \* orders whose grant was taken back
          calls, now, faults

rechargeVars == <<asked, expires, attempted, benefit, redeemed, grants, reversed, calls, now, faults>>
vars == <<rowVars, rechargeVars>>

Idle == [op |-> "idle"]
Unredeemed == [by |-> [subject |-> "none", key |-> "none"], benefit |-> "none"]

Init == /\ RowInit
        /\ asked \in Scenarios
        /\ expires = [o \in Orders |-> 0]
        /\ attempted = {}
        /\ benefit = [x \in Codes |-> CHOOSE b \in Benefits : TRUE]
        /\ redeemed = [x \in Codes |-> Unredeemed]
        /\ grants = {} /\ reversed = {}
        /\ calls = [c \in Calls |-> Idle]
        /\ now = 0 /\ faults = 0

Window == 1
Open(o) == status[o] = "pending_payment"
Created == {o \in Orders : status[o] # "none"}
Goto(c, call) == calls' = [calls EXCEPT ![c] = call]
Return(c) == Goto(c, Idle)

\* A call keeps the time of its request until its order is inserted.
At(op, t) == IF op \in {"points", "preview", "insert"} THEN t ELSE 0
Call(op, o, via) == [op |-> op, want |-> o, order |-> o, via |-> via, at |-> At(op, now), stale |-> {}]

\* The call goes on with order o.
With(c, op, o) == Goto(c, [calls[c] EXCEPT !.op = op, !.order = o, !.at = At(op, @), !.stale = {}])

\* All that a request only reads leaves alone.
ReadOnly == UNCHANGED <<rowVars, asked, expires, attempted, benefit, redeemed, grants, reversed, now, faults>>

-----------------------------------------------------------------------------
(* Creation                                                                *)

\* Orders the two lookups by key find: no fingerprint is compared.
PointsByKey(o) == {p \in Created : p.subject = "points" /\ p.key = o.key}
ValueByKey(o) == {p \in Created : p.subject # "points" /\ p.key = o.key}

\* submit_recharge for points
AskPoints(c, o) ==
  /\ calls[c] = Idle
  /\ o.subject = "points"
  /\ IF PointsByKey(o) # {}
     THEN \E p \in PointsByKey(o) : Goto(c, [Call("pay", o, "submit") EXCEPT !.order = p])
     ELSE Goto(c, Call("points", o, "submit"))
  /\ ReadOnly

Locked == UNION {calls[c].stale : c \in {d \in Calls : calls[d] # Idle}}

\* expire_stale_recharge_orders: all of the owner's points orders, of any
\* amount, whatever their payment attempts are.
StalePoints(at) == {p \in Created : p.subject = "points" /\ Open(p) /\ expires[p] <= at}

\* LOAD_REUSABLE_RECHARGE_CHECKOUT: an open attempt for the same points.
Reusable(call) ==
  {p \in Created : /\ p.subject = "points" /\ p.amount = call.want.amount
                   /\ Open(p) /\ p \in attempted /\ expires[p] > call.at}

\* Reuse rolls the expiry back; otherwise the rows stay locked to the commit.
ReusePoints(c) ==
  LET call == calls[c] IN
  /\ call.op = "points"
  /\ StalePoints(call.at) \cap Locked = {}
  /\ IF Reusable(call) # {}
     THEN \E p \in Reusable(call) : With(c, "pay", p)
     ELSE Goto(c, [call EXCEPT !.op = "insert", !.stale = StalePoints(call.at)])
  /\ ReadOnly

\* submit_recharge for a value subject, create_account_recharge_order
AskValue(c, o) ==
  /\ calls[c] = Idle
  /\ o.subject = "value"
  /\ IF ValueByKey(o) # {}
     THEN \E p \in ValueByKey(o) : Goto(c, [Call("pay", o, "submit") EXCEPT !.order = p])
     ELSE Goto(c, Call("insert", o, "submit"))
  /\ ReadOnly

\* create_coupon_redemption: a known key must name a coupon order of this code.
SameCoupon(p, o) == p.subject = "coupon" /\ p.code = o.code

AskRedemption(c, o) ==
  /\ calls[c] = Idle
  /\ o.subject = "coupon"
  /\ IF ValueByKey(o) # {}
     THEN \E p \in ValueByKey(o) :
            IF SameCoupon(p, o)
            THEN Goto(c, [Call("redeem", o, "redemption") EXCEPT !.order = p])
            ELSE UNCHANGED calls
     ELSE o.amount = 0 /\ Goto(c, Call("preview", o, "redemption"))
  /\ ReadOnly

\* submit_recharge for a coupon: previewed before the key is looked up.
SubmitCoupon(c, o) ==
  /\ calls[c] = Idle
  /\ o.subject = "coupon"
  /\ Goto(c, Call("preview", o, "submit"))
  /\ ReadOnly

\* What the order of the call would be, with the benefit shown now.
Shown(call) == [call.want EXCEPT !.benefit = benefit[call.want.code]]

Accepted(call) ==
  /\ redeemed[call.want.code] = Unredeemed
  /\ call.via = "submit" => benefit[call.want.code] \notin Subscriptions

\* preview_coupon, then create_coupon_recharge_order: its own lookup by key.
\* The redemption goes on with the id it computed, the submission with the
\* order it was given.
PreviewCoupon(c) ==
  LET call == calls[c] IN
  /\ call.op = "preview"
  /\ IF ~Accepted(call) THEN Return(c)
     ELSE IF ValueByKey(call.want) = {}
     THEN With(c, "insert", Shown(call))
     ELSE IF call.via = "redemption"
     THEN IF status[Shown(call)] # "none" THEN With(c, "redeem", Shown(call)) ELSE Return(c)
     ELSE \E p \in ValueByKey(call.want) :
            With(c, IF call.want.amount = 0 THEN "redeem" ELSE "pay", p)
  /\ ReadOnly

\* uk_order_owner_idempotency
KeyTaken(o) == {p \in Created : p.key = o.key}

\* A coupon that costs nothing is inserted paid, any other order payable.
FirstStatus(o) == IF o.subject = "coupon" /\ o.amount = 0
                  THEN <<"paid", "succeeded">> ELSE <<"pending_payment", "pending">>

\* The inserts of an order and its item; points commit the expiry with it.
InsertOrder(c) ==
  LET call == calls[c]  o == call.order IN
  /\ call.op = "insert"
  /\ KeyTaken(o) \cap (Locked \ call.stale) = {}
  /\ IF KeyTaken(o) # {}
     THEN Return(c) /\ UNCHANGED <<status, payment, fulfillment, expires>>
     ELSE /\ status' = [p \in Orders |-> IF p = o THEN FirstStatus(o)[1]
                                         ELSE IF p \in call.stale THEN "expired" ELSE status[p]]
          /\ payment' = [payment EXCEPT ![o] = FirstStatus(o)[2]]
          /\ fulfillment' = [fulfillment EXCEPT ![o] = "unfulfilled"]
          /\ expires' = [expires EXCEPT ![o] = call.at + Window]
          /\ With(c, IF FirstStatus(o)[1] = "pending_payment" THEN "pay" ELSE "redeem", o)
  /\ UNCHANGED <<events, fulfillmentOrders, asked, attempted, benefit, redeemed,
                 grants, reversed, now, faults>>

-----------------------------------------------------------------------------
(* Payment                                                                 *)

\* The payment port opens an attempt or fails, which cancels the order again.
PayOrder(c) ==
  LET o == calls[c].order IN
  /\ \/ /\ Open(o)
        /\ attempted' = attempted \cup {o}
        /\ Return(c)
     \/ /\ With(c, "undo", o)
        /\ UNCHANGED attempted
  /\ UNCHANGED <<rowVars, asked, expires, benefit, redeemed, grants, reversed, now, faults>>

\* A points order may be left to the cashier, any other is paid at once.
LeaveToCashier(c) == Return(c) /\ ReadOnly

PayPoints(c) == /\ calls[c].op = "pay" /\ calls[c].want.subject = "points"
                /\ LeaveToCashier(c) \/ PayOrder(c)

PayValue(c) == calls[c].op = "pay" /\ calls[c].want.subject = "value" /\ PayOrder(c)

PayCoupon(c) == calls[c].op = "pay" /\ calls[c].want.subject = "coupon" /\ PayOrder(c)

\* cancel_owner_order_with_payments, and what is left when it fails.
CancelWithPayments(o) == CancelOrder(o) /\ attempted' = attempted \ {o}

CompensatePay(c) ==
  LET o == calls[c].order IN
  /\ calls[c].op = "undo"
  /\ o \notin Locked
  /\ CancelWithPayments(o) \/ UNCHANGED <<rowVars, attempted>>
  /\ Return(c)
  /\ UNCHANGED <<asked, expires, benefit, redeemed, grants, reversed, now, faults>>

\* External: the buyer pays a points order at the cashier.
CashierPay(o) ==
  /\ o.subject = "points" /\ Open(o)
  /\ attempted' = attempted \cup {o}
  /\ UNCHANGED <<rowVars, asked, expires, benefit, redeemed, grants, reversed, calls, now, faults>>

\* The provider reports the payment: settle_coupon_recharge_subject redeems.
Settle(c, o) ==
  /\ calls[c] = Idle
  /\ o \in attempted \ Locked
  /\ payment[o] # "success"
  /\ MarkPaymentSucceeded(o)
  /\ IF o.subject = "coupon" /\ ~TerminalOrderPreserved(o)
     THEN Goto(c, Call("redeem", o, "submit")) ELSE UNCHANGED calls
  /\ UNCHANGED <<asked, expires, attempted, benefit, redeemed, grants, reversed, now, faults>>

\* The buyer cancels, or the sweep finds the order due.
EndOpenOrder(o) ==
  /\ o \notin Locked
  /\ \/ CancelWithPayments(o)
     \/ expires[o] <= now /\ ExpireDueOrder(o, FALSE) /\ attempted' = attempted \ {o}
  /\ UNCHANGED <<asked, expires, benefit, redeemed, grants, reversed, calls, now, faults>>

-----------------------------------------------------------------------------
(* Redeeming a coupon and granting its benefit                             *)

\* External: the promotion service redeems a code once; the redeemer's key
\* gets the recorded benefit again, any other order an error.
RedeemCode(o) ==
  redeemed' = [redeemed EXCEPT ![o.code] =
                 IF @ = Unredeemed THEN [by |-> o, benefit |-> benefit[o.code]] ELSE @]

Redeemer(o) == redeemed[o.code] = Unredeemed \/ redeemed[o.code].by = o

\* Mutant: the redemption's benefit is not compared with the order's.
GrantableUnchecked(o) == redeemed'[o.code].by = o

\* The redemption is this order's, for the benefit the order was made with.
Grantable(o) == redeemed'[o.code].by = o /\ redeemed'[o.code].benefit = o.benefit

\* What the submission and the webhook can redeem has an asset to credit.
Redeemable(call) == /\ call.order.subject = "coupon"
                    /\ call.via = "submit" => /\ call.order.benefit \notin Subscriptions
                                              /\ fulfillment[call.order] # "fulfilled"

Redeem(c) ==
  LET o == calls[c].order IN
  /\ calls[c].op = "redeem"
  /\ IF ~Redeemable(calls[c])
     THEN UNCHANGED redeemed /\ Return(c)
     ELSE /\ IF Redeemer(o) THEN RedeemCode(o) ELSE UNCHANGED redeemed
          /\ IF Grantable(o) THEN With(c, "reserve", o) ELSE Return(c)
  /\ UNCHANGED <<rowVars, asked, expires, attempted, benefit, grants, reversed, now, faults>>

\* Mutant: a reservation left behind by a crash refuses the retry.
ReservableFresh(o) == fulfillment[o] # "processing"

\* reserve_account_value_fulfillment: one already reserved is taken over.
Reservable(o) == fulfillment[o] \in Fulfillment

\* Payment is not asked of a coupon order (validate_for_fulfillment).
Reserve(c) ==
  LET o == calls[c].order IN
  /\ calls[c].op = "reserve"
  /\ IF fulfillment[o] = "fulfilled" \/ ~Reservable(o)
     THEN Return(c) /\ UNCHANGED rowVars
     ELSE /\ IF fulfillment[o] = "processing" THEN UNCHANGED rowVars ELSE ReserveFulfillment(o)
          /\ With(c, "grant", o)
  /\ UNCHANGED <<asked, expires, attempted, benefit, redeemed, grants, reversed, now, faults>>

\* The account ledger, or the membership, grants the benefit once for an order.
GrantOnce(c) ==
  LET o == calls[c].order IN
  /\ grants' = grants \cup {o}
  /\ With(c, IF o \in grants THEN "commitAgain" ELSE "commit", o)
  /\ UNCHANGED faults

GrantFails(c) ==
  /\ faults < MaxFaults /\ faults' = faults + 1
  /\ With(c, "release", calls[c].order)
  /\ UNCHANGED grants

GrantAsset(c) ==
  /\ calls[c].op = "grant" /\ calls[c].order.benefit \notin Subscriptions
  /\ GrantOnce(c) \/ GrantFails(c)
  /\ UNCHANGED <<rowVars, asked, expires, attempted, benefit, redeemed, reversed, now>>

GrantSubscription(c) ==
  /\ calls[c].op = "grant" /\ calls[c].order.benefit \in Subscriptions
  /\ GrantOnce(c) \/ GrantFails(c)
  /\ UNCHANGED <<rowVars, asked, expires, attempted, benefit, redeemed, reversed, now>>

CommitGrant(c) ==
  LET o == calls[c].order IN
  /\ calls[c].op \in {"commit", "commitAgain"}
  /\ IF fulfillment[o] = "fulfilled" THEN UNCHANGED rowVars ELSE CommitFulfillment(o)
  /\ Return(c)
  /\ UNCHANGED <<asked, expires, attempted, benefit, redeemed, grants, reversed, now, faults>>

CommitFault(c) == /\ calls[c].op \in {"commit", "commitAgain"}
                  /\ faults < MaxFaults /\ faults' = faults + 1
                  /\ With(c, "release", calls[c].order)
                  /\ UNCHANGED <<rowVars, asked, expires, attempted, benefit, redeemed, grants, now>>

\* An asset that this call was the first to credit is debited again, or the
\* debit fails too and is only logged.  After a debit the credit stays on record:
\* a retry finds it by its key, credits nothing and commits (GrantOnce).
AssetCommitFails(c) ==
  /\ calls[c].order.benefit \notin Subscriptions
  /\ CommitFault(c)
  /\ \/ calls[c].op = "commit" /\ reversed' = reversed \cup {calls[c].order}
     \/ UNCHANGED reversed

\* A membership stays granted.
SubscriptionCommitFails(c) ==
  /\ calls[c].order.benefit \in Subscriptions
  /\ CommitFault(c)
  /\ UNCHANGED reversed

ReleaseGrant(c) ==
  LET o == calls[c].order IN
  /\ calls[c].op = "release"
  /\ IF fulfillment[o] = "processing" THEN ReleaseFulfillment(o) ELSE UNCHANGED rowVars
  /\ Return(c)
  /\ UNCHANGED <<asked, expires, attempted, benefit, redeemed, grants, reversed, now, faults>>

-----------------------------------------------------------------------------
\* The process stops: what was committed stays.
Crash(c) ==
  /\ calls[c] # Idle
  /\ faults < MaxFaults /\ faults' = faults + 1
  /\ Return(c)
  /\ UNCHANGED <<rowVars, asked, expires, attempted, benefit, redeemed, grants, reversed, now>>

ChangeBenefit(x) ==
  /\ \E b \in Benefits \ {benefit[x]} : benefit' = [benefit EXCEPT ![x] = b]
  /\ UNCHANGED <<rowVars, asked, expires, attempted, redeemed, grants, reversed, calls, now, faults>>

\* Time matters to a buyer who may keep an order waiting for a payment.
Tick == /\ now < MaxNow
        /\ \E o \in asked : o.amount > 0
        /\ now' = now + 1
        /\ UNCHANGED <<rowVars, asked, expires, attempted, benefit, redeemed, grants, reversed, calls, faults>>

\* What a running handler does by itself.
Serve(c) == \/ ReusePoints(c) \/ PreviewCoupon(c) \/ InsertOrder(c)
            \/ PayPoints(c) \/ PayValue(c) \/ PayCoupon(c) \/ CompensatePay(c)
            \/ Redeem(c) \/ Reserve(c) \/ GrantAsset(c) \/ GrantSubscription(c)
            \/ CommitGrant(c) \/ ReleaseGrant(c)

Next == \/ \E c \in Calls : Serve(c) \/ Crash(c)
        \/ \E c \in Calls : calls[c] # Idle /\ (AssetCommitFails(c) \/ SubscriptionCommitFails(c))
        \/ \E c \in Calls, o \in asked : \/ AskPoints(c, o) \/ AskValue(c, o)
                                         \/ AskRedemption(c, o) \/ SubmitCoupon(c, o)
        \/ \E c \in Calls, o \in Created : Settle(c, o)
        \/ \E o \in Created : CashierPay(o) \/ EndOpenOrder(o)
        \/ \E x \in {o.code : o \in asked \cap Coupons} : ChangeBenefit(x)
        \/ Tick

RechargeSpec == Init /\ [][Next]_vars

\* The buyer repeats the redemption of a code with the key that redeemed it.
RetryRedemption(x) ==
  \E c \in Calls, o \in asked : /\ o.subject = "coupon" /\ o.code = x
                              /\ o.key = redeemed[x].by.key
                              /\ AskRedemption(c, o) /\ calls' # calls

\* A handler that runs makes progress, and the buyer retries a redemption with
\* the same key until it is answered.
RechargeFairness == /\ \A c \in Calls : WF_vars(Serve(c))
                    /\ \A x \in Codes : SF_vars(RetryRedemption(x))

FairRechargeSpec == RechargeSpec /\ RechargeFairness

-----------------------------------------------------------------------------
(* Properties                                                              *)

\* A coupon's benefit reaches the buyer at most once for a code, through the
\* order that redeemed it and as that order recorded it, whatever calls race,
\* crash or retry and whenever the promotion changes the benefit.
GrantedByTheRedeemer ==
  \A o \in grants : redeemed[o.code].by = o /\ redeemed[o.code].benefit = o.benefit

\* The order has the benefit it redeemed its code for, and says so.
Enjoyed(o) == fulfillment[o] = "fulfilled" /\ o \in grants \ reversed

\* A code that an order consumed for the benefit it was made with comes to that
\* benefit: the retry with the same key takes over what a crash or a failure left
\* behind.  Not so when the commit failed after the credit and the credit was
\* debited: no retry credits again, and such a code is lost to its buyer.
RedeemedIsFulfilled ==
  \A x \in Codes :
    LET o == redeemed[x].by IN
    (redeemed[x] # Unredeemed /\ redeemed[x].benefit = o.benefit)
      ~> (redeemed[x] # Unredeemed /\ (Enjoyed(o) \/ o \in reversed))
=============================================================================

# A TLA+ model of the order domain

This directory specifies `sdkwork-order` in TLA+: the order row and the store
methods that change it, checkout, the payment settlement pipeline and the sagas
behind it, the stock of physical orders, their shipment and return, refunds and
withdrawals, recharge, coupon, membership and template orders with their prices
and catalogue, and the claims of a demand. TLC checks the modules on small
instances and TLAPS proves the theorems listed below for every value of the
constants. Paths below are relative to `src/crates/`, in the short
forms of this table.

| short | crate |
|---|---|
| `repository/` | `sdkwork-order-repository-sqlx/src/` |
| `service/` | `sdkwork-order-service/src/` |
| `payment/` | `sdkwork-order-integration-payment/src/` |
| `commerce/` | `sdkwork-order-integration-physical-commerce/src/` |
| `host/` | `sdkwork-order-service-host/src/` |
| `app-api/`, `backend-api/` | `sdkwork-routes-order-{app,backend}-api/src/` |

## 1. Inventory of the system

All durable state is in PostgreSQL tables. There are no in-process locks between
requests: what synchronises two calls is a transaction with `SELECT ... FOR
UPDATE`, an advisory lock or the `WHERE status IN (...)` of an `UPDATE`. A call
that needs two stores (order and stock, order and ledger, order and provider)
is a sequence of independent transactions and can end between any two of them.
Section 3 gives the modules; the status of every component is in
`PROJECT.json`.

| component | state | operations | meets |
|---|---|---|---|
| Order row (`repository/order_payment_settlement.rs`, `postgres_order.rs`, `postgres_management.rs`, `postgres_expiration.rs`) | `commerce_order.status`, `payment_status`, `fulfillment_status`; audit events; `commerce_fulfillment_order` | create, reserve or fail stock, pay, fail payment, cancel, close, expire, fulfill, ship, confirm receipt | called by everything else |
| Recharge orders (`repository/postgres_recharge.rs`) | the same row; the payment attempts of the order | create, expire stale ones, mark paid, reserve, release and commit the fulfillment | sagas |
| Settlement pipeline (`service/payment_notify_orchestration.rs`, `order_payment_settlement.rs`, `payment_notify.rs`) | webhook events and attempt rows (payment runtime) | ingest, mark paid or failed, dispatch to the product's handler, answer | payment runtime, order row, handlers |
| Value sagas (`service/points_recharge_fulfillment.rs`, `account_value_fulfillment.rs`) | the account ledger, external, idempotent by key | reserve, credit, commit, compensating debit, release | order row, ledger |
| Compensation (`payment/payment_compensation.rs`) | none | periodic pass over pending and over succeeded attempts | provider, pipeline |
| Operator's confirmation (`backend-api/payment_confirmation_router.rs`) | none | reconcile the only attempt of an order, settle | provider, pipeline |
| Inventory (`commerce/inventory.rs`) | stock records with three quantities and a safety stock; reservation rows with a status and an expiry | reserve, consume, release, restock, sweep | checkout, settlement, endings, returns |
| Endings (`app-api/owner_order_cancel.rs`, `backend-api/backend_management_lifecycle.rs`, `host/expiration.rs`) | none | cancel, close, expire: close the payments, end the order, give the stock back | three stores |
| Checkout (`app-api/checkout_router.rs`, `repository/postgres_checkout.rs`) | sessions with frozen lines, quotes, idempotency rows | open and replay a session, quote, create the order, reserve, mark reserved or failed | catalogue, order row, stock |
| Shipment and receipt (`repository/postgres_shipment.rs`) | shipments and packages | create and update a package, advance the order, confirm receipt | order row |
| After-sales (`repository/postgres_after_sales.rs`) | request rows, their events, return shipments | open, update, review, return, restock | delivery of the order, stock |
| Refund requests (`service/account_value_request_execution.rs`, `ports/refund_notify.rs`, `refund_notify_orchestration.rs`, `repository/postgres_account_value.rs`) | request rows; account holds (account service) and `commerce_refund` (payment runtime), both external; `commerce_order.refund_status` | create, review (hold, execute, settle or release), refund notice | payment runtime, ledger, order row, stock |
| Cash withdrawals (same service and store) | request rows; holds and payouts, both external | create, review (hold, pay out, settle or release) | ledger, payout provider |
| Recharge orders and coupons (`app-api/recharge_router.rs`, `repository/postgres_recharge.rs`, `service/coupon_recharge_fulfillment.rs`) | order, item and payment attempt; the code's redemption (promotion service, external) | create by key, reuse, expire, pay, compensate, redeem, grant | pipeline, promotion, membership, ledger |
| Prices and catalogue (`repository/postgres_recharge.rs`, `postgres_account_value.rs`) | exchange rule, packages, Token Bank plans | list, price an order, create, update and retire | recharge orders |
| Membership and template orders (`app-api/membership_router.rs`, `app_template_router.rs`, `repository/postgres_membership_order.rs`, `postgres_app_template_order.rs`) | the order row; the template's install count | create by key, reuse, expire, pay, fulfill | pipeline |
| Demand claims (`repository/postgres_demand_claim.rs`) | claims with their timeline | submit, shortlist, accept, reject, withdraw, start, deliver, rework, complete, cancel | none |
| Course entitlement relay (`host/course_entitlement_relay.rs`) | none | timer that hands paid course orders to another service | order row |

What is hard here, and to test:

* **Order of messages.** A provider sends successes and failures of several
  attempts of one order, more than once and in any order, while the owner, an
  operator and the expiry pass end the order. Every method has to decide from
  the row alone what a message still means.
* **Calls that end half way.** Paying and fulfilling are separate transactions,
  the saga has four phases over two systems, and a `COMMIT` may be reported as
  failed after it took effect.
* **Two workers on one order.** A redelivery, the compensation pass, the
  convergence pass and an operator may all settle the same attempt at once.
* **Reads that go stale.** Cancellation reads the fulfillment status before it
  ends the order and decides by that reading whether to give the stock back.
* **Two ways to the end of a refund.** The review that submits a refund and the
  notice that reports it both settle or release the hold and write the request,
  each from a status it read earlier, while the operator may review it again.
* **Keys.** Nearly every creation is made repeatable by an `Idempotency-Key`, each
  store in its own way: an id made of the key, a unique index, a row that keeps
  the key of its last write. Retries, reused keys and two calls with one key meet
  prices, benefits and statuses that have changed since.
* **Rows locked one by one.** Accepting a claim rejects its competitors, and two
  accepts wait for each other's rows.
* **Stock at its limit**, moved by five operations that are all retried and race
  with a sweep.
* **Eventual repair.** When all notices are lost only the periodic passes bring
  the money onto the row, and only the sweep brings lapsed stock back.

What makes each component correct: the row never shows goods or value handed
over without a payment or for a dead order, never forgets a collected payment
and always records a late one; the pipeline acknowledges only what is recorded
and gives nothing away; a recharge order is fulfilled exactly when its credit
stands; no piece of stock is lost, moved twice or promised beyond the safety
stock; goods in a fulfillment order are sold, sold goods are paid, and a payable
order has its stock; value and cash leave an account only for money that was
paid back or out; a session shows one price and its order has it; one purchase
intent has one open order; a coupon's benefit goes once, to the order that
redeemed it, and a redeemed code comes to its benefit unless a failed commit
took it back (section 7); the buyer is credited what the list showed; a
returned piece was sold and its return reviewed; a demand is awarded once. `PROJECT.json` lists the hazards at their lines, with the
properties that would catch each of them.

## 2. Plan

The order is that of importance. Done:

1. `OrderRow`, `OrderLifecycle`: the row, its methods, and the abstract
   specification of what the order domain promises. Proofs: `OrderLifecycleProofs`.
2. `PaymentNotify`: the pipeline and the saga; implements `OrderLifecycle`.
   Proofs: `PaymentNotifyProofs`.
3. `Inventory`, with `InventoryProofs`.
4. `PhysicalOrder`: composes 2 and 3 with the calls over both stores, and
   implements both. Proofs: `PhysicalOrderProofs`.
5. `RefundRequest`, with its proofs in `AccountValueProofs`.
6. `Shipment` and `AfterSales`, one above the other, with their proofs in
   `SaleProofs`.
7. `DemandClaim` and `Withdrawal`, with their proofs in `DeskProofs`.
8. `Checkout`: how an order and its amount come about. Proofs: `SaleProofs`.
9. `PurchaseOrder`: memberships, quotas, application templates. Proofs:
   `PurchaseOrderProofs`.
10. `RechargeOrder`: recharges and coupons, with its proofs in
    `AccountValueProofs`; `RechargePricing` and `ValueCatalogue`: what they cost
    and grant, with theirs in `DeskProofs`.

Left, in this order:

* Action properties of the modules that have only invariants: that an order's
  item, key and price never change (`PurchaseOrder`), that a redemption is final
  (`RechargeOrder`), that a session's price is (`Checkout`). The step lemmas are
  in the proofs already.
* An abstract specification of a refund, one hold and one outcome, that
  `RefundRequest` and `Withdrawal` implement as far as section 7 lets them.
* The activation of a membership and the course relay: both hand an order to
  another service and store nothing here, so a module of them would be mostly
  about that service.

## 3. Modules

| module | what it models |
|---|---|
| `OrderRow` | the row, its audit trail and its fulfillment order; one action per store method |
| `OrderLifecycle` | all methods in any order, with what callers and the payment side must respect: the abstract specification, with the safety of the row |
| `OrderLifecycleProofs` | its inductive invariant and its theorems |
| `PaymentNotify` | provider, attempts, pipeline workers, saga, compensation and operator; refines `OrderLifecycle` |
| `PaymentNotifyProofs` | its inductive invariant, the refinement and the safety of the sagas |
| `Inventory` | stock records, reservation rows, sweep |
| `InventoryProofs` | its inductive invariant and theorems, and the counters against the rows |
| `PhysicalOrder` | `PaymentNotify` and `Inventory` together with checkout, endings, refund release and return review |
| `PhysicalOrderProofs` | the composition implements both parts; what relates the two stores |
| `RefundRequest` | the refund requests of an order: reviews and notices over request, holds, refund and the order's `refund_status` |
| `Shipment` | shipments and packages of a fulfillment order, and the advance of the order |
| `AfterSales` | after-sales requests above `Shipment`: owner, operator, returns, restocking |
| `Checkout` | sessions, quotes, the order made of a session and its reservation |
| `SaleProofs` | the inductive invariants and theorems of `Checkout` and of `AfterSales` with `Shipment` |
| `PurchaseOrder` | membership, quota and template orders of one buyer |
| `PurchaseOrderProofs` | its inductive invariant and theorems |
| `RechargeOrder` | points, value and coupon orders of one buyer |
| `AccountValueProofs` | the inductive invariants and theorems of `RefundRequest` and `RechargeOrder` |
| `RechargePricing` | what a points recharge costs and grants |
| `Withdrawal` | the cash withdrawals of one owner |
| `ValueCatalogue` | packages and plans under concurrent, repeated commands |
| `DemandClaim` | the claims of one demand, with its locks and its unique index |
| `DeskProofs` | the inductive invariants and theorems of `Withdrawal`, `ValueCatalogue`, `RechargePricing` and `DemandClaim` |
| `MC*` | instances for TLC |

`OrderLifecycle`, `PaymentNotify`, `Shipment`, `Checkout`, `PurchaseOrder` and
`RechargeOrder` all extend `OrderRow`, so a store method is written once and
every module that calls it has all of its effect. Three instances put modules
side by side that share no row, to check them in one run: `MCOrderBooks` the row
and the stock, `MCValueDesk` withdrawals, catalogue and pricing; and
`MCPaymentNotify` lets each behaviour be about one of three orders, because no
step relates two.

### OrderRow and OrderLifecycle

`status`, `payment` and `fulfillment` are the three columns; `events` is the set
of audit event types of the order that some decision or property depends on;
`fulfillmentOrders` the orders with a `commerce_fulfillment_order`. Each method
is one transaction over one row, so it is one action: its guard is the early
returns and the `WHERE` of its `UPDATE`, its effect the `SET` list and the
inserts that follow. A method that refuses or finds nothing to do is an action
that is not enabled; where a caller goes on after such an answer, the caller's
action has a disjunct for it. `KeptBySuccess`, `TerminalStatus` and
`FailurePreserved` are the three different lists of statuses of
`order_payment_settlement.rs`; that they differ is behind several of the
differences in section 7.

`OrderLifecycle` abstracts the payment side to two sets (orders an attempt was
opened for, orders with a succeeded attempt) and the workers to the set
`settling` of orders in the hands of someone who has marked them paid.

### PaymentNotify

One worker is one call of `process_payment_notify_verified` or of
`settle_owner_order_after_payment_success`; `pc` names the transaction it does
next. A worker is started by `Receive` (a notification, first or again, in any
order: `notices` only grows), `Compensate`, `Converge` or `ConfirmByOperator`.
`Abort` ends it between two transactions, with an error or with the process;
`aborts` counts these and `MaxAborts` bounds them. Errors inside the saga
(a credit that fails with or without reaching the ledger, a commit that fails
with or without taking effect, a debit that fails) are not counted: they may
happen every time. `lost` remembers the orders with a commit that took effect
and was reported as failed, for the two properties that have to exempt them.

External, modelled from how this code uses them: the provider's trade (`psp`),
the attempt row of `sdkwork-payment` (`attempt`) and the account ledger
(`ledger`, the set of entries by idempotency key; a second credit with the same
key is a replay). What a success does to an attempt that is already failed or
closed is the payment runtime's choice and both outcomes are allowed.

### Inventory

`line[l]` is the status of a reservation row, `source[l]` the stock record it
was taken from; `available`, `reserved` and `sold` are the counters of the
record. Each operation is one transaction over the rows of one order and
changes all of them or none. `Lapse` is the passing of `expires_at`; the sweep
lists orders without a lock and releases them one at a time, and may crash.
`RestockOrder` keeps the difference between `restock_stock` and `mutate_stock`:
only the second looks at the number of updated rows.

### PhysicalOrder

It extends `PaymentNotify` and `Inventory`. `at` and `about` are the calls
beside the workers (checkout, cancel, close, expire, refund, review); `gives`
marks a caller that read `inventory_reserved` when it began, as
`physical_order_fulfillment_requires_release` does, whatever the row has become
since. `taken` splits the physical handler of a worker into its two
transactions, consuming the stock and creating the fulfillment order.
`due` holds the orders whose payment window has passed. A reservation lapses a
fixed 1800 s after it was made; with the default window that is never before
the order is due, with `LongWindow` it may be.

### RefundRequest

`requestStatus` and `effect` are the columns of `commerce_order_refund_request` that
decisions depend on, `orderRefund` is `commerce_order.refund_status`. A review
(`execute_account_value_request_review`) and a notice
(`process_refund_notify_verified` with `AccountValueRefundNotifyHandler`) are
calls with a place `pc`, the request they are `about`, the hold they work with
and the `answer` they act on. Each action is one transaction of the order store,
one call of the ledger or one of the payment runtime:

| place of a review | code (`service/account_value_request_execution.rs`) |
|---|---|
| `BeginReject`, `BeginApprove` | the request is read once, without a lock; `ensure_account_hold` decides which hold to use |
| `placeHold`, `markHeld`, `markProcessing` | the hold, and the two statuses before the execution |
| `execute`, `submit` | `execute_postgres_refund` in `payment/lib.rs`: create and claim, then submit |
| `settle`, `release`, `markFinal`, `syncOrder` | the end, by `provider_refund_outcome_class`; `syncOrder` is `mark_owner_order_refunded` |

| place of a notice | code |
|---|---|
| `Ingest`, `markOrder` | the payment runtime records it; the pipeline writes `refund_status` and never replaces `refunded` |
| `load` | `load_refund_request_for_settlement`: only a request in `provider_refund_processing` with a hold goes on |
| `settle`, `release`, `markSettled`, `syncOrder` | the handler in `service/ports/refund_notify.rs` |

`Ingest` is also `compensate_refund` of the compensation pass, which feeds the
answer of a query into the same pipeline. It may happen at any time and any
number of times once a refund exists. `Abort` ends a call anywhere, with an
error or a crash, and is not bounded. `BeginReject`, `Terminal` and
`markSettled` are the three different conditions under which a request may still
change.

External: the ledger (`hold`, one hold per idempotency key, which answers a
repeated key with the hold as it is and refuses to end a hold the other way)
and `commerce_refund` (`refund`, one per request, never taken back once it
succeeded). `RetryKeys` are the Idempotency-Keys of reviews, from which a retry
after a failure makes the key of its hold; `FirstKey` stands for
`refund-request:account-hold:{id}`.

### Shipment and AfterSales

`shipment`, `package` and `delivered` (the fulfillment orders that say shipped)
are the rows of `postgres_shipment.rs`. Setting a package to shipped is two
transactions: `UpdatePackage` commits the package and puts it among the
`advancing`, `Advance` takes shipment, fulfillment order and order row to
shipped, and `AdvanceFails` is its error or a crash before it. The rows of an
order's stock move together (`OrderMovesAsOne`, proved), so `stock` has one
status per order here.

A request's events are the set of statuses they record, those of reviews apart
(`recorded`, `reviewed`). The owner's update (`ReadForUpdate`, `WriteUpdate`)
reads and writes in two transactions and its `UPDATE` is not guarded by what it
read; the operator's `Review` locks the row. What a completed review does to the
stock comes after its commit (`DecideRestock`, `RestoreStock`, `RestockFails`).

### Checkout

A session's id is made of its `Idempotency-Key` and the order's id of the
session, so one identity serves for the three. A call (`calls`) reads in one
step and commits in another, with the race in between decided by the key's
unique rows:

| steps | code |
|---|---|
| `ReplaySession`, `BeginSession`, `OpenSession`, `SessionRaced` | `POST checkout/sessions` |
| `ReplayQuote`, `BeginQuote`, `CommitQuote` | `POST .../quotes`, with the idempotency row of its scope |
| `FindOrder`, `BeginOrder`, `CommitOrder`, `OrderRaced` | `create_owner_order` |
| `ReserveInventory`, `MarkReserved`, `MarkFailed` | the rest of the handler, by its outcome |

Resolved goods are priced before the transaction and other lines inside it;
every read of the catalogue may find another price. `SeenExpired` is the
comparison the code makes when it reads the expiry (section 7).

### PurchaseOrder

Ids are random, so orders are numbered by insertion. A creation is one
transaction of statements that each see what was committed by then (READ
COMMITTED), so each statement is a step: the lookup by key, by ownership and by
purchase intent, the expiry of stale orders, which stay locked until the end
(`stale`), and the insert, which the unique index over open intents refuses to
the loser of a race (`Raced`). A template that costs nothing is settled in its
creation. Cancellation, expiry, payment and the fulfillment of a template
(`settling`, `installs`) go on beside the creations.

### RechargeOrder

An order is its request: its subject, key, amount and, for a coupon, the code
and the benefit the preview showed. `Ask*`, `SubmitCoupon`
and `Settle` start a call, `Serve` joins what a
running handler does by itself: reuse or expire an order, preview, insert, open
the payment, compensate a failed one, redeem the code, reserve, grant, commit or
release. `redeemed`, `grants` and `reversed` are the promotion's, the ledger's
and the membership service's rows, external and found again by key.
`AssetCommitFails` and `SubscriptionCommitFails` are the commits that fail and
what the code does about them: an asset is debited, unless the debit fails too,
and stays in `grants`, because the ledger finds the credit again by its key; `Crash` ends a call anywhere.

### RechargePricing

`rule` and `packs` are written by other systems at any time. A price is a number
of digits and of decimals, because a stored price without a decimal point is in
minor units where the buyer's amount is in major ones. `listed` is what the
buyer last read, `item` the points the order records, `attempts` the payload of
each payment attempt, from which the credit is taken in the end.

### Withdrawal

The places `at` of a review follow `execute_withdrawal_request`: `hold`, `held`,
`processing`, `payout`, then by the answer `settle` or `release`, and `mark`.
Everything is decided by the row as it was read at the beginning. `key` is the
stored key, which every status write replaces; `madeBy` the key of the creation,
which no code reads. `PayoutEnds` is the provider finishing a payout on its own.

### ValueCatalogue

A command is read from `says` by its key. Each begins with a lookup by key
(`FindRow`) and goes on with an update, an insert or a retirement that the
unique keys may refuse. `madeBy` is the command that made the row.

### DemandClaim

A claim is named by its bidder. Every action but accept is a read and a guarded
`UPDATE` (`Transition`). Accepting is a transaction of several steps: the row
(`TakeClaim`), the index over awarded claims and the list of competitors
(`EnterIndex`), their locks one by one (`LockCompetitor`), the commit
(`CommitAccept`). An event carries the status its transaction read, as in the
code, and not the one the row has: an action's call repeats what it read before
its transaction (`expected`), the award what it read when it locked each row
(`found`). `lock` is who holds a row, `WaitsFor` who waits for whom, and
`Victim` the transaction the database aborts when two wait for each other.

## 4. Runs

Every run disables the deadlock check because every one of these systems may
stop for good: when all orders have reached their end, nothing has to happen.

| run | shows | instance, distinct states |
|---|---|---|
| `books` | late money is audited and gives nothing out, payments are not forgotten, the dead stay dead; counters match rows, an order's rows move as one, lapsed stock returns | a physical and a points order; three orders, five lines, three stock records: 16 600 |
| `notify` | nothing for free, acknowledged is recorded, fulfilled means credited, a compensated order is unfulfilled; the pipeline implements the lifecycle; collected money is recorded in the end | a points order with two attempts, a value and a physical order, two workers, one abort: 302 000 |
| `physical` | goods in a fulfillment order are sold, sold goods paid, payable orders in stock; implements the pipeline | one order, one line, one piece, one worker, two callers, one abort: 1.27 million |
| `refund` | value is taken only for refunded money, refunded is real on the request and on the order | one request, two reviews, one notice, two retry keys, any number of aborts: 812 000 |
| `after_sales` | completed was reviewed, restocked was returned, shipped together | one order, one shipment of two packages, one request, one owner's update at a time: 2.04 million |
| `demand` | one award, events that tell where a claim came from, accepts end | three bidders, two calls: 883 000 |
| `checkout` | one price per session, a quote key names one session, payable goods are held, a checkout that was cut off ends | a session of goods and one of a service, two calls, one quote key, two prices, one crash: 592 000 |
| `purchase` | one open order per intent, answers fit the request, installs count fulfillments | two calls, three orders, a plan, a quota and a template that may be free, four requests, one tick: 4.25 million |
| `recharge` | a benefit goes once to the redeemer, and a redeemed code comes to its benefit unless a failed commit took it back | two calls, one code of two benefits, six scenarios of two requests, one tick, one fault: 294 000 |
| `value_desk` | cash leaves only for a payout, a key makes one request; a row obeys its key; the credit is the grant, and what was shown | two withdrawals, two reviews; three commands of two operators; two orders, two writes, two attempts: 3.45 million |
| `redelivery`, `checkout_expired` | each, that one sentence of a document is not what the code does (section 7) | the smallest instance that shows it |

Why the bounds are enough:

* No action of `OrderRow` relates two orders, so two orders of the two kinds
  have all behaviours of the row. In `PaymentNotify` orders are related only
  through the workers, and a worker deals with one order at a time.
* Two attempts are the least for a double collection, for a failure of one
  after the success of the other, and for the marking of a sibling attempt.
* Two workers are the least for a race; every step commits one transaction on
  one order, so what a third could add is one more write of the same kind. The
  same holds for the two calls of the other modules.
* One abort, crash or fault is the least for every single crash point; in
  `notify` the errors of the saga, lost answers of commits and redeliveries are
  not bounded, in `refund`, `demand`, `after_sales` and `value_desk`
  (withdrawals, catalogue) no error or crash is.
* In `books` the sku `k1` has two stock records, one with and one without a
  safety stock, orders need one or two pieces and one or two skus, and the stock
  does not suffice for all, so refused reservations, competing orders and orders
  of several rows all occur.
* In `physical` two callers make stale reads meet (a cancellation that began
  before the reservation was marked, a review racing a checkout) beside a worker
  and the sweep. The callers are interchangeable, hence the symmetry; the run
  checks no liveness, so it is sound. Races between two workers are the subject
  of `notify`, and competition for stock that of `books`.
* In `refund` two reviews and a notice are the least for every pair of racing
  calls beside a third that comes late, and two retry keys for two retries at
  once. A second notice repeats the first, which may come again as often as it
  likes. Requests are related only by the bound at their creation and by the
  `refund_status` of the order. Reviews and retry keys are interchangeable,
  hence the symmetry.
* In `after_sales` two packages are the least for a second package after the
  first; the events of a request are a set, so a second request of the order
  would add only a second review that restocks nothing.
* In `demand` three claims let two accepts wait for each other's row and for a
  third one at once.
* In `checkout` one session can be of goods with or without an address, so two
  calls with its key can disagree, and two prices are the least that differ; one
  quote key is enough for it to meet two sessions.
* In `purchase` the third order allows an intent to be bought again after its
  order ended, while the other call does the same; requests with two keys and
  two methods for the template are the least for a reuse by another key.
* In `recharge` each scenario is one pair of requests that can meet: same or
  other key, same or other amount, same code. One tick is a payment window.
* In `value_desk` two keys and two reviews allow one key to be repeated while
  the request it made is reviewed; three commands are two for one row and a
  third after or between them; two writes change the price between list, order
  and retry. The commands are chosen in `MCWorkloads`. Keys and reviews of
  withdrawals are interchangeable, and the other two desks do not have them.

The passing runs together fire every action of the modules.

### Fairness

* `PaymentNotify`: weak fairness of each worker's step (a running call is
  scheduled; it may still abort) and strong fairness of a sweep, compensation or
  convergence, over each attempt by some worker: the two passes are run by a
  timer for as long as the service is up and query all due attempts, so a pass
  that finds the attempt again and again gets to it, though a worker may be busy
  in between. Nothing is assumed of redelivery, the customer or the operator.
* `Inventory`: strong fairness of the sweep's list and of each of its releases:
  the timer comes round and not every sweep crashes.
* `DemandClaim`: strong fairness of the steps of a call. Strong, because a step
  may have to wait for a row that others take in between; the database queues
  those who wait for a lock and aborts one of a cycle. A call may still abort.
* `Checkout`: weak fairness of a running handler, and strong fairness of the
  buyer's retry of an order that waits for its stock: nothing in the code goes
  back to such an order by itself, so `CheckoutEnds` says what a retry is good
  for and not that it comes.
* `RechargeOrder`: the same, with the buyer's repetition of a redemption under
  the key that redeemed the code.

## 5. Proofs

Every invariant and every safety action property the passing runs check is a
theorem, for every value of the constants under the assumptions named below;
so are the two refinements of the composition and that of the pipeline.

| theorem | states |
|---|---|
| `TypeCorrect`, `PaidNeverPayable`, `LatePaymentAudit`, `NothingFulfilledUnpaid`, `LatePaymentUnfulfilled`, `ReceiptConsistency` | the invariants of `OrderLifecycle` |
| `MoneyKept`, `DeadStaysDead` | its action properties |
| `PipelineTypeCorrect`, `NothingIsForFree`, `AcknowledgedRecorded`, `FulfilledCredited`, `CompensatedUnfulfilled` | the invariants of `PaymentNotify` |
| `OneWorkerPerOrder` | no two workers fulfill one value order |
| `PipelineRefinesLifecycle`, `LifecycleSafety` | `PaymentNotify` implements `OrderLifecycle`, so it has its invariants |
| `InventoryTypeCorrect`, `StockConserved`, `SafetyStockKept`, `OrderAtomicity`, `CountersAgree` | invariants of `Inventory` |
| `StockAlwaysCovers` | a reserved or sold row always finds its pieces at its stock record |
| `RowsForward` | its action property |
| `SettlementRefinement`, `InventoryRefinement` | `PhysicalOrder` implements `PaymentNotify` and `Inventory` |
| `PhysicalStockSafe`, `PhysicalMoneySafe` | so it has the invariants of the stock, of the pipeline and of the lifecycle |
| `ShippedGoodsAreSold`, `SoldGoodsArePaid`, `PayableGoodsAreReserved` | what relates the order store and the stock |
| `RefundTypeCorrect`, `SettledOnlyRefunded`, `RefundedBacked`, `RetryReplacesFirst`, `OrderRefundedReal` | the invariants of `RefundRequest` |
| `EndedStays` | its action property |
| `AfterSalesTypeCorrect`, `StatusRecorded`, `CompletionReviewed`, `ShippedAtOnce`, `RestockReturned` | invariants of `AfterSales` and `Shipment` |
| `OnePrice`, `OneSessionPerQuoteKey`, `PayableIsHeld` | the invariants of `Checkout` |
| `PurchaseTypeCorrect`, `OneOpenOrder`, `AnswersFit`, `InstallsAreCounted` | the invariants of `PurchaseOrder` |
| `GrantedToRedeemer`, `FulfilledGranted` | the invariants of `RechargeOrder` |
| `DemandTypeCorrect`, `AwardedOnce` | invariants of `DemandClaim` |
| `TimelineComplete` | its action property |
| `WithdrawalTypeCorrect`, `PaidOutBacked`, `OneRequest` | invariants of `Withdrawal` |
| `RowsObeyTheirKeys` | the invariant of `ValueCatalogue` |
| `CreditsTheGrant`, `GrantsWhatItShows` | the invariants of `RechargePricing` |

**OrderLifecycle.** No single property is inductive: that a dead order is never
being fulfilled rests on the row never being payable after a payment, that an
order with a late payment stays ended rests on both, and that a completed order
is delivered rests on the fulfillment order matching the row. Their conjunction
`IInv` is inductive. The proof has a lemma
per group of actions (`CreationIInv`, `EndingIInv`, `DeliveryIInv`, one per
payment action) and `NextIInv` joins them. `StepKeepsPayment` and
`StepKeepsDead` are the step lemmas behind the two action properties. No
assumption on the constants is used beyond `SubjectAssumption` (physical and
points orders are disjoint sets of orders).

**Inventory.** `InventoryIInv` is the type invariant, conservation, that
`reserved` and `sold` are never negative (`CountersAreNatural`, which keeps
`available` from exceeding the initial stock), the safety stock and that the
rows of an order move together. Because an order has at most one line per sku
(`validate_reserve_request`, in `LinesAssumption`), at most one of its lines is
at a given stock record; so the quantity an operation moves there is a `CHOOSE`
and not a sum, and the proof needs no induction over a set of lines
(`QuantityAtCovered`, `TakeIsNatural`, `GivingBackIsSafe`). That reservation
never takes negative amounts follows from `Quantity \in [Lines -> Nat \ {0}]`.

`BooksIInv` adds that the counters are what the rows say. A piece is a pair of a
row and a number; a step moves the pieces of the rows it changes from one counter
to another, and at one stock record these are the pieces of one row, so the
cardinality changes by that row's quantity (`FS_Union`, `FS_Difference`,
`FS_Product` of `FiniteSetTheorems`). For this a row must fit the record it was
taken from (`RowsFit`), and `LinesAssumption` has finitely many lines. From the
counters follows `StockAlwaysCovers`: the refusal of `mutate_stock` and the rows
`restock_stock` passes over without looking are never met.

**PaymentNotify.** The refinement and the safety need each other: that a worker
which goes on after its mark takes a step of the lifecycle rests on the
lifecycle's own invariant. So `PipelineInv` is `IInv` of `OrderLifecycleProofs`,
seen through the refinement mapping (`Rows`), with what the pipeline adds:
nothing is paid, notified or succeeded before an attempt was opened
(`PaymentsOK`), and what a worker may rely on at its place (`PlacesOK`).
`NextMaps` has each action as a step of the lifecycle or none; `IInv` is then
kept by `NextIInv` of that module and not proved again. `SagaInv` adds the fulfillment. Its heart is
`OneHandler`: no lock keeps two workers from one order, but the mark that sends
a worker into the fulfillment finds a value order payable, which it is at most
once. A worker is therefore alone with its order, and `AtPlace` says how far
ledger and row are at each place of the saga. `AtPlace` also shows that
`commitReplayed`, where the saga goes when its credit turns out to be a replay, is
never reached: a retry that finds the credit finds the fulfillment first, or the
order no longer payable.

**PhysicalOrder.** Both refinements are step simulations with the identity on
the shared variables: each action is a step of `PaymentNotify` or leaves its
variables alone, and the same for `Inventory`. They need the invariant
`CallsOK`: a caller that is not idle is about an order, so that `about[c]` is in
`Orders` when its action is read as one of the parts' quantified ones.
`PhysicalAssumption` says that every order of this module is physical and has
stock lines. `GoodsInv` relates the two stores: sold goods belong to a row that
shows its payment and stays so (`RowForward`), a worker that is about to hand
over found the order payable, and one that has consumed the stock knows all of
it sold (`HandlerOK`); a caller that gives stock back has an ended order or an
after-sales request behind it (`CallOK`). `HeldInv` is about time: only what is
due lapses, so an order in its window keeps what it reserved (`ReservedStays`).
That is so when reservations outlive the payment window, so
`PayableGoodsAreReserved` assumes `~LongWindow`: a window of at most 1800 s, as is
the default of `service/config.rs`; with `LongWindow` the property is false
(section 7).

**RefundRequest.** None of the invariants is inductive, because a call writes
what it decided long before: a request becomes `refunded` by a review whose hold
another call may have ended meanwhile. `RefundIInv` therefore says of every call
at each of its places what it may rely on (`CallOK`: one that is to settle has
seen a success, one that is to write `refunded` has a settled hold, one that is
to write the failure has the first hold released, a retry's hold is placed only
after the first was released) and of every request what its row and its holds
tell about each other (`RequestOK`). The argument that the steps of one call do
not spoil what another relies on is made once: holds only move forward and a
success stays one (`MovesForward`), so `CallOK` of the others survives
(`OtherCallOK`), and `OneCallSteps` reduces each action to its own call and
rows. The retry case rests on the ledger refusing to settle a hold that was
released; that is the assumption on the external ledger which the proof uses.
`RefundAssumption` is all that is assumed of the constants; the amounts play no
part in the proof.

**AfterSales.** The owner's update may write a status it read long ago, so that a
completed request was reviewed does not follow from the row. The trail of a
request only grows, so the invariant is put in terms of it: whatever an update
read is on the trail (`EditsAreRecorded`), and a trail that shows a status only
reviews reach shows the reviews that lead to it (`TrailIsComplete`). For the
stock, shipment follows the fulfillment order and that the payment
(`SoldOrders`), and a restock that is still to be done has its completed review
(`RestockIsDue`).

**DemandClaim.** One award rests on the unique index: between its entry and its
commit a transaction is alone there and nothing is awarded
(`IndexIsExclusive`), and no guarded `UPDATE` makes an award of a claim that was
none (`ActionLeads`, with `CallsAreAboutClaims` for what a call read), so the
commit is the only award. An event is written from what was read
(`TimelineComplete`). That it is true rests, for an action, on the guard of its
`UPDATE`, and for the award on `LockedAsFound`: a locked row is an open claim and
stays as its holder found it, since every other change waits for the lock. The
deadlock plays no part in safety; that it is
resolved is model-checked (`AcceptEnds`).

**Withdrawal.** A review acts on what it read at the beginning. `WithdrawalIInv`
says of every call at each of its places what it may rely on (`WorkOK`: one that
is to settle has seen the payout succeed, one that is to mark `paid_out` has
settled its hold) and that these facts last: a succeeded payout, a settled hold
and the key a row was made by never change (`Lasting`), so the steps of one call
do not spoil what another relies on (`MovesOneCall`). `OneRequest` follows from
`MadeByItsKey`: the id of a row is made of the key it was made by, although the
stored key is replaced. `WithdrawalAssumption` is all that is assumed.

**Checkout.** A call prices in one step and writes in another, so each property
rests on what does not change in between: an open session stays open, of its
kind and at its price, an order stays, and so does its stock (`CheckoutLasts`).
`CheckoutIInv` says that the session, its quotes, its order and what was shown
have one price (`PriceIsFrozen`), that a quote key that answered is bound to one
open session (`QuoteKeyIsBound`) and what each call relies on (`CallsRely`).

**PurchaseOrder.** `CallsFit` says that an answer fits its request; it goes on
fitting because what an order was made for never changes (`CallMoves`). One open
order per intent: only an insert opens an order, it looks at every open order of
the intent but those its own transaction expires, and these stay locked.
Installs are a cardinality; only an insert and the adapter fulfill an order, and
each adds one to both sides. `PurchaseAssumption` has finitely many orders, as an
installation has, and requests for items there are.

**RechargeOrder.** A code stays redeemed as it was (`RedemptionsLast`), so a call
that found its order in the redemption may grant, commit and release long after
(`CallIsSure`). `RechargeAssumption` asks for one benefit at least: a code grants
something.

**RechargePricing, ValueCatalogue.** Every payload an order gets has the points of
its item or none, and the points of an item never change (`PricingIInv`). A call
is always at a statement of the command whose key it carries, so the key it
writes names what it made of the row (`CatalogueIInv`).

Only model-checked are the five temporal properties: `LapsedStockReturns`,
`CollectedIsEventuallyRecorded`, `AcceptEnds`, `CheckoutEnds` and
`RedeemedIsFulfilled`. Each rests on fairness, and the proof system installed
treats neither fairness nor `ENABLED`.

## 6. What is left out

Not modelled:

* The course entitlement relay: it keeps no state here and its effect is that of
  another service, which the repository does not hold (section 7).
* The activation of a membership, one idempotent call of another service.
* Routers, read models, validation, authorization, webhook signatures, service
  host, gateway, SDKs and user interfaces: input and output around the
  operations that are modelled. `PROJECT.json` lists them with the reason.
* Of the account ledger adapters, the translation of requests and the hash the
  store adapter adds.

Abstracted in the modules:

* Currencies, and amounts except where a decision or a property is about them
  (bounds of refund requests, prices, points).
* In `RefundRequest`, that the order is paid and that a creation is repeated
  with its key: a repeated creation answers with the request there is. A refund
  that does not come from a request, and a notice that matches no refund or no
  attempt: the pipeline accepts them and the handler does nothing.
* Several lines of a checkout session, and what the catalogue, the shop or the
  money arithmetic refuses: such calls change nothing.
* In `PhysicalOrder`, orders without stock lines; checkout marks them reserved
  directly, which `Checkout` has as a service. Stock that two windows can
  disagree about: `physical` takes the default, `LongWindow = FALSE` (section 7).
* An after-sales request that is opened while the order is `pending_inventory`
  is exempt from `PayableOrderHasStock` (section 7).
* Locks, isolation levels and their timeouts, except in `DemandClaim` and
  `PurchaseOrder`, where a decision hangs on them. Elsewhere a transaction is an
  atomic step; one that the database aborts is a step that did not happen. Where
  a decision is made outside the transaction that acts on it, the two are
  separate steps.
* The batch limit and order of the periodic passes.

## 7. Where the code and its documents differ

Two of the runs are expected to end in a violation; TLC's trace is the scenario.

| run | what the trace shows |
|---|---|
| `redelivery` | The call ends after the order was marked paid and before it was fulfilled. `paid` counts as terminal, so a redelivery is answered `late_payment_requires_recovery`, acknowledged, and fulfills nothing. |
| `checkout_expired` | An order is made of a session whose expiry has passed. The expiry and the current time are RFC 3339 texts and `postgres_order.rs:1381,1440` parses them as integers, so it compares the fallbacks `i64::MAX` and 0, where `ORDER_LIFECYCLE_MATRIX.md:12,51` has the session expire. |

Observations without a run. Of settlement and stock:

* `shipped` is neither terminal nor kept by `order_payment_settlement.rs:385`: a
  redelivered success takes a shipped order back to `paid`.
* A commit of the saga that took effect and was reported as failed is compensated
  by a debit; the order stays fulfilled and a retry is a replay.
* Settlement has consumed the reservation when a refund before shipment asks for
  its release (`account_value_request_execution.rs:171`), and consumed rows are
  skipped (`commerce/inventory.rs:224`): the stock stays sold.
* A reservation lapses after a fixed 1800 s (`commerce/inventory.rs:533`), the
  payment window is configurable up to a day: with `LongWindow = TRUE` the sweep
  releases the stock of an order that can still be paid for.
* The expiration batch (`repository/postgres_expiration.rs:33`) is ordered and
  limited: orders whose expiry keeps failing at the head could starve the rest.
* The course relay (`host/course_entitlement_relay.rs:51-80`) takes the first 50
  paid course orders by id on every pass and remembers no delivery: the next one
  is never delivered, and one grant that fails stops all behind it.
* `mark_points_recharge_payment_succeeded` marks every open attempt of the order
  succeeded, though nothing was collected on the others, while
  `payment/payment_compensation.rs:203` takes a succeeded attempt for a fact. It
  is in the branch for `Points` of `HandleValue`.
* `mark_owner_order_payment_succeeded` records `duplicate_payment_success` for
  every success on a paid order, so also for a plain redelivery, while the
  comment above it speaks of a second attempt; the row does not hold which
  attempt paid it.
* An after-sales request may be opened for an order in `pending_inventory`, so
  that the review which completes it can release the reservation of an order
  nobody has paid, where the comment of `maybe_restock_physical_return` takes
  `inventory_reserved` to mean "paid but never shipped".

Of refunds:

* A request whose refund the payment runtime has under way can be rejected
  (`account_value_request_execution.rs:45`): its hold is released and the request
  ends, while the provider may still pay. `ACCOUNT_VALUE_ORDER_SPEC.md:108-109`
  releases the hold only after a deterministic failure.
* Two reviews that retry a failed refund at once, with different
  Idempotency-Keys, place two holds, and when the refund succeeds each settles
  its own: the value is taken twice. `specs/ACCOUNT_VALUE_ORDER_SPEC.md:208`
  names one hold per request.
* `postgres_account_value.rs:678-684` says that no interleaving can commit an
  over-refund reservation. A failed request leaves the bound and a retry of it
  is not checked against it again, so a request created in between and the retry
  together can exceed what was paid.
* Approving a request that was rejected before it had a hold places one, and
  only then is the status update refused; nothing releases that hold.
* After a notice has failed a request and released its hold, a review that began
  before may mark it `provider_refund_processing` again, where the comment at
  `service/ports/refund_notify.rs:177` says a race with the synchronous path
  collapses to a no-op.
* `refund_notify_orchestration.rs:20-22` says that `refund_failed` never
  overwrites `refunded` on the order. The pipeline keeps to it; the handler's
  `mark_owner_order_refunded` writes `provider_refund_failed` over it when
  another request of the order fails.
* A cancelled refund is marked `refund_failed` on the order, but the handler
  passes over it, so the hold stays until the request is reviewed again.
* `create_refund_request_within_bounds` casts the idempotency key to
  `TIMESTAMPTZ` (line 727), so that the insertion of a key that is no timestamp
  is an error. The model takes the creation of keys the cast accepts.
* The status `account_hold_failed` of the specification is never written.

Of after-sales and shipment:

* A package that is created shipped does not advance the order, and one shipped
  before the order waits for shipment never does (`ORDER_LIFECYCLE_MATRIX.md:24`).
* The owner's update can write a status over the review that came in between.
* A return shipment is accepted for a request that was rejected, and a completed
  return of an order in `awaiting_shipment` restocks goods that can still ship.
* The restock after a completed review is best effort: an error is logged, a
  crash forgets it. Another `completed` with a new key runs it again.
* Sessions without an organization cannot open a request: its event row needs one.

Of checkout:

* `COMMERCE_CHECKOUT_ARCHITECTURE.md:187` has a key that is used for another
  command answered by a conflict; the lookup at `postgres_checkout.rs:323`
  replays the session whatever the request says.
* The retry of an order counts every item as a stock line
  (`postgres_order.rs:1482`), so the retry after a crash marks the order of a
  service `inventory_failed`.
* `update_checkout_session_status` (`postgres_checkout.rs:750`) writes `quoted`
  over `submitted`.

Of recharge, coupons and prices:

* A retry with the key of an order that has no attempt yet opens one with points
  0 (`postgres_recharge.rs:336-339`); the paid order can never be fulfilled.
  `RECHARGE_ORDER_SPEC.md:101` has the retry take the snapshot.
* `docs/guides/integrator/README.md:42` and `TECH_ARCHITECTURE.md:41` answer a key
  with another command by 409; `postgres_recharge.rs:739` does not.
* Creating a points order expires every stale points order of the owner, and the
  failed payment of a reused order cancels one that another call just offered.
  Two concurrent creations of one amount both insert.
* When the commit of a coupon's asset fails after the credit, the credit is
  debited (`account_value_fulfillment.rs:60-84`) and the code stays redeemed. The
  retry's credit has the same key, so the ledger answers with the first one and
  credits nothing, and the commit writes `fulfilled`: the code is used up and the
  buyer has nothing. The same is left when another call committed in between.
  `RedeemedIsFulfilled` exempts these orders (`reversed`).
* A coupon order that has to be paid can be redeemed for nothing through the
  redemption endpoint (`service/domain/account_value.rs:536`), also when it was
  cancelled or has expired. A paid one whose code was redeemed elsewhere can
  never be fulfilled.
* A stored price without a decimal point is in minor units, while the lookup by
  amount compares texts in major units. The status labels lack `closed`,
  `inventory_failed`, `processing` and `created`: a replay of such an order is a
  storage error. The retry of a value order takes `grantAmount` from the retried
  request.

Of memberships and templates:

* A quota's key with the same amount and another quantity is replayed
  (`membership_order_identity.rs:6`). An amount with a decimal point passes the
  parsing and ends in an `expect`.
* A template can be sold twice: two orders of one buyer may be paid at once
  (`postgres_app_template_order.rs:127-128` says otherwise). A reuse does not
  record the caller's key, so repeating it later can find another order. The
  replay of a key fails once the listing is withdrawn.
* A template order that was marked paid and whose fulfillment failed is terminal
  for a redelivery, as in `redelivery`.

Of withdrawals and the catalogue:

* Each review replaces the stored key, so the owner's retry of the creation ends
  in a storage error. An operator's key that is used for two requests meets the
  unique index in the middle of a review, after the hold.
* Approving a rejected withdrawal places a hold that nothing releases; rejecting
  one whose payout is processing releases the cash; two retries at once settle
  two holds. A processing payout is asked about by the next review only.
* A catalogue row keeps only its last key: an earlier command that is repeated is
  carried out again, and a retired package comes back. A creation with an
  existing code overwrites it; a retirement whose key was used answers without
  retiring.

Of demand claims and the ledger:

* The comment near `postgres_demand_claim.rs:462` says an award closes every open
  competitor; the award count of a submission is read outside its transaction,
  so a late claim stays open.
* The store adapter of the ledger hashes the request number while the key is per
  order, so a retry under another event has another hash; a request that timed
  out may have reached the ledger.

## 8. Running

```
tlc -workers 2 -config MCOrderBooks.cfg MCOrderBooks
tlapm InventoryProofs.tla
```

The module and configuration of each run, and the mutated definition each
property is known to detect, are in `PROJECT.json`.

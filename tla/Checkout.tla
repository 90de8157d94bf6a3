------------------------------ MODULE Checkout ------------------------------
(***************************************************************************)
(* Checkout: a session freezes the catalogue price of its lines, quotes    *)
(* are added to it, and one order is made of it                            *)
(* (routes-order-app-api/checkout_router.rs, postgres_checkout.rs,         *)
(* create_owner_order of postgres_order.rs).                               *)
(*                                                                         *)
(* A session's id is made of its Idempotency-Key and an order's id of its  *)
(* session, so the three are one identity: a member of Orders.  The        *)
(* transactions read without row locks and write at the end, so each is a  *)
(* read step and a commit step of a call; a crash drops a call between any *)
(* two steps.  Requests the catalogue, the shop or the money arithmetic    *)
(* refuses change nothing and are left out.                                *)
(***************************************************************************)
EXTENDS OrderRow, Naturals, Sequences

CONSTANTS Calls,      \* concurrent HTTP calls
          QuoteKeys,  \* Idempotency-Keys of quote calls
          Prices,     \* prices the catalogue may show for the sku
          Wanted,     \* for each session, the kinds its calls may ask for
          MaxCrashes  \* bound on the calls cut off

\* What is bought: goods with a shipping address (the resolver names the
\* merchant), goods without one, or a service.
Kinds == {"addressed", "unaddressed", "service"}

ASSUME CheckoutAssumption == /\ Physical = Orders
                             /\ Prices \subseteq Nat \ {0}
                             /\ Wanted \in [Orders -> SUBSET Kinds]
                             /\ MaxCrashes \in Nat

VARIABLES sessions,  \* commerce_checkout_session with its lines
          quotes,    \* payable amounts of a session's quotes, oldest first
          quoteRows, \* completed idempotency rows of the quote scope: their session
          orders,    \* amount of an order, and whether its session had lapsed
          held,      \* orders with a stock reservation
          calls,     \* what each call is doing
          shown,     \* amounts the answers on a session have shown
          quotedFor, \* sessions the answers on a quote key have named
          crashes

checkoutVars == <<sessions, quotes, quoteRows, orders, held, calls,
                  shown, quotedFor, crashes>>
vars == <<rowVars, checkoutVars>>

NoSession == [status |-> "none", kind |-> "service", price |-> 0, lapsed |-> FALSE]
NoOrder == [amount |-> 0, late |-> FALSE]
Idle == [op |-> "idle"]

Init == /\ RowInit
        /\ sessions = [k \in Orders |-> NoSession]
        /\ quotes = [k \in Orders |-> << >>]
        /\ quoteRows = [q \in QuoteKeys |-> {}]
        /\ orders = [k \in Orders |-> NoOrder]
        /\ held = {}
        /\ calls = [c \in Calls |-> Idle]
        /\ shown = [k \in Orders |-> {}]
        /\ quotedFor = [q \in QuoteKeys |-> {}]
        /\ crashes = 0

Exists(k) == sessions[k].status # "none"
Newest(k) == quotes[k][Len(quotes[k])]
Goto(c, call) == calls' = [calls EXCEPT ![c] = call]
Return(c) == Goto(c, Idle)
Show(k, amount) == shown' = [shown EXCEPT ![k] = @ \cup {amount}]

-----------------------------------------------------------------------------
(* POST checkout/sessions                                                  *)

\* find_checkout_session_by_idempotency: by tenant and key alone, whatever the
\* request; the answer shows the newest quote.
ReplaySession(c, k) ==
  /\ calls[c] = Idle
  /\ Exists(k)
  /\ Show(k, Newest(k))
  /\ UNCHANGED <<rowVars, sessions, quotes, quoteRows, orders, held, calls, quotedFor, crashes>>

\* Goods with an address are priced by the resolver before the transaction
\* begins, other lines inside it.  The catalogue changes its prices when it
\* likes: every read may find another one.
BeginSession(c, k, kind, p) ==
  /\ calls[c] = Idle
  /\ ~Exists(k)
  /\ kind \in Wanted[k]
  /\ Goto(c, [op |-> "opening", key |-> k, kind |-> kind,
              price |-> IF kind = "addressed" THEN p ELSE 0])
  /\ UNCHANGED <<rowVars, sessions, quotes, quoteRows, orders, held, shown, quotedFor, crashes>>

\* resolve_checkout_lines: the resolver's price, or the price p read now.
LinePrice(call, p) == IF call.kind = "addressed" THEN call.price ELSE p

\* checkout_session_request_hash: the price counts for resolved goods only.
Fingerprint(kind, p) == <<kind, IF kind = "addressed" THEN p ELSE 0>>

\* The rows of the session and of its lines: the price is a snapshot.
NewSession(kind, amount) == [status |-> "active", kind |-> kind, price |-> amount, lapsed |-> FALSE]

OpenSession(c, p) ==
  LET call == calls[c]  k == call.key  amount == LinePrice(call, p) IN
  /\ call.op = "opening"
  /\ ~Exists(k)
  /\ sessions' = [sessions EXCEPT ![k] = NewSession(call.kind, amount)]
  /\ quotes' = [quotes EXCEPT ![k] = <<amount>>]
  /\ Show(k, amount)
  /\ Return(c)
  /\ UNCHANGED <<rowVars, quoteRows, orders, held, quotedFor, crashes>>

\* The stored answer of the call that opened the session: its first quote.
StoredAnswer(k) == quotes[k][1]

\* Another call opened the session meanwhile: replay for the same fingerprint,
\* conflict for another one, or the insert of the key's row fails.
SessionRaced(c) ==
  LET call == calls[c]  k == call.key IN
  /\ call.op = "opening"
  /\ Exists(k)
  /\ \/ /\ Fingerprint(call.kind, call.price) = Fingerprint(sessions[k].kind, sessions[k].price)
        /\ Show(k, StoredAnswer(k))
     \/ UNCHANGED shown
  /\ Return(c)
  /\ UNCHANGED <<rowVars, sessions, quotes, quoteRows, orders, held, quotedFor, crashes>>

\* GET checkout/sessions/{id}
ViewSession(c, k) ==
  /\ calls[c] = Idle
  /\ Exists(k)
  /\ Show(k, Newest(k))
  /\ UNCHANGED <<rowVars, sessions, quotes, quoteRows, orders, held, calls, quotedFor, crashes>>

-----------------------------------------------------------------------------
(* POST checkout/sessions/{id}/quotes                                      *)

Quotable(k) == sessions[k].status \in {"active", "quoted"}
NameSession(q, k) == quotedFor' = [quotedFor EXCEPT ![q] = @ \cup {k}]

\* A known key answers for its own session and refuses any other.
ReplayQuote(c, k, q) ==
  /\ calls[c] = Idle
  /\ k \in quoteRows[q]
  /\ NameSession(q, k)
  /\ Show(k, sessions[k].price)
  /\ UNCHANGED <<rowVars, sessions, quotes, quoteRows, orders, held, calls, crashes>>

\* Mutant: the lines are priced again.
QuotePricesAgain(k) == Prices

\* load_checkout_lines_for_quote: the price the lines were opened with.
QuotePrices(k) == {sessions[k].price}

\* The expiry is not looked at.
BeginQuote(c, k, q) ==
  /\ calls[c] = Idle
  /\ quoteRows[q] = {}
  /\ Quotable(k)
  /\ \E p \in QuotePrices(k) :
       Goto(c, [op |-> "quoting", key |-> k, quote |-> q, price |-> p])
  /\ UNCHANGED <<rowVars, sessions, quotes, quoteRows, orders, held, shown, quotedFor, crashes>>

\* Mutant: the key's index is missing.
KeyFreeAlways(q) == quoteRows[q] \subseteq Orders

\* idx_commerce_idempotency_key_scope: one row for a key.
KeyFree(q) == quoteRows[q] = {}

\* A further quote; the status is written whatever it has become since it was read.
AddQuote(k, amount) ==
  /\ quotes' = [quotes EXCEPT ![k] = Append(@, amount)]
  /\ sessions' = [sessions EXCEPT ![k].status = "quoted"]

CommitQuote(c) ==
  LET call == calls[c]  k == call.key  q == call.quote IN
  /\ call.op = "quoting"
  /\ IF KeyFree(q)
     THEN /\ quoteRows' = [quoteRows EXCEPT ![q] = {k}]
          /\ AddQuote(k, call.price)
          /\ NameSession(q, k)
          /\ Show(k, call.price)
     ELSE UNCHANGED <<quoteRows, quotes, sessions, quotedFor, shown>>
  /\ Return(c)
  /\ UNCHANGED <<rowVars, orders, held, crashes>>

-----------------------------------------------------------------------------
(* POST checkout/sessions/{id}/orders                                      *)

\* expires_at and now are RFC 3339 text (or a timestamp no String cell reads),
\* which parse::<i64>() does not accept: the fallbacks are compared, i64::MAX
\* for the expiry and 0 for now.
FallbackExpiry == 1
FallbackNow == 0
SeenExpired(k) == FallbackExpiry <= FallbackNow

\* Mutant: goods of no merchant are marked reserved.
AfterOutcomeUnchecked(hasLines, kind) ==
  IF hasLines /\ kind = "addressed" THEN "reserve" ELSE "mark"

\* What the handler does next with the outcome of create_owner_order.
AfterOutcome(hasLines, kind) ==
  IF ~hasLines THEN "mark" ELSE IF kind = "addressed" THEN "reserve" ELSE "fail"

\* Mutant: a session that has its order is not orderable, even for the retry.
FindOrderSubmitted(c, k) ==
  /\ calls[c] = Idle
  /\ status[k] # "none"
  /\ Quotable(k)
  /\ Goto(c, [op |-> AfterOutcome(TRUE, sessions[k].kind), key |-> k])
  /\ UNCHANGED <<rowVars, sessions, quotes, quoteRows, orders, held, shown, quotedFor, crashes>>

\* The order exists: all its items count as inventory lines.
FindOrder(c, k) ==
  /\ calls[c] = Idle
  /\ status[k] # "none"
  /\ Goto(c, [op |-> AfterOutcome(TRUE, sessions[k].kind), key |-> k])
  /\ UNCHANGED <<rowVars, sessions, quotes, quoteRows, orders, held, shown, quotedFor, crashes>>

\* load_checkout_session_for_order, load_checkout_quote_for_order
BeginOrder(c, k) ==
  /\ calls[c] = Idle
  /\ status[k] = "none"
  /\ Quotable(k)
  /\ ~SeenExpired(k)
  /\ Goto(c, [op |-> "ordering", key |-> k, price |-> Newest(k), late |-> sessions[k].lapsed])
  /\ UNCHANGED <<rowVars, sessions, quotes, quoteRows, orders, held, shown, quotedFor, crashes>>

CommitOrder(c) ==
  LET call == calls[c]  k == call.key IN
  /\ call.op = "ordering"
  /\ CreateOwnerOrder(k)
  /\ orders' = [orders EXCEPT ![k] = [amount |-> call.price, late |-> call.late]]
  /\ sessions' = [sessions EXCEPT ![k].status = "submitted"]
  /\ Show(k, call.price)
  /\ Goto(c, [op |-> AfterOutcome(sessions[k].kind # "service", sessions[k].kind), key |-> k])
  /\ UNCHANGED <<quotes, quoteRows, held, quotedFor, crashes>>

\* The primary key: another call inserted the order first.
OrderRaced(c) ==
  /\ calls[c].op = "ordering"
  /\ status[calls[c].key] # "none"
  /\ Return(c)
  /\ UNCHANGED <<rowVars, sessions, quotes, quoteRows, orders, held, shown, quotedFor, crashes>>

\* reserve_physical_order_inventory, with a key made of the order id: a retry
\* finds its reservation, a first call may find the stock sold.
ReserveInventory(c) ==
  LET k == calls[c].key IN
  /\ calls[c].op = "reserve"
  /\ \/ /\ held' = held \cup {k}
        /\ Goto(c, [op |-> "mark", key |-> k])
     \/ /\ k \notin held
        /\ Goto(c, [op |-> "fail", key |-> k])
        /\ UNCHANGED held
  /\ UNCHANGED <<rowVars, sessions, quotes, quoteRows, orders, shown, quotedFor, crashes>>

MarkReserved(c) ==
  LET k == calls[c].key IN
  /\ calls[c].op = "mark"
  /\ IF status[k] \in {"pending_inventory", "pending_payment"}
     THEN MarkInventoryReserved(k) ELSE UNCHANGED rowVars
  /\ Return(c)
  /\ UNCHANGED <<sessions, quotes, quoteRows, orders, held, shown, quotedFor, crashes>>

MarkFailed(c) ==
  LET k == calls[c].key IN
  /\ calls[c].op = "fail"
  /\ IF status[k] = "pending_inventory" THEN MarkInventoryFailed(k) ELSE UNCHANGED rowVars
  /\ Return(c)
  /\ UNCHANGED <<sessions, quotes, quoteRows, orders, held, shown, quotedFor, crashes>>

-----------------------------------------------------------------------------
(* The rest of the world                                                   *)

\* The payment window of a session passes; an order has a window of its own.
SessionLapses(k) ==
  /\ Quotable(k)
  /\ ~sessions[k].lapsed
  /\ sessions' = [sessions EXCEPT ![k].lapsed = TRUE]
  /\ UNCHANGED <<rowVars, quotes, quoteRows, orders, held, calls, shown, quotedFor, crashes>>

\* A call cut off before its transaction commits leaves nothing behind.
Crash(c) ==
  /\ calls[c].op \in {"reserve", "mark", "fail"}
  /\ crashes < MaxCrashes
  /\ crashes' = crashes + 1
  /\ Return(c)
  /\ UNCHANGED <<rowVars, sessions, quotes, quoteRows, orders, held, shown, quotedFor>>

\* What a running handler does by itself.
Serve(c) == \/ (\E p \in Prices : OpenSession(c, p)) \/ SessionRaced(c)
            \/ CommitQuote(c)
            \/ CommitOrder(c) \/ OrderRaced(c)
            \/ ReserveInventory(c) \/ MarkReserved(c) \/ MarkFailed(c)

Next == \/ \E c \in Calls : Serve(c) \/ Crash(c)
        \/ \E c \in Calls, k \in Orders : ReplaySession(c, k) \/ ViewSession(c, k)
        \/ \E c \in Calls, k \in Orders, kind \in Kinds, p \in Prices : BeginSession(c, k, kind, p)
        \/ \E c \in Calls, k \in Orders, q \in QuoteKeys : ReplayQuote(c, k, q) \/ BeginQuote(c, k, q)
        \/ \E c \in Calls, k \in Orders : FindOrder(c, k) \/ BeginOrder(c, k)
        \/ \E k \in Orders : SessionLapses(k)

CheckoutSpec == Init /\ [][Next]_vars

\* A handler that runs makes progress, and the buyer asks again for an order
\* that is still waiting for its stock.
CheckoutFairness ==
  /\ \A c \in Calls : WF_vars(Serve(c))
  /\ \A k \in Orders : SF_vars(\E c \in Calls : status[k] = "pending_inventory" /\ FindOrder(c, k))

FairCheckoutSpec == CheckoutSpec /\ CheckoutFairness

-----------------------------------------------------------------------------
(* Properties                                                              *)

\* Every answer a buyer gets on one session, its creation, replays and quotes
\* included, shows the same amount, and the order is for that amount, whatever
\* the catalogue's price does meanwhile (lines are priced once, when opened).
OnePricePerSession ==
  \A k \in Orders : /\ \A a, b \in shown[k] : a = b
                    /\ status[k] # "none" => shown[k] = {orders[k].amount}

\* A quote's Idempotency-Key never answers for two sessions, raced or retried.
QuoteKeyNamesOneSession ==
  \A q \in QuoteKeys : \A k, l \in quotedFor[q] : k = l

\* Goods can be paid only with their stock reserved for a known merchant; goods
\* without an address are never payable, on the first call or on a retry.
PayableGoodsAreHeld ==
  \A k \in Orders :
    status[k] = "pending_payment" /\ sessions[k].kind # "service"
      => k \in held /\ sessions[k].kind = "addressed"

\* An order whose checkout was cut off leaves pending_inventory once the buyer
\* retries: the retry finds the order behind the submitted session.
CheckoutEnds ==
  \A k \in Orders : status[k] = "pending_inventory" ~> status[k] # "pending_inventory"

\* What ORDER_LIFECYCLE_MATRIX says of the payment window: no order is made of
\* a session that had expired when the order call read it.  The code does not
\* keep it.
ExpiredSessionIsNotOrdered == \A k \in Orders : ~orders[k].late

=============================================================================

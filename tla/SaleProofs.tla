----------------------------- MODULE SaleProofs -----------------------------
(***************************************************************************)
(* Both ends of a sale of goods.                                           *)
(*                                                                         *)
(* Checkout, for every set of sessions, quote keys, prices and calls: a    *)
(* session that is open stays open, of its kind and at its price, so what  *)
(* a call read of it is still so when it writes.                           *)
(*                                                                         *)
(* AfterSales, for every set of orders, shipments, packages and requests   *)
(* and any number of updates under way.  What an update has read is on the *)
(* trail, and the trail of a request grows: so what it writes back late    *)
(* was recorded, and a trail that shows a status reached by reviews shows  *)
(* the reviews before it.                                                  *)
(***************************************************************************)
EXTENDS Checkout, AfterSales, TLAPS

-----------------------------------------------------------------------------
(* Checkout.                                                               *)

CheckoutCalls ==
  {Idle} \cup [op : {"opening"}, key : Orders, kind : Kinds, price : Nat]
         \cup [op : {"quoting"}, key : Orders, quote : QuoteKeys, price : Nat]
         \cup [op : {"ordering"}, key : Orders, price : Nat, late : BOOLEAN]
         \cup [op : {"reserve", "mark", "fail"}, key : Orders]

SessionRows == [status : {"none", "active", "quoted", "submitted"}, kind : Kinds, price : Nat,
                lapsed : BOOLEAN]

CheckoutTypeOK ==
  /\ RowTypeOK
  /\ sessions \in [Orders -> SessionRows]
  /\ quotes \in [Orders -> Seq(Nat)]
  /\ quoteRows \in [QuoteKeys -> SUBSET Orders]
  /\ orders \in [Orders -> [amount : Nat, late : BOOLEAN]]
  /\ held \subseteq Orders
  /\ calls \in [Calls -> CheckoutCalls]
  /\ shown \in [Orders -> SUBSET Nat]
  /\ quotedFor \in [QuoteKeys -> SUBSET Orders]

\* The price of a session is its quotes', its order's and what was shown of it;
\* nothing is known of a session that is not open.
PriceIsFrozen ==
  \A k \in Orders :
    IF Exists(k)
    THEN /\ quotes[k] # << >>
         /\ \A i \in DOMAIN quotes[k] : quotes[k][i] = sessions[k].price
         /\ shown[k] \subseteq {sessions[k].price}
         /\ status[k] # "none" => /\ orders[k].amount = sessions[k].price
                                  /\ shown[k] = {sessions[k].price}
    ELSE shown[k] = {} /\ status[k] = "none"

\* A quote key that answered is bound to the one open session it answered for.
QuoteKeyIsBound ==
  \A q \in QuoteKeys : /\ quotedFor[q] \subseteq quoteRows[q]
                       /\ \A k, l \in quoteRows[q] : k = l
                       /\ \A k \in quoteRows[q] : Exists(k)

\* What a call may rely on, given the sessions, the order rows and the stock.
CallRelies(call, sess, rows, stocked) ==
  /\ call.op \in {"quoting", "ordering"} =>
       /\ sess[call.key].status # "none"
       /\ call.price = sess[call.key].price
  /\ call.op \in {"reserve", "mark", "fail"} => rows[call.key] # "none"
  /\ call.op = "reserve" => sess[call.key].kind = "addressed"
  /\ call.op = "mark" /\ sess[call.key].kind # "service" =>
       call.key \in stocked /\ sess[call.key].kind = "addressed"

CallsRely == \A c \in Calls : CallRelies(calls[c], sessions, status, held)

CheckoutIInv == /\ CheckoutTypeOK
                /\ PriceIsFrozen
                /\ QuoteKeyIsBound
                /\ CallsRely
                /\ PayableGoodsAreHeld

\* A session that is open stays open, of its kind and at its price; an order
\* stays, and so does its stock.
CheckoutLasts ==
  /\ \A k \in Orders : Exists(k) => /\ sessions'[k].status # "none"
                                    /\ sessions'[k].kind = sessions[k].kind
                                    /\ sessions'[k].price = sessions[k].price
  /\ \A k \in Orders : status[k] # "none" => status'[k] # "none"
  /\ held \subseteq held'

\* What a call is, by its op.
LEMMA CallTypes ==
  ASSUME CheckoutIInv, NEW c \in Calls
  PROVE  /\ calls[c] = Idle \/ calls[c].key \in Orders
         /\ calls[c].op = "opening" =>
              calls[c] \in [op : {"opening"}, key : Orders, kind : Kinds, price : Nat]
         /\ calls[c].op = "quoting" =>
              calls[c] \in [op : {"quoting"}, key : Orders, quote : QuoteKeys, price : Nat]
         /\ calls[c].op = "ordering" =>
              calls[c] \in [op : {"ordering"}, key : Orders, price : Nat, late : BOOLEAN]
         /\ calls[c].op \in {"reserve", "mark", "fail"} =>
              calls[c] \in [op : {"reserve", "mark", "fail"}, key : Orders]
  BY DEF CheckoutIInv, CheckoutTypeOK, CheckoutCalls, Idle

\* Behind an order is an open session.
LEMMA OrderHasSession ==
  ASSUME CheckoutIInv, NEW k \in Orders, status[k] # "none"
  PROVE  Exists(k)
  BY DEF CheckoutIInv, PriceIsFrozen

\* The newest quote of an open session, and its first, are at its price.
LEMMA QuotesAtPrice ==
  ASSUME CheckoutIInv, NEW k \in Orders, Exists(k)
  PROVE  Newest(k) = sessions[k].price /\ StoredAnswer(k) = sessions[k].price
  <1>1. quotes[k] \in Seq(Nat) /\ quotes[k] # << >>
    BY DEF CheckoutIInv, CheckoutTypeOK, PriceIsFrozen
  <1>2. 1 \in DOMAIN quotes[k] /\ Len(quotes[k]) \in DOMAIN quotes[k]
    BY <1>1
  <1>3. QED
    BY <1>2 DEF CheckoutIInv, PriceIsFrozen, Newest, StoredAnswer

\* A step of one call leaves to the others what they rely on.
LEMMA OneCallMoves ==
  ASSUME CheckoutIInv, NEW c \in Calls, NEW next \in CheckoutCalls, Goto(c, next),
         CheckoutLasts, CallRelies(next, sessions', status', held')
  PROVE  CallsRely' /\ calls' \in [Calls -> CheckoutCalls]
  <1>1. calls \in [Calls -> CheckoutCalls]
    BY DEF CheckoutIInv, CheckoutTypeOK
  <1>2. calls' \in [Calls -> CheckoutCalls]
    BY <1>1 DEF Goto
  <1>3. ASSUME NEW d \in Calls
        PROVE  CallRelies(calls'[d], sessions', status', held')
    <2>1. CASE d = c
      BY <1>1, <2>1 DEF Goto
    <2>2. CASE d # c
      <3>1. calls'[d] = calls[d]
        BY <1>1, <2>2 DEF Goto
      <3>2. calls[d] = Idle \/ calls[d].key \in Orders
        BY CallTypes
      <3>3. CallRelies(calls[d], sessions, status, held)
        BY DEF CheckoutIInv, CallsRely
      <3>4. CASE calls[d] = Idle
        BY <3>1, <3>4 DEF CallRelies, Idle
      <3>5. CASE calls[d].key \in Orders
        <4>1. calls[d].op \in {"reserve", "mark", "fail"} => Exists(calls[d].key)
          BY <3>3, <3>5, OrderHasSession DEF CallRelies
        <4>2. QED
          BY <3>1, <3>3, <3>5, <4>1 DEF CallRelies, CheckoutLasts, Exists
      <3>6. QED
        BY <3>2, <3>4, <3>5
    <2>3. QED
      BY <2>1, <2>2
  <1>4. QED
    BY <1>2, <1>3 DEF CallsRely

LEMMA IdleRelies == Idle \in CheckoutCalls /\ CallRelies(Idle, sessions', status', held')
  BY DEF CheckoutCalls, CallRelies, Idle

\* A step that changes no row: a call moves, and an answer shows the price of
\* an open session.
LEMMA OnlyCallMoves ==
  ASSUME CheckoutIInv, NEW c \in Calls, NEW next \in CheckoutCalls, Goto(c, next),
         CallRelies(next, sessions, status, held),
         UNCHANGED <<rowVars, sessions, quotes, quoteRows, orders, held, quotedFor>>,
         \/ UNCHANGED shown
         \/ \E k \in Orders : Exists(k) /\ Show(k, sessions[k].price)
  PROVE  CheckoutIInv'
  <1>1. CheckoutLasts
    BY DEF CheckoutLasts, Exists, rowVars
  <1>2. CallRelies(next, sessions', status', held')
    BY DEF CallRelies, rowVars
  <1>3. CallsRely' /\ calls' \in [Calls -> CheckoutCalls]
    BY <1>1, <1>2, OneCallMoves
  <1>4. /\ shown' \in [Orders -> SUBSET Nat]
        /\ \A k \in Orders : Exists(k) => shown'[k] \in {shown[k], shown[k] \cup {sessions[k].price}}
        /\ \A k \in Orders : ~Exists(k) => shown'[k] = shown[k]
    <2>1. shown \in [Orders -> SUBSET Nat]
      BY DEF CheckoutIInv, CheckoutTypeOK
    <2>2. ASSUME NEW k \in Orders, Exists(k), Show(k, sessions[k].price)
          PROVE  /\ shown' \in [Orders -> SUBSET Nat]
                 /\ \A j \in Orders :
                      Exists(j) => shown'[j] \in {shown[j], shown[j] \cup {sessions[j].price}}
                 /\ \A j \in Orders : ~Exists(j) => shown'[j] = shown[j]
      <3>1. sessions[k].price \in Nat
        BY DEF CheckoutIInv, CheckoutTypeOK, SessionRows
      <3>2. /\ shown'[k] = shown[k] \cup {sessions[k].price}
            /\ \A j \in Orders \ {k} : shown'[j] = shown[j]
            /\ shown' \in [Orders -> SUBSET Nat]
        BY <2>1, <2>2, <3>1 DEF Show
      <3>3. QED
        BY <2>2, <3>2
    <2>3. QED
      BY <2>1, <2>2
  <1>5. PriceIsFrozen'
    <2>1. ASSUME NEW k \in Orders, Exists(k)
          PROVE  /\ shown'[k] \subseteq {sessions[k].price}
                 /\ status[k] # "none" => shown'[k] = {sessions[k].price}
      <3>1. /\ shown[k] \subseteq {sessions[k].price}
            /\ status[k] # "none" => shown[k] = {sessions[k].price}
        BY <2>1 DEF CheckoutIInv, PriceIsFrozen
      <3>2. shown'[k] \in {shown[k], shown[k] \cup {sessions[k].price}}
        BY <1>4, <2>1
      <3>3. QED
        BY <3>1, <3>2
    <2>2. QED
      BY <1>4, <2>1 DEF CheckoutIInv, PriceIsFrozen, Exists, rowVars
  <1>6. CheckoutTypeOK' /\ QuoteKeyIsBound' /\ PayableGoodsAreHeld'
    BY <1>3, <1>4 DEF CheckoutIInv, CheckoutTypeOK, RowTypeOK, QuoteKeyIsBound, Exists,
                      PayableGoodsAreHeld, rowVars
  <1>7. QED
    BY <1>3, <1>5, <1>6 DEF CheckoutIInv

\* The same where no call moves.
LEMMA AnswerKeeps ==
  ASSUME CheckoutIInv, NEW k \in Orders, Exists(k), Show(k, sessions[k].price),
         UNCHANGED <<rowVars, sessions, quotes, quoteRows, orders, held, calls>>,
         \/ UNCHANGED quotedFor
         \/ \E q \in QuoteKeys : k \in quoteRows[q] /\ NameSession(q, k)
  PROVE  CheckoutIInv'
  <1>1. /\ shown' \in [Orders -> SUBSET Nat]
        /\ shown'[k] = shown[k] \cup {sessions[k].price}
        /\ \A j \in Orders \ {k} : shown'[j] = shown[j]
    BY DEF CheckoutIInv, CheckoutTypeOK, SessionRows, Show
  <1>2. /\ shown[k] \subseteq {sessions[k].price}
        /\ status[k] # "none" => shown[k] = {sessions[k].price}
    BY DEF CheckoutIInv, PriceIsFrozen
  <1>3. shown'[k] = {sessions[k].price}
    BY <1>1, <1>2
  <1>4. PriceIsFrozen'
    BY <1>1, <1>3 DEF CheckoutIInv, PriceIsFrozen, Exists, rowVars
  <1>5. /\ quotedFor' \in [QuoteKeys -> SUBSET Orders]
        /\ \A q \in QuoteKeys : quotedFor'[q] \subseteq quoteRows[q]
    <2>1. /\ quotedFor \in [QuoteKeys -> SUBSET Orders]
          /\ \A q \in QuoteKeys : quotedFor[q] \subseteq quoteRows[q]
      BY DEF CheckoutIInv, CheckoutTypeOK, QuoteKeyIsBound
    <2>2. CASE UNCHANGED quotedFor
      BY <2>1, <2>2
    <2>3. ASSUME NEW q \in QuoteKeys, k \in quoteRows[q], NameSession(q, k)
          PROVE  /\ quotedFor' \in [QuoteKeys -> SUBSET Orders]
                 /\ \A p \in QuoteKeys : quotedFor'[p] \subseteq quoteRows[p]
      <3>1. /\ quotedFor' \in [QuoteKeys -> SUBSET Orders]
            /\ quotedFor'[q] = quotedFor[q] \cup {k}
            /\ \A p \in QuoteKeys \ {q} : quotedFor'[p] = quotedFor[p]
        BY <2>1, <2>3 DEF NameSession
      <3>2. QED
        BY <2>1, <2>3, <3>1
    <2>4. QED
      BY <2>2, <2>3
  <1>6. CallsRely' /\ PayableGoodsAreHeld'
    BY DEF CheckoutIInv, CallsRely, PayableGoodsAreHeld, rowVars
  <1>7. CheckoutTypeOK' /\ QuoteKeyIsBound'
    BY <1>1, <1>5 DEF CheckoutIInv, CheckoutTypeOK, RowTypeOK, QuoteKeyIsBound, Exists, rowVars
  <1>8. QED
    BY <1>4, <1>6, <1>7 DEF CheckoutIInv

-----------------------------------------------------------------------------
(* Sessions and quotes.                                                    *)

LEMMA SessionReadsKeep ==
  ASSUME CheckoutIInv, NEW c \in Calls, NEW k \in Orders, ReplaySession(c, k) \/ ViewSession(c, k)
  PROVE  CheckoutIInv'
  <1>1. Exists(k) /\ Show(k, sessions[k].price)
    BY QuotesAtPrice DEF ReplaySession, ViewSession
  <1>2. UNCHANGED <<rowVars, sessions, quotes, quoteRows, orders, held, calls, quotedFor>>
    BY DEF ReplaySession, ViewSession
  <1>3. QED
    BY <1>1, <1>2, AnswerKeeps

LEMMA BeginSessionKeeps ==
  ASSUME CheckoutIInv, NEW c \in Calls, NEW k \in Orders, NEW kind \in Kinds, NEW p \in Prices,
         BeginSession(c, k, kind, p)
  PROVE  CheckoutIInv'
  <1> DEFINE next == [op |-> "opening", key |-> k, kind |-> kind,
                      price |-> IF kind = "addressed" THEN p ELSE 0]
  <1>1. next \in CheckoutCalls
    BY CheckoutAssumption DEF CheckoutCalls
  <1>2. CallRelies(next, sessions, status, held)
    BY DEF CallRelies
  <1>3. QED
    BY <1>1, <1>2, OnlyCallMoves DEF BeginSession

LEMMA OpenSessionKeeps ==
  ASSUME CheckoutIInv, NEW c \in Calls, NEW p \in Prices, OpenSession(c, p)
  PROVE  CheckoutIInv'
  <1> DEFINE k == calls[c].key
             amount == LinePrice(calls[c], p)
             new == NewSession(calls[c].kind, amount)
  <1>1. k \in Orders /\ calls[c].kind \in Kinds /\ calls[c].price \in Nat
    BY CallTypes DEF OpenSession
  <1>2. amount \in Nat
    BY <1>1, CheckoutAssumption DEF LinePrice
  <1>3. /\ ~Exists(k)
        /\ sessions' = [sessions EXCEPT ![k] = new]
        /\ quotes' = [quotes EXCEPT ![k] = <<amount>>]
        /\ Show(k, amount)
        /\ Goto(c, Idle)
        /\ UNCHANGED <<rowVars, quoteRows, orders, held, quotedFor>>
    BY DEF OpenSession, Return
  <1> HIDE DEF amount
  <1>4. /\ new \in SessionRows
        /\ new.status # "none" /\ new.price = amount
    BY <1>1, <1>2 DEF NewSession, SessionRows
  <1> HIDE DEF k, new
  <1>5. /\ sessions'[k] = new /\ quotes'[k] = <<amount>>
        /\ shown'[k] = shown[k] \cup {amount}
        /\ \A j \in Orders \ {k} : /\ sessions'[j] = sessions[j] /\ quotes'[j] = quotes[j]
                                   /\ shown'[j] = shown[j]
    BY <1>1, <1>3 DEF CheckoutIInv, CheckoutTypeOK, Show
  <1>6. shown[k] = {} /\ status[k] = "none"
    BY <1>1, <1>3 DEF CheckoutIInv, PriceIsFrozen
  <1>7. CheckoutLasts
    BY <1>3, <1>5 DEF CheckoutLasts, Exists, rowVars
  <1>8. CallsRely' /\ calls' \in [Calls -> CheckoutCalls]
    BY <1>3, <1>7, IdleRelies, OneCallMoves
  <1>9. /\ sessions' \in [Orders -> SessionRows]
        /\ quotes' \in [Orders -> Seq(Nat)]
        /\ shown' \in [Orders -> SUBSET Nat]
    BY <1>1, <1>2, <1>3, <1>4 DEF CheckoutIInv, CheckoutTypeOK, Show
  <1>10. CheckoutTypeOK' /\ QuoteKeyIsBound'
    BY <1>3, <1>7, <1>8, <1>9 DEF CheckoutIInv, CheckoutTypeOK, RowTypeOK, QuoteKeyIsBound, Exists,
                                  CheckoutLasts, rowVars
  <1>11. PriceIsFrozen'
    <2>1. ASSUME NEW j \in Orders, j # k
          PROVE  /\ sessions'[j] = sessions[j] /\ quotes'[j] = quotes[j]
                 /\ shown'[j] = shown[j] /\ status'[j] = status[j] /\ orders'[j] = orders[j]
      BY <1>3, <1>5, <2>1 DEF rowVars
    <2>2. /\ sessions'[k].status # "none"
          /\ quotes'[k] # << >>
          /\ \A i \in DOMAIN quotes'[k] : quotes'[k][i] = sessions'[k].price
          /\ shown'[k] \subseteq {sessions'[k].price}
          /\ status'[k] = "none"
      BY <1>2, <1>3, <1>4, <1>5, <1>6 DEF rowVars
    <2>3. QED
      BY <2>1, <2>2 DEF CheckoutIInv, PriceIsFrozen, Exists
  <1>12. PayableGoodsAreHeld'
    BY <1>3, <1>5, <1>6 DEF CheckoutIInv, PayableGoodsAreHeld, rowVars
  <1>13. QED
    BY <1>8, <1>10, <1>11, <1>12 DEF CheckoutIInv

LEMMA SessionRacedKeeps ==
  ASSUME CheckoutIInv, NEW c \in Calls, SessionRaced(c)
  PROVE  CheckoutIInv'
  <1> DEFINE k == calls[c].key
  <1>1. k \in Orders /\ Exists(k)
    BY CallTypes DEF SessionRaced
  <1>2. UNCHANGED shown \/ Show(k, sessions[k].price)
    BY <1>1, QuotesAtPrice DEF SessionRaced
  <1>3. Goto(c, Idle) /\ UNCHANGED <<rowVars, sessions, quotes, quoteRows, orders, held, quotedFor>>
    BY DEF SessionRaced, Return
  <1>4. Idle \in CheckoutCalls /\ CallRelies(Idle, sessions, status, held)
    BY DEF CheckoutCalls, CallRelies, Idle
  <1>5. QED
    BY <1>1, <1>2, <1>3, <1>4, OnlyCallMoves

LEMMA QuoteCallsKeep ==
  ASSUME CheckoutIInv, NEW c \in Calls, NEW k \in Orders, NEW q \in QuoteKeys,
         ReplayQuote(c, k, q) \/ BeginQuote(c, k, q)
  PROVE  CheckoutIInv'
  <1>1. CASE ReplayQuote(c, k, q) /\ Exists(k)
    BY <1>1, AnswerKeeps DEF ReplayQuote
  <1>2. CASE BeginQuote(c, k, q)
    <2> DEFINE next == [op |-> "quoting", key |-> k, quote |-> q, price |-> sessions[k].price]
    <2>1. Exists(k) /\ sessions[k].price \in Nat
      BY <1>2 DEF BeginQuote, Quotable, Exists, CheckoutIInv, CheckoutTypeOK, SessionRows
    <2>2. next \in CheckoutCalls /\ CallRelies(next, sessions, status, held)
      BY <2>1 DEF CheckoutCalls, CallRelies, Exists
    <2>3. Goto(c, next)
      BY <1>2 DEF BeginQuote, QuotePrices
    <2>4. QED
      BY <1>2, <2>2, <2>3, OnlyCallMoves DEF BeginQuote
  <1>3. ReplayQuote(c, k, q) => Exists(k)
    BY DEF ReplayQuote, CheckoutIInv, QuoteKeyIsBound
  <1>4. QED
    BY <1>1, <1>2, <1>3

\* A quote joins a session's at its price, or another call took the key.
LEMMA CommitQuoteKeeps ==
  ASSUME CheckoutIInv, NEW c \in Calls, CommitQuote(c)
  PROVE  CheckoutIInv'
  <1> DEFINE k == calls[c].key
             q == calls[c].quote
             amount == calls[c].price
  <1>1. k \in Orders /\ q \in QuoteKeys /\ amount \in Nat
    BY CallTypes DEF CommitQuote
  <1>2. Exists(k) /\ amount = sessions[k].price
    BY DEF CheckoutIInv, CallsRely, CallRelies, CommitQuote, Exists
  <1>3. Goto(c, Idle) /\ UNCHANGED <<rowVars, orders, held, crashes>>
    BY DEF CommitQuote, Return
  <1>4. CASE UNCHANGED <<quoteRows, quotes, sessions, quotedFor, shown>>
    <2>1. Idle \in CheckoutCalls /\ CallRelies(Idle, sessions, status, held)
      BY DEF CheckoutCalls, CallRelies, Idle
    <2>2. QED
      BY <1>3, <1>4, <2>1, OnlyCallMoves
  <1>5. CASE /\ KeyFree(q)
             /\ quoteRows' = [quoteRows EXCEPT ![q] = {k}]
             /\ AddQuote(k, amount) /\ NameSession(q, k) /\ Show(k, amount)
    <2> HIDE DEF k, q, amount
    <2>1. /\ sessions' = [sessions EXCEPT ![k].status = "quoted"]
          /\ quotes' = [quotes EXCEPT ![k] = Append(quotes[k], amount)]
          /\ shown' = [shown EXCEPT ![k] = shown[k] \cup {amount}]
          /\ quotedFor' = [quotedFor EXCEPT ![q] = quotedFor[q] \cup {k}]
          /\ quoteRows[q] = {}
      BY <1>5 DEF AddQuote, NameSession, Show, KeyFree
    <2>2. /\ sessions' \in [Orders -> SessionRows]
          /\ sessions'[k].status = "quoted" /\ sessions'[k].price = sessions[k].price
          /\ sessions'[k].kind = sessions[k].kind
          /\ \A j \in Orders \ {k} : sessions'[j] = sessions[j]
      BY ZenonT(60), <1>1, <2>1 DEF CheckoutIInv, CheckoutTypeOK, SessionRows
    <2>3. quotes[k] \in Seq(Nat) /\ quotes \in [Orders -> Seq(Nat)]
      BY <1>1 DEF CheckoutIInv, CheckoutTypeOK
    <2>4. /\ Append(quotes[k], amount) \in Seq(Nat) /\ Append(quotes[k], amount) # << >>
          /\ \A i \in DOMAIN Append(quotes[k], amount) :
               i \in DOMAIN quotes[k] \/ Append(quotes[k], amount)[i] = amount
          /\ \A i \in DOMAIN quotes[k] : Append(quotes[k], amount)[i] = quotes[k][i]
      BY <1>1, <2>3
    <2>5. /\ quotes' \in [Orders -> Seq(Nat)]
          /\ quotes'[k] = Append(quotes[k], amount)
          /\ \A j \in Orders \ {k} : quotes'[j] = quotes[j]
      BY <1>1, <2>1, <2>3, <2>4
    <2>6. /\ shown' \in [Orders -> SUBSET Nat]
          /\ shown'[k] = shown[k] \cup {amount}
          /\ \A j \in Orders \ {k} : shown'[j] = shown[j]
      BY <1>1, <2>1 DEF CheckoutIInv, CheckoutTypeOK
    <2>7. CheckoutLasts
      BY <1>3, <2>2 DEF CheckoutLasts, Exists, rowVars
    <2>8. CallsRely' /\ calls' \in [Calls -> CheckoutCalls]
      BY <1>3, <2>7, IdleRelies, OneCallMoves
    <2>9. /\ quoteRows' \in [QuoteKeys -> SUBSET Orders]
          /\ quotedFor' \in [QuoteKeys -> SUBSET Orders]
          /\ quoteRows'[q] = {k} /\ quotedFor'[q] = {k}
          /\ \A p \in QuoteKeys \ {q} : quoteRows'[p] = quoteRows[p] /\ quotedFor'[p] = quotedFor[p]
      <3>1. quotedFor[q] = {}
        BY <1>1, <2>1 DEF CheckoutIInv, QuoteKeyIsBound
      <3>2. QED
        BY <1>1, <1>5, <2>1, <3>1 DEF CheckoutIInv, CheckoutTypeOK
    <2>10. QuoteKeyIsBound'
      <3>1. \A j \in Orders : Exists(j) => sessions'[j].status # "none"
        BY <2>7 DEF CheckoutLasts
      <3>2. \A p \in QuoteKeys : quoteRows[p] \subseteq Orders
        BY DEF CheckoutIInv, CheckoutTypeOK
      <3>3. ASSUME NEW p \in QuoteKeys
            PROVE  /\ quotedFor'[p] \subseteq quoteRows'[p]
                   /\ \A j, l \in quoteRows'[p] : j = l
                   /\ \A j \in quoteRows'[p] : sessions'[j].status # "none"
        <4>1. CASE p = q
          BY <2>2, <2>9, <4>1
        <4>2. CASE p # q
          <5>1. quoteRows'[p] = quoteRows[p] /\ quotedFor'[p] = quotedFor[p]
            BY <2>9, <4>2
          <5>2. QED
            BY <3>1, <3>2, <5>1 DEF CheckoutIInv, QuoteKeyIsBound
        <4>3. QED
          BY <4>1, <4>2
      <3>4. QED
        BY <3>3 DEF QuoteKeyIsBound, Exists
    <2>11. PriceIsFrozen'
      <3>1. ASSUME NEW j \in Orders, j # k
            PROVE  /\ sessions'[j] = sessions[j] /\ quotes'[j] = quotes[j]
                   /\ shown'[j] = shown[j] /\ status'[j] = status[j] /\ orders'[j] = orders[j]
        BY <1>3, <2>2, <2>5, <2>6, <3>1 DEF rowVars
      <3>2. /\ \A i \in DOMAIN quotes[k] : quotes[k][i] = amount
            /\ shown[k] \subseteq {amount}
            /\ status[k] # "none" => orders[k].amount = amount
        BY <1>1, <1>2 DEF CheckoutIInv, PriceIsFrozen
      <3>3. /\ sessions'[k].status # "none" /\ sessions'[k].price = amount
            /\ quotes'[k] # << >>
            /\ \A i \in DOMAIN quotes'[k] : quotes'[k][i] = amount
            /\ shown'[k] = {amount}
            /\ status'[k] # "none" => orders'[k].amount = amount
        BY <1>2, <1>3, <2>2, <2>4, <2>5, <2>6, <3>2 DEF rowVars
      <3>4. QED
        BY <3>1, <3>3 DEF CheckoutIInv, PriceIsFrozen, Exists
    <2>12. PayableGoodsAreHeld'
      BY <1>3, <2>2 DEF CheckoutIInv, PayableGoodsAreHeld, rowVars
    <2>13. CheckoutTypeOK'
      BY <1>3, <2>2, <2>5, <2>6, <2>8, <2>9 DEF CheckoutIInv, CheckoutTypeOK, RowTypeOK, rowVars
    <2>14. QED
      BY <2>8, <2>10, <2>11, <2>12, <2>13 DEF CheckoutIInv
  <1>6. QED
    BY <1>4, <1>5 DEF CommitQuote

-----------------------------------------------------------------------------
(* Orders and their stock.                                                 *)

LEMMA FindOrderKeeps ==
  ASSUME CheckoutIInv, NEW c \in Calls, NEW k \in Orders, FindOrder(c, k)
  PROVE  CheckoutIInv'
  <1> DEFINE next == [op |-> AfterOutcome(TRUE, sessions[k].kind), key |-> k]
  <1>1. AfterOutcome(TRUE, sessions[k].kind) = IF sessions[k].kind = "addressed" THEN "reserve" ELSE "fail"
    BY DEF AfterOutcome
  <1>2. next \in CheckoutCalls /\ CallRelies(next, sessions, status, held)
    BY <1>1 DEF CheckoutCalls, CallRelies, FindOrder
  <1> HIDE DEF next
  <1>3. Goto(c, next)
    BY DEF FindOrder, next
  <1>4. QED
    BY <1>2, <1>3, OnlyCallMoves DEF FindOrder

LEMMA BeginOrderKeeps ==
  ASSUME CheckoutIInv, NEW c \in Calls, NEW k \in Orders, BeginOrder(c, k)
  PROVE  CheckoutIInv'
  <1> DEFINE next == [op |-> "ordering", key |-> k, price |-> sessions[k].price,
                      late |-> sessions[k].lapsed]
  <1>1. Exists(k) /\ sessions[k] \in SessionRows
    BY DEF BeginOrder, Quotable, Exists, CheckoutIInv, CheckoutTypeOK
  <1>2. next \in CheckoutCalls /\ CallRelies(next, sessions, status, held)
    BY <1>1 DEF CheckoutCalls, CallRelies, Exists, SessionRows
  <1>3. Goto(c, next)
    BY <1>1, QuotesAtPrice DEF BeginOrder
  <1>4. QED
    BY <1>2, <1>3, OnlyCallMoves DEF BeginOrder

\* The order is made: its amount is the session's price.
LEMMA CommitOrderKeeps ==
  ASSUME CheckoutIInv, NEW c \in Calls, CommitOrder(c)
  PROVE  CheckoutIInv'
  <1> DEFINE k == calls[c].key
             amount == calls[c].price
             late == calls[c].late
             kind == sessions[k].kind
             next == [op |-> AfterOutcome(kind # "service", kind), key |-> k]
  <1>1. k \in Orders /\ amount \in Nat /\ late \in BOOLEAN
    BY CallTypes DEF CommitOrder
  <1>2. Exists(k) /\ amount = sessions[k].price /\ kind \in Kinds
    BY <1>1 DEF CheckoutIInv, CheckoutTypeOK, SessionRows, CallsRely, CallRelies, CommitOrder, Exists
  <1>3. /\ sessions' = [sessions EXCEPT ![k].status = "submitted"]
        /\ orders' = [orders EXCEPT ![k] = [amount |-> amount, late |-> late]]
        /\ shown' = [shown EXCEPT ![k] = shown[k] \cup {amount}]
        /\ Goto(c, next)
        /\ UNCHANGED <<quotes, quoteRows, held, quotedFor>>
    BY DEF CommitOrder, Show
  <1>4. /\ RowTypeOK'
        /\ status'[k] = "pending_inventory"
        /\ \A j \in Orders \ {k} : status'[j] = status[j]
    BY <1>1 DEF CheckoutIInv, CheckoutTypeOK, RowTypeOK, CommitOrder, CreateOwnerOrder, Update,
                Status, Payment, Fulfillment
  <1>5. AfterOutcome(kind # "service", kind) =
          IF kind = "service" THEN "mark" ELSE IF kind = "addressed" THEN "reserve" ELSE "fail"
    BY DEF AfterOutcome
  <1> HIDE DEF k, amount, late
  <1>6. /\ sessions' \in [Orders -> SessionRows]
        /\ sessions'[k].status = "submitted" /\ sessions'[k].price = sessions[k].price
        /\ sessions'[k].kind = kind
        /\ \A j \in Orders \ {k} : sessions'[j] = sessions[j]
    BY ZenonT(60), <1>1, <1>3 DEF CheckoutIInv, CheckoutTypeOK, SessionRows
  <1>7. /\ orders' \in [Orders -> [amount : Nat, late : BOOLEAN]]
        /\ orders'[k].amount = amount
        /\ \A j \in Orders \ {k} : orders'[j] = orders[j]
    BY <1>1, <1>3 DEF CheckoutIInv, CheckoutTypeOK
  <1>8. /\ shown' \in [Orders -> SUBSET Nat]
        /\ shown'[k] = shown[k] \cup {amount}
        /\ \A j \in Orders \ {k} : shown'[j] = shown[j]
    BY <1>1, <1>3 DEF CheckoutIInv, CheckoutTypeOK
  <1>9. CheckoutLasts
    BY <1>3, <1>4, <1>6 DEF CheckoutLasts, Exists
  <1>10. next \in CheckoutCalls /\ CallRelies(next, sessions', status', held')
    <2>1. next.op \in {"reserve", "mark", "fail"} /\ next.key = k
      BY <1>5
    <2>2. next \in CheckoutCalls
      BY <1>1, <2>1 DEF CheckoutCalls
    <2>3. QED
      BY <1>4, <1>5, <1>6, <2>1, <2>2 DEF CallRelies
  <1>11. CallsRely' /\ calls' \in [Calls -> CheckoutCalls]
    BY <1>3, <1>9, <1>10, OneCallMoves
  <1>12. PriceIsFrozen'
    <2>1. ASSUME NEW j \in Orders, j # k
          PROVE  /\ sessions'[j] = sessions[j] /\ quotes'[j] = quotes[j]
                 /\ shown'[j] = shown[j] /\ status'[j] = status[j] /\ orders'[j] = orders[j]
      BY <1>3, <1>4, <1>6, <1>7, <1>8, <2>1
    <2>2. /\ quotes[k] # << >>
          /\ \A i \in DOMAIN quotes[k] : quotes[k][i] = amount
          /\ shown[k] \subseteq {amount}
      BY <1>1, <1>2 DEF CheckoutIInv, PriceIsFrozen
    <2>3. /\ sessions'[k].status # "none" /\ sessions'[k].price = amount
          /\ quotes'[k] # << >>
          /\ \A i \in DOMAIN quotes'[k] : quotes'[k][i] = amount
          /\ shown'[k] = {amount}
          /\ orders'[k].amount = amount
      BY <1>2, <1>3, <1>6, <1>7, <1>8, <2>2
    <2>4. QED
      BY <2>1, <2>3 DEF CheckoutIInv, PriceIsFrozen, Exists
  <1>13. PayableGoodsAreHeld'
    BY <1>3, <1>4, <1>6 DEF CheckoutIInv, PayableGoodsAreHeld
  <1>14. CheckoutTypeOK' /\ QuoteKeyIsBound'
    BY <1>3, <1>4, <1>6, <1>7, <1>8, <1>9, <1>11
    DEF CheckoutIInv, CheckoutTypeOK, QuoteKeyIsBound, Exists, CheckoutLasts
  <1>15. QED
    BY <1>11, <1>12, <1>13, <1>14 DEF CheckoutIInv

\* A call that ends without a write: it lost the race for the order, or it is
\* cut off.
LEMMA ReturnsKeep ==
  ASSUME CheckoutIInv, NEW c \in Calls, OrderRaced(c) \/ Crash(c)
  PROVE  CheckoutIInv'
  <1>1. Goto(c, Idle) /\ UNCHANGED <<rowVars, sessions, quotes, quoteRows, orders, held, shown, quotedFor>>
    BY DEF OrderRaced, Crash, Return
  <1>2. Idle \in CheckoutCalls /\ CallRelies(Idle, sessions, status, held)
    BY DEF CheckoutCalls, CallRelies, Idle
  <1>3. QED
    BY <1>1, <1>2, OnlyCallMoves

LEMMA ReserveInventoryKeeps ==
  ASSUME CheckoutIInv, NEW c \in Calls, ReserveInventory(c)
  PROVE  CheckoutIInv'
  <1> DEFINE k == calls[c].key
  <1>1. /\ k \in Orders /\ status[k] # "none" /\ sessions[k].kind = "addressed"
        /\ UNCHANGED <<rowVars, sessions, quotes, quoteRows, orders, shown, quotedFor>>
    BY CallTypes DEF CheckoutIInv, CallsRely, CallRelies, ReserveInventory
  <1> HIDE DEF k
  <1>2. CASE Goto(c, [op |-> "fail", key |-> k]) /\ UNCHANGED held
    <2>1. /\ [op |-> "fail", key |-> k] \in CheckoutCalls
          /\ CallRelies([op |-> "fail", key |-> k], sessions, status, held)
      BY <1>1 DEF CheckoutCalls, CallRelies
    <2>2. QED
      BY <1>1, <1>2, <2>1, OnlyCallMoves
  <1>3. CASE Goto(c, [op |-> "mark", key |-> k]) /\ held' = held \cup {k}
    <2>1. CheckoutLasts
      BY <1>1, <1>3 DEF CheckoutLasts, Exists, rowVars
    <2>2. /\ [op |-> "mark", key |-> k] \in CheckoutCalls
          /\ CallRelies([op |-> "mark", key |-> k], sessions', status', held')
      BY <1>1, <1>3 DEF CheckoutCalls, CallRelies, rowVars
    <2>3. CallsRely' /\ calls' \in [Calls -> CheckoutCalls]
      BY <1>3, <2>1, <2>2, OneCallMoves
    <2>4. CheckoutTypeOK' /\ PriceIsFrozen' /\ QuoteKeyIsBound' /\ PayableGoodsAreHeld'
      BY <1>1, <1>3, <2>3 DEF CheckoutIInv, CheckoutTypeOK, RowTypeOK, PriceIsFrozen, Exists,
                              QuoteKeyIsBound, PayableGoodsAreHeld, rowVars
    <2>5. QED
      BY <2>3, <2>4 DEF CheckoutIInv
  <1>4. QED
    BY <1>2, <1>3 DEF ReserveInventory, k

\* Goods become payable only behind their reservation.
LEMMA MarkOrderKeeps ==
  ASSUME CheckoutIInv, NEW c \in Calls, MarkReserved(c) \/ MarkFailed(c)
  PROVE  CheckoutIInv'
  <1> DEFINE k == calls[c].key
  <1>1. /\ k \in Orders /\ status[k] # "none"
        /\ Goto(c, Idle)
        /\ UNCHANGED <<sessions, quotes, quoteRows, orders, held, shown, quotedFor>>
    BY CallTypes DEF CheckoutIInv, CallsRely, CallRelies, MarkReserved, MarkFailed, Return
  <1>2. MarkReserved(c) /\ sessions[k].kind # "service" => k \in held /\ sessions[k].kind = "addressed"
    BY DEF CheckoutIInv, CallsRely, CallRelies, MarkReserved
  <1>3. \/ UNCHANGED rowVars
        \/ MarkReserved(c) /\ MarkInventoryReserved(k)
        \/ MarkInventoryFailed(k)
    BY DEF MarkReserved, MarkFailed
  <1> HIDE DEF k
  <1>4. /\ RowTypeOK'
        /\ \A j \in Orders \ {k} : status'[j] = status[j]
        /\ status'[k] # "none"
        /\ status'[k] = "pending_payment" => MarkReserved(c) \/ status[k] = "pending_payment"
    <2>1. RowTypeOK
      BY DEF CheckoutIInv, CheckoutTypeOK
    <2>2. CASE UNCHANGED rowVars
      BY <1>1, <2>1, <2>2 DEF rowVars, RowTypeOK
    <2>3. CASE MarkReserved(c) /\ MarkInventoryReserved(k)
      BY <1>1, <2>1, <2>3 DEF RowTypeOK, MarkInventoryReserved, Update, Status, Payment, Fulfillment
    <2>4. CASE MarkInventoryFailed(k)
      BY <1>1, <2>1, <2>4 DEF RowTypeOK, MarkInventoryFailed, Update, Status, Payment, Fulfillment
    <2>5. QED
      BY <1>3, <2>2, <2>3, <2>4
  <1>5. CheckoutLasts
    BY <1>1, <1>4 DEF CheckoutLasts, Exists
  <1>6. CallsRely' /\ calls' \in [Calls -> CheckoutCalls]
    BY <1>1, <1>5, IdleRelies, OneCallMoves
  <1>7. \A j \in Orders : status'[j] = "none" <=> status[j] = "none"
    BY <1>1, <1>4
  <1>8. PriceIsFrozen'
    BY <1>1, <1>7 DEF CheckoutIInv, PriceIsFrozen, Exists
  <1>9. PayableGoodsAreHeld'
    BY <1>1, <1>2, <1>4 DEF CheckoutIInv, PayableGoodsAreHeld
  <1>10. CheckoutTypeOK' /\ QuoteKeyIsBound'
    BY <1>1, <1>4, <1>6 DEF CheckoutIInv, CheckoutTypeOK, QuoteKeyIsBound, Exists
  <1>11. QED
    BY <1>6, <1>8, <1>9, <1>10 DEF CheckoutIInv

LEMMA SessionLapsesKeeps ==
  ASSUME CheckoutIInv, NEW k \in Orders, SessionLapses(k)
  PROVE  CheckoutIInv'
  <1>1. /\ sessions' \in [Orders -> SessionRows]
        /\ \A j \in Orders : /\ sessions'[j].status = sessions[j].status
                             /\ sessions'[j].kind = sessions[j].kind
                             /\ sessions'[j].price = sessions[j].price
    BY ZenonT(60) DEF CheckoutIInv, CheckoutTypeOK, SessionRows, SessionLapses
  <1>2. UNCHANGED <<rowVars, quotes, quoteRows, orders, held, calls, shown, quotedFor>>
    BY DEF SessionLapses
  <1>3. CheckoutTypeOK'
    BY <1>1, <1>2 DEF CheckoutIInv, CheckoutTypeOK, RowTypeOK, rowVars
  <1>4. PriceIsFrozen'
    BY <1>1, <1>2 DEF CheckoutIInv, PriceIsFrozen, Exists, rowVars
  <1>5. QuoteKeyIsBound'
    BY ZenonT(60), <1>1, <1>2 DEF CheckoutIInv, CheckoutTypeOK, QuoteKeyIsBound, Exists
  <1>6. PayableGoodsAreHeld'
    BY <1>1, <1>2 DEF CheckoutIInv, PayableGoodsAreHeld, rowVars
  <1>7. ASSUME NEW c \in Calls
        PROVE  CallRelies(calls[c], sessions', status, held)
    <2>1. calls[c] = Idle \/ calls[c].key \in Orders
      BY CallTypes
    <2>2. QED
      BY <1>1, <2>1 DEF CheckoutIInv, CallsRely, CallRelies, Idle
  <1>8. CallsRely'
    BY <1>2, <1>7 DEF CallsRely, rowVars
  <1>9. QED
    BY <1>3, <1>4, <1>5, <1>6, <1>8 DEF CheckoutIInv

LEMMA CheckoutInitIInv == Init => CheckoutIInv
  <1> SUFFICES ASSUME Init PROVE CheckoutIInv
    OBVIOUS
  <1>1. RowTypeOK
    BY DEF Init, RowInit, RowTypeOK, Status, Payment, Fulfillment, EventType
  <1>2. CheckoutTypeOK
    BY <1>1 DEF Init, CheckoutTypeOK, NoSession, SessionRows, Kinds, NoOrder, CheckoutCalls
  <1>3. PriceIsFrozen /\ QuoteKeyIsBound /\ PayableGoodsAreHeld
    BY DEF Init, RowInit, PriceIsFrozen, Exists, NoSession, QuoteKeyIsBound, PayableGoodsAreHeld
  <1>4. CallsRely
    BY DEF Init, CallsRely, CallRelies, Idle
  <1>5. QED
    BY <1>2, <1>3, <1>4 DEF CheckoutIInv

LEMMA CheckoutNextIInv == CheckoutIInv /\ [Next]_vars => CheckoutIInv'
  <1> SUFFICES ASSUME CheckoutIInv, [Next]_vars PROVE CheckoutIInv'
    OBVIOUS
  <1>1. CASE UNCHANGED vars
    BY <1>1 DEF vars, rowVars, checkoutVars, CheckoutIInv, CheckoutTypeOK, RowTypeOK, PriceIsFrozen,
                Exists, QuoteKeyIsBound, CallsRely, PayableGoodsAreHeld
  <1>2. ASSUME NEW c \in Calls, Serve(c)
        PROVE  CheckoutIInv'
    BY <1>2, OpenSessionKeeps, SessionRacedKeeps, CommitQuoteKeeps, CommitOrderKeeps, ReturnsKeep,
       ReserveInventoryKeeps, MarkOrderKeeps DEF Serve
  <1>3. QED
    BY <1>1, <1>2, ReturnsKeep, SessionReadsKeep, BeginSessionKeeps, QuoteCallsKeep, FindOrderKeeps,
       BeginOrderKeeps, SessionLapsesKeeps DEF Next

\* Every step of every handler of checkout_router.rs keeps the prices frozen,
\* the quote keys bound and the goods behind their stock.
THEOREM CheckoutInvariant == CheckoutSpec => []CheckoutIInv
  BY CheckoutInitIInv, CheckoutNextIInv, PTL DEF CheckoutSpec

\* Checkout is type correct for every set of orders, calls, keys and prices.
THEOREM CheckoutTypeCorrect == CheckoutSpec => []CheckoutTypeOK
  <1>1. CheckoutIInv => CheckoutTypeOK
    BY DEF CheckoutIInv
  <1>2. QED
    BY <1>1, CheckoutInvariant, PTL

\* A session is priced once: every answer on it, whoever raced whom, and the
\* order made of it show one amount, whatever the catalogue says later.
THEOREM OnePrice == CheckoutSpec => []OnePricePerSession
  <1>1. CheckoutIInv => OnePricePerSession
    <2> SUFFICES ASSUME CheckoutIInv, NEW k \in Orders
                 PROVE  /\ \A a, b \in shown[k] : a = b
                        /\ status[k] # "none" => shown[k] = {orders[k].amount}
      BY DEF OnePricePerSession
    <2>1. CASE Exists(k)
      BY <2>1 DEF CheckoutIInv, PriceIsFrozen
    <2>2. CASE ~Exists(k)
      BY <2>2 DEF CheckoutIInv, PriceIsFrozen
    <2>3. QED
      BY <2>1, <2>2
  <1>2. QED
    BY <1>1, CheckoutInvariant, PTL

\* No Idempotency-Key of a quote answers for two sessions, for any number of
\* calls that race for it.
THEOREM OneSessionPerQuoteKey == CheckoutSpec => []QuoteKeyNamesOneSession
  <1>1. CheckoutIInv => QuoteKeyNamesOneSession
    BY DEF CheckoutIInv, QuoteKeyIsBound, QuoteKeyNamesOneSession
  <1>2. QED
    BY <1>1, CheckoutInvariant, PTL

\* Goods become payable only with their stock reserved and their merchant
\* known, on every path of the order call: first, retried, raced or cut off.
THEOREM PayableIsHeld == CheckoutSpec => []PayableGoodsAreHeld
  <1>1. CheckoutIInv => PayableGoodsAreHeld
    BY DEF CheckoutIInv
  <1>2. QED
    BY <1>1, CheckoutInvariant, PTL

-----------------------------------------------------------------------------
(* Shipment, receipt and after-sales.                                      *)


\* Updates under way remember a status of the trail and may give only an end
\* that the owner may choose.
EditsAreRecorded ==
  \A e \in edits : /\ e.read \in recorded[e.request]
                   /\ e.given \in {Kept, "cancelled", "withdrawn"}

\* A trail shows the statuses that only reviews reach together with the reviews
\* that lead to them.
TrailIsComplete ==
  \A r \in ReturnRequests :
    /\ "approved" \in recorded[r] => "approved" \in reviewed[r]
    /\ "processing" \in recorded[r] => {"approved", "processing"} \subseteq reviewed[r]
    /\ "completed" \in recorded[r] => {"approved", "processing", "completed"} \subseteq reviewed[r]

\* What the order rows need: shipment follows the fulfillment order, which
\* follows the payment.
SoldOrders ==
  \A o \in Orders :
    /\ fulfillment[o] \in {"awaiting_shipment", "shipped", "delivered"} => o \in fulfillmentOrders
    /\ o \in fulfillmentOrders => payment[o] = "success"
    /\ status[o] = "none" => payment[o] = "none"

\* Stock is given back on behalf of a request that a review completed.
RestockIsDue ==
  \A r \in ReturnRequests :
    /\ restock[r] # "no" => "completed" \in reviewed[r]
    /\ restock[r] = "restock" => About[r] \in fulfillmentOrders

IInv == /\ AfterSalesTypeOK
        /\ EveryStatusIsRecorded
        /\ EditsAreRecorded
        /\ TrailIsComplete
        /\ SoldOrders
        /\ RestockIsDue
        /\ RestockedWasReturned
        /\ ShippedTogether

USE AfterSalesAssumption, ShipmentAssumption
USE DEF IInv, AfterSalesTypeOK, ShipmentTypeOK, RowTypeOK, Stock, PackageStatus,
        RequestStatus, Kept, Edits, EveryStatusIsRecorded, EditsAreRecorded,
        TrailIsComplete, SoldOrders, RestockIsDue, RestockedWasReturned, ShippedTogether,
        Status, Payment, Fulfillment, EventType

LEMMA InitIInv == AfterSalesInit => IInv
  BY DEF AfterSalesInit, ShipmentInit, RowInit

-----------------------------------------------------------------------------
(* The order, its shipments and packages.                                  *)

\* What no step of the shipment side touches.
RequestsStay == UNCHANGED afterSalesVars

LEMMA OrderStepIInv ==
  ASSUME IInv, NEW o \in Orders, OrderStep(o), RequestsStay PROVE IInv'
  <1> USE DEF RequestsStay, afterSalesVars, requestVars, trailVars, shipmentVars, OrderStep
  <1>1. CASE PlaceOrder(o)
    BY <1>1 DEF PlaceOrder, CreateOwnerOrder, Update
  <1>2. CASE ReserveOrderStock(o)
    BY <1>2 DEF ReserveOrderStock, MarkInventoryReserved, Update, Moves
  <1>3. CASE PayOrder(o)
    BY <1>3 DEF PayOrder, MarkPaymentSucceeded, Update, Record, SuccessEvents, KeptBySuccess
  <1>4. CASE ConsumeStock(o)
    BY <1>4 DEF ConsumeStock, Moves, rowVars
  <1>5. CASE Fulfill(o)
    BY <1>5 DEF Fulfill, FulfillPhysical, Update
  <1>6. CASE CloseOrder(o)
    BY <1>6 DEF CloseOrder, CloseManagementOrder, Update, Record, Moves
  <1>7. CASE ReceiveOrder(o)
    BY <1>7 DEF ReceiveOrder, ConfirmReceipt, Update, Record
  <1>8. QED
    BY <1>1, <1>2, <1>3, <1>4, <1>5, <1>6, <1>7

LEMMA PackageStepIInv ==
  ASSUME IInv, NEW p \in Packages, PackageStep(p), RequestsStay PROVE IInv'
  <1> USE DEF RequestsStay, afterSalesVars, requestVars, trailVars, orderVars, rowVars
  <1>1. CASE \E s \in PackageStatus : CreatePackage(p, s) \/ UpdatePackage(p, s)
    BY <1>1 DEF CreatePackage, UpdatePackage
  <1>2. CASE AdvanceFails(p)
    BY <1>2 DEF AdvanceFails
  <1>3. CASE Advance(p)
    BY SMTT(30), <1>3 DEF Advance, AdvanceOrder, AdvanceToShipped, Update, Record
  <1>4. QED
    BY <1>1, <1>2, <1>3 DEF PackageStep

LEMMA ShipmentNextIInv ==
  ASSUME IInv, ShipmentNext, RequestsStay PROVE IInv'
  <1>1. ASSUME NEW s \in Shipments, CreateShipment(s) PROVE IInv'
    BY <1>1 DEF CreateShipment, RequestsStay, afterSalesVars, requestVars, trailVars,
                orderVars, rowVars
  <1>2. QED
    BY <1>1, OrderStepIInv, PackageStepIInv DEF ShipmentNext

-----------------------------------------------------------------------------
(* The requests.                                                           *)

LEMMA RequestStepIInv ==
  ASSUME IInv, NEW r \in ReturnRequests, RequestStep(r) PROVE IInv'
  <1> USE DEF deliveryVars, orderVars, rowVars, shipmentVars, requestVars, trailVars
  <1>1. CASE CreateAfterSalesRequest(r)
    BY <1>1 DEF CreateAfterSalesRequest, LogOwner
  <1>2. ASSUME NEW given \in RequestStatus \cup {Kept}, ReadForUpdate(r, given) PROVE IInv'
    BY <1>2 DEF ReadForUpdate, OwnerMayChange
  <1>3. CASE CreateReturnShipment(r)
    BY <1>3 DEF CreateReturnShipment
  <1>4. ASSUME NEW to \in RequestStatus, Review(r, to) PROVE IInv'
    BY <1>4 DEF Review, LogReview, OperatorMayChange
  <1>5. CASE DecideRestock(r)
    BY <1>5 DEF DecideRestock, Decision
  <1>6. CASE RestoreStock(r)
    BY <1>6 DEF RestoreStock, RestockMoves, Moves
  <1>7. CASE RestockFails(r)
    BY <1>7 DEF RestockFails
  <1>8. QED
    BY SMTT(30), <1>1, <1>2, <1>3, <1>4, <1>5, <1>6, <1>7 DEF RequestStep

LEMMA EditStepIInv ==
  ASSUME IInv, NEW e \in edits, WriteUpdate(e) \/ UpdateFails(e) PROVE IInv'
  <1> USE DEF deliveryVars, orderVars, rowVars, shipmentVars, requestVars, trailVars
  <1>1. e \in Edits
    OBVIOUS
  <1>2. CASE UpdateFails(e)
    BY <1>2 DEF UpdateFails
  <1>3. CASE WriteUpdate(e) /\ e.given = Kept
    BY <1>1, <1>3 DEF WriteUpdate
  <1>4. CASE WriteUpdate(e) /\ e.given # Kept
    <2>1. e.given \in {"cancelled", "withdrawn"}
      BY <1>4
    <2>2. /\ request' = [request EXCEPT ![e.request] = e.given]
          /\ recorded' = [recorded EXCEPT ![e.request] = @ \cup {e.given}]
          /\ edits' \subseteq edits
          /\ UNCHANGED <<deliveryVars, reviewed, returned, restock>>
      BY <1>4 DEF WriteUpdate, LogOwner
    <2>3. \A r \in ReturnRequests : recorded[r] \subseteq recorded'[r]
      BY <1>1, <2>2
    <2>4. AfterSalesTypeOK'
      BY <1>1, <2>1, <2>2
    <2>5. EveryStatusIsRecorded' /\ EditsAreRecorded'
      BY <1>1, <2>2, <2>3
    <2>6. TrailIsComplete'
      BY <1>1, <2>1, <2>2
    <2>7. SoldOrders' /\ RestockIsDue' /\ RestockedWasReturned' /\ ShippedTogether'
      BY <2>2
    <2>8. QED
      BY <2>4, <2>5, <2>6, <2>7
  <1>5. QED
    BY <1>2, <1>3, <1>4

LEMMA StutterIInv == IInv /\ UNCHANGED allVars => IInv'
  BY DEF allVars, deliveryVars, orderVars, rowVars, shipmentVars, afterSalesVars,
         requestVars, trailVars

-----------------------------------------------------------------------------
\* The conjunction the five theorems below rest on holds in every reachable state:
\* the handlers of postgres_after_sales.rs and the shipment steps each keep it.
THEOREM Invariance == AfterSalesSpec => []IInv
  <1>1. IInv /\ [AfterSalesNext]_allVars => IInv'
    BY ShipmentNextIInv, RequestStepIInv, EditStepIInv, StutterIInv
    DEF AfterSalesNext, RequestsStay
  <1>2. QED
    BY InitIInv, <1>1, PTL DEF AfterSalesSpec

\* The model is type correct.
THEOREM AfterSalesTypeCorrect == AfterSalesSpec => []AfterSalesTypeOK
  BY Invariance, PTL

\* What a request shows is on its trail, for any number of late updates.
THEOREM StatusRecorded == AfterSalesSpec => []EveryStatusIsRecorded
  BY Invariance, PTL

\* A completed request was approved, processed and completed by reviews, for any
\* number of late updates.
THEOREM CompletionReviewed == AfterSalesSpec => []CompletedWasReviewed
  <1>1. IInv => CompletedWasReviewed
    BY DEF CompletedWasReviewed
  <1>2. QED
    BY Invariance, <1>1, PTL

\* The order, its fulfillment order and a shipment become shipped together.
THEOREM ShippedAtOnce == AfterSalesSpec => []ShippedTogether
  BY Invariance, PTL

\* Only sold goods that a completed review was about are restocked.
THEOREM RestockReturned == AfterSalesSpec => []RestockedWasReturned
  BY Invariance, PTL
=============================================================================

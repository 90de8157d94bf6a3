------------------------- MODULE PurchaseOrderProofs -------------------------
(***************************************************************************)
(* Orders of memberships and templates, for every set of calls, requests,  *)
(* items and prices.  What an order is for never changes once it is made,  *)
(* so an answer that fitted goes on fitting.  Only an insert opens an      *)
(* order, and it looks at every open order of the intent except those its  *)
(* own transaction expires, so it leaves one.  Only an insert and the      *)
(* adapter fulfill an order, and each counts what it changed.              *)
(***************************************************************************)
EXTENDS PurchaseOrder, FiniteSetTheorems, TLAPS

Ops == {"lookup", "owned", "reuse", "insert", "raced", "answered"}
Ways == {"none", "key", "owned", "intent", "new"}
RequestKeys == {r.key : r \in Requests}
Methods == {r.method : r \in Requests}

PurchaseRows == [item : Items \cup {"none"}, key : RequestKeys \cup {"none"},
                 method : Methods \cup {"none"}, price : Nat, expires : Nat]
PurchaseCalls == [op : Ops, item : Items, key : RequestKeys, method : Methods, price : Nat,
                  at : Nat, order : Orders \cup {0}, how : Ways, stale : SUBSET Orders]

PurchaseTypeOK ==
  /\ RowTypeOK
  /\ bought \in [Orders -> PurchaseRows]
  /\ price \in [Items -> Nat]
  /\ installs \in [Items -> Nat]
  /\ attempted \subseteq Orders /\ settling \subseteq Orders
  /\ now \in Nat
  /\ calls \in [Calls -> {Idle} \cup PurchaseCalls]

\* What is true of a call under way, given the rows and the orders made: the
\* orders it has expired were made, and its answer fits its request.
CallFits(call, rows, made) ==
  call # Idle =>
    /\ call.stale \subseteq made
    /\ call.op = "answered" =>
         /\ call.order \in made
         /\ rows[call.order].item = call.item
         /\ call.how = "key" => /\ rows[call.order].key = call.key
                                /\ rows[call.order].method = call.method
         /\ call.how = "intent" => /\ rows[call.order].price = call.price
                                   /\ rows[call.order].expires > call.at

CallsFit == \A c \in Calls : CallFits(calls[c], bought, Created)
CreatedAreBought == \A o \in Created : bought[o].item \in Items

PurchaseIInv == /\ PurchaseTypeOK
                /\ CallsFit
                /\ CreatedAreBought
                /\ OneOpenOrderPerIntent
                /\ InstallsCountFulfilled

FulfilledOf(i) == {o \in Created : bought[o].item = i /\ fulfillment[o] = "fulfilled"}

-----------------------------------------------------------------------------
(* The frame of a step.                                                    *)

LEMMA CreatedIsFinite ==
  Created \subseteq Orders /\ \A i : IsFiniteSet(FulfilledOf(i))
  <1>1. Created \subseteq Orders
    BY DEF Created
  <1>2. ASSUME NEW i PROVE IsFiniteSet(FulfilledOf(i))
    <2>1. FulfilledOf(i) \subseteq Orders
      BY <1>1 DEF FulfilledOf
    <2>2. QED
      BY <2>1, FS_Subset, PurchaseAssumption
  <1>3. QED
    BY <1>1, <1>2

\* A call under way is a record of its own.
LEMMA CallUnderWay ==
  ASSUME PurchaseIInv, NEW c \in Calls, calls[c].op \in Ops
  PROVE  calls[c] \in PurchaseCalls /\ calls[c] # Idle /\ calls[c].stale \subseteq Created
  BY DEF PurchaseIInv, PurchaseTypeOK, CallsFit, CallFits, Idle, Ops

\* A call that moves leaves the others their answers, as long as no order
\* vanishes or becomes one for something else.
LEMMA CallMoves ==
  ASSUME PurchaseIInv, NEW c \in Calls, NEW next \in {Idle} \cup PurchaseCalls, Goto(c, next),
         CallFits(next, bought', Created'),
         \A o \in Created : o \in Created' /\ bought'[o] = bought[o]
  PROVE  CallsFit' /\ calls' \in [Calls -> {Idle} \cup PurchaseCalls]
  <1>1. calls \in [Calls -> {Idle} \cup PurchaseCalls]
    BY DEF PurchaseIInv, PurchaseTypeOK
  <1>2. /\ calls' \in [Calls -> {Idle} \cup PurchaseCalls]
        /\ calls'[c] = next
        /\ \A d \in Calls \ {c} : calls'[d] = calls[d]
    BY <1>1 DEF Goto
  <1>3. ASSUME NEW d \in Calls
        PROVE  CallFits(calls'[d], bought', Created')
    <2>1. CASE d = c
      BY <1>2, <2>1
    <2>2. CASE d # c
      <3>1. calls'[d] = calls[d] /\ CallFits(calls[d], bought, Created)
        BY <1>2, <2>2 DEF PurchaseIInv, CallsFit
      <3>2. QED
        BY <3>1 DEF CallFits
    <2>3. QED
      BY <2>1, <2>2
  <1>4. QED
    BY <1>2, <1>3 DEF CallsFit

\* A step that makes, opens and fulfills no order.
OrdersStand ==
  /\ UNCHANGED <<bought, installs, fulfillment>>
  /\ \A o \in Orders : /\ status'[o] = "none" <=> status[o] = "none"
                       /\ status'[o] = "pending_payment" => status[o] = "pending_payment"

LEMMA OrdersStandKeeps ==
  ASSUME PurchaseIInv, OrdersStand
  PROVE  Created' = Created /\ (CreatedAreBought /\ OneOpenOrderPerIntent /\ InstallsCountFulfilled)'
  <1>1. Created' = Created
    BY DEF OrdersStand, Created
  <1>2. Created \subseteq Orders
    BY DEF Created
  <1>3. \A o \in Orders : Open(o)' => Open(o)
    BY DEF OrdersStand, Open
  <1>4. CreatedAreBought'
    BY <1>1 DEF OrdersStand, PurchaseIInv, CreatedAreBought
  <1>5. OneOpenOrderPerIntent'
    BY <1>1, <1>2, <1>3 DEF OrdersStand, PurchaseIInv, OneOpenOrderPerIntent
  <1>6. InstallsCountFulfilled'
    BY <1>1 DEF OrdersStand, PurchaseIInv, InstallsCountFulfilled
  <1>7. QED
    BY <1>1, <1>4, <1>5, <1>6

LEMMA QuietCallKeeps ==
  ASSUME PurchaseIInv, NEW c \in Calls, NEW next \in {Idle} \cup PurchaseCalls, Goto(c, next),
         CallFits(next, bought, Created), OrdersStand, RowTypeOK',
         attempted' \subseteq Orders, UNCHANGED <<price, settling, now>>
  PROVE  PurchaseIInv'
  <1>1. Created' = Created /\ (CreatedAreBought /\ OneOpenOrderPerIntent /\ InstallsCountFulfilled)'
    BY OrdersStandKeeps
  <1>2. UNCHANGED <<bought, installs>>
    BY DEF OrdersStand
  <1>3. CallsFit' /\ calls' \in [Calls -> {Idle} \cup PurchaseCalls]
    BY <1>1, <1>2, CallMoves
  <1>4. PurchaseTypeOK'
    BY <1>2, <1>3 DEF PurchaseIInv, PurchaseTypeOK
  <1>5. QED
    BY <1>1, <1>3, <1>4 DEF PurchaseIInv

LEMMA QuietRowKeeps ==
  ASSUME PurchaseIInv, OrdersStand, RowTypeOK', UNCHANGED calls,
         price' \in [Items -> Nat], attempted' \subseteq Orders, settling' \subseteq Orders,
         now' \in Nat
  PROVE  PurchaseIInv'
  <1>1. Created' = Created /\ (CreatedAreBought /\ OneOpenOrderPerIntent /\ InstallsCountFulfilled)'
    BY OrdersStandKeeps
  <1>2. UNCHANGED <<bought, installs>>
    BY DEF OrdersStand
  <1>3. CallsFit'
    BY <1>1, <1>2 DEF PurchaseIInv, CallsFit
  <1>4. PurchaseTypeOK'
    BY <1>2 DEF PurchaseIInv, PurchaseTypeOK
  <1>5. QED
    BY <1>1, <1>3, <1>4 DEF PurchaseIInv

LEMMA RowsUntouched ==
  ASSUME PurchaseIInv, UNCHANGED <<rowVars, bought, installs>>
  PROVE  OrdersStand /\ RowTypeOK'
  BY DEF PurchaseIInv, PurchaseTypeOK, RowTypeOK, OrdersStand, rowVars

\* The answer of a call: it keeps what was asked.
LEMMA AnswerFits ==
  ASSUME PurchaseIInv, NEW c \in Calls, calls[c].op \in Ops, NEW o \in Created, NEW how \in Ways,
         Answer(c, o, how),
         bought[o].item = calls[c].item,
         how = "key" => bought[o].key = calls[c].key /\ bought[o].method = calls[c].method,
         how = "intent" => bought[o].price = calls[c].price /\ bought[o].expires > calls[c].at
  PROVE  \E next \in PurchaseCalls : Goto(c, next) /\ CallFits(next, bought, Created)
  <1> DEFINE next == [calls[c] EXCEPT !.op = "answered", !.order = o, !.how = how, !.stale = {}]
  <1>1. calls[c] \in PurchaseCalls /\ o \in Orders
    BY CallUnderWay DEF Created
  <1>2. next \in PurchaseCalls
    BY <1>1 DEF PurchaseCalls, Ops
  <1>3. /\ next.op = "answered" /\ next.order = o /\ next.how = how /\ next.stale = {}
        /\ next.item = calls[c].item /\ next.key = calls[c].key
        /\ next.method = calls[c].method /\ next.price = calls[c].price /\ next.at = calls[c].at
    BY <1>1 DEF PurchaseCalls
  <1>4. Goto(c, next)
    BY DEF Answer
  <1> HIDE DEF next
  <1>5. CallFits(next, bought, Created)
    BY <1>3 DEF CallFits
  <1>6. QED
    BY <1>2, <1>4, <1>5

LEMMA ReplayFits ==
  ASSUME PurchaseIInv, NEW c \in Calls, calls[c].op \in Ops, NEW o \in ByKey(calls[c]), Replay(c, o)
  PROVE  \E next \in {Idle} \cup PurchaseCalls : Goto(c, next) /\ CallFits(next, bought, Created)
  <1>1. o \in Created /\ bought[o].key = calls[c].key
    BY DEF ByKey
  <1>2. CASE SameRequest(o, calls[c])
    BY <1>1, <1>2, AnswerFits DEF Replay, SameRequest, Ways
  <1>3. CASE ~SameRequest(o, calls[c])
    BY <1>3 DEF Replay, Return, CallFits
  <1>4. QED
    BY <1>2, <1>3

LEMMA IntentFits ==
  ASSUME PurchaseIInv, NEW c \in Calls, calls[c].op \in Ops, NEW o \in ByIntent(calls[c]),
         Answer(c, o, "intent")
  PROVE  \E next \in PurchaseCalls : Goto(c, next) /\ CallFits(next, bought, Created)
  BY AnswerFits DEF ByIntent, SameIntent, Ways

\* Orders that expire were made and stay made.
LEMMA ExpiryStands ==
  ASSUME PurchaseIInv, NEW stale, stale \subseteq Created, ExpireStale(stale),
         UNCHANGED <<bought, installs, fulfillment, events, fulfillmentOrders>>
  PROVE  OrdersStand /\ RowTypeOK'
  BY DEF PurchaseIInv, PurchaseTypeOK, RowTypeOK, OrdersStand, ExpireStale, Created, Status, Payment

-----------------------------------------------------------------------------
(* Creation.                                                               *)

LEMMA BeginKeeps ==
  ASSUME PurchaseIInv, NEW c \in Calls, NEW r \in Requests,
         BeginTemplate(c, r) \/ \E p \in Prices[r.item] \cup {0} : BeginMembership(c, r, p)
  PROVE  PurchaseIInv'
  <1>1. PICK amount \in Nat : Goto(c, MembershipCall(r, amount)) /\ Began
    BY PurchaseAssumption DEF BeginTemplate, BeginMembership, TemplateCall
  <1>2. MembershipCall(r, amount) \in PurchaseCalls
    BY PurchaseAssumption DEF MembershipCall, PurchaseCalls, Ops, Ways, RequestKeys, Methods,
                              PurchaseIInv, PurchaseTypeOK
  <1>3. CallFits(MembershipCall(r, amount), bought, Created)
    BY DEF MembershipCall, CallFits
  <1>4. OrdersStand /\ RowTypeOK' /\ UNCHANGED <<price, attempted, settling, now>>
    BY <1>1, RowsUntouched DEF Began
  <1>5. attempted' \subseteq Orders
    BY <1>4 DEF PurchaseIInv, PurchaseTypeOK
  <1>6. QED
    BY <1>1, <1>2, <1>3, <1>4, <1>5, QuietCallKeeps

\* A call that goes on to its next statement, at a price.
LEMMA OnwardFits ==
  ASSUME PurchaseIInv, NEW c \in Calls, calls[c].op \in Ops, NEW op \in Ops \ {"answered"},
         NEW amount \in Nat, NEW stale, stale \subseteq Created
  PROVE  LET next == [calls[c] EXCEPT !.op = op, !.price = amount, !.stale = stale]
         IN next \in PurchaseCalls /\ CallFits(next, bought, Created)
  <1> DEFINE next == [calls[c] EXCEPT !.op = op, !.price = amount, !.stale = stale]
  <1>1. calls[c] \in PurchaseCalls /\ stale \subseteq Orders
    BY CallUnderWay, CreatedIsFinite
  <1>2. next \in PurchaseCalls /\ next.op = op /\ next.stale = stale
    BY <1>1 DEF PurchaseCalls
  <1> HIDE DEF next
  <1>3. CallFits(next, bought, Created)
    BY <1>2 DEF CallFits
  <1>4. QED
    BY <1>2, <1>3 DEF next

LEMMA LookupKeeps ==
  ASSUME PurchaseIInv, NEW c \in Calls, Lookup(c)
  PROVE  PurchaseIInv'
  <1>1. calls[c].op \in Ops
    BY DEF Lookup, Ops
  <1>2. calls[c] \in PurchaseCalls /\ calls[c].stale \subseteq Created
    BY <1>1, CallUnderWay
  <1>3. PICK next \in {Idle} \cup PurchaseCalls : Goto(c, next) /\ CallFits(next, bought, Created)
    <2>1. CASE ByKey(calls[c]) # {}
      BY <1>1, <2>1, ReplayFits DEF Lookup
    <2>2. CASE ByKey(calls[c]) = {}
      <3> DEFINE op == IF Subject(calls[c].item) = "app_template" THEN "owned" ELSE "reuse"
                 amount == PriceFor(calls[c])
      <3>1. op \in Ops \ {"answered"}
        BY DEF Ops
      <3>2. amount \in Nat
        <4>1. /\ calls[c].price \in Nat /\ price[calls[c].item] \in Nat
              /\ Kind[calls[c].item] \in Kinds
          BY <1>2, PurchaseAssumption DEF PurchaseCalls, PurchaseIInv, PurchaseTypeOK
        <4>2. QED
          BY <4>1 DEF PriceFor, QuotaPrice, PackagePrice, ListingPrice, Kinds
      <3>3. Goto(c, [calls[c] EXCEPT !.op = op, !.price = amount])
        BY <2>2 DEF Lookup
      <3> HIDE DEF op, amount
      <3>4. [calls[c] EXCEPT !.op = op, !.price = amount]
              = [calls[c] EXCEPT !.op = op, !.price = amount, !.stale = calls[c].stale]
        BY <1>2 DEF PurchaseCalls
      <3>5. /\ [calls[c] EXCEPT !.op = op, !.price = amount, !.stale = calls[c].stale]
                 \in PurchaseCalls
            /\ CallFits([calls[c] EXCEPT !.op = op, !.price = amount, !.stale = calls[c].stale],
                        bought, Created)
        BY <1>1, <1>2, <3>1, <3>2, OnwardFits
      <3>6. QED
        BY <3>3, <3>4, <3>5
    <2>3. QED
      BY <2>1, <2>2
  <1>4. OrdersStand /\ RowTypeOK' /\ UNCHANGED <<price, attempted, settling, now>>
    BY RowsUntouched DEF Lookup
  <1>5. attempted' \subseteq Orders
    BY <1>4 DEF PurchaseIInv, PurchaseTypeOK
  <1>6. QED
    BY <1>3, <1>4, <1>5, QuietCallKeeps

\* A call that goes on to its next statement as it is.
LEMMA StepFits ==
  ASSUME PurchaseIInv, NEW c \in Calls, calls[c].op \in Ops, NEW op \in Ops \ {"answered"}
  PROVE  /\ [calls[c] EXCEPT !.op = op] \in PurchaseCalls
         /\ CallFits([calls[c] EXCEPT !.op = op], bought, Created)
  <1>1. calls[c] \in PurchaseCalls /\ calls[c].stale \subseteq Created
    BY CallUnderWay
  <1>2. /\ [calls[c] EXCEPT !.op = op] \in PurchaseCalls
        /\ [calls[c] EXCEPT !.op = op].op = op
        /\ [calls[c] EXCEPT !.op = op].stale = calls[c].stale
    BY <1>1 DEF PurchaseCalls
  <1>3. QED
    BY <1>1, <1>2 DEF CallFits

LEMMA OwnedKeeps ==
  ASSUME PurchaseIInv, NEW c \in Calls, Owned(c)
  PROVE  PurchaseIInv'
  <1>1. calls[c].op \in Ops
    BY DEF Owned, Ops
  <1>2. PICK next \in PurchaseCalls : Goto(c, next) /\ CallFits(next, bought, Created)
    <2>1. CASE Settled(calls[c].item) # {}
      BY <1>1, <2>1, AnswerFits DEF Owned, Settled, Ways
    <2>2. CASE Settled(calls[c].item) = {}
      <3>1. "reuse" \in Ops \ {"answered"}
        BY DEF Ops
      <3>2. Goto(c, [calls[c] EXCEPT !.op = "reuse"])
        BY <2>2 DEF Owned, Step
      <3>3. QED
        BY <1>1, <3>1, <3>2, StepFits
    <2>3. QED
      BY <2>1, <2>2
  <1>3. OrdersStand /\ RowTypeOK' /\ UNCHANGED <<price, attempted, settling, now>>
    BY RowsUntouched DEF Owned
  <1>4. attempted' \subseteq Orders
    BY <1>3 DEF PurchaseIInv, PurchaseTypeOK
  <1>5. QED
    BY <1>2, <1>3, <1>4, QuietCallKeeps

LEMMA ReuseKeeps ==
  ASSUME PurchaseIInv, NEW c \in Calls, Reuse(c)
  PROVE  PurchaseIInv'
  <1> DEFINE stale == Stale(calls[c])
  <1>1. calls[c].op \in Ops /\ stale \subseteq Created
    BY DEF Reuse, Ops, Stale
  <1>2. attempted' \subseteq Orders /\ UNCHANGED <<price, attempted, settling, now>>
    BY DEF Reuse, PurchaseIInv, PurchaseTypeOK
  <1>3. CASE ByIntent(calls[c]) # {}
    <2>1. PICK o \in ByIntent(calls[c]) : Answer(c, o, "intent")
      BY <1>3 DEF Reuse
    <2>2. PICK next \in PurchaseCalls : Goto(c, next) /\ CallFits(next, bought, Created)
      BY <1>1, <2>1, IntentFits
    <2>3. OrdersStand /\ RowTypeOK'
      BY <1>1, <1>3, ExpiryStands DEF Reuse
    <2>4. QED
      BY <1>2, <2>2, <2>3, QuietCallKeeps
  <1>4. CASE ByIntent(calls[c]) = {}
    <2>1. Goto(c, [calls[c] EXCEPT !.op = "insert", !.stale = stale])
      BY <1>4 DEF Reuse
    <2>2. calls[c] \in PurchaseCalls
      BY <1>1, CallUnderWay
    <2> HIDE DEF stale
    <2>3. /\ [calls[c] EXCEPT !.op = "insert", !.stale = stale]
               = [calls[c] EXCEPT !.op = "insert", !.price = calls[c].price, !.stale = stale]
          /\ calls[c].price \in Nat /\ "insert" \in Ops \ {"answered"}
      BY <2>2 DEF PurchaseCalls, Ops
    <2>4. /\ [calls[c] EXCEPT !.op = "insert", !.stale = stale] \in PurchaseCalls
          /\ CallFits([calls[c] EXCEPT !.op = "insert", !.stale = stale], bought, Created)
      BY <1>1, <2>3, OnwardFits
    <2>5. OrdersStand /\ RowTypeOK'
      BY <1>4, RowsUntouched DEF Reuse, rowVars
    <2>6. QED
      BY <1>2, <2>1, <2>4, <2>5, QuietCallKeeps
  <1>5. QED
    BY <1>3, <1>4

LEMMA RacedKeeps ==
  ASSUME PurchaseIInv, NEW c \in Calls, Raced(c)
  PROVE  PurchaseIInv'
  <1>1. calls[c].op \in Ops
    BY DEF Raced, Ops
  <1>2. attempted' \subseteq Orders /\ UNCHANGED <<price, attempted, settling, now>>
    BY DEF Raced, PurchaseIInv, PurchaseTypeOK
  <1>3. PICK next \in {Idle} \cup PurchaseCalls : Goto(c, next) /\ CallFits(next, bought, Created)
    <2>1. CASE ByKey(calls[c]) # {}
      BY <1>1, <2>1, ReplayFits DEF Raced, ReplayRaced
    <2>2. CASE ByKey(calls[c]) = {} /\ ByIntent(calls[c]) # {}
      BY <1>1, <2>2, IntentFits DEF Raced
    <2>3. CASE ByKey(calls[c]) = {} /\ ByIntent(calls[c]) = {}
      BY <2>3 DEF Raced, Return, CallFits
    <2>4. QED
      BY <2>1, <2>2, <2>3
  <1>4. OrdersStand /\ RowTypeOK'
    <2>1. calls[c].stale \subseteq Created
      BY <1>1, CallUnderWay
    <2>2. CASE UNCHANGED <<status, payment>>
      BY <2>2, RowsUntouched DEF Raced, rowVars
    <2>3. CASE ExpireStale(calls[c].stale)
      BY <2>1, <2>3, ExpiryStands DEF Raced
    <2>4. QED
      BY <2>2, <2>3 DEF Raced
  <1>5. QED
    BY <1>2, <1>3, <1>4, QuietCallKeeps

LEMMA FinishKeeps ==
  ASSUME PurchaseIInv, NEW c \in Calls, Finish(c)
  PROVE  PurchaseIInv'
  <1>1. calls[c].op \in Ops /\ calls[c].op = "answered"
    BY DEF Finish, Ops
  <1>2. calls[c].order \in Orders
    BY <1>1, CallUnderWay DEF PurchaseIInv, CallsFit, CallFits, Created
  <1>3. attempted' \subseteq Orders
    BY <1>2 DEF Finish, PurchaseIInv, PurchaseTypeOK
  <1>4. OrdersStand /\ RowTypeOK' /\ UNCHANGED <<price, settling, now>>
    BY RowsUntouched DEF Finish
  <1>5. Goto(c, Idle) /\ CallFits(Idle, bought, Created)
    BY DEF Finish, Return, CallFits
  <1>6. QED
    BY <1>3, <1>4, <1>5, QuietCallKeeps

-----------------------------------------------------------------------------
(* The insert.                                                             *)

LEMMA InsertNewKeeps ==
  ASSUME PurchaseIInv, NEW c \in Calls, calls[c].op = "insert",
         KeyTaken(calls[c]) \cup IntentTaken(calls[c]) = {},
         SettleFree(calls[c], TRUE),
         NEW o \in Orders \ Created, Insert(o, calls[c]), Answer(c, o, "new"),
         UNCHANGED <<events, fulfillmentOrders, price, attempted, settling, now>>
  PROVE  PurchaseIInv'
  <1> DEFINE call == calls[c]
             new == ItemRows(call)
             st == NewStatus(call)
             next == [call EXCEPT !.op = "answered", !.order = o, !.how = "new", !.stale = {}]
  <1>1. call \in PurchaseCalls /\ call.stale \subseteq Created
    BY CallUnderWay DEF Ops
  <1>2. /\ bought' = [bought EXCEPT ![o] = new]
        /\ status' = [p \in Orders |-> IF p = o THEN st[1]
                                       ELSE IF p \in call.stale THEN "expired" ELSE status[p]]
        /\ payment' = [p \in Orders |-> IF p = o THEN st[2]
                                        ELSE IF p \in call.stale THEN "expired" ELSE payment[p]]
        /\ fulfillment' = [fulfillment EXCEPT ![o] = st[3]]
        /\ installs' = [installs EXCEPT ![call.item] = installs[call.item] + IF IsFree(call) THEN 1 ELSE 0]
        /\ Goto(c, next)
    BY DEF Insert, SettleFree, Answer
  <1>3. /\ new \in PurchaseRows /\ new.item = call.item /\ new.price = call.price
        /\ call.item \in Items
    BY <1>1 DEF ItemRows, PurchaseRows, PurchaseCalls, Window
  <1>4. /\ st[1] \in Status \ {"none"} /\ st[2] \in Payment /\ st[3] \in Fulfillment
        /\ IsFree(call) <=> st[3] = "fulfilled"
    BY DEF NewStatus, Status, Payment, Fulfillment
  <1>5. next \in PurchaseCalls /\ next.op = "answered" /\ next.order = o /\ next.how = "new"
        /\ next.stale = {} /\ next.item = call.item
    BY <1>1 DEF PurchaseCalls, Ops, Ways
  <1> HIDE DEF call, new, st, next
  <1>6. /\ bought' \in [Orders -> PurchaseRows] /\ bought'[o] = new
        /\ \A p \in Orders \ {o} : bought'[p] = bought[p]
    BY <1>2, <1>3 DEF PurchaseIInv, PurchaseTypeOK
  <1>7. RowTypeOK'
    BY <1>2, <1>4 DEF PurchaseIInv, PurchaseTypeOK, RowTypeOK, Status, Payment
  <1>8. Created' = Created \cup {o}
    BY <1>1, <1>2, <1>4 DEF Created
  <1>9. /\ installs' \in [Items -> Nat]
        /\ installs'[call.item] = installs[call.item] + IF IsFree(call) THEN 1 ELSE 0
        /\ \A i \in Items \ {call.item} : installs'[i] = installs[i]
    BY <1>2, <1>3 DEF PurchaseIInv, PurchaseTypeOK
  <1>10. CallsFit' /\ calls' \in [Calls -> {Idle} \cup PurchaseCalls]
    <2>1. CallFits(next, bought', Created')
      BY <1>3, <1>5, <1>6, <1>8 DEF CallFits
    <2>2. \A p \in Created : p \in Created' /\ bought'[p] = bought[p]
      BY <1>6, <1>8 DEF Created
    <2>3. QED
      BY <1>2, <1>5, <2>1, <2>2, CallMoves
  <1>11. CreatedAreBought'
    BY <1>3, <1>6, <1>8 DEF PurchaseIInv, CreatedAreBought, Created
  <1>12. OneOpenOrderPerIntent'
    <2>1. ASSUME NEW p \in Created, status'[p] = "pending_payment",
                 bought[p].item = call.item, bought[p].price = call.price
          PROVE  FALSE
      <3>1. p \in Orders /\ p # o
        BY DEF Created
      <3>2. p \notin call.stale /\ status[p] = "pending_payment"
        BY <1>2, <2>1, <3>1
      <3>3. p \in IntentTaken(call)
        BY <2>1, <3>2 DEF IntentTaken, SameIntent, Open
      <3>4. QED
        BY <3>3 DEF call
    <2>2. \A p \in Created : status'[p] = "pending_payment" => Open(p)
      BY <1>2 DEF Open, Created
    <2>3. \A p \in Created : p # o /\ bought'[p] = bought[p]
      BY <1>6 DEF Created
    <2>4. ASSUME NEW p \in Created', NEW q \in Created', Open(p)', Open(q)',
                 bought'[p].item = bought'[q].item, bought'[p].price = bought'[q].price
          PROVE  p = q
      <3>1. CASE p = o /\ q \in Created
        BY <1>3, <1>6, <2>1, <2>3, <2>4, <3>1 DEF Open
      <3>2. CASE q = o /\ p \in Created
        BY <1>3, <1>6, <2>1, <2>3, <2>4, <3>2 DEF Open
      <3>3. CASE p \in Created /\ q \in Created
        BY <2>2, <2>3, <2>4, <3>3 DEF Open, PurchaseIInv, OneOpenOrderPerIntent
      <3>4. QED
        BY <1>8, <3>1, <3>2, <3>3
    <2>5. QED
      BY <2>4 DEF OneOpenOrderPerIntent
  <1>13. InstallsCountFulfilled'
    <2>1. ASSUME NEW i \in Items
          PROVE  installs'[i] = Cardinality(FulfilledOf(i)')
      <3>1. installs[i] = Cardinality(FulfilledOf(i)) /\ IsFiniteSet(FulfilledOf(i))
        BY CreatedIsFinite DEF PurchaseIInv, InstallsCountFulfilled, FulfilledOf
      <3>2. /\ o \notin FulfilledOf(i)
            /\ fulfillment'[o] = st[3]
            /\ \A p \in Created : fulfillment'[p] = fulfillment[p] /\ bought'[p] = bought[p]
        BY <1>2, <1>6 DEF FulfilledOf, Created, PurchaseIInv, PurchaseTypeOK, RowTypeOK
      <3>3. CASE i = call.item /\ IsFree(call)
        <4>1. FulfilledOf(i)' = FulfilledOf(i) \cup {o}
          BY <1>3, <1>4, <1>6, <1>8, <3>2, <3>3 DEF FulfilledOf
        <4>2. Cardinality(FulfilledOf(i) \cup {o}) = Cardinality(FulfilledOf(i)) + 1
          BY <3>1, <3>2, FS_AddElement
        <4>3. QED
          BY <1>9, <3>1, <3>3, <4>1, <4>2
      <3>4. CASE ~(i = call.item /\ IsFree(call))
        <4>1. FulfilledOf(i)' = FulfilledOf(i)
          BY <1>3, <1>4, <1>6, <1>8, <3>2, <3>4 DEF FulfilledOf
        <4>2. installs'[i] = installs[i]
          BY <1>3, <1>9, <3>4 DEF PurchaseIInv, PurchaseTypeOK
        <4>3. QED
          BY <3>1, <4>1, <4>2
      <3>5. QED
        BY <3>3, <3>4
    <2>2. QED
      BY <2>1 DEF InstallsCountFulfilled, FulfilledOf
  <1>14. PurchaseTypeOK'
    BY <1>6, <1>7, <1>9, <1>10 DEF PurchaseIInv, PurchaseTypeOK
  <1>15. QED
    BY <1>10, <1>11, <1>12, <1>13, <1>14 DEF PurchaseIInv

LEMMA InsertOrderKeeps ==
  ASSUME PurchaseIInv, NEW c \in Calls, InsertOrder(c)
  PROVE  PurchaseIInv'
  <1> DEFINE taken == KeyTaken(calls[c]) \cup IntentTaken(calls[c])
  <1>1. calls[c].op = "insert" /\ calls[c].op \in Ops
    BY DEF InsertOrder, Ops
  <1>2. UNCHANGED <<events, fulfillmentOrders, price, attempted, settling, now>>
    BY DEF InsertOrder
  <1>3. CASE taken = {}
    BY <1>1, <1>2, <1>3, InsertNewKeeps DEF InsertOrder
  <1>4. CASE taken # {}
    <2>1. /\ Goto(c, [calls[c] EXCEPT !.op = "raced"])
          /\ UNCHANGED <<status, payment, fulfillment, bought>>
      BY <1>4 DEF InsertOrder, Step
    <2>2. UNCHANGED installs
      <3>1. SettleFree(calls[c], FALSE)
        BY <1>4 DEF InsertOrder
      <3>2. calls[c].item \in Items /\ installs \in [Items -> Nat]
        BY <1>1, CallUnderWay DEF PurchaseCalls, PurchaseIInv, PurchaseTypeOK
      <3>3. QED
        BY <3>1, <3>2 DEF SettleFree
    <2>3. OrdersStand /\ RowTypeOK'
      BY <1>2, <2>1, <2>2, RowsUntouched DEF rowVars
    <2>4. "raced" \in Ops \ {"answered"} /\ attempted' \subseteq Orders
      BY <1>2 DEF Ops, PurchaseIInv, PurchaseTypeOK
    <2>5. QED
      BY <1>1, <1>2, <2>1, <2>3, <2>4, StepFits, QuietCallKeeps
  <1>5. QED
    BY <1>3, <1>4

-----------------------------------------------------------------------------
(* What happens to the orders meanwhile.                                   *)

LEMMA SettleKeeps ==
  ASSUME PurchaseIInv, NEW o \in Created, Settle(o)
  PROVE  PurchaseIInv'
  <1>1. o \in Orders
    BY DEF Created
  <1>2. OrdersStand /\ RowTypeOK'
    BY <1>1 DEF Settle, MarkPaymentSucceeded, Update, Record, SuccessEvents, KeptBySuccess,
                OrdersStand, PurchaseIInv, PurchaseTypeOK, RowTypeOK, Status, Payment, EventType
  <1>3. settling' \subseteq Orders /\ UNCHANGED <<price, attempted, now, calls>>
    BY <1>1 DEF Settle, PurchaseIInv, PurchaseTypeOK
  <1>4. QED
    BY <1>2, <1>3, QuietRowKeeps DEF PurchaseIInv, PurchaseTypeOK

LEMMA EndOpenOrderKeeps ==
  ASSUME PurchaseIInv, NEW o \in Created, EndOpenOrder(o)
  PROVE  PurchaseIInv'
  <1>1. o \in Orders
    BY DEF Created
  <1>2. UNCHANGED <<bought, price, installs, attempted, settling, now, calls>>
    BY DEF EndOpenOrder
  <1>3. OrdersStand /\ RowTypeOK'
    <2>1. CASE CancelOrder(o)
      BY <1>1, <1>2, <2>1 DEF CancelOrder, Update, Record, Payable, OrdersStand, PurchaseIInv,
                              PurchaseTypeOK, RowTypeOK, Status, Payment, EventType
    <2>2. CASE ExpireDueOrder(o, FALSE)
      BY <1>1, <1>2, <2>2 DEF ExpireDueOrder, Update, Record, Payable, OrdersStand, PurchaseIInv,
                              PurchaseTypeOK, RowTypeOK, Status, Payment, EventType
    <2>3. QED
      BY <2>1, <2>2 DEF EndOpenOrder
  <1>4. QED
    BY <1>2, <1>3, QuietRowKeeps DEF PurchaseIInv, PurchaseTypeOK

\* The adapter fulfills a template and counts it if it was not.
LEMMA FulfillTemplateKeeps ==
  ASSUME PurchaseIInv, NEW o \in Created, FulfillTemplate(o)
  PROVE  PurchaseIInv'
  <1> DEFINE item == bought[o].item
             more == IF fulfillment[o] # "fulfilled" THEN 1 ELSE 0
  <1>1. o \in Orders /\ item \in Items
    BY DEF Created, PurchaseIInv, CreatedAreBought
  <1>2. /\ fulfillment' = [fulfillment EXCEPT ![o] = "fulfilled"]
        /\ installs' = [installs EXCEPT ![item] = installs[item] + more]
        /\ settling' = settling \ {o}
        /\ UNCHANGED <<status, payment, events, fulfillmentOrders, bought, price, attempted, now, calls>>
    BY DEF FulfillTemplate
  <1>3. Created' = Created
    BY <1>2 DEF Created
  <1>4. RowTypeOK'
    BY <1>2 DEF PurchaseIInv, PurchaseTypeOK, RowTypeOK, Fulfillment
  <1> HIDE DEF item, more
  <1>5. /\ installs' \in [Items -> Nat]
        /\ installs'[item] = installs[item] + more
        /\ \A i \in Items \ {item} : installs'[i] = installs[i]
    BY <1>1, <1>2 DEF PurchaseIInv, PurchaseTypeOK, more
  <1>6. PurchaseTypeOK'
    BY <1>2, <1>4, <1>5 DEF PurchaseIInv, PurchaseTypeOK
  <1>7. CallsFit' /\ CreatedAreBought' /\ OneOpenOrderPerIntent'
    BY <1>2, <1>3 DEF PurchaseIInv, CallsFit, CreatedAreBought, OneOpenOrderPerIntent, Open
  <1>8. InstallsCountFulfilled'
    <2>1. ASSUME NEW i \in Items
          PROVE  installs'[i] = Cardinality(FulfilledOf(i)')
      <3>1. installs[i] = Cardinality(FulfilledOf(i)) /\ IsFiniteSet(FulfilledOf(i))
        BY CreatedIsFinite DEF PurchaseIInv, InstallsCountFulfilled, FulfilledOf
      <3>2. /\ fulfillment'[o] = "fulfilled"
            /\ \A p \in Created \ {o} : fulfillment'[p] = fulfillment[p]
        BY <1>1, <1>2 DEF PurchaseIInv, PurchaseTypeOK, RowTypeOK, Created
      <3>3. CASE i = item /\ fulfillment[o] # "fulfilled"
        <4>1. FulfilledOf(i)' = FulfilledOf(i) \cup {o} /\ o \notin FulfilledOf(i)
          BY <1>2, <1>3, <3>2, <3>3 DEF FulfilledOf, item
        <4>2. Cardinality(FulfilledOf(i) \cup {o}) = Cardinality(FulfilledOf(i)) + 1
          BY <3>1, <4>1, FS_AddElement
        <4>3. QED
          BY <1>5, <3>1, <3>3, <4>1, <4>2 DEF more
      <3>4. CASE ~(i = item /\ fulfillment[o] # "fulfilled")
        <4>1. FulfilledOf(i)' = FulfilledOf(i)
          BY <1>2, <1>3, <3>2, <3>4 DEF FulfilledOf, item
        <4>2. installs'[i] = installs[i]
          BY <1>5, <3>4 DEF PurchaseIInv, PurchaseTypeOK, more
        <4>3. QED
          BY <3>1, <4>1, <4>2
      <3>5. QED
        BY <3>3, <3>4
    <2>2. QED
      BY <2>1 DEF InstallsCountFulfilled, FulfilledOf
  <1>9. QED
    BY <1>6, <1>7, <1>8 DEF PurchaseIInv

\* Steps that touch no order row.
LEMMA OutsideKeeps ==
  ASSUME PurchaseIInv,
         \/ \E o \in Created : CashierPay(o) \/ FulfillFails(o)
         \/ \E i \in Items : \E p \in Prices[i] : ChangePrice(i, p)
         \/ Tick
  PROVE  PurchaseIInv'
  <1>1. UNCHANGED <<rowVars, bought, installs, calls>>
    BY DEF CashierPay, FulfillFails, ChangePrice, Tick
  <1>2. /\ attempted' \subseteq Orders /\ settling' \subseteq Orders
        /\ price' \in [Items -> Nat] /\ now' \in Nat
    <2>1. /\ attempted \subseteq Orders /\ settling \subseteq Orders
          /\ price \in [Items -> Nat] /\ now \in Nat
      BY DEF PurchaseIInv, PurchaseTypeOK
    <2>2. ASSUME NEW o \in Created, CashierPay(o) \/ FulfillFails(o)
          PROVE  /\ attempted' \subseteq Orders /\ settling' \subseteq Orders
                 /\ UNCHANGED <<price, now>>
      BY <2>1, <2>2 DEF CashierPay, FulfillFails, Created
    <2>3. ASSUME NEW i \in Items, NEW p \in Prices[i], ChangePrice(i, p)
          PROVE  price' \in [Items -> Nat] /\ UNCHANGED <<attempted, settling, now>>
      BY <2>1, <2>3, PurchaseAssumption DEF ChangePrice
    <2>4. ASSUME Tick
          PROVE  now' \in Nat /\ UNCHANGED <<attempted, settling, price>>
      BY <2>1, <2>4 DEF Tick
    <2>5. QED
      BY <2>1, <2>2, <2>3, <2>4
  <1>3. QED
    BY <1>1, <1>2, RowsUntouched, QuietRowKeeps

-----------------------------------------------------------------------------
(* The invariant.                                                          *)

LEMMA InitIInv == Init => PurchaseIInv
  <1> SUFFICES ASSUME Init PROVE PurchaseIInv
    OBVIOUS
  <1>1. Created = {}
    BY DEF Init, RowInit, Created
  <1>2. RowTypeOK
    BY DEF Init, RowInit, RowTypeOK, Status, Payment, Fulfillment, EventType
  <1>3. price \in [Items -> Nat]
    BY PurchaseAssumption DEF Init
  <1>4. PurchaseTypeOK
    BY <1>2, <1>3 DEF Init, PurchaseTypeOK, NoPurchase, PurchaseRows
  <1>5. CallsFit
    BY DEF Init, CallsFit, CallFits
  <1>6. CreatedAreBought /\ OneOpenOrderPerIntent
    BY <1>1 DEF CreatedAreBought, OneOpenOrderPerIntent
  <1>7. InstallsCountFulfilled
    <2>1. \A i \in Items : {o \in Created : bought[o].item = i /\ fulfillment[o] = "fulfilled"} = {}
      BY <1>1
    <2>2. QED
      BY <2>1, FS_EmptySet DEF Init, InstallsCountFulfilled
  <1>8. QED
    BY <1>4, <1>5, <1>6, <1>7 DEF PurchaseIInv

LEMMA NextIInv == PurchaseIInv /\ [Next]_vars => PurchaseIInv'
  <1> SUFFICES ASSUME PurchaseIInv, [Next]_vars PROVE PurchaseIInv'
    OBVIOUS
  <1>1. CASE UNCHANGED vars
    <2>1. OrdersStand /\ RowTypeOK'
      BY <1>1, RowsUntouched DEF vars
    <2>2. QED
      BY <1>1, <2>1, QuietRowKeeps DEF vars, PurchaseIInv, PurchaseTypeOK
  <1>2. CASE Next
    BY <1>2, BeginKeeps, LookupKeeps, OwnedKeeps, ReuseKeeps, InsertOrderKeeps, RacedKeeps, FinishKeeps,
       SettleKeeps, EndOpenOrderKeeps, FulfillTemplateKeeps, OutsideKeeps DEF Next
  <1>3. QED
    BY <1>1, <1>2

\* Every handler and every statement of the purchase transactions keeps the
\* orders, the open calls and the install counts together.
THEOREM PurchaseInvariant == PurchaseSpec => []PurchaseIInv
  BY InitIInv, NextIInv, PTL DEF PurchaseSpec

\* The purchase model is type correct for every set of calls, requests and
\* prices.
THEOREM PurchaseTypeCorrect == PurchaseSpec => []PurchaseTypeOK
  <1>1. PurchaseIInv => PurchaseTypeOK
    BY DEF PurchaseIInv
  <1>2. QED
    BY <1>1, PurchaseInvariant, PTL

\* However many calls race, however long a transaction waits between its read
\* by intent and its insert, and whatever expires meanwhile, a buyer has one
\* payable order of an item at a price.
THEOREM OneOpenOrder == PurchaseSpec => []OneOpenOrderPerIntent
  <1>1. PurchaseIInv => OneOpenOrderPerIntent
    BY DEF PurchaseIInv
  <1>2. QED
    BY <1>1, PurchaseInvariant, PTL

\* Every answer, of a replay, a reuse, an owned template, an insert or a lost
\* race, is an order of the item asked for, and of the request or the price
\* the call goes by.
THEOREM AnswersFit == PurchaseSpec => []AnswersFitTheRequest
  <1>1. PurchaseIInv => AnswersFitTheRequest
    BY DEF PurchaseIInv, CallsFit, CallFits, AnswersFitTheRequest, Idle
  <1>2. QED
    BY <1>1, PurchaseInvariant, PTL

\* The install count of a template is the number of its fulfilled orders, for
\* any number of orders, races and repeated fulfillments.
THEOREM InstallsAreCounted == PurchaseSpec => []InstallsCountFulfilled
  <1>1. PurchaseIInv => InstallsCountFulfilled
    BY DEF PurchaseIInv
  <1>2. QED
    BY <1>1, PurchaseInvariant, PTL
=============================================================================

------------------------- MODULE PhysicalOrderProofs -------------------------
(***************************************************************************)
(* PhysicalOrder implements the two specifications it composes: seen       *)
(* without the callers, every step is a step of PaymentNotify or leaves    *)
(* its variables alone, and likewise for Inventory. What is proved of      *)
(* either then holds of the composition. What only the composition can     *)
(* say, that goods that left were sold, that sold goods were paid for and  *)
(* that a payable order has its goods, takes an invariant over the callers *)
(* under way, the settlements under way and both sets of rows (GoodsInv,   *)
(* HeldInv).                                                               *)
(***************************************************************************)
EXTENDS PhysicalOrder, InventoryProofs, PaymentNotifyProofs

CallsOK == /\ at \in [Callers -> CallPlaces]
           /\ about \in [Callers -> Orders \cup {NoOrder}]
           /\ \A c \in Callers : at[c] = "idle" <=> about[c] = NoOrder

LEMMA InitCallsOK == PhysicalInit => CallsOK
  BY PhysicalAssumption DEF PhysicalInit, CallsOK, CallPlaces

LEMMA CallKeepsOK ==
  ASSUME CallsOK, NEW c \in Callers, NEW o \in Orders, NEW place \in CallPlaces \ {"idle"},
         Call(c, o, place)
  PROVE  CallsOK'
  BY PhysicalAssumption DEF CallsOK, Call

LEMMA ContinueKeepsOK ==
  ASSUME CallsOK, NEW c \in Callers, at[c] # "idle", NEW place \in CallPlaces \ {"idle"},
         Continue(c, place)
  PROVE  CallsOK'
  BY DEF CallsOK, Continue

LEMMA ReturnKeepsOK ==
  ASSUME CallsOK, NEW c \in Callers, Return(c) PROVE CallsOK'
  BY PhysicalAssumption DEF CallsOK, Return, CallPlaces

LEMMA CallStepKeepsOK ==
  ASSUME CallsOK, NEW c \in Callers, CallStep(c) PROVE CallsOK'
  <1> DEFINE places == CallPlaces \ {"idle"}
  <1>1. {"markReserved", "markFailed", "release"} \subseteq places
    BY DEF CallPlaces
  <1>2. CASE ReserveStock(c)
    BY <1>1, <1>2, ContinueKeepsOK DEF ReserveStock
  <1>3. CASE EndOrder(c)
    <2>1. at[c] # "idle" /\ GoOn(c)
      BY <1>3 DEF EndOrder
    <2>2. QED
      BY <1>1, <2>1, ContinueKeepsOK, ReturnKeepsOK DEF GoOn
  <1>4. CASE ~ReserveStock(c) /\ ~EndOrder(c)
    <2>1. Return(c)
      BY <1>4 DEF CallStep, MarkReserved, MarkFailedCheckout, ReleaseStock, ReleaseRefunded,
                  RestockStock, GiveUp
    <2>2. QED
      BY <2>1, ReturnKeepsOK
  <1>5. QED
    BY <1>2, <1>3, <1>4

LEMMA BeginCallKeepsOK ==
  ASSUME CallsOK, NEW c \in Callers, NEW o \in Orders, BeginCall(c, o) PROVE CallsOK'
  <1>1. \E place \in CallPlaces \ {"idle"} : Call(c, o, place)
    BY DEF BeginCall, Checkout, BeginEnding, BeginRefund, ReviewCompleted, CallPlaces
  <1>2. QED
    BY <1>1, CallKeepsOK

LEMMA CallsOKNext == CallsOK /\ [PhysicalNext]_allVars => CallsOK'
  <1> SUFFICES ASSUME CallsOK, [PhysicalNext]_allVars PROVE CallsOK'
    OBVIOUS
  <1>1. CASE UNCHANGED callVars
    BY <1>1 DEF callVars, CallsOK
  <1>2. QED
    BY <1>1, CallStepKeepsOK, BeginCallKeepsOK
    DEF PhysicalNext, allVars, physicalVars, ConsumeStock, ConsumeRefused, FulfillConsumed,
        AbortWorker, OpenClaim, DeliveryStep, BecomeDue, SettlementStep, StockTime

LEMMA CallsAreOK == PhysicalSpec => []CallsOK
  BY InitCallsOK, CallsOKNext, PTL DEF PhysicalSpec

-----------------------------------------------------------------------------
\* A caller under way works on an order.
LEMMA OrderOfCaller ==
  ASSUME CallsOK, NEW c \in Callers, at[c] # "idle" PROVE about[c] \in Orders
  BY DEF CallsOK

LEMMA CallStepIsSettlement ==
  ASSUME CallsOK, NEW c \in Callers, CallStep(c) PROVE [Next]_vars
  <1>1. CASE UNCHANGED rowVars
    <2>1. UNCHANGED <<paymentVars, acked, ledgerVars, workerVars>>
      BY DEF CallStep, ReserveStock, MarkReserved, MarkFailedCheckout, EndOrder,
             ReleaseStock, ReleaseRefunded, RestockStock, GiveUp, RowOnly, StockOnly,
             NothingButCalls, SettlementUnchanged
    <2>2. QED
      BY <1>1, <2>1 DEF vars
  <1>2. CASE MarkReserved(c) /\ ~UNCHANGED rowVars
    <2>1. MarkInventoryReserved(about[c]) /\ about[c] \in Orders
      BY <1>2, OrderOfCaller DEF MarkReserved
    <2>2. QED
      BY <1>2, <2>1 DEF MarkReserved, RowOnly, SettlementUnchanged, Next, OrderStep
  <1>3. CASE MarkFailedCheckout(c) /\ ~UNCHANGED rowVars
    <2>1. MarkInventoryFailed(about[c]) /\ about[c] \in Orders
      BY <1>3, OrderOfCaller DEF MarkFailedCheckout
    <2>2. QED
      BY <1>3, <2>1 DEF MarkFailedCheckout, RowOnly, SettlementUnchanged, Next, OrderStep
  <1>4. CASE EndOrder(c) /\ ~UNCHANGED rowVars
    <2>1. /\ about[c] \in Orders
          /\ \/ CancelOrder(about[c])
             \/ CloseManagementOrder(about[c])
             \/ ExpireDueOrder(about[c], \E a \in Attempts :
                  OrderOf[a] = about[c] /\ attempt[a] = "succeeded")
      BY <1>4, OrderOfCaller DEF EndOrder, Succeeded
    <2>2. QED
      BY <1>4, <2>1 DEF EndOrder, RowOnly, SettlementUnchanged, Next, OrderStep
  <1>5. CASE ReserveStock(c) \/ ReleaseStock(c) \/ ReleaseRefunded(c) \/ RestockStock(c)
               \/ GiveUp(c)
    BY <1>1, <1>5 DEF ReserveStock, ReleaseStock, ReleaseRefunded, RestockStock, GiveUp,
                      StockOnly, NothingButCalls, rowVars
  <1>6. QED
    BY <1>1, <1>2, <1>3, <1>4, <1>5 DEF CallStep

LEMMA BeginCallIsSettlement ==
  ASSUME NEW c \in Callers, NEW o \in Orders, BeginCall(c, o) PROVE [Next]_vars
  <1>1. CASE Checkout(c, o)
    BY <1>1 DEF Checkout, RowOnly, SettlementUnchanged, workerVars, paymentVars,
                vars, rowVars, Next, OrderStep
  <1>2. CASE BeginEnding(c, o) \/ BeginRefund(c, o) \/ ReviewCompleted(c, o)
    BY <1>2 DEF BeginEnding, BeginRefund, ReviewCompleted, NothingButCalls, RowOnly,
                SettlementUnchanged, workerVars, paymentVars, vars, rowVars
  <1>3. QED
    BY <1>1, <1>2 DEF BeginCall

LEMMA NextIsSettlement ==
  ASSUME CallsOK, [PhysicalNext]_allVars PROVE [Next]_vars
  <1>1. CASE UNCHANGED allVars
    BY <1>1 DEF allVars
  <1>2. ASSUME NEW w \in Workers, ConsumeStock(w) PROVE UNCHANGED vars
    BY <1>2 DEF ConsumeStock
  <1>3. ASSUME NEW w \in Workers,
               ConsumeRefused(w) \/ FulfillConsumed(w) \/ AbortWorker(w)
        PROVE  Next
    BY <1>3 DEF ConsumeRefused, FulfillConsumed, AbortWorker, Next, WorkerStep, HandlePhysical
  <1>4. ASSUME NEW o \in Orders, DeliveryStep(o) PROVE Next
    BY <1>4 DEF DeliveryStep, RowOnly, SettlementUnchanged, Next, OrderStep
  <1>5. ASSUME NEW o \in Orders, OpenClaim(o) \/ BecomeDue(o) PROVE UNCHANGED vars
    BY <1>5 DEF OpenClaim, BecomeDue, SettlementUnchanged, vars
  <1>6. CASE SettlementStep
    BY <1>6 DEF SettlementStep, Next, WorkerStep
  <1>7. CASE StockTime
    BY <1>7 DEF StockTime
  <1>8. QED
    BY <1>1, <1>2, <1>3, <1>4, <1>5, <1>6, <1>7, CallStepIsSettlement, BeginCallIsSettlement
    DEF PhysicalNext

\* The composition is a settlement pipeline: nothing a caller does to the row is
\* a step that PaymentNotify does not have.
THEOREM SettlementRefinement == PhysicalSpec => ImplementsSettlement
  <1>1. PhysicalInit => Init
    BY DEF PhysicalInit
  <1>2. QED
    BY <1>1, NextIsSettlement, CallsAreOK, PTL DEF PhysicalSpec, ImplementsSettlement, Spec

\* What PaymentNotify keeps, the composition keeps.
LEMMA SettlementTyped == PhysicalSpec => []TypeOK
  BY SettlementRefinement, PipelineTypeCorrect, PTL DEF ImplementsSettlement

LEMMA CallStepIsInventory ==
  ASSUME CallsOK, NEW c \in Callers, CallStep(c) PROVE [InventoryNext]_inventoryVars
  <1>1. at[c] # "idle" => about[c] \in Customers
    BY OrderOfCaller, PhysicalAssumption
  <1>2. CASE MarkReserved(c) \/ MarkFailedCheckout(c) \/ EndOrder(c) \/ GiveUp(c)
    BY <1>2 DEF MarkReserved, MarkFailedCheckout, EndOrder, GiveUp, NothingButCalls, RowOnly
  <1>3. CASE ReserveStock(c)
    BY <1>1, <1>3 DEF ReserveStock, InventoryNext
  <1>4. CASE ReleaseStock(c) \/ ReleaseRefunded(c)
    BY <1>1, <1>4 DEF ReleaseStock, ReleaseRefunded, InventoryNext
  <1>5. CASE RestockStock(c)
    BY <1>1, <1>5 DEF RestockStock, InventoryNext
  <1>6. QED
    BY <1>2, <1>3, <1>4, <1>5 DEF CallStep

\* The composition keeps the books of the stock: whatever the orders go through,
\* the stock sees the operations of Inventory.
THEOREM InventoryRefinement == PhysicalSpec => ImplementsInventory
  <1>1. PhysicalInit => InventoryInit
    BY DEF PhysicalInit
  <1>2. ASSUME CallsOK, TypeOK, [PhysicalNext]_allVars
        PROVE  [InventoryNext]_inventoryVars
    <2>1. CASE UNCHANGED allVars
      BY <2>1 DEF allVars
    <2>2. ASSUME NEW c \in Callers, NEW o \in Orders, BeginCall(c, o)
          PROVE  UNCHANGED inventoryVars
      BY <2>2 DEF BeginCall, Checkout, BeginEnding, BeginRefund, ReviewCompleted,
                  NothingButCalls, RowOnly
    <2>3. ASSUME NEW w \in Workers, ConsumeStock(w) PROVE [InventoryNext]_inventoryVars
      <3>1. Order(w) \in Customers
        BY <1>2, <2>3, JobOfWorker, PhysicalAssumption DEF ConsumeStock
      <3>2. QED
        BY <2>3, <3>1 DEF ConsumeStock, InventoryNext
    <2>4. ASSUME NEW w \in Workers,
                 ConsumeRefused(w) \/ FulfillConsumed(w) \/ AbortWorker(w)
          PROVE  UNCHANGED inventoryVars
      BY <2>4 DEF ConsumeRefused, FulfillConsumed, AbortWorker
    <2>5. ASSUME NEW o \in Orders, OpenClaim(o) \/ DeliveryStep(o) \/ BecomeDue(o)
          PROVE  UNCHANGED inventoryVars
      BY <2>5 DEF OpenClaim, DeliveryStep, BecomeDue, RowOnly
    <2>6. CASE SettlementStep
      BY <2>6 DEF SettlementStep
    <2>7. CASE StockTime
      BY <2>7, PhysicalAssumption DEF StockTime, InventoryNext
    <2>8. QED
      BY <1>2, <2>1, <2>2, <2>3, <2>4, <2>5, <2>6, <2>7, CallStepIsInventory
      DEF PhysicalNext
  <1>3. QED
    BY <1>1, <1>2, CallsAreOK, SettlementTyped, PTL DEF PhysicalSpec, ImplementsInventory, InventorySpec

\* Across checkout, settlement, cancellation, expiry, refund and return, with
\* every one of them interrupted anywhere, no stock appears or disappears, none
\* below the safety level is promised, the counters add up to the rows, and an
\* order's rows move together.
THEOREM PhysicalStockSafe ==
  PhysicalSpec => [](CountersMatchRows /\ StockIsConserved /\ SafetyStockIsKept /\ OrderMovesAsOne)
  BY InventoryRefinement, CountersAgree, StockConserved, SafetyStockKept, OrderAtomicity, PTL
  DEF ImplementsInventory

-----------------------------------------------------------------------------
(* Goods, payments and the calls under way.  An order is a row and some    *)
(* reservations in two stores; what relates them is what each call or      *)
(* worker under way may rely on, and that nothing undoes it.               *)

Sold == {"consumed", "restocked"}
PaidStatus == {"paid", "shipped", "completed", "closed"}
EndedStatus == {"cancelled", "closed", "expired"}

\* The row of an order whose goods may leave.
PaidRow(o) == payment[o] = "success" /\ status[o] \in PaidStatus

\* What a row shows of its payment and of its goods.
ShownOK(o) ==
  /\ payment[o] = "success" => status[o] \in PaidStatus \cup EndedStatus
  /\ fulfillment[o] \in {"awaiting_shipment", "shipped", "delivered"} => o \in fulfillmentOrders

AllSold(o) == \A l \in LinesOf(o) : line[l] \in Sold

LineOK(l) ==
  /\ line[l] \in Sold => PaidRow(LineOrder[l])
  /\ line[l] = "restocked" => LineOrder[l] \in fulfillmentOrders

\* A worker that is about to hand over found the order payable, and one that has
\* consumed the stock knows it sold.
HandlerOK(w) == /\ pc[w] = "handle" => PaidRow(Order(w))
                /\ w \in taken => pc[w] = "handle" /\ AllSold(Order(w))

\* What a call at a place may rely on.
CallOK(c) ==
  /\ at[c] # "idle" => status[about[c]] # "none"
  /\ at[c] = "restock" => about[c] \in fulfillmentOrders
  /\ at[c] = "refund" => payment[about[c]] = "success"
  /\ at[c] = "release" => status[about[c]] \in EndedStatus \/ about[c] \in claims

GoodsInv == /\ \A o \in Orders : ShownOK(o) /\ (o \in claims => status[o] # "none")
            /\ FulfilledStockIsSold
            /\ \A l \in Lines : LineOK(l)
            /\ \A w \in Workers : HandlerOK(w)
            /\ \A c \in Callers : CallOK(c)

\* What every step keeps of a row that shows the truth.
RowForward(o) ==
  /\ PaidRow(o) => PaidRow(o)'
  /\ payment[o] = "success" => payment'[o] = "success"
  /\ status[o] \in EndedStatus => status'[o] \in EndedStatus
  /\ status[o] # "none" => status'[o] # "none"
  /\ o \in fulfillmentOrders => o \in fulfillmentOrders'
  /\ ShownOK(o)'

\* The methods that change the row of a physical order.
RowMethod(o) == \/ CreateOwnerOrder(o)
                \/ MarkInventoryReserved(o)
                \/ MarkInventoryFailed(o)
                \/ MarkPaymentSucceeded(o)
                \/ MarkPaymentFailed(o, "failed")
                \/ CancelOrder(o)
                \/ CloseManagementOrder(o)
                \/ \E succeeded \in BOOLEAN : ExpireDueOrder(o, succeeded)
                \/ FulfillPhysical(o)
                \/ AdvanceToShipped(o)
                \/ ConfirmReceipt(o)

LEMMA RowMethodForward ==
  ASSUME TypeOK, NEW p \in Orders, RowMethod(p), NEW o \in Orders, ShownOK(o)
  PROVE  RowForward(o)
  <1>. USE DEF TypeOK, RowTypeOK, RowForward, ShownOK, PaidRow, PaidStatus, EndedStatus, Update
  <1>1. CASE CreateOwnerOrder(p)
    BY <1>1 DEF CreateOwnerOrder
  <1>2. CASE MarkInventoryReserved(p)
    BY <1>2 DEF MarkInventoryReserved
  <1>3. CASE MarkInventoryFailed(p)
    BY <1>3 DEF MarkInventoryFailed
  <1>4. CASE MarkPaymentSucceeded(p)
    BY <1>4 DEF MarkPaymentSucceeded, KeptBySuccess
  <1>5. CASE MarkPaymentFailed(p, "failed")
    BY <1>5 DEF MarkPaymentFailed, FailurePreserved, TerminalOrderPreserved, TerminalStatus
  <1>6. CASE CancelOrder(p)
    BY <1>6 DEF CancelOrder, Payable
  <1>7. CASE CloseManagementOrder(p)
    BY <1>7 DEF CloseManagementOrder
  <1>8. CASE \E succeeded \in BOOLEAN : ExpireDueOrder(p, succeeded)
    BY <1>8 DEF ExpireDueOrder, Payable
  <1>9. CASE FulfillPhysical(p)
    BY <1>9 DEF FulfillPhysical
  <1>10. CASE AdvanceToShipped(p)
    BY <1>10 DEF AdvanceToShipped
  <1>11. CASE ConfirmReceipt(p)
    BY <1>11 DEF ConfirmReceipt
  <1>12. QED
    BY <1>1, <1>2, <1>3, <1>4, <1>5, <1>6, <1>7, <1>8, <1>9, <1>10, <1>11 DEF RowMethod

LEMMA NextIsRowMethod ==
  ASSUME TypeOK, [Next]_vars PROVE UNCHANGED rowVars \/ \E o \in Orders : RowMethod(o)
  <1>1. CASE UNCHANGED vars
    BY <1>1 DEF vars, rowVars
  <1>2. ASSUME NEW o \in Orders, OrderStep(o) PROVE RowMethod(o)
    <2>1. CASE ExpireDueOrder(o, \E a \in Attempts : OrderOf[a] = o /\ attempt[a] = "succeeded")
      BY <2>1 DEF RowMethod, ExpireDueOrder
    <2>2. ~CreateValueOrder(o) /\ ~ExpireStaleRechargeOrder(o)
      BY PhysicalAssumption, SubjectAssumption
      DEF CreateValueOrder, ExpireStaleRechargeOrder, ValueOrders
    <2>3. QED
      BY <1>2, <2>1, <2>2 DEF OrderStep, RowMethod
  <1>3. ASSUME NEW a \in Attempts, PaymentStep(a) PROVE UNCHANGED rowVars
    BY <1>3 DEF PaymentStep, OpenPayment, CustomerPays, TryFails, ClosePayment
  <1>4. ASSUME NEW w \in Workers,
               Abort(w) \/ \E a \in Attempts : EnterPipeline(w, a)
        PROVE  UNCHANGED rowVars
    BY <1>4 DEF Abort, EnterPipeline, Receive, Sweep, Compensate, Converge, ConfirmByOperator
  <1>5. ASSUME NEW w \in Workers, WorkerStep(w)
        PROVE  UNCHANGED rowVars \/ \E o \in Orders : RowMethod(o)
    <2>1. Order(w) \in Orders /\ Order(w) \notin ValueOrders
      BY <1>5, WorkerMoves, JobOfWorker, PhysicalAssumption DEF ValueOrders
    <2>2. CASE IngestSucceeded(w) \/ IngestFailed(w) \/ Answer(w) \/ Credit(w) \/ Reverse(w)
      BY <2>2 DEF IngestSucceeded, IngestFailed, Answer, Credit, Reverse
    <2>3. CASE MarkFailed(w) \/ MarkSucceeded(w) \/ HandlePhysical(w)
      BY <2>1, <2>3 DEF MarkFailed, MarkSucceeded, HandlePhysical, FulfillOrder, StockRefused,
                        RowMethod
    <2>4. CASE HandleValue(w) \/ Reserve(w) \/ Commit(w) \/ Release(w)
      BY <2>1, <2>4 DEF HandleValue, Reserve, Commit, Release, ReserveFulfillment,
                        CommitFulfillment, ReleaseFulfillment
    <2>5. QED
      BY <1>5, <2>2, <2>3, <2>4 DEF WorkerStep
  <1>6. QED
    BY <1>1, <1>2, <1>3, <1>4, <1>5 DEF Next

LEMMA RowsGoForward ==
  ASSUME TypeOK, [Next]_vars, NEW o \in Orders, ShownOK(o) PROVE RowForward(o)
  <1>1. CASE UNCHANGED rowVars
    BY <1>1 DEF rowVars, RowForward, ShownOK, PaidRow
  <1>2. QED
    BY <1>1, NextIsRowMethod, RowMethodForward

\* A worker that is at the handler was there, or has just marked a payable order.
LEMMA ArrivalAtHandle ==
  ASSUME TypeOK, [Next]_vars, NEW w \in Workers, pc'[w] = "handle"
  PROVE  /\ job'[w] = job[w]
         /\ pc[w] = "handle" \/ MarkSucceeded(w)
  <1>. USE DEF TypeOK
  <1>1. CASE UNCHANGED workerVars
    BY <1>1 DEF workerVars
  <1>2. ASSUME NEW v \in Workers, NEW a \in Attempts, EnterPipeline(v, a)
        PROVE  pc[w] = "handle" /\ job'[w] = job[w]
    BY <1>2 DEF EnterPipeline, Receive, Sweep, Compensate, Converge, ConfirmByOperator, Start
  <1>3. ASSUME NEW v \in Workers, WorkerStep(v) \/ Abort(v), v # w
        PROVE  pc[w] = "handle" /\ job'[w] = job[w]
    BY <1>3, WorkerMoves DEF Goto, Finish
  <1>4. CASE WorkerStep(w) \/ Abort(w)
    BY <1>4
    DEF WorkerStep, IngestSucceeded, IngestFailed, MarkFailed, MarkSucceeded, HandlePhysical,
        FulfillOrder, StockRefused, HandleValue, Reserve, Credit, Commit, Compensation, Reverse,
        Release, Answer, Abort, Goto, Finish
  <1>5. QED
    BY <1>1, <1>2, <1>3, <1>4
    DEF Next, vars, OrderStep, PaymentStep, OpenPayment, CustomerPays, TryFails, ClosePayment

LEMMA MarkedIsPaid ==
  ASSUME TypeOK, NEW w \in Workers, MarkSucceeded(w), pc'[w] = "handle"
  PROVE  PaidRow(Order(w))'
  <1>1. Order(w) \in Orders /\ pc[w] # "idle"
    BY JobOfWorker DEF MarkSucceeded
  <1>2. ~TerminalOrderPreserved(Order(w)) /\ UNCHANGED job
    BY DEF MarkSucceeded, Goto, TypeOK
  <1>3. QED
    BY <1>1, <1>2
    DEF MarkSucceeded, MarkPaymentSucceeded, Update, TypeOK, RowTypeOK, PaidRow, PaidStatus,
        TerminalOrderPreserved, TerminalStatus, KeptBySuccess, Order

-----------------------------------------------------------------------------
(* Which operation may touch the stock of an order, and who calls it.      *)

StockMove(o) ==
  \/ ReserveOrder(o) /\ \E c \in Callers : at[c] = "reserve" /\ about[c] = o
  \/ ConsumeOrder(o) /\ \E w \in Workers : pc[w] = "handle" /\ Order(w) = o
  \/ ReleaseOrder(o) /\ \/ o \in sweeping
                        \/ \E c \in Callers : at[c] \in {"release", "refund"} /\ about[c] = o
  \/ RestockOrder(o) /\ \E c \in Callers : at[c] = "restock" /\ about[c] = o

LEMMA NextIsStockMove ==
  ASSUME TypeOK, CallsOK, [PhysicalNext]_allVars
  PROVE  UNCHANGED line \/ \E o \in Orders : StockMove(o)
  <1>1. CASE UNCHANGED inventoryVars
    BY <1>1 DEF inventoryVars
  <1>2. ASSUME NEW c \in Callers, CallStep(c)
        PROVE  UNCHANGED line \/ \E o \in Orders : StockMove(o)
    <2>1. at[c] # "idle" => about[c] \in Orders
      BY OrderOfCaller
    <2>2. QED
      BY <1>2, <2>1
      DEF CallStep, ReserveStock, MarkReserved, MarkFailedCheckout, EndOrder, ReleaseStock,
          ReleaseRefunded, RestockStock, GiveUp, RowOnly, NothingButCalls, inventoryVars,
          StockMove
  <1>3. ASSUME NEW w \in Workers, ConsumeStock(w)
        PROVE  UNCHANGED line \/ \E o \in Orders : StockMove(o)
    BY <1>3, JobOfWorker DEF ConsumeStock, StockMove, inventoryVars
  <1>4. CASE StockTime
    BY <1>4 DEF StockTime, Lapse, SweepRelease, SweepList, SweepCrash, StockMove
  <1>5. QED
    BY <1>1, <1>2, <1>3, <1>4
    DEF PhysicalNext, allVars, BeginCall, Checkout, BeginEnding, BeginRefund, ReviewCompleted,
        NothingButCalls, RowOnly, ConsumeRefused, FulfillConsumed, AbortWorker, OpenClaim,
        DeliveryStep, BecomeDue, SettlementStep

\* What was sold stays sold or comes back.
LEMMA SoldStaysSold ==
  ASSUME NEW l \in Lines, line[l] \in Sold, UNCHANGED line \/ \E o \in Orders : StockMove(o)
  PROVE  line'[l] \in Sold
  BY DEF Sold, StockMove, ReserveOrder, Unreserved, ConsumeOrder, ReleaseOrder, RestockOrder,
         InStatus, SetStatus


-----------------------------------------------------------------------------
(* The invariant is inductive.                                             *)

LEMMA InitGoodsInv == PhysicalInit => GoodsInv
  BY DEF PhysicalInit, Init, RowInit, InventoryInit, GoodsInv, ShownOK, FulfilledStockIsSold,
         LineOK, HandlerOK, CallOK, Sold

\* An order is handed over by a worker that has consumed its stock.
LEMMA HandedOverNext ==
  ASSUME GoodsInv, [PhysicalNext]_allVars, NEW o \in Orders, o \in fulfillmentOrders'
  PROVE  o \in fulfillmentOrders \/ \E w \in taken \cap Workers : Order(w) = o
  <1>1. CASE UNCHANGED fulfillmentOrders
    BY <1>1
  <1>2. ASSUME NEW w \in Workers, FulfillConsumed(w)
        PROVE  w \in taken /\ fulfillmentOrders' \subseteq fulfillmentOrders \cup {Order(w)}
    BY <1>2 DEF FulfillConsumed, FulfillOrder, FulfillPhysical, rowVars
  <1>3. ASSUME NEW c \in Callers, CallStep(c) PROVE UNCHANGED fulfillmentOrders
    BY <1>3
    DEF CallStep, ReserveStock, MarkReserved, MarkFailedCheckout, EndOrder, ReleaseStock,
        ReleaseRefunded, RestockStock, GiveUp, StockOnly, NothingButCalls, rowVars,
        MarkInventoryReserved, MarkInventoryFailed, CancelOrder, CloseManagementOrder,
        ExpireDueOrder
  <1>4. ASSUME NEW c \in Callers, NEW p \in Orders, BeginCall(c, p)
        PROVE  UNCHANGED fulfillmentOrders
    BY <1>4 DEF BeginCall, Checkout, BeginEnding, BeginRefund, ReviewCompleted,
                NothingButCalls, CreateOwnerOrder, rowVars
  <1>5. ASSUME NEW w \in Workers, ConsumeStock(w) \/ ConsumeRefused(w) \/ AbortWorker(w)
        PROVE  UNCHANGED fulfillmentOrders
    BY <1>5 DEF ConsumeStock, ConsumeRefused, AbortWorker, StockRefused, Abort, vars, rowVars
  <1>6. ASSUME NEW p \in Orders, OpenClaim(p) \/ DeliveryStep(p) \/ BecomeDue(p)
        PROVE  UNCHANGED fulfillmentOrders
    BY <1>6 DEF OpenClaim, DeliveryStep, BecomeDue, AdvanceToShipped, ConfirmReceipt, vars,
                rowVars
  <1>7. CASE SettlementStep
    BY <1>7
    DEF SettlementStep, PaymentStep, OpenPayment, CustomerPays, TryFails, ClosePayment,
        IngestSucceeded, IngestFailed, MarkFailed, MarkPaymentFailed, MarkSucceeded,
        MarkPaymentSucceeded, Answer, EnterPipeline, Receive, Sweep, Compensate, Converge,
        ConfirmByOperator, rowVars
  <1>8. QED
    BY <1>1, <1>2, <1>3, <1>4, <1>5, <1>6, <1>7
    DEF PhysicalNext, StockTime, allVars, vars, rowVars

\* The steps of the workers that have to do with the stock.
LEMMA TakenNext ==
  ASSUME TypeOK, GoodsInv, [PhysicalNext]_allVars, NEW w \in Workers, w \in taken'
  PROVE  /\ pc'[w] = "handle" /\ job'[w] = job[w]
         /\ w \in taken \/ ConsumeStock(w)
  <1>. USE DEF TypeOK
  <1>1. w \in taken => pc[w] = "handle"
    BY DEF GoodsInv, HandlerOK
  <1>2. CASE UNCHANGED <<workerVars, taken>>
    BY <1>1, <1>2 DEF workerVars
  <1>3. ASSUME NEW v \in Workers, ConsumeStock(v)
        PROVE  /\ pc'[w] = "handle" /\ job'[w] = job[w]
               /\ w \in taken \/ ConsumeStock(w)
    BY <1>1, <1>3 DEF ConsumeStock, vars, workerVars
  <1>4. ASSUME NEW v \in Workers, ConsumeRefused(v) \/ FulfillConsumed(v) \/ AbortWorker(v)
        PROVE  w \in taken /\ pc'[w] = "handle" /\ job'[w] = job[w]
    BY <1>1, <1>4 DEF ConsumeRefused, FulfillConsumed, AbortWorker, StockRefused, FulfillOrder,
                      Abort, Finish, Goto, physicalVars
  <1>5. CASE SettlementStep
    <2>1. w \in taken /\ pc[w] = "handle"
      BY <1>1, <1>5 DEF SettlementStep, physicalVars
    <2>2. QED
      BY <1>5, <2>1
      DEF SettlementStep, PaymentStep, OpenPayment, CustomerPays, TryFails, ClosePayment,
          IngestSucceeded, IngestFailed, MarkFailed, MarkSucceeded, Answer, EnterPipeline,
          Receive, Sweep, Compensate, Converge, ConfirmByOperator, Start, Goto, Finish,
          workerVars
  <1>6. QED
    BY <1>2, <1>3, <1>4, <1>5
    DEF PhysicalNext, allVars, vars, physicalVars, CallStep, ReserveStock, MarkReserved,
        MarkFailedCheckout, EndOrder, ReleaseStock, ReleaseRefunded, RestockStock, GiveUp,
        BeginCall, Checkout, BeginEnding, BeginRefund, ReviewCompleted, OpenClaim, DeliveryStep,
        BecomeDue, StockTime, RowOnly, StockOnly, NothingButCalls, SettlementUnchanged

\* Where a call may arrive, and what it saw when it did.
LEMMA CallArrives ==
  ASSUME CallsOK, [PhysicalNext]_allVars, NEW c \in Callers, at'[c] # "idle"
  PROVE  \/ at'[c] = at[c] /\ about'[c] = about[c]
         \/ /\ at[c] # "idle" /\ about'[c] = about[c]
            /\ \/ at'[c] = "markFailed" /\ at[c] = "reserve"
               \/ at'[c] = "markReserved" /\ ReserveStock(c)
               \/ at'[c] = "release" /\ EndOrder(c)
         \/ \E o \in Orders : about'[c] = o /\ BeginCall(c, o)
  <1>1. CASE UNCHANGED callVars
    BY <1>1 DEF callVars
  <1>2. ASSUME NEW d \in Callers, d # c, CallStep(d) \/ \E o \in Orders : BeginCall(d, o)
        PROVE  at'[c] = at[c] /\ about'[c] = about[c]
    BY <1>2
    DEF CallsOK, CallStep, ReserveStock, MarkReserved, MarkFailedCheckout, EndOrder, GoOn,
        ReleaseStock, ReleaseRefunded, RestockStock, GiveUp, BeginCall, Checkout, BeginEnding,
        BeginRefund, ReviewCompleted, Call, Continue, Return
  <1>3. ASSUME CallStep(c)
        PROVE  /\ at[c] # "idle" /\ about'[c] = about[c]
               /\ \/ at'[c] = "markFailed" /\ at[c] = "reserve"
                  \/ at'[c] = "markReserved" /\ ReserveStock(c)
                  \/ at'[c] = "release" /\ EndOrder(c)
    <2>1. ~Return(c)
      BY DEF CallsOK, Return
    <2>2. ReserveStock(c) \/ EndOrder(c)
      BY <1>3, <2>1 DEF CallStep, MarkReserved, MarkFailedCheckout, ReleaseStock,
                        ReleaseRefunded, RestockStock, GiveUp
    <2>3. CASE ReserveStock(c)
      BY <2>3 DEF CallsOK, ReserveStock, Continue
    <2>4. CASE EndOrder(c)
      BY <2>1, <2>4 DEF CallsOK, EndOrder, GoOn, Continue
    <2>5. QED
      BY <2>2, <2>3, <2>4
  <1>4. ASSUME NEW o \in Orders, BeginCall(c, o) PROVE about'[c] = o
    BY <1>4 DEF CallsOK, BeginCall, Checkout, BeginEnding, BeginRefund, ReviewCompleted, Call
  <1>5. QED
    BY <1>1, <1>2, <1>3, <1>4
    DEF PhysicalNext, allVars, physicalVars, ConsumeStock, ConsumeRefused, FulfillConsumed,
        AbortWorker, OpenClaim, DeliveryStep, BecomeDue, SettlementStep, StockTime, RowOnly


\* Requests stay, and only an order that is there has one.
LEMMA ClaimsGrow ==
  ASSUME [PhysicalNext]_allVars
  PROVE  /\ claims \subseteq claims' /\ due \subseteq due'
         /\ \A o \in claims' : o \in claims \/ status[o] # "none"
  BY DEF PhysicalNext, allVars, physicalVars, CallStep, ReserveStock, MarkReserved,
         MarkFailedCheckout, EndOrder, ReleaseStock, ReleaseRefunded, RestockStock, GiveUp,
         BeginCall, Checkout, BeginEnding, BeginRefund, ReviewCompleted, OpenClaim, DeliveryStep,
         BecomeDue, StockTime, SettlementStep, ConsumeStock, ConsumeRefused, FulfillConsumed,
         AbortWorker, RowOnly, StockOnly, NothingButCalls

LEMMA EndedByCall ==
  ASSUME TypeOK, CallsOK, NEW c \in Callers, EndOrder(c)
  PROVE  status'[about[c]] \in EndedStatus
  <1>1. about[c] \in Orders
    BY OrderOfCaller DEF EndOrder
  <1>2. QED
    BY <1>1
    DEF EndOrder, CancelOrder, CloseManagementOrder, ExpireDueOrder, Update, rowVars, TypeOK,
        RowTypeOK, EndedStatus

LEMMA ConsumedIsSold ==
  ASSUME NEW o, ConsumeOrder(o) PROVE AllSold(o)'
  BY DEF ConsumeOrder, AllSold, LinesOf, InStatus, SetStatus, Sold

LEMMA LineOKNext ==
  ASSUME TypeOK, CallsOK, GoodsInv, [PhysicalNext]_allVars, \A o \in Orders : RowForward(o),
         NEW l \in Lines
  PROVE  LineOK(l)'
  <1>1. LineOrder[l] \in Orders /\ LineOK(l)
    BY PhysicalAssumption DEF GoodsInv, Customers
  <1>2. CASE line'[l] = line[l]
    BY <1>1, <1>2 DEF LineOK, RowForward
  <1>3. CASE line'[l] # line[l]
    <2>1. PICK o \in Orders : StockMove(o)
      BY <1>3, NextIsStockMove
    <2>2. CASE ReserveOrder(o) \/ ReleaseOrder(o)
      BY <1>3, <2>2 DEF LineOK, Sold, ReserveOrder, ReleaseOrder, SetStatus
    <2>3. CASE ConsumeOrder(o) /\ \E w \in Workers : pc[w] = "handle" /\ Order(w) = o
      <3>1. PaidRow(o)'
        BY <2>3 DEF GoodsInv, HandlerOK, RowForward
      <3>2. line'[l] = "consumed" /\ LineOrder[l] = o
        BY <1>3, <2>3 DEF ConsumeOrder, SetStatus, InStatus, LinesOf
      <3>3. QED
        BY <3>1, <3>2 DEF LineOK, PaidRow
    <2>4. CASE RestockOrder(o) /\ \E c \in Callers : at[c] = "restock" /\ about[c] = o
      <3>1. o \in fulfillmentOrders'
        BY <2>4 DEF GoodsInv, CallOK, RowForward
      <3>2. line[l] = "consumed" /\ line'[l] = "restocked" /\ LineOrder[l] = o
        BY <1>3, <2>4 DEF RestockOrder, SetStatus, InStatus, LinesOf
      <3>3. PaidRow(o)'
        BY <1>1, <3>2 DEF LineOK, Sold, RowForward
      <3>4. QED
        BY <3>1, <3>2, <3>3 DEF LineOK, PaidRow
    <2>5. QED
      BY <2>1, <2>2, <2>3, <2>4 DEF StockMove
  <1>4. QED
    BY <1>2, <1>3

LEMMA HandlerOKNext ==
  ASSUME TypeOK, CallsOK, GoodsInv, [PhysicalNext]_allVars, [Next]_vars,
         \A o \in Orders : RowForward(o),
         NEW w \in Workers
  PROVE  HandlerOK(w)'
  <1>1. HandlerOK(w)
    BY DEF GoodsInv
  <1>2. ASSUME pc'[w] = "handle" PROVE PaidRow(Order(w))'
    <2>1. job'[w] = job[w] /\ (pc[w] = "handle" \/ MarkSucceeded(w))
      BY <1>2, ArrivalAtHandle
    <2>2. CASE pc[w] = "handle"
      <3>1. Order(w) \in Orders /\ PaidRow(Order(w))
        BY <1>1, <2>2, JobOfWorker DEF HandlerOK
      <3>2. QED
        BY <2>1, <3>1 DEF RowForward, Order, PaidRow
    <2>3. CASE MarkSucceeded(w)
      BY <1>2, <2>3, MarkedIsPaid DEF Order
    <2>4. QED
      BY <2>1, <2>2, <2>3
  <1>3. ASSUME w \in taken' PROVE pc'[w] = "handle" /\ AllSold(Order(w))'
    <2>1. /\ pc'[w] = "handle" /\ job'[w] = job[w]
          /\ w \in taken \/ ConsumeStock(w)
      BY <1>3, TakenNext
    <2>2. UNCHANGED line \/ \E o \in Orders : StockMove(o)
      BY NextIsStockMove
    <2>3. CASE AllSold(Order(w))
      <3>1. \A l \in LinesOf(Order(w)) : line'[l] \in Sold
        BY <2>2, <2>3, SoldStaysSold DEF AllSold, LinesOf
      <3>2. QED
        BY <2>1, <3>1 DEF AllSold, Order
    <2>4. CASE ConsumeStock(w) /\ ~AllSold(Order(w))
      <3>1. ConsumeOrder(Order(w))
        BY <2>4 DEF ConsumeStock, AllSold, Sold, InStatus
      <3>2. \A l \in LinesOf(Order(w)) : line'[l] \in Sold
        BY <3>1, ConsumedIsSold DEF AllSold, LinesOf, Order
      <3>3. QED
        BY <2>1, <3>2 DEF AllSold, Order
    <2>5. QED
      BY <1>1, <2>1, <2>3, <2>4 DEF HandlerOK
  <1>4. QED
    BY <1>2, <1>3 DEF HandlerOK, Order

LEMMA CallOKNext ==
  ASSUME TypeOK, CallsOK, CallsOK', GoodsInv, [PhysicalNext]_allVars,
         \A o \in Orders : RowForward(o),
         NEW c \in Callers
  PROVE  CallOK(c)'
  <1>1. CASE at'[c] = "idle"
    BY <1>1 DEF CallOK
  <1>2. CASE at'[c] = at[c] /\ about'[c] = about[c] /\ at[c] # "idle"
    <2>1. about[c] \in Orders /\ CallOK(c)
      BY <1>2, OrderOfCaller DEF GoodsInv
    <2>2. QED
      BY <1>2, <2>1, ClaimsGrow DEF CallOK, RowForward
  <1>3. ASSUME at[c] # "idle", about'[c] = about[c],
               \/ at'[c] \in {"markFailed", "markReserved"}
               \/ at'[c] = "release" /\ EndOrder(c)
        PROVE  CallOK(c)'
    <2>1. about[c] \in Orders /\ CallOK(c)
      BY <1>3, OrderOfCaller DEF GoodsInv
    <2>2. QED
      BY <1>3, <2>1, EndedByCall DEF CallOK, RowForward
  <1>4. ASSUME NEW o \in Orders, about'[c] = o, BeginCall(c, o), at'[c] # "idle"
        PROVE  CallOK(c)'
    <2>1. ShownOK(o) /\ RowForward(o) /\ (o \in claims => status[o] # "none")
      BY DEF GoodsInv
    <2>2. CASE Checkout(c, o)
      <3>1. at'[c] = "reserve" /\ status'[o] # "none"
        BY <2>2 DEF Checkout, Call, CallsOK, CreateOwnerOrder, Update, TypeOK, RowTypeOK, rowVars
      <3>2. QED
        BY <1>4, <3>1 DEF CallOK
    <2>3. CASE BeginEnding(c, o)
      <3>1. at'[c] \in {"cancel", "close", "expire"} /\ status[o] # "none"
        BY <2>3 DEF BeginEnding, Call, CallsOK
      <3>2. QED
        BY <1>4, <2>1, <3>1 DEF CallOK, RowForward
    <2>4. CASE BeginRefund(c, o)
      <3>1. at'[c] = "refund" /\ payment[o] = "success" /\ status[o] # "none"
        BY <2>1, <2>4 DEF BeginRefund, Call, CallsOK, ShownOK, PaidStatus, EndedStatus
      <3>2. QED
        BY <1>4, <2>1, <3>1 DEF CallOK, RowForward
    <2>5. CASE ReviewCompleted(c, o)
      <3>1. o \in claims' /\ status[o] # "none"
        BY <2>1, <2>5, ClaimsGrow DEF ReviewCompleted
      <3>2. \/ at'[c] = "release"
            \/ at'[c] = "restock" /\ o \in fulfillmentOrders
        BY <2>1, <2>5 DEF ReviewCompleted, Call, CallsOK, ShownOK
      <3>3. QED
        BY <1>4, <2>1, <3>1, <3>2 DEF CallOK, RowForward
    <2>6. QED
      BY <1>4, <2>2, <2>3, <2>4, <2>5 DEF BeginCall
  <1>5. QED
    BY <1>1, <1>2, <1>3, <1>4, CallArrives

LEMMA NextGoodsInv ==
  ASSUME TypeOK, CallsOK, GoodsInv, [PhysicalNext]_allVars PROVE GoodsInv'
  <1>1. [Next]_vars /\ CallsOK'
    BY NextIsSettlement, CallsOKNext
  <1>2. \A o \in Orders : RowForward(o)
    BY <1>1, RowsGoForward DEF GoodsInv
  <1>3. \A o \in Orders : ShownOK(o)' /\ (o \in claims' => status'[o] # "none")
    BY <1>2, ClaimsGrow DEF GoodsInv, RowForward
  <1>4. FulfilledStockIsSold'
    <2>1. ASSUME NEW o \in Orders, o \in fulfillmentOrders' PROVE AllSold(o)
      BY <2>1, HandedOverNext DEF GoodsInv, FulfilledStockIsSold, HandlerOK, AllSold, Sold
    <2>2. UNCHANGED line \/ \E o \in Orders : StockMove(o)
      BY NextIsStockMove
    <2>3. \A o \in Orders : o \in fulfillmentOrders' => \A l \in LinesOf(o) : line'[l] \in Sold
      BY <2>1, <2>2, SoldStaysSold DEF AllSold, LinesOf
    <2>4. QED
      BY <2>3 DEF FulfilledStockIsSold, Sold, LinesOf
  <1>5. QED
    BY <1>1, <1>2, <1>3, <1>4, LineOKNext, HandlerOKNext, CallOKNext DEF GoodsInv

\* Orders, stock and calls under way agree.
THEOREM GoodsInvariant == PhysicalSpec => []GoodsInv
  BY InitGoodsInv, NextGoodsInv, CallsAreOK, SettlementTyped, PTL DEF PhysicalSpec

\* Goods in a fulfillment order are sold or came back after the sale: no sweep,
\* cancellation, refund or review that ran late has released them.
THEOREM ShippedGoodsAreSold == PhysicalSpec => []FulfilledStockIsSold
  <1>1. GoodsInv => FulfilledStockIsSold
    BY DEF GoodsInv
  <1>2. QED
    BY <1>1, GoodsInvariant, PTL

\* Stock is sold only for a paid order that was neither cancelled nor expired, and
\* comes back only after it was handed over.
THEOREM SoldGoodsArePaid == PhysicalSpec => []SoldStockIsPaid
  <1>1. GoodsInv => SoldStockIsPaid
    BY DEF GoodsInv, LineOK, SoldStockIsPaid, PaidRow, PaidStatus, Sold
  <1>2. QED
    BY <1>1, GoodsInvariant, PTL


-----------------------------------------------------------------------------
(* The stock of an order that can still be paid for, when reservations     *)
(* outlive the payment window: only an order that is due, or that has an   *)
(* after-sales request, loses its reservation before it is paid.           *)

Pending == {"pending_inventory", "pending_payment"}
Wanting(o) == status[o] \in Pending /\ o \notin due \cup claims
AllReserved(o) == \A l \in LinesOf(o) : line[l] = "reserved"
Activated(o) == status[o] \in Payable /\ RequiresRelease(o)

\* Only what is due lapses.
WindowOK == /\ sweeping \subseteq due
            /\ \A l \in lapsed : LineOrder[l] \in due

\* A call about to activate an order has found, or made, its reservation.
ActivatorOK(c) == at[c] = "markReserved" /\ Wanting(about[c]) => AllReserved(about[c])

HeldInv == /\ WindowOK
           /\ \A o \in Orders : Activated(o) /\ Wanting(o) => AllReserved(o)
           /\ \A c \in Callers : ActivatorOK(c)

LEMMA InitHeldInv == PhysicalInit => HeldInv
  BY DEF PhysicalInit, Init, RowInit, InventoryInit, HeldInv, WindowOK, ActivatorOK, Wanting,
         Pending

LEMMA WindowOKNext ==
  ASSUME ~LongWindow, WindowOK, CallsOK, [PhysicalNext]_allVars PROVE WindowOK'
  <1>1. due \subseteq due'
    BY ClaimsGrow
  <1>2. CASE UNCHANGED <<lapsed, sweeping>>
    BY <1>1, <1>2 DEF WindowOK
  <1>3. CASE StockTime
    BY <1>1, <1>3 DEF StockTime, Lapse, SweepRelease, ReleaseOrder, SweepList, SweepCrash,
                      WindowOK, LinesOf, physicalVars
  <1>4. ASSUME NEW c \in Callers, CallStep(c) PROVE UNCHANGED <<lapsed, sweeping>>
    BY <1>4
    DEF CallStep, ReserveStock, MarkReserved, MarkFailedCheckout, EndOrder, ReleaseStock,
        ReleaseRefunded, RestockStock, GiveUp, RowOnly, NothingButCalls, inventoryVars,
        ReserveOrder, ReleaseOrder, RestockOrder
  <1>5. ASSUME NEW w \in Workers, ConsumeStock(w) PROVE UNCHANGED <<lapsed, sweeping>>
    BY <1>5 DEF ConsumeStock, ConsumeOrder, inventoryVars
  <1>6. QED
    BY <1>2, <1>3, <1>4, <1>5
    DEF PhysicalNext, allVars, inventoryVars, BeginCall, Checkout, BeginEnding, BeginRefund,
        ReviewCompleted, NothingButCalls, RowOnly, ConsumeRefused, FulfillConsumed, AbortWorker,
        OpenClaim, DeliveryStep, BecomeDue, SettlementStep

\* Nobody touches the reservation of an order that wants it.
LEMMA ReservedStays ==
  ASSUME TypeOK, CallsOK, GoodsInv, WindowOK, [PhysicalNext]_allVars,
         NEW o \in Orders, Wanting(o), AllReserved(o)
  PROVE  AllReserved(o)'
  <1>1. /\ status[o] \notin PaidStatus \cup EndedStatus /\ payment[o] # "success"
        /\ o \notin due \cup claims
    BY DEF Wanting, Pending, PaidStatus, EndedStatus, GoodsInv, ShownOK
  <1>2. CASE UNCHANGED line
    BY <1>2 DEF AllReserved, LinesOf
  <1>3. ASSUME NEW p \in Orders, StockMove(p) PROVE AllReserved(o)'
    <2>1. CASE p # o
      BY <1>3, <2>1 DEF StockMove, ReserveOrder, ConsumeOrder, ReleaseOrder, RestockOrder,
                        InStatus, SetStatus, LinesOf, AllReserved
    <2>2. CASE p = o
      <3>1. ~ReserveOrder(o) /\ ~RestockOrder(o)
        BY DEF ReserveOrder, RestockOrder, Unreserved, InStatus, AllReserved
      <3>2. ~ \E w \in Workers : pc[w] = "handle" /\ Order(w) = o
        BY <1>1 DEF GoodsInv, HandlerOK, PaidRow
      <3>3. o \notin sweeping
        BY <1>1 DEF WindowOK
      <3>4. ~ \E c \in Callers : at[c] \in {"release", "refund"} /\ about[c] = o
        BY <1>1 DEF GoodsInv, CallOK
      <3>5. QED
        BY <1>3, <2>2, <3>1, <3>2, <3>3, <3>4 DEF StockMove
    <2>3. QED
      BY <2>1, <2>2
  <1>4. QED
    BY <1>2, <1>3, NextIsStockMove

\* An order that wants its stock after a step wanted it before, or is new.
LEMMA PendingNext ==
  ASSUME TypeOK, [Next]_vars, NEW o \in Orders, status'[o] \in Pending
  PROVE  status[o] \in Pending \cup {"none"}
  <1>1. CASE UNCHANGED rowVars
    BY <1>1 DEF rowVars
  <1>2. ASSUME NEW p \in Orders, RowMethod(p) PROVE status[o] \in Pending \cup {"none"}
    BY <1>2
    DEF RowMethod, CreateOwnerOrder, MarkInventoryReserved, MarkInventoryFailed,
        MarkPaymentSucceeded, MarkPaymentFailed, CancelOrder, CloseManagementOrder,
        ExpireDueOrder, FulfillPhysical, AdvanceToShipped, ConfirmReceipt, Update, TypeOK,
        RowTypeOK, Pending, KeptBySuccess
  <1>3. QED
    BY <1>1, <1>2, NextIsRowMethod

\* An order is activated by the call that reserved its stock.
LEMMA ActivatedNext ==
  ASSUME TypeOK, CallsOK, [PhysicalNext]_allVars, NEW o \in Orders, Activated(o)', ~Activated(o)
  PROVE  \E c \in Callers : at[c] = "markReserved" /\ about[c] = o /\ status[o] \in Pending
  <1>. USE DEF Activated, RequiresRelease, Payable, TypeOK, RowTypeOK, Update
  <1>1. ~UNCHANGED rowVars
    BY DEF rowVars
  <1>2. ASSUME NEW c \in Callers, MarkReserved(c)
        PROVE  at[c] = "markReserved" /\ about[c] = o /\ status[o] \in Pending
    <2>1. about[c] \in Orders
      BY <1>2, OrderOfCaller DEF MarkReserved
    <2>2. QED
      BY <1>1, <1>2, <2>1 DEF MarkReserved, MarkInventoryReserved, Pending
  <1>3. ASSUME NEW c \in Callers, MarkFailedCheckout(c) \/ EndOrder(c) PROVE FALSE
    <2>1. about[c] \in Orders
      BY <1>3, OrderOfCaller DEF MarkFailedCheckout, EndOrder
    <2>2. QED
      BY <1>1, <1>3, <2>1 DEF MarkFailedCheckout, MarkInventoryFailed, EndOrder, CancelOrder,
                              CloseManagementOrder, ExpireDueOrder
  <1>4. ASSUME NEW c \in Callers,
               ReserveStock(c) \/ ReleaseStock(c) \/ ReleaseRefunded(c) \/ RestockStock(c)
                 \/ GiveUp(c)
        PROVE  FALSE
    BY <1>1, <1>4 DEF ReserveStock, ReleaseStock, ReleaseRefunded, RestockStock, GiveUp,
                      StockOnly, NothingButCalls, rowVars
  <1>5. ASSUME NEW c \in Callers, NEW p \in Orders, BeginCall(c, p) PROVE FALSE
    BY <1>1, <1>5 DEF BeginCall, Checkout, CreateOwnerOrder, BeginEnding, BeginRefund,
                      ReviewCompleted, NothingButCalls, rowVars
  <1>6. ASSUME NEW w \in Workers,
               ConsumeStock(w) \/ ConsumeRefused(w) \/ FulfillConsumed(w) \/ AbortWorker(w)
        PROVE  FALSE
    BY <1>1, <1>6 DEF ConsumeStock, ConsumeRefused, StockRefused, FulfillConsumed, FulfillOrder,
                      FulfillPhysical, AbortWorker, Abort, vars, rowVars
  <1>7. ASSUME NEW p \in Orders, OpenClaim(p) \/ DeliveryStep(p) \/ BecomeDue(p) PROVE FALSE
    BY <1>1, <1>7 DEF OpenClaim, DeliveryStep, AdvanceToShipped, ConfirmReceipt, BecomeDue,
                      vars, rowVars
  <1>8. CASE SettlementStep
    <2>1. PICK w \in Workers : MarkFailed(w) \/ MarkSucceeded(w)
      BY <1>1, <1>8
      DEF SettlementStep, PaymentStep, OpenPayment, CustomerPays, TryFails, ClosePayment,
          IngestSucceeded, IngestFailed, Answer, EnterPipeline, Receive, Sweep, Compensate,
          Converge, ConfirmByOperator, rowVars
    <2>2. Order(w) \in Orders
      BY <2>1, JobOfWorker DEF MarkFailed, MarkSucceeded
    <2>3. QED
      BY <1>1, <2>1, <2>2 DEF MarkFailed, MarkPaymentFailed, MarkSucceeded,
                              MarkPaymentSucceeded, KeptBySuccess, rowVars
  <1>9. QED
    BY <1>1, <1>2, <1>3, <1>4, <1>5, <1>6, <1>7, <1>8
    DEF PhysicalNext, CallStep, StockTime, allVars, vars, rowVars

\* A call that goes on to activate the order has its reservation.
LEMMA ReservedByCall ==
  ASSUME GoodsInv, NEW c \in Callers, about[c] \in Orders, ReserveStock(c),
         at'[c] = "markReserved", status[about[c]] \in Pending, CallsOK
  PROVE  \A l \in LinesOf(about[c]) : line'[l] = "reserved"
  <1>1. CASE ReserveOrder(about[c])
    BY <1>1 DEF ReserveOrder, SetStatus, LinesOf
  <1>2. CASE UNCHANGED inventoryVars /\ \A l \in LinesOf(about[c]) : line[l] \in {"reserved", "consumed"}
    BY <1>2 DEF inventoryVars, GoodsInv, LineOK, Sold, PaidRow, PaidStatus, Pending, LinesOf
  <1>3. QED
    BY <1>1, <1>2 DEF ReserveStock, Continue, CallsOK

LEMMA NextHeldInv ==
  ASSUME ~LongWindow, TypeOK, CallsOK, GoodsInv, HeldInv, [PhysicalNext]_allVars
  PROVE  HeldInv'
  <1>1. [Next]_vars /\ CallsOK'
    BY NextIsSettlement, CallsOKNext
  <1>2. \A o \in Orders : Wanting(o)' /\ status[o] # "none" => Wanting(o)
    BY <1>1, PendingNext, ClaimsGrow DEF Wanting
  <1>3. WindowOK'
    BY WindowOKNext DEF HeldInv
  <1>4. ASSUME NEW o \in Orders, Activated(o)', Wanting(o)' PROVE AllReserved(o)'
    <2>1. CASE Activated(o)
      <3>1. Wanting(o)
        BY <1>2, <1>4, <2>1 DEF Activated, Payable
      <3>2. QED
        BY <2>1, <3>1, ReservedStays DEF HeldInv
    <2>2. CASE ~Activated(o)
      <3>1. PICK c \in Callers : at[c] = "markReserved" /\ about[c] = o /\ status[o] \in Pending
        BY <1>4, <2>2, ActivatedNext
      <3>2. Wanting(o)
        BY <1>2, <1>4, <3>1 DEF Pending
      <3>3. QED
        BY <3>1, <3>2, ReservedStays DEF HeldInv, ActivatorOK
    <2>3. QED
      BY <2>1, <2>2
  <1>5. ASSUME NEW c \in Callers, at'[c] = "markReserved", NEW o \in Orders, about'[c] = o,
               Wanting(o)'
        PROVE  AllReserved(o)'
    <2>1. about[c] = o /\ at[c] # "idle" /\ (at[c] = "markReserved" \/ ReserveStock(c))
      <3>1. ASSUME NEW p \in Orders, BeginCall(c, p) PROVE FALSE
        BY <1>5, <3>1 DEF BeginCall, Checkout, BeginEnding, BeginRefund, ReviewCompleted, Call,
                          CallsOK
      <3>2. QED
        BY <1>5, <3>1, CallArrives
    <2>2. Wanting(o)
      BY <1>2, <1>5, <2>1 DEF GoodsInv, CallOK
    <2>3. CASE at[c] = "markReserved"
      BY <2>1, <2>2, <2>3, ReservedStays DEF HeldInv, ActivatorOK
    <2>4. CASE ReserveStock(c)
      BY <1>5, <2>1, <2>2, <2>4, ReservedByCall DEF Wanting, AllReserved, LinesOf
    <2>5. QED
      BY <2>1, <2>3, <2>4
  <1>6. \A c \in Callers : at'[c] = "markReserved" => about'[c] \in Orders
    BY <1>1 DEF CallsOK
  <1>7. QED
    BY <1>3, <1>4, <1>5, <1>6 DEF HeldInv, ActivatorOK

\* Where reservations outlive the payment window, an order that can still be paid
\* for in its window, and has no after-sales request, has all its stock reserved.
THEOREM PayableGoodsAreReserved ==
  ASSUME ~LongWindow PROVE PhysicalSpec => []PayableOrderHasStock
  <1>1. PhysicalInit => HeldInv
    BY InitHeldInv
  <1>2. TypeOK /\ CallsOK /\ GoodsInv /\ HeldInv /\ [PhysicalNext]_allVars => HeldInv'
    BY NextHeldInv
  <1>3. HeldInv => PayableOrderHasStock
    BY DEF HeldInv, Wanting, Activated, AllReserved, PayableOrderHasStock, Payable, Pending,
           InStatus, LinesOf
  <1>4. QED
    BY <1>1, <1>2, <1>3, GoodsInvariant, CallsAreOK, SettlementTyped, PTL DEF PhysicalSpec

-----------------------------------------------------------------------------
\* What the settlement keeps, the composition keeps: nothing is handed over that
\* was not collected, a settlement that was answered is recorded, and an order
\* that ended before its payment is never fulfilled.
THEOREM PhysicalMoneySafe ==
  PhysicalSpec => [](/\ NothingForFree
                     /\ AcknowledgedIsRecorded
                     /\ Lifecycle!LatePaymentIsAudited
                     /\ Lifecycle!LatePaymentIsNeverFulfilled)
  BY SettlementRefinement, NothingIsForFree, AcknowledgedRecorded, LifecycleSafety, PTL
  DEF ImplementsSettlement

=============================================================================

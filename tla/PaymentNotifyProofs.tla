------------------------- MODULE PaymentNotifyProofs -------------------------
(***************************************************************************)
(* The settlement pipeline implements OrderLifecycle and hands over        *)
(* nothing that was not paid for, for any number of orders, attempts,      *)
(* workers and aborts.  The two go together: that the pipeline refines the *)
(* lifecycle rests on the lifecycle's own invariant (a points order being  *)
(* handled already shows its payment), so the inductive invariant is that  *)
(* of OrderLifecycleProofs, seen through the refinement mapping, with      *)
(* what the pipeline adds.  The value sagas are safe because the mark that *)
(* sends a worker into the fulfillment finds a value order payable at most *)
(* once: no order is ever handled by two workers.                          *)
(***************************************************************************)
EXTENDS PaymentNotify, TLAPS

\* The refinement mapping of Lifecycle, by name.
Open == {OrderOf[a] : a \in {b \in Attempts : attempt[b] # "none"}}
Recorded == {OrderOf[a] : a \in {b \in Attempts : attempt[b] = "succeeded"}}
Settling == {OrderOf[job[w]] : w \in {v \in Workers : pc[v] \in Handling}}

Rows == INSTANCE OrderLifecycleProofs
          WITH open <- Open, recorded <- Recorded, settling <- Settling

-----------------------------------------------------------------------------
(* What the pipeline adds to the lifecycle's invariant.                    *)

Collected(o) == \E a \in Attempts : OrderOf[a] = o /\ psp[a] = "paid"

\* A trade, a notice and a success each come after what they are about.
PaymentsOK ==
  /\ \A a \in Attempts : psp[a] # "none" => attempt[a] # "none"
  /\ \A a \in Attempts, r \in Results : <<a, r>> \in notices => attempt[a] # "none"
  /\ \A a \in Attempts : <<a, "succeeded">> \in notices => psp[a] = "paid"
  /\ \A a \in Attempts : attempt[a] = "succeeded" => Collected(OrderOf[a])

Marking == {"markSucceeded", "answerLate"} \cup Handling

\* What a worker at a place may rely on.
PlaceOK(w) ==
  /\ pc[w] # "idle" => attempt[job[w]] # "none"
  /\ pc[w] = "ingestSucceeded" => Collected(Order(w))
  /\ pc[w] \in Marking => attempt[job[w]] = "succeeded"
  /\ pc[w] = "answerLate" => payment[Order(w)] = "success"

PlacesOK == \A w \in Workers : PlaceOK(w)

PipelineInv == TypeOK /\ PaymentsOK /\ PlacesOK /\ AcknowledgedIsRecorded /\ Rows!IInv

\* A value order is handled by one worker, and by none before it was paid.
OneHandler ==
  \A v, w \in Workers :
    (pc[v] \in Handling /\ pc[w] \in Handling /\ Order(v) = Order(w)
       /\ Order(v) \notin Physical) => v = w

SagaPlaces == Handling \ {"handle", "answer"}

\* Nothing of the saga has happened to o.
Untouched(o) == /\ ledger[o] = {}
                /\ o \notin lost
                /\ fulfillment[o] \in {"none", "unfulfilled"}

ValueRowOK(o) ==
  /\ status[o] \in {"none", "pending_payment", "paid", "cancelled", "closed", "expired"}
  /\ fulfillment[o] \in {"none", "unfulfilled", "processing", "fulfilled"}
  /\ status[o] \in {"none", "pending_payment"} => Untouched(o)

GoodsRowOK(o) == ledger[o] = {} /\ fulfillment[o] \notin {"processing", "fulfilled"}

\* What FulfilledMeansCredited and CompensatedIsUnfulfilled say of one order.
LedgerOK(o) ==
  /\ o \notin lost /\ fulfillment[o] = "fulfilled" => ledger[o] = {"credit"}
  /\ "reversal" \in ledger[o] =>
       "credit" \in ledger[o] /\ (o \notin lost => fulfillment[o] \in {"processing", "unfulfilled"})

OrderOK(o) == /\ o \in ValueOrders => ValueRowOK(o)
              /\ o \in Physical => GoodsRowOK(o)
              /\ LedgerOK(o)

\* How far the ledger and the row are when the saga is at a place.
AtPlace(place, o) ==
  /\ place \in SagaPlaces => o \in ValueOrders
  /\ place = "handle" /\ o \in ValueOrders => Untouched(o)
  /\ place = "reserve" => Untouched(o)
  /\ place = "credit" => ledger[o] = {} /\ o \notin lost /\ fulfillment[o] = "processing"
  /\ place = "commit" =>
       ledger[o] = {"credit"} /\ o \notin lost /\ fulfillment[o] = "processing"
  /\ place # "commitReplayed"
  /\ place = "reverse" =>
       ledger[o] = {"credit"} /\ (o \notin lost => fulfillment[o] = "processing")
  /\ place = "release" => (o \notin lost => fulfillment[o] = "processing")

SagaOK == \A w \in Workers : pc[w] \in Handling => AtPlace(pc[w], Order(w))

SagaInv == /\ PipelineInv
           /\ OneHandler
           /\ SagaOK
           /\ \A o \in Orders : OrderOK(o)
           /\ NothingForFree

-----------------------------------------------------------------------------
(* How the steps look through the refinement mapping.                      *)

\* The workers' part of TypeOK.
WorkersTyped == /\ pc \in [Workers -> Places]
                /\ job \in [Workers -> Attempts \cup {NoAttempt}]
                /\ \A w \in Workers : pc[w] = "idle" <=> job[w] = NoAttempt

LEMMA TypeOKWorkers == TypeOK => WorkersTyped
  BY DEF TypeOK, WorkersTyped

LEMMA JobOfWorker ==
  ASSUME TypeOK, NEW w \in Workers, pc[w] # "idle"
  PROVE  job[w] \in Attempts /\ Order(w) \in Orders
  BY AttemptAssumption DEF TypeOK, Order

LEMMA HandlingIsBusy == "idle" \notin Handling
  BY DEF Handling

\* A worker that moves is in Settling when it arrives at a place of Handling.
LEMMA GotoSettling ==
  ASSUME WorkersTyped, NEW w \in Workers, NEW p \in Places, Goto(w, p)
  PROVE  /\ pc[w] \in Handling /\ p \in Handling => Settling' = Settling
         /\ pc[w] \notin Handling /\ p \notin Handling => Settling' = Settling
         /\ pc[w] \notin Handling /\ p \in Handling => Settling' = Settling \cup {Order(w)}
  <1>1. /\ job' = job
        /\ \A v \in Workers : pc'[v] = IF v = w THEN p ELSE pc[v]
    BY DEF WorkersTyped, Goto
  <1>2. QED
    BY <1>1 DEF Settling, Order

LEMMA StartSettling ==
  ASSUME WorkersTyped, NEW w \in Workers, NEW a, NEW p \in Places \ Handling, Start(w, a, p)
  PROVE  Settling' = Settling
  <1>1. \A v \in Workers : /\ pc'[v] = IF v = w THEN p ELSE pc[v]
                           /\ v # w => job'[v] = job[v]
    BY DEF WorkersTyped, Start
  <1>2. pc[w] \notin Handling
    BY HandlingIsBusy DEF Start
  <1>3. QED
    BY <1>1, <1>2 DEF Settling

\* A worker that ends leaves Settling, unless another handles the same order.
LEMMA FinishSettling ==
  ASSUME WorkersTyped, NEW w \in Workers, Finish(w)
  PROVE  /\ pc[w] \notin Handling => Settling' = Settling
         /\ pc[w] \in Handling => Settling' \in {Settling, Settling \ {Order(w)}}
  <1>1. \A v \in Workers : /\ pc'[v] = IF v = w THEN "idle" ELSE pc[v]
                           /\ v # w => job'[v] = job[v]
    BY DEF WorkersTyped, Finish
  <1>2. Settling' = {OrderOf[job[v]] : v \in {u \in Workers : u # w /\ pc[u] \in Handling}}
    BY <1>1, HandlingIsBusy DEF Settling
  <1>3. QED
    BY <1>2 DEF Settling, Order

LEMMA SettlingOrder ==
  ASSUME NEW w \in Workers, pc[w] \in Handling PROVE Order(w) \in Settling
  BY DEF Settling, Order

LEMMA SettlingUnchanged == UNCHANGED workerVars => Settling' = Settling
  BY DEF workerVars, Settling

LEMMA AttemptsUnchanged == UNCHANGED attempt => Open' = Open /\ Recorded' = Recorded
  BY DEF Open, Recorded

LEMMA OpenOrder ==
  ASSUME NEW a \in Attempts PROVE /\ attempt[a] # "none" => OrderOf[a] \in Open
                                  /\ attempt[a] = "succeeded" => OrderOf[a] \in Recorded
  BY DEF Open, Recorded

LEMMA AttemptSucceeds ==
  ASSUME attempt \in [Attempts -> AttemptStatus], NEW a \in Attempts, attempt[a] # "none",
         attempt' = [attempt EXCEPT ![a] = "succeeded"]
  PROVE  Open' = Open /\ Recorded' = Recorded \cup {OrderOf[a]}
  <1>1. \A b \in Attempts : attempt'[b] = IF b = a THEN "succeeded" ELSE attempt[b]
    OBVIOUS
  <1>2. QED
    BY <1>1 DEF Open, Recorded

LEMMA AttemptEnds ==
  ASSUME attempt \in [Attempts -> AttemptStatus], NEW a \in Attempts,
         attempt[a] \notin {"none", "succeeded"}, NEW s \in {"failed", "closed"},
         attempt' = [attempt EXCEPT ![a] = s]
  PROVE  Open' = Open /\ Recorded' = Recorded
  <1>1. \A b \in Attempts : attempt'[b] = IF b = a THEN s ELSE attempt[b]
    OBVIOUS
  <1>2. QED
    BY <1>1 DEF Open, Recorded

\* What a points recharge does to the order's other attempts is no news.
LEMMA SucceedOpenIsRecorded ==
  ASSUME attempt \in [Attempts -> AttemptStatus], NEW o \in Recorded, SucceedOpen(o)
  PROVE  Open' = Open /\ Recorded' = Recorded
  <1>1. \A b \in Attempts : attempt'[b] = IF OrderOf[b] = o /\ attempt[b] = "pending"
                                            THEN "succeeded" ELSE attempt[b]
    BY DEF SucceedOpen
  <1>2. Open' = Open
    BY <1>1 DEF Open
  <1>3. \A p : p \in Recorded <=> \E b \in Attempts : OrderOf[b] = p /\ attempt[b] = "succeeded"
    BY DEF Recorded
  <1>4. \A p : p \in Recorded' <=> \E b \in Attempts : OrderOf[b] = p /\ attempt'[b] = "succeeded"
    BY DEF Recorded
  <1>5. \A p : p \in Recorded' <=> p \in Recorded
    BY <1>1, <1>3, <1>4
  <1>6. QED
    BY <1>2, <1>5

-----------------------------------------------------------------------------
(* Every step of the pipeline is one of the lifecycle or none.             *)

\* A step that changes no row, and neither of the payment side's sets.
LEMMA RowsStutter ==
  UNCHANGED rowVars /\ Open' = Open /\ Recorded' = Recorded /\ Settling' = Settling
    => UNCHANGED Rows!vars
  BY DEF rowVars, Rows!vars, Rows!rowVars

LEMMA RowsRecordSuccess ==
  ASSUME NEW o \in Orders, o \in Open, UNCHANGED rowVars, Open' = Open,
         Recorded' = Recorded \cup {o}, Settling' = Settling
  PROVE  Rows!Next
  <1>1. Rows!RecordSuccess(o)
    BY DEF rowVars, Rows!rowVars, Rows!RecordSuccess
  <1>2. QED
    BY <1>1 DEF Rows!Next

\* A caller that ends, or goes on without touching the row.
LEMMA RowsEndSettling ==
  ASSUME NEW o \in Orders, o \in Settling, UNCHANGED rowVars, UNCHANGED attempt,
         Settling' \in {Settling, Settling \ {o}}
  PROVE  [Rows!Next]_(Rows!vars)
  <1>1. CASE Settling' = Settling
    BY <1>1, RowsStutter, AttemptsUnchanged
  <1>2. CASE Settling' = Settling \ {o}
    <2>1. Rows!EndSettling(o)
      BY <1>2, AttemptsUnchanged
      DEF rowVars, Rows!rowVars, Rows!EndSettling, Rows!PaymentSideUnchanged
    <2>2. QED
      BY <2>1 DEF Rows!Next
  <1>3. QED
    BY <1>1, <1>2

LEMMA FinishMaps ==
  ASSUME TypeOK, NEW w \in Workers, pc[w] # "idle", Finish(w), UNCHANGED rowVars,
         UNCHANGED attempt
  PROVE  [Rows!Next]_(Rows!vars)
  <1>1. CASE pc[w] \in Handling
    BY <1>1, FinishSettling, TypeOKWorkers, SettlingOrder, JobOfWorker, RowsEndSettling
  <1>2. CASE pc[w] \notin Handling
    BY <1>2, FinishSettling, TypeOKWorkers, AttemptsUnchanged, RowsStutter
  <1>3. QED
    BY <1>1, <1>2

LEMMA PaymentStepMaps ==
  ASSUME PipelineInv, NEW a \in Attempts, PaymentStep(a) PROVE [Rows!Next]_(Rows!vars)
  <1>. USE DEF PipelineInv, TypeOK
  <1>1. UNCHANGED rowVars /\ Settling' = Settling
    BY SettlingUnchanged
    DEF PaymentStep, OpenPayment, CustomerPays, TryFails, ClosePayment
  <1>2. CASE OpenPayment(a)
    <2>1. \A b \in Attempts : attempt'[b] = IF b = a THEN "pending" ELSE attempt[b]
      BY <1>2 DEF OpenPayment
    <2>2. Open' = Open \cup {OrderOf[a]} /\ Recorded' = Recorded
      BY <1>2, <2>1 DEF OpenPayment, Open, Recorded
    <2>3. Rows!OpenPayment(OrderOf[a]) /\ OrderOf[a] \in Orders
      BY <1>1, <1>2, <2>2, AttemptAssumption
      DEF OpenPayment, Payable, rowVars, Rows!rowVars, Rows!OpenPayment, Rows!Payable
    <2>4. QED
      BY <2>3 DEF Rows!Next
  <1>3. CASE CustomerPays(a) \/ TryFails(a)
    BY <1>1, <1>3, AttemptsUnchanged, RowsStutter DEF CustomerPays, TryFails
  <1>4. CASE ClosePayment(a)
    BY <1>1, <1>4, AttemptEnds, RowsStutter DEF ClosePayment
  <1>5. QED
    BY <1>2, <1>3, <1>4 DEF PaymentStep

LEMMA EnterPipelineMaps ==
  ASSUME PipelineInv, NEW w \in Workers, NEW a \in Attempts, EnterPipeline(w, a)
  PROVE  [Rows!Next]_(Rows!vars)
  <1>. USE DEF PipelineInv
  <1>1. \E p \in Places \ Handling : Start(w, a, p)
    BY DEF EnterPipeline, Receive, Sweep, Compensate, Converge, ConfirmByOperator,
           Places, Handling
  <1>2. UNCHANGED rowVars /\ Settling' = Settling
    BY <1>1, StartSettling, TypeOKWorkers
    DEF EnterPipeline, Receive, Sweep, Compensate, Converge, ConfirmByOperator
  <1>3. CASE UNCHANGED attempt
    BY <1>2, <1>3, AttemptsUnchanged, RowsStutter
  <1>4. CASE ConfirmByOperator(w, a)
    <2>1. attempt[a] # "none" /\ OrderOf[a] \in Open /\ OrderOf[a] \in Orders
      BY <1>4, OpenOrder, AttemptAssumption DEF ConfirmByOperator, UniqueCandidate
    <2>2. Open' = Open /\ Recorded' = Recorded \cup {OrderOf[a]}
      BY <1>4, <2>1, AttemptSucceeds DEF ConfirmByOperator, TypeOK
    <2>3. QED
      BY <1>2, <2>1, <2>2, RowsRecordSuccess
  <1>5. QED
    BY <1>3, <1>4 DEF EnterPipeline, Receive, Sweep, Compensate, Converge, paymentVars

LEMMA IngestMaps ==
  ASSUME PipelineInv, NEW w \in Workers, IngestSucceeded(w) \/ IngestFailed(w)
  PROVE  [Rows!Next]_(Rows!vars)
  <1>. USE DEF PipelineInv
  <1>1. /\ pc[w] # "idle" /\ pc[w] \notin Handling
        /\ UNCHANGED rowVars
        /\ {"markSucceeded", "markFailed"} \subseteq Places \ Handling
    BY DEF IngestSucceeded, IngestFailed, Places, Handling
  <1>2. job[w] \in Attempts /\ Order(w) \in Orders
    BY <1>1, JobOfWorker
  <1>3. attempt[job[w]] # "none" /\ Order(w) \in Open
    BY <1>1, <1>2, OpenOrder DEF PlacesOK, PlaceOK, Order
  <1>4. CASE Finish(w) /\ UNCHANGED attempt
    BY <1>1, <1>4, FinishMaps
  <1>5. CASE Goto(w, "markSucceeded") /\ attempt' = [attempt EXCEPT ![job[w]] = "succeeded"]
    <2>1. Settling' = Settling
      BY <1>1, <1>5, GotoSettling, TypeOKWorkers
    <2>2. Open' = Open /\ Recorded' = Recorded \cup {Order(w)}
      BY <1>2, <1>3, <1>5, AttemptSucceeds DEF TypeOK, Order
    <2>3. QED
      BY <1>1, <1>2, <1>3, <2>1, <2>2, RowsRecordSuccess
  <1>6. CASE /\ Goto(w, "markFailed") /\ attempt[job[w]] \in {"pending", "failed"}
             /\ attempt' = [attempt EXCEPT ![job[w]] = "failed"]
    <2>1. Settling' = Settling
      BY <1>1, <1>6, GotoSettling, TypeOKWorkers
    <2>2. Open' = Open /\ Recorded' = Recorded
      BY <1>2, <1>6, AttemptEnds DEF TypeOK
    <2>3. QED
      BY <1>1, <2>1, <2>2, RowsStutter
  <1>7. QED
    BY <1>4, <1>5, <1>6 DEF IngestSucceeded, IngestFailed

LEMMA MarkFailedMaps ==
  ASSUME PipelineInv, NEW w \in Workers, MarkFailed(w) PROVE [Rows!Next]_(Rows!vars)
  <1>. USE DEF PipelineInv
  <1>1. /\ pc[w] # "idle" /\ pc[w] \notin Handling
        /\ Finish(w) /\ UNCHANGED attempt
    BY DEF MarkFailed, Handling, paymentVars
  <1>2. /\ job[w] \in Attempts /\ Order(w) \in Orders /\ Order(w) \in Open
        /\ Open' = Open /\ Recorded' = Recorded /\ Settling' = Settling
    BY <1>1, JobOfWorker, OpenOrder, AttemptsUnchanged, FinishSettling, TypeOKWorkers
    DEF PlacesOK, PlaceOK, Order
  <1>3. CASE MarkPaymentFailed(Order(w), "failed")
    <2>1. Rows!SettleFailure(Order(w))
      BY <1>2, <1>3
      DEF MarkPaymentFailed, FailurePreserved, TerminalOrderPreserved, TerminalStatus, Update,
          Rows!SettleFailure, Rows!MarkPaymentFailed, Rows!FailurePreserved,
          Rows!TerminalOrderPreserved, Rows!TerminalStatus, Rows!Update,
          Rows!CallersUnchanged, Rows!PaymentSideUnchanged
    <2>2. QED
      BY <1>2, <2>1 DEF Rows!Next
  <1>4. CASE UNCHANGED rowVars
    BY <1>2, <1>4, RowsStutter
  <1>5. QED
    BY <1>3, <1>4 DEF MarkFailed

LEMMA MarkSucceededMaps ==
  ASSUME PipelineInv, NEW w \in Workers, MarkSucceeded(w) PROVE [Rows!Next]_(Rows!vars)
  <1>. USE DEF PipelineInv
  <1>1. /\ pc[w] # "idle" /\ pc[w] \notin Handling
        /\ MarkPaymentSucceeded(Order(w))
        /\ Goto(w, IF TerminalOrderPreserved(Order(w)) THEN "answerLate" ELSE "handle")
        /\ UNCHANGED attempt
        /\ {"answerLate", "handle"} \subseteq Places
        /\ "handle" \in Handling /\ "answerLate" \notin Handling
    BY DEF MarkSucceeded, Places, Handling, paymentVars
  <1>2. /\ job[w] \in Attempts /\ Order(w) \in Orders /\ Order(w) \in Recorded
        /\ Open' = Open /\ Recorded' = Recorded
    BY <1>1, JobOfWorker, OpenOrder, AttemptsUnchanged DEF MarkSucceeded, PlacesOK, PlaceOK, Marking, Order
  <1>3. Settling' = IF TerminalOrderPreserved(Order(w)) THEN Settling
                                                        ELSE Settling \cup {Order(w)}
    BY <1>1, GotoSettling, TypeOKWorkers
  <1>4. Rows!SettleSuccess(Order(w))
    BY <1>1, <1>2, <1>3
    DEF MarkPaymentSucceeded, TerminalOrderPreserved, TerminalStatus, KeptBySuccess, Update,
        Record, SuccessEvents, Rows!SettleSuccess, Rows!MarkPaymentSucceeded,
        Rows!TerminalOrderPreserved, Rows!TerminalStatus, Rows!KeptBySuccess, Rows!Update,
        Rows!Record, Rows!SuccessEvents, Rows!PaymentSideUnchanged
  <1>5. QED
    BY <1>2, <1>4 DEF Rows!Next

\* The order of a worker that handles it shows the payment already.
LEMMA HandledIsPaid ==
  ASSUME Rows!IInv, NEW o \in Orders, o \in Settling PROVE payment[o] = "success"
  BY DEF Rows!IInv, Rows!FulfillmentNeedsPayment

\* A step of a handler that calls a method of the row.
LEMMA FulfillMaps ==
  ASSUME NEW o \in Orders, o \in Settling, UNCHANGED attempt, Settling' = Settling,
         \/ FulfillPhysical(o)
         \/ ReserveFulfillment(o)
         \/ ReleaseFulfillment(o)
         \/ CommitFulfillment(o)
  PROVE  [Rows!Next]_(Rows!vars)
  <1>1. Rows!FulfillStep(o)
    BY AttemptsUnchanged
    DEF FulfillPhysical, ReserveFulfillment, ReleaseFulfillment, CommitFulfillment, Update,
        ValueOrders, Rows!FulfillStep, Rows!FulfillPhysical, Rows!ReserveFulfillment,
        Rows!ReleaseFulfillment, Rows!CommitFulfillment, Rows!Update, Rows!ValueOrders,
        Rows!PaymentSideUnchanged
  <1>2. QED
    BY <1>1 DEF Rows!Next

\* A worker that stays at the places of Handling, row and attempts untouched.
LEMMA StayMaps ==
  ASSUME PipelineInv, NEW w \in Workers, pc[w] \in Handling, NEW p \in Handling, Goto(w, p),
         UNCHANGED rowVars, UNCHANGED attempt
  PROVE  [Rows!Next]_(Rows!vars)
  <1>1. p \in Places
    BY DEF Places
  <1>2. QED
    BY <1>1, GotoSettling, TypeOKWorkers, AttemptsUnchanged, RowsStutter DEF PipelineInv

LEMMA StayAndFulfillMaps ==
  ASSUME PipelineInv, NEW w \in Workers, pc[w] \in Handling, NEW p \in Handling, Goto(w, p),
         UNCHANGED attempt,
         \/ FulfillPhysical(Order(w))
         \/ ReserveFulfillment(Order(w))
         \/ CommitFulfillment(Order(w))
  PROVE  [Rows!Next]_(Rows!vars)
  <1>1. p \in Places /\ pc[w] # "idle"
    BY HandlingIsBusy DEF Places
  <1>2. Settling' = Settling /\ Order(w) \in Settling /\ Order(w) \in Orders
    BY <1>1, GotoSettling, TypeOKWorkers, SettlingOrder, JobOfWorker DEF PipelineInv
  <1>3. QED
    BY <1>2, FulfillMaps

LEMMA HandlePhysicalMaps ==
  ASSUME PipelineInv, NEW w \in Workers, HandlePhysical(w) PROVE [Rows!Next]_(Rows!vars)
  <1>1. /\ pc[w] \in Handling /\ pc[w] # "idle" /\ "answer" \in Handling
        /\ UNCHANGED attempt
    BY DEF HandlePhysical, FulfillOrder, StockRefused, Handling, paymentVars
  <1>2. CASE FulfillOrder(w)
    BY <1>1, <1>2, StayMaps, StayAndFulfillMaps DEF FulfillOrder
  <1>3. CASE StockRefused(w)
    BY <1>1, <1>3, FinishMaps DEF StockRefused, PipelineInv
  <1>4. QED
    BY <1>2, <1>3 DEF HandlePhysical

LEMMA HandleValueMaps ==
  ASSUME PipelineInv, NEW w \in Workers, HandleValue(w) PROVE [Rows!Next]_(Rows!vars)
  <1>1. /\ pc[w] \in Handling /\ pc[w] # "idle" /\ "reserve" \in Handling
        /\ Goto(w, "reserve")
    BY DEF HandleValue, Handling
  <1>2. /\ job[w] \in Attempts /\ Order(w) \in Orders
        /\ Order(w) \in Settling /\ Order(w) \in Recorded
    BY <1>1, JobOfWorker, SettlingOrder, OpenOrder
    DEF PipelineInv, PlacesOK, PlaceOK, Marking, Order
  <1>3. payment[Order(w)] = "success" /\ payment \in [Orders -> Payment]
    BY <1>2, HandledIsPaid DEF PipelineInv, TypeOK, RowTypeOK
  <1>4. UNCHANGED rowVars
    <2>1. [payment EXCEPT ![Order(w)] = "success"] = payment
      BY <1>2, <1>3
    <2>2. QED
      BY <2>1 DEF HandleValue, HandlePoints, HandleAccountValue, rowVars
  <1>5. CASE UNCHANGED attempt
    BY <1>1, <1>4, <1>5, StayMaps
  <1>6. CASE SucceedOpen(Order(w))
    <2>1. Open' = Open /\ Recorded' = Recorded
      BY <1>2, <1>6, SucceedOpenIsRecorded DEF PipelineInv, TypeOK
    <2>2. Settling' = Settling
      BY <1>1, GotoSettling, TypeOKWorkers DEF PipelineInv, Places
    <2>3. QED
      BY <1>4, <2>1, <2>2, RowsStutter
  <1>7. QED
    BY <1>5, <1>6 DEF HandleValue, HandlePoints, HandleAccountValue

LEMMA SagaMaps ==
  ASSUME PipelineInv, NEW w \in Workers,
         Reserve(w) \/ Credit(w) \/ Commit(w) \/ Reverse(w)
  PROVE  [Rows!Next]_(Rows!vars)
  <1>1. pc[w] \in Handling /\ UNCHANGED attempt
    BY DEF Reserve, Credit, Commit, Reverse, Handling, paymentVars
  <1>2. \E p \in Handling : Goto(w, p)
    BY DEF Reserve, Credit, Commit, Reverse, Compensation, Handling
  <1>3. \/ UNCHANGED rowVars
        \/ ReserveFulfillment(Order(w))
        \/ CommitFulfillment(Order(w))
    BY DEF Reserve, Credit, Commit, Reverse
  <1>4. QED
    BY <1>1, <1>2, <1>3, StayMaps, StayAndFulfillMaps

LEMMA ReleaseMaps ==
  ASSUME PipelineInv, NEW w \in Workers, Release(w) PROVE [Rows!Next]_(Rows!vars)
  <1>1. /\ pc[w] \in Handling /\ pc[w] # "idle" /\ Finish(w)
        /\ UNCHANGED attempt
    BY DEF Release, Handling, paymentVars
  <1>2. Order(w) \in Orders /\ Order(w) \in Settling
    BY <1>1, JobOfWorker, SettlingOrder DEF PipelineInv
  <1>3. CASE UNCHANGED rowVars
    BY <1>1, <1>3, FinishMaps DEF PipelineInv
  <1>4. CASE ReleaseFulfillment(Order(w))
    <2>1. Settling' \in {Settling, Settling \ {Order(w)}}
      BY <1>1, FinishSettling, TypeOKWorkers DEF PipelineInv
    <2>2. Rows!FulfillStep(Order(w))
      BY <1>1, <1>2, <1>4, <2>1, AttemptsUnchanged
      DEF ReleaseFulfillment, Update, ValueOrders, Rows!FulfillStep, Rows!ReleaseFulfillment,
          Rows!Update, Rows!ValueOrders, Rows!PaymentSideUnchanged
    <2>3. QED
      BY <1>2, <2>2 DEF Rows!Next
  <1>5. QED
    BY <1>3, <1>4 DEF Release

LEMMA EndMaps ==
  ASSUME PipelineInv, NEW w \in Workers, Answer(w) \/ Abort(w)
  PROVE  [Rows!Next]_(Rows!vars)
  BY FinishMaps DEF Answer, Abort, PipelineInv, paymentVars

LEMMA OrderStepMaps ==
  ASSUME NEW o \in Orders, OrderStep(o) PROVE [Rows!Next]_(Rows!vars)
  <1>1. Open' = Open /\ Recorded' = Recorded /\ Settling' = Settling
    BY AttemptsUnchanged, SettlingUnchanged DEF OrderStep, paymentVars
  <1>2. o \in Recorded <=> \E a \in Attempts : OrderOf[a] = o /\ attempt[a] = "succeeded"
    BY DEF Recorded
  <1>3. Rows!CallersUnchanged
    BY <1>1 DEF Rows!CallersUnchanged, Rows!PaymentSideUnchanged
  <1>4. Rows!OwnerStep(o)
    BY <1>2, <1>3
    DEF OrderStep, Rows!OwnerStep, CreateOwnerOrder, CreateValueOrder, MarkInventoryReserved,
        MarkInventoryFailed, CancelOrder, CloseManagementOrder, ExpireDueOrder,
        ExpireStaleRechargeOrder, AdvanceToShipped, ConfirmReceipt, Update, Record, Payable,
        ValueOrders, Rows!CreateOwnerOrder, Rows!CreateValueOrder,
        Rows!MarkInventoryReserved, Rows!MarkInventoryFailed, Rows!CancelOrder,
        Rows!CloseManagementOrder, Rows!ExpireDueOrder, Rows!ExpireStaleRechargeOrder,
        Rows!AdvanceToShipped, Rows!ConfirmReceipt, Rows!Update, Rows!Record, Rows!Payable,
        Rows!ValueOrders
  <1>5. QED
    BY <1>4 DEF Rows!Next

LEMMA NextMaps == PipelineInv /\ [Next]_vars => [Rows!Next]_(Rows!vars)
  <1> SUFFICES ASSUME PipelineInv, [Next]_vars PROVE [Rows!Next]_(Rows!vars)
    OBVIOUS
  <1>1. CASE UNCHANGED vars
    BY <1>1, RowsStutter, AttemptsUnchanged, SettlingUnchanged DEF vars, paymentVars
  <1>2. ASSUME NEW w \in Workers, WorkerStep(w) PROVE [Rows!Next]_(Rows!vars)
    BY <1>2, IngestMaps, MarkFailedMaps, MarkSucceededMaps, HandlePhysicalMaps,
       HandleValueMaps, SagaMaps, ReleaseMaps, EndMaps DEF WorkerStep
  <1>3. QED
    BY <1>1, <1>2, OrderStepMaps, PaymentStepMaps, EnterPipelineMaps, EndMaps DEF Next

-----------------------------------------------------------------------------
(* The pipeline keeps its part of the invariant.                           *)

\* What no step takes back: a collected trade, an opened or succeeded attempt,
\* a payment on the row.
AttemptForward(a) == /\ psp[a] = "paid" => psp'[a] = "paid"
                     /\ attempt[a] # "none" => attempt'[a] # "none"
                     /\ attempt[a] = "succeeded" => attempt'[a] = "succeeded"

Forward == /\ \A a \in Attempts : AttemptForward(a)
           /\ \A o \in Orders : payment[o] = "success" => payment'[o] = "success"

LEMMA CollectedStays ==
  ASSUME Forward, NEW o, Collected(o) PROVE Collected(o)'
  BY DEF Forward, AttemptForward, Collected

LEMMA PaymentStepForward ==
  ASSUME PipelineInv, NEW a \in Attempts, NEW b \in Attempts, PaymentStep(b)
  PROVE  AttemptForward(a)
  BY DEF PipelineInv, TypeOK, PaymentsOK, AttemptForward, PaymentStep, OpenPayment,
         CustomerPays, TryFails, ClosePayment

LEMMA EnterForward ==
  ASSUME PipelineInv, NEW a \in Attempts, NEW w \in Workers, NEW b \in Attempts,
         EnterPipeline(w, b)
  PROVE  AttemptForward(a)
  BY DEF PipelineInv, TypeOK, AttemptForward, EnterPipeline, Receive, Sweep, Compensate,
         Converge, ConfirmByOperator, paymentVars

LEMMA WorkerForward ==
  ASSUME PipelineInv, NEW a \in Attempts, NEW w \in Workers, WorkerStep(w) \/ Abort(w)
  PROVE  AttemptForward(a)
  <1>. USE DEF PipelineInv, TypeOK, AttemptForward
  <1>1. CASE UNCHANGED paymentVars
    BY <1>1 DEF paymentVars
  <1>2. CASE IngestSucceeded(w) \/ IngestFailed(w)
    BY <1>2 DEF IngestSucceeded, IngestFailed
  <1>3. CASE HandleValue(w)
    BY <1>3 DEF HandleValue, HandlePoints, HandleAccountValue, SucceedOpen
  <1>4. QED
    BY <1>1, <1>2, <1>3
    DEF WorkerStep, Abort, MarkFailed, MarkSucceeded, HandlePhysical, FulfillOrder,
        StockRefused, Reserve, Credit, Commit, Reverse, Release, Answer

LEMMA NextForward ==
  ASSUME PipelineInv, [Next]_vars PROVE Forward
  <1>1. ASSUME NEW a \in Attempts PROVE AttemptForward(a)
    <2>1. CASE UNCHANGED paymentVars
      BY <2>1 DEF AttemptForward, paymentVars
    <2>2. QED
      BY <2>1, PaymentStepForward, EnterForward, WorkerForward DEF Next, OrderStep, vars
  <1>2. ASSUME NEW o \in Orders, payment[o] = "success" PROVE payment'[o] = "success"
    BY <1>2, NextMaps, Rows!StepKeepsPayment, SubjectAssumption DEF PipelineInv
  <1>3. QED
    BY <1>1, <1>2 DEF Forward

\* The row is typed because the lifecycle's is.
LEMMA RowsAreTyped == Rows!IInv => RowTypeOK
  BY DEF Rows!IInv, Rows!TypeOK, Rows!RowTypeOK, RowTypeOK, Rows!Status, Status,
         Rows!Payment, Payment, Rows!Fulfillment, Fulfillment, Rows!EventType, EventType

\* A worker that is not at work keeps its place, and what it relies on.
LEMMA OtherWorkersKeep ==
  ASSUME TypeOK, PlacesOK, Forward, NEW v \in Workers, pc'[v] = pc[v], job'[v] = job[v]
  PROVE  PlaceOK(v)'
  <1>1. CASE pc[v] = "idle"
    BY <1>1 DEF PlaceOK, Marking, Handling
  <1>2. CASE pc[v] # "idle"
    <2>1. job[v] \in Attempts /\ Order(v) \in Orders /\ PlaceOK(v)
      BY <1>2, JobOfWorker DEF PlacesOK
    <2>2. Order(v)' = Order(v)
      BY DEF Order
    <2>3. AttemptForward(job[v])
      BY <2>1 DEF Forward
    <2>4. Collected(Order(v)) => Collected(Order(v))'
      BY <2>1, <2>2, CollectedStays
    <2>5. payment[Order(v)] = "success" => payment'[Order(v)] = "success"
      BY <2>1 DEF Forward
    <2>6. QED
      BY <1>2, <2>1, <2>2, <2>3, <2>4, <2>5 DEF PlaceOK, AttemptForward
  <1>3. QED
    BY <1>1, <1>2

LEMMA StartTyped ==
  ASSUME WorkersTyped, NEW w \in Workers, NEW a \in Attempts, NEW p \in Places \ {"idle"},
         Start(w, a, p)
  PROVE  WorkersTyped'
  BY AttemptAssumption DEF WorkersTyped, Start

LEMMA GotoTyped ==
  ASSUME WorkersTyped, NEW w \in Workers, pc[w] # "idle", NEW p \in Places \ {"idle"},
         Goto(w, p)
  PROVE  WorkersTyped'
  BY DEF WorkersTyped, Goto

LEMMA FinishTyped ==
  ASSUME WorkersTyped, NEW w \in Workers, Finish(w) PROVE WorkersTyped'
  BY AttemptAssumption DEF WorkersTyped, Finish, Places

LEMMA EnterPipelineStarts ==
  ASSUME NEW w \in Workers, NEW a \in Attempts, EnterPipeline(w, a)
  PROVE  \E p \in Places \ {"idle"} : Start(w, a, p)
  BY DEF EnterPipeline, Receive, Sweep, Compensate, Converge, ConfirmByOperator, Places

\* A worker at work goes to another place, or ends.
LEMMA WorkerMoves ==
  ASSUME NEW w \in Workers, WorkerStep(w) \/ Abort(w)
  PROVE  /\ pc[w] # "idle"
         /\ Finish(w) \/ \E p \in Places \ {"idle"} : Goto(w, p)
  <1>1. CASE IngestSucceeded(w) \/ IngestFailed(w) \/ MarkFailed(w) \/ MarkSucceeded(w)
    BY <1>1 DEF IngestSucceeded, IngestFailed, MarkFailed, MarkSucceeded, Places, Handling
  <1>2. CASE HandlePhysical(w) \/ HandleValue(w) \/ Answer(w) \/ Abort(w)
    BY <1>2 DEF HandlePhysical, FulfillOrder, StockRefused, HandleValue, Answer, Abort,
                Places, Handling
  <1>3. CASE Reserve(w) \/ Credit(w) \/ Commit(w) \/ Reverse(w) \/ Release(w)
    BY <1>3 DEF Reserve, Credit, Commit, Compensation, Reverse, Release, Places, Handling
  <1>4. QED
    BY <1>1, <1>2, <1>3 DEF WorkerStep

LEMMA WorkersTypedNext ==
  ASSUME TypeOK, [Next]_vars PROVE WorkersTyped'
  <1>1. CASE UNCHANGED workerVars
    BY <1>1, TypeOKWorkers DEF workerVars, WorkersTyped
  <1>2. ASSUME NEW w \in Workers, WorkerStep(w) \/ Abort(w) PROVE WorkersTyped'
    BY <1>2, WorkerMoves, TypeOKWorkers, GotoTyped, FinishTyped
  <1>3. ASSUME NEW w \in Workers, NEW a \in Attempts, EnterPipeline(w, a) PROVE WorkersTyped'
    BY <1>3, EnterPipelineStarts, TypeOKWorkers, StartTyped
  <1>4. QED
    BY <1>1, <1>2, <1>3
    DEF Next, vars, OrderStep, PaymentStep, OpenPayment, CustomerPays, TryFails, ClosePayment

\* The types of what the payment side and the ledger keep.
BooksTyped == /\ psp \in [Attempts -> {"none", "open", "paid", "closed"}]
              /\ notices \subseteq Attempts \X Results
              /\ attempt \in [Attempts -> AttemptStatus]
              /\ acked \subseteq Attempts
              /\ ledger \in [Orders -> SUBSET Entries]
              /\ lost \subseteq ValueOrders
              /\ aborts \in 0..MaxAborts

LEMMA BooksTypedNext ==
  ASSUME TypeOK, [Next]_vars PROVE BooksTyped'
  <1>. USE DEF TypeOK, BooksTyped
  <1>1. CASE UNCHANGED vars
    BY <1>1 DEF vars, paymentVars, ledgerVars, workerVars
  <1>2. ASSUME NEW o \in Orders, OrderStep(o) PROVE BooksTyped'
    BY <1>2 DEF OrderStep, paymentVars, ledgerVars, workerVars
  <1>3. ASSUME NEW a \in Attempts, PaymentStep(a) PROVE BooksTyped'
    BY <1>3 DEF PaymentStep, OpenPayment, CustomerPays, TryFails, ClosePayment, Results,
                AttemptStatus, ledgerVars, workerVars
  <1>4. ASSUME NEW w \in Workers, NEW a \in Attempts, EnterPipeline(w, a) PROVE BooksTyped'
    BY <1>4 DEF EnterPipeline, Receive, Sweep, Compensate, Converge, ConfirmByOperator,
                Start, AttemptStatus, paymentVars, ledgerVars
  <1>5. ASSUME NEW w \in Workers, Abort(w) PROVE BooksTyped'
    BY <1>5, AttemptAssumption DEF Abort, paymentVars, ledgerVars
  <1>6. ASSUME NEW w \in Workers, WorkerStep(w) PROVE BooksTyped'
    <2>1. job[w] \in Attempts /\ Order(w) \in Orders /\ pc[w] # "idle"
      BY <1>6, WorkerMoves, JobOfWorker
    <2>2. CASE IngestSucceeded(w) \/ IngestFailed(w)
      BY <2>1, <2>2 DEF IngestSucceeded, IngestFailed, Goto, AttemptStatus, ledgerVars
    <2>3. CASE MarkFailed(w) \/ MarkSucceeded(w) \/ HandlePhysical(w) \/ Release(w)
      BY <2>3 DEF MarkFailed, MarkSucceeded, HandlePhysical, FulfillOrder, StockRefused,
                  Release, Goto, paymentVars, ledgerVars
    <2>4. CASE HandleValue(w)
      BY <2>4 DEF HandleValue, HandlePoints, HandleAccountValue, SucceedOpen, Goto,
                  AttemptStatus, ledgerVars
    <2>5. CASE Reserve(w) \/ Answer(w)
      BY <2>1, <2>5 DEF Reserve, Answer, Goto, paymentVars, ledgerVars
    <2>6. CASE Credit(w) \/ Reverse(w)
      <3>1. /\ UNCHANGED <<paymentVars, acked, lost, aborts>>
            /\ \E entries \in SUBSET Entries :
                 ledger' = [ledger EXCEPT ![Order(w)] = @ \cup entries]
        BY <2>6, ZenonT(60) DEF Credit, Reverse, AppendEntry, MayAppendEntry, Entries, Goto
      <3>2. ledger' \in [Orders -> SUBSET Entries]
        BY <2>1, <3>1
      <3>3. QED
        BY <3>1, <3>2 DEF paymentVars
    <2>7. CASE Commit(w)
      BY <2>1, <2>7 DEF Commit, CommitFulfillment, Goto, paymentVars
    <2>8. QED
      BY <1>6, <2>2, <2>3, <2>4, <2>5, <2>6, <2>7 DEF WorkerStep
  <1>7. QED
    BY <1>1, <1>2, <1>3, <1>4, <1>5, <1>6 DEF Next

LEMMA TypeOKNext ==
  ASSUME TypeOK, [Next]_vars, RowTypeOK' PROVE TypeOK'
  BY WorkersTypedNext, BooksTypedNext DEF TypeOK, WorkersTyped, BooksTyped

-----------------------------------------------------------------------------
\* Of each trade, notice and success.
LEMMA PaymentsOKNext ==
  ASSUME PipelineInv, [Next]_vars, Forward PROVE PaymentsOK'
  <1>. USE DEF PipelineInv, TypeOK, PaymentsOK
  <1>1. CASE UNCHANGED paymentVars
    BY <1>1 DEF paymentVars, Collected
  <1>2. ASSUME NEW a \in Attempts, PaymentStep(a) PROVE PaymentsOK'
    <2>1. \A b \in Attempts : attempt'[b] = "succeeded" => attempt[b] = "succeeded"
      BY <1>2 DEF PaymentStep, OpenPayment, CustomerPays, TryFails, ClosePayment
    <2>2. \A b \in Attempts : attempt'[b] = "succeeded" => Collected(OrderOf[b])'
      BY <2>1, CollectedStays
    <2>3. QED
      BY <1>2, <2>2 DEF PaymentStep, OpenPayment, CustomerPays, TryFails, ClosePayment
  <1>3. ASSUME psp' = psp, notices' = notices,
               \A b \in Attempts : /\ attempt[b] # "none" => attempt'[b] # "none"
                                   /\ attempt'[b] = "succeeded" => Collected(OrderOf[b])
        PROVE  PaymentsOK'
    BY <1>3 DEF Collected
  <1>4. \A a \in Attempts : attempt[a] # "none" => attempt'[a] # "none"
    BY DEF Forward, AttemptForward
  <1>5. ASSUME NEW w \in Workers, NEW a \in Attempts, EnterPipeline(w, a) PROVE PaymentsOK'
    <2>1. CASE ConfirmByOperator(w, a)
      <3>1. Collected(OrderOf[a])
        BY <2>1 DEF ConfirmByOperator, Reconciled, ProviderConfirms, Collected
      <3>2. QED
        BY <1>3, <1>4, <2>1, <3>1 DEF ConfirmByOperator
    <2>2. QED
      BY <1>1, <1>5, <2>1 DEF EnterPipeline, Receive, Sweep, Compensate, Converge
  <1>6. ASSUME NEW w \in Workers, WorkerStep(w) PROVE PaymentsOK'
    <2>1. job[w] \in Attempts /\ PlaceOK(w)
      BY <1>6, WorkerMoves, JobOfWorker DEF PlacesOK
    <2>2. CASE IngestSucceeded(w) \/ IngestFailed(w)
      BY <1>3, <1>4, <2>1, <2>2 DEF IngestSucceeded, IngestFailed, PlaceOK, Order
    <2>3. CASE HandleValue(w)
      <3>1. attempt[job[w]] = "succeeded"
        BY <2>1, <2>3 DEF HandleValue, PlaceOK, Marking, Handling
      <3>2. Collected(Order(w))
        BY <2>1, <3>1 DEF Order
      <3>3. QED
        BY <1>1, <1>3, <1>4, <2>3, <3>2
        DEF HandleValue, HandlePoints, HandleAccountValue, SucceedOpen, paymentVars
    <2>4. QED
      BY <1>1, <1>6, <2>2, <2>3
      DEF WorkerStep, MarkFailed, MarkSucceeded, HandlePhysical, FulfillOrder, StockRefused,
          Reserve, Credit, Commit, Reverse, Release, Answer
  <1>7. QED
    BY <1>1, <1>2, <1>5, <1>6 DEF Next, OrderStep, Abort, vars

-----------------------------------------------------------------------------
\* Of what a worker relies on, and what has been answered.
LEMMA IdleRelies ==
  ASSUME TypeOK, NEW w \in Workers, Finish(w) PROVE PlaceOK(w)'
  <1>1. pc'[w] = "idle"
    BY DEF TypeOK, Finish
  <1>2. QED
    BY <1>1 DEF PlaceOK, Marking, Handling

\* From one place of Handling to another.
LEMMA HandlingRelies ==
  ASSUME PipelineInv, Forward, NEW w \in Workers, pc[w] \in Handling,
         NEW p \in Handling, Goto(w, p)
  PROVE  PlaceOK(w)'
  <1>1. /\ pc'[w] = p /\ job'[w] = job[w]
        /\ p \notin {"idle", "ingestSucceeded", "answerLate"}
    BY DEF PipelineInv, TypeOK, Goto, Handling
  <1>2. job[w] \in Attempts /\ attempt[job[w]] = "succeeded"
    BY JobOfWorker, HandlingIsBusy DEF PipelineInv, PlacesOK, PlaceOK, Marking
  <1>3. attempt'[job[w]] = "succeeded"
    BY <1>2 DEF Forward, AttemptForward
  <1>4. QED
    BY <1>1, <1>3 DEF PlaceOK

LEMMA EnterRelies ==
  ASSUME PipelineInv, Forward, NEW w \in Workers, NEW a \in Attempts, EnterPipeline(w, a)
  PROVE  PlaceOK(w)'
  <1>. USE DEF PipelineInv, TypeOK, PaymentsOK
  <1>1. /\ job'[w] = a
        /\ pc'[w] \in {"ingestSucceeded", "ingestFailed", "markSucceeded"}
    BY DEF EnterPipeline, Receive, Sweep, Compensate, Converge, ConfirmByOperator, Start
  <1>2. attempt[a] # "none"
    BY DEF EnterPipeline, Receive, Delivered, Sweep, Compensate, Converge,
           ConfirmByOperator, UniqueCandidate
  <1>3. attempt'[a] # "none"
    BY <1>2 DEF Forward, AttemptForward
  <1>4. pc'[w] = "ingestSucceeded" => Collected(OrderOf[a])
    BY DEF EnterPipeline, Receive, Delivered, Sweep, Compensate, QueriedPaid, Converge,
           ConfirmByOperator, Start, Collected
  <1>5. pc'[w] = "ingestSucceeded" => Collected(Order(w))'
    BY <1>1, <1>4, CollectedStays DEF Order, Collected
  <1>6. pc'[w] = "markSucceeded" => attempt'[a] = "succeeded"
    BY DEF EnterPipeline, Receive, Sweep, Compensate, Converge, ConfirmByOperator, Start
  <1>7. QED
    BY <1>1, <1>3, <1>5, <1>6 DEF PlaceOK, Marking, Handling

LEMMA MarkRelies ==
  ASSUME PipelineInv, Forward, NEW w \in Workers,
         IngestSucceeded(w) \/ IngestFailed(w) \/ MarkFailed(w) \/ MarkSucceeded(w)
  PROVE  PlaceOK(w)'
  <1>. USE DEF PipelineInv, TypeOK
  <1>1. pc[w] # "idle"
    BY DEF IngestSucceeded, IngestFailed, MarkFailed, MarkSucceeded
  <1>2. job[w] \in Attempts /\ Order(w) \in Orders /\ PlaceOK(w)
    BY <1>1, JobOfWorker DEF PlacesOK
  <1>3. attempt'[job[w]] # "none"
    BY <1>1, <1>2 DEF PlaceOK, Forward, AttemptForward
  <1>4. CASE Finish(w)
    BY <1>4, IdleRelies
  <1>5. CASE IngestSucceeded(w) /\ ~Finish(w)
    <2>1. pc'[w] = "markSucceeded" /\ job'[w] = job[w] /\ attempt'[job[w]] = "succeeded"
      BY <1>2, <1>5 DEF IngestSucceeded, Goto
    <2>2. QED
      BY <2>1 DEF PlaceOK
  <1>6. CASE IngestFailed(w) /\ ~Finish(w)
    <2>1. pc'[w] = "markFailed" /\ job'[w] = job[w]
      BY <1>6 DEF IngestFailed, Goto
    <2>2. QED
      BY <1>3, <2>1 DEF PlaceOK, Marking, Handling
  <1>7. CASE MarkSucceeded(w)
    <2>1. /\ pc'[w] \in {"answerLate", "handle"} /\ job'[w] = job[w]
          /\ payment'[Order(w)] = "success"
      BY <1>2, <1>7 DEF MarkSucceeded, MarkPaymentSucceeded, Update, Goto, RowTypeOK
    <2>2. attempt'[job[w]] = "succeeded"
      BY <1>2, <1>7 DEF MarkSucceeded, PlaceOK, Marking, Forward, AttemptForward
    <2>3. Order(w)' = Order(w)
      BY <2>1 DEF Order
    <2>4. QED
      BY <1>3, <2>1, <2>2, <2>3 DEF PlaceOK
  <1>8. QED
    BY <1>4, <1>5, <1>6, <1>7 DEF MarkFailed

LEMMA HandleRelies ==
  ASSUME PipelineInv, Forward, NEW w \in Workers,
         \/ HandlePhysical(w) \/ HandleValue(w) \/ Reserve(w) \/ Credit(w) \/ Commit(w)
         \/ Reverse(w) \/ Release(w) \/ Answer(w) \/ Abort(w)
  PROVE  PlaceOK(w)'
  <1>1. CASE Finish(w)
    BY <1>1, IdleRelies DEF PipelineInv
  <1>2. CASE ~Finish(w)
    <2>1. pc[w] \in Handling
      BY <1>2 DEF HandlePhysical, FulfillOrder, StockRefused, HandleValue, Reserve, Credit,
                  Commit, Reverse, Release, Answer, Abort, Handling
    <2>2. \E p \in Handling : Goto(w, p)
      BY <1>2 DEF HandlePhysical, FulfillOrder, StockRefused, HandleValue, Reserve, Credit,
                  Commit, Compensation, Reverse, Release, Answer, Abort, Handling
    <2>3. QED
      BY <2>1, <2>2, HandlingRelies
  <1>3. QED
    BY <1>1, <1>2

\* A step moves one worker at most.
LEMMA OneMoves ==
  ASSUME TypeOK, [Next]_vars
  PROVE  \/ UNCHANGED <<pc, job>>
         \/ \E w \in Workers :
              /\ \/ WorkerStep(w) \/ Abort(w)
                 \/ \E a \in Attempts : EnterPipeline(w, a)
              /\ \A v \in Workers \ {w} : pc'[v] = pc[v] /\ job'[v] = job[v]
  <1>1. ASSUME NEW w \in Workers,
               \/ Finish(w)
               \/ \E p \in Places : Goto(w, p)
               \/ \E a \in Attempts, p \in Places : Start(w, a, p)
        PROVE  \A v \in Workers \ {w} : pc'[v] = pc[v] /\ job'[v] = job[v]
    BY <1>1 DEF TypeOK, Finish, Goto, Start
  <1>2. CASE UNCHANGED vars
    BY <1>2 DEF vars, workerVars
  <1>3. QED
    BY <1>1, <1>2, WorkerMoves, EnterPipelineStarts
    DEF Next, OrderStep, PaymentStep, OpenPayment, CustomerPays, TryFails, ClosePayment,
        workerVars

LEMMA PlacesOKNext ==
  ASSUME PipelineInv, [Next]_vars, Forward PROVE PlacesOK'
  <1>1. \A v \in Workers : pc'[v] = pc[v] /\ job'[v] = job[v] => PlaceOK(v)'
    BY OtherWorkersKeep DEF PipelineInv
  <1>2. ASSUME NEW w \in Workers,
               \/ WorkerStep(w) \/ Abort(w)
               \/ \E a \in Attempts : EnterPipeline(w, a)
        PROVE  PlaceOK(w)'
    BY <1>2, EnterRelies, MarkRelies, HandleRelies DEF WorkerStep
  <1>3. QED
    BY <1>1, <1>2, OneMoves DEF PipelineInv, PlacesOK

LEMMA AcknowledgedNext ==
  ASSUME PipelineInv, [Next]_vars, Forward PROVE AcknowledgedIsRecorded'
  <1>. USE DEF PipelineInv, TypeOK
  <1>1. \A a \in acked : /\ a \in Attempts /\ OrderOf[a] \in Orders
                         /\ attempt'[a] = "succeeded" /\ payment'[OrderOf[a]] = "success"
    BY AttemptAssumption DEF AcknowledgedIsRecorded, Forward, AttemptForward
  <1>2. CASE acked' = acked
    BY <1>1, <1>2 DEF AcknowledgedIsRecorded
  <1>3. ASSUME NEW w \in Workers, Answer(w) PROVE AcknowledgedIsRecorded'
    <2>1. /\ pc[w] # "idle" /\ pc[w] \in Marking
          /\ pc[w] # "answerLate" => pc[w] \in Handling
      BY <1>3 DEF Answer, Marking, Handling
    <2>2. /\ job[w] \in Attempts /\ Order(w) \in Orders
          /\ attempt[job[w]] = "succeeded" /\ payment[Order(w)] = "success"
      BY <2>1, JobOfWorker, SettlingOrder, HandledIsPaid DEF PlacesOK, PlaceOK
    <2>3. attempt'[job[w]] = "succeeded" /\ payment'[OrderOf[job[w]]] = "success"
      BY <2>2 DEF Forward, AttemptForward, Order
    <2>4. QED
      BY <1>1, <1>3, <2>3 DEF Answer, AcknowledgedIsRecorded
  <1>4. QED
    BY <1>2, <1>3
    DEF Next, vars, OrderStep, PaymentStep, OpenPayment, CustomerPays, TryFails, ClosePayment,
        EnterPipeline, Receive, Sweep, Compensate, Converge, ConfirmByOperator, Abort,
        WorkerStep, IngestSucceeded, IngestFailed, MarkFailed, MarkSucceeded, HandlePhysical,
        FulfillOrder, StockRefused, HandleValue, Reserve, Credit, Commit, Reverse, Release

-----------------------------------------------------------------------------
LEMMA InitRows == Init => Rows!Init
  BY HandlingIsBusy
  DEF Init, RowInit, Rows!Init, Rows!RowInit, Open, Recorded, Settling

LEMMA InitPipelineInv == Init => PipelineInv
  <1> SUFFICES ASSUME Init PROVE PipelineInv
    OBVIOUS
  <1>1. Rows!IInv
    BY InitRows, Rows!InitIInv, SubjectAssumption
  <1>2. TypeOK
    BY <1>1, RowsAreTyped, AttemptAssumption
    DEF Init, TypeOK, Results, AttemptStatus, Places
  <1>3. QED
    BY <1>1, <1>2
    DEF Init, PipelineInv, PaymentsOK, PlacesOK, PlaceOK, Marking, Handling,
        AcknowledgedIsRecorded

LEMMA NextPipelineInv == PipelineInv /\ [Next]_vars => PipelineInv'
  <1> SUFFICES ASSUME PipelineInv, [Next]_vars PROVE PipelineInv'
    OBVIOUS
  <1>1. Rows!IInv'
    BY NextMaps, Rows!NextIInv, SubjectAssumption DEF PipelineInv
  <1>2. RowTypeOK'
    BY <1>1, RowsAreTyped, PTL
  <1>3. TypeOK'
    BY <1>2, TypeOKNext DEF PipelineInv
  <1>4. QED
    BY <1>1, <1>3, NextForward, PaymentsOKNext, PlacesOKNext, AcknowledgedNext
    DEF PipelineInv

-----------------------------------------------------------------------------
(* The sagas.                                                              *)

\* The order of a worker that handles it is not one that waits for a payment.
LEMMA HandledIsNotPayable ==
  ASSUME PipelineInv, NEW w \in Workers, pc[w] \in Handling
  PROVE  Order(w) \in Orders /\ status[Order(w)] \notin {"none", "pending_payment"}
  <1>1. Order(w) \in Orders /\ payment[Order(w)] = "success"
    BY HandlingIsBusy, JobOfWorker, SettlingOrder, HandledIsPaid DEF PipelineInv
  <1>2. QED
    BY <1>1 DEF PipelineInv, Rows!IInv, Rows!PaidIsNotPayable, Rows!Payable

\* The columns and the entries of o that the sagas are about stay as they are.
Same(o) == /\ status'[o] = status[o]
           /\ fulfillment'[o] = fulfillment[o]
           /\ ledger'[o] = ledger[o]
           /\ o \in lost' <=> o \in lost

LEMMA SameOrderOK ==
  ASSUME NEW o \in Orders, OrderOK(o), Same(o) PROVE OrderOK(o)'
  BY DEF OrderOK, ValueRowOK, Untouched, GoodsRowOK, LedgerOK, Same, ValueOrders

LEMMA SameAtPlace ==
  ASSUME NEW o \in Orders, NEW v \in Workers, AtPlace(pc[v], o), Same(o), pc'[v] = pc[v]
  PROVE  AtPlace(pc[v], o)'
  BY DEF AtPlace, Untouched, Same, ValueOrders

\* A worker works on its own order only.
LEMMA WorkerTouchesItsOrder ==
  ASSUME TypeOK, NEW w \in Workers, WorkerStep(w), NEW o \in Orders, o # Order(w)
  PROVE  Same(o)
  <1>. USE DEF TypeOK, RowTypeOK, Same
  <1>1. CASE IngestSucceeded(w) \/ IngestFailed(w) \/ StockRefused(w) \/ Answer(w)
    BY <1>1 DEF IngestSucceeded, IngestFailed, StockRefused, Answer, rowVars, ledgerVars
  <1>2. CASE MarkFailed(w) \/ MarkSucceeded(w)
    BY <1>2 DEF MarkFailed, MarkSucceeded, MarkPaymentFailed, MarkPaymentSucceeded, Update,
                rowVars, ledgerVars
  <1>3. CASE FulfillOrder(w) \/ HandleValue(w)
    BY <1>3 DEF FulfillOrder, FulfillPhysical, HandleValue, Update, rowVars, ledgerVars
  <1>4. CASE Reserve(w) \/ Release(w)
    BY <1>4 DEF Reserve, Release, ReserveFulfillment, ReleaseFulfillment, Update, rowVars,
                ledgerVars
  <1>5. CASE Credit(w) \/ Reverse(w)
    BY <1>5 DEF Credit, Reverse, AppendEntry, MayAppendEntry, rowVars
  <1>6. CASE Commit(w)
    BY <1>6 DEF Commit, CommitFulfillment, Update, rowVars
  <1>7. QED
    BY <1>1, <1>2, <1>3, <1>4, <1>5, <1>6 DEF WorkerStep, HandlePhysical

LEMMA OrderStepTouchesItsOrder ==
  ASSUME TypeOK, NEW p \in Orders, OrderStep(p), NEW o \in Orders, o # p PROVE Same(o)
  BY DEF TypeOK, RowTypeOK, Same, OrderStep, CreateOwnerOrder, CreateValueOrder,
         MarkInventoryReserved, MarkInventoryFailed, CancelOrder, CloseManagementOrder,
         ExpireDueOrder, ExpireStaleRechargeOrder, AdvanceToShipped, ConfirmReceipt, Update,
         ledgerVars

LEMMA QuietStepsTouchNothing ==
  ASSUME NEW o \in Orders,
         \/ UNCHANGED vars
         \/ \E a \in Attempts : PaymentStep(a)
         \/ \E w \in Workers : Abort(w) \/ \E a \in Attempts : EnterPipeline(w, a)
  PROVE  Same(o)
  BY DEF Same, vars, PaymentStep, OpenPayment, CustomerPays, TryFails, ClosePayment, Abort,
         EnterPipeline, Receive, Sweep, Compensate, Converge, ConfirmByOperator, rowVars,
         ledgerVars

\* The other callers of the store move a value order on before it is paid, and
\* leave its fulfillment alone after.
LEMMA OrderStepOrderOK ==
  ASSUME SagaInv, NEW o \in Orders, OrderStep(o)
  PROVE  /\ OrderOK(o)'
         /\ o \in ValueOrders /\ status[o] # "none" => fulfillment'[o] = fulfillment[o]
  <1>. USE DEF SagaInv, PipelineInv, TypeOK, RowTypeOK, OrderOK, LedgerOK, Update
  <1>1. ledger' = ledger /\ lost' = lost
    BY DEF OrderStep, ledgerVars
  <1>2. CASE o \in Physical
    <2>1. GoodsRowOK(o) /\ o \notin ValueOrders
      BY <1>2 DEF ValueOrders
    <2>2. fulfillment'[o] \notin {"processing", "fulfilled"}
      BY <2>1 DEF GoodsRowOK, OrderStep, CreateOwnerOrder, CreateValueOrder,
                  MarkInventoryReserved, MarkInventoryFailed, CancelOrder,
                  CloseManagementOrder, ExpireDueOrder, ExpireStaleRechargeOrder,
                  AdvanceToShipped, ConfirmReceipt
    <2>3. QED
      BY <1>1, <2>1, <2>2 DEF GoodsRowOK, ValueOrders
  <1>3. CASE o \in ValueOrders
    <2>1. ValueRowOK(o) /\ o \notin Physical /\ o \notin fulfillmentOrders
      BY <1>3 DEF ValueOrders
    <2>2. \/ CreateValueOrder(o)
          \/ CancelOrder(o)
          \/ CloseManagementOrder(o)
          \/ \E expired : ExpireDueOrder(o, expired)
          \/ ExpireStaleRechargeOrder(o)
      BY <2>1 DEF ValueRowOK, OrderStep, CreateOwnerOrder, MarkInventoryReserved,
                  MarkInventoryFailed, AdvanceToShipped, ConfirmReceipt
    <2>3. /\ ValueRowOK(o)'
          /\ LedgerOK(o)'
          /\ status[o] # "none" => fulfillment'[o] = fulfillment[o]
      BY <1>1, <2>1, <2>2
      DEF ValueRowOK, Untouched, CreateValueOrder, CancelOrder, CloseManagementOrder,
          ExpireDueOrder, ExpireStaleRechargeOrder, Payable
    <2>4. QED
      BY <2>1, <2>3 DEF ValueOrders
  <1>4. QED
    BY <1>2, <1>3 DEF ValueOrders

\* A ledger command applies once or, when it is answered with an error, perhaps.
LEMMA AppendedEntry ==
  ASSUME ledger \in [Orders -> SUBSET Entries], NEW o \in Orders, NEW entry
  PROVE  /\ AppendEntry(o, entry) => ledger'[o] = ledger[o] \cup {entry}
         /\ MayAppendEntry(o, entry) => ledger'[o] \in {ledger[o], ledger[o] \cup {entry}}
  <1>1. ASSUME NEW reached \in SUBSET {entry},
               ledger' = [ledger EXCEPT ![o] = @ \cup reached]
        PROVE  ledger'[o] \in {ledger[o], ledger[o] \cup {entry}}
    <2>1. ledger'[o] = ledger[o] \cup reached
      BY <1>1
    <2>2. reached = {} \/ reached = {entry}
      OBVIOUS
    <2>3. QED
      BY <2>1, <2>2
  <1>2. QED
    BY <1>1 DEF AppendEntry, MayAppendEntry

\* What a worker's step makes of its order, and of the place it goes on to.
LEMMA MarkOrderOK ==
  ASSUME SagaInv, NEW w \in Workers, NEW o \in Orders, o = Order(w),
         IngestSucceeded(w) \/ IngestFailed(w) \/ MarkFailed(w) \/ MarkSucceeded(w)
  PROVE  /\ OrderOK(o)'
         /\ pc'[w] \in Handling => AtPlace(pc[w], o)'
  <1>. USE DEF SagaInv, PipelineInv, TypeOK, RowTypeOK
  <1>1. pc[w] # "idle" /\ ledger' = ledger /\ lost' = lost
    BY DEF IngestSucceeded, IngestFailed, MarkFailed, MarkSucceeded, ledgerVars
  <1>2. o \in Orders /\ OrderOK(o)
    BY <1>1, JobOfWorker
  <1>3. CASE IngestSucceeded(w) \/ IngestFailed(w)
    <2>1. UNCHANGED rowVars /\ job'[w] \in {job[w], NoAttempt} /\ pc'[w] \notin Handling
      BY <1>3 DEF IngestSucceeded, IngestFailed, Goto, Finish, Handling
    <2>2. QED
      BY <1>1, <1>2, <2>1
      DEF OrderOK, ValueRowOK, GoodsRowOK, LedgerOK, Untouched, rowVars, ValueOrders
  <1>4. CASE MarkFailed(w)
    <2>1. /\ pc'[w] \notin Handling
          /\ fulfillment' = fulfillment
          /\ \/ status' = status
             \/ status'[o] = "cancelled"
      BY <1>2, <1>4 DEF MarkFailed, MarkPaymentFailed, Update, Finish, Handling, rowVars
    <2>2. QED
      BY <1>1, <1>2, <2>1
      DEF OrderOK, ValueRowOK, GoodsRowOK, LedgerOK, Untouched, ValueOrders
  <1>5. CASE MarkSucceeded(w)
    <2>1. /\ fulfillment' = fulfillment
          /\ status[o] # "none"
          /\ status'[o] \in {status[o], "paid"}
          /\ o \in ValueOrders => status'[o] \notin {"none", "pending_payment"}
      BY <1>2, <1>5 DEF MarkSucceeded, MarkPaymentSucceeded, Update, KeptBySuccess
    <2>2. OrderOK(o)'
      BY <1>1, <1>2, <2>1
      DEF OrderOK, ValueRowOK, GoodsRowOK, LedgerOK, Untouched, ValueOrders
    <2>3. ASSUME pc'[w] \in Handling PROVE AtPlace(pc[w], o)'
      <3>1. pc'[w] = "handle" /\ ~TerminalOrderPreserved(o)
        BY <1>5, <2>3 DEF MarkSucceeded, Goto, Handling
      <3>2. o \in ValueOrders => Untouched(o)
        BY <1>2, <3>1 DEF OrderOK, ValueRowOK, TerminalOrderPreserved, TerminalStatus
      <3>3. o \in ValueOrders => Untouched(o)'
        BY <1>1, <2>1, <3>2 DEF Untouched
      <3>4. QED
        BY <3>1, <3>3 DEF AtPlace, SagaPlaces, ValueOrders
    <2>4. QED
      BY <2>2, <2>3
  <1>6. QED
    BY <1>3, <1>4, <1>5

LEMMA HandleOrderOK ==
  ASSUME SagaInv, NEW w \in Workers, NEW o \in Orders, o = Order(w),
         HandlePhysical(w) \/ HandleValue(w) \/ Answer(w)
  PROVE  /\ OrderOK(o)'
         /\ pc'[w] \in Handling => AtPlace(pc[w], o)'
  <1>. USE DEF SagaInv, PipelineInv, TypeOK, RowTypeOK
  <1>1. pc[w] # "idle" /\ ledger' = ledger /\ lost' = lost
    BY DEF HandlePhysical, FulfillOrder, StockRefused, HandleValue, Answer, ledgerVars
  <1>2. o \in Orders /\ OrderOK(o)
    BY <1>1, JobOfWorker
  <1>3. CASE StockRefused(w) \/ Answer(w)
    <2>1. UNCHANGED rowVars /\ pc'[w] \notin Handling
      BY <1>3 DEF StockRefused, Answer, Finish, Handling
    <2>2. QED
      BY <1>1, <1>2, <2>1
      DEF OrderOK, ValueRowOK, GoodsRowOK, LedgerOK, Untouched, rowVars, ValueOrders
  <1>4. CASE FulfillOrder(w)
    <2>1. /\ pc'[w] = "answer"
          /\ o \in Physical
          /\ status'[o] = status[o]
          /\ fulfillment'[o] \in {fulfillment[o], "awaiting_shipment"}
      BY <1>2, <1>4 DEF FulfillOrder, FulfillPhysical, Update, Goto, rowVars
    <2>2. AtPlace("answer", o)'
      BY DEF AtPlace, SagaPlaces, Handling
    <2>3. QED
      BY <1>1, <1>2, <2>1, <2>2
      DEF OrderOK, GoodsRowOK, LedgerOK, ValueOrders
  <1>5. CASE HandleValue(w)
    <2>1. /\ pc'[w] = "reserve" /\ pc[w] = "handle" /\ o \in ValueOrders
          /\ status' = status /\ fulfillment' = fulfillment
      BY <1>5 DEF HandleValue, Goto
    <2>2. Untouched(o)
      BY <2>1 DEF SagaOK, AtPlace, Handling
    <2>3. Untouched(o)'
      BY <1>1, <2>1, <2>2 DEF Untouched
    <2>4. AtPlace("reserve", o)'
      BY <2>1, <2>3 DEF AtPlace, SagaPlaces, ValueOrders
    <2>5. QED
      BY <1>1, <1>2, <2>1, <2>4
      DEF OrderOK, ValueRowOK, Untouched, GoodsRowOK, LedgerOK, ValueOrders
  <1>6. QED
    BY <1>3, <1>4, <1>5 DEF HandlePhysical

LEMMA SagaOrderOK ==
  ASSUME SagaInv, NEW w \in Workers, NEW o \in Orders, o = Order(w),
         Reserve(w) \/ Credit(w) \/ Commit(w) \/ Reverse(w) \/ Release(w)
  PROVE  /\ OrderOK(o)'
         /\ pc'[w] \in Handling => AtPlace(pc[w], o)'
  <1>. USE DEF SagaInv, PipelineInv, TypeOK, RowTypeOK, Goto
  <1>1. pc[w] \in SagaPlaces /\ pc[w] \in Handling
    BY DEF Reserve, Credit, Commit, Reverse, Release, SagaPlaces, Handling
  <1>2. /\ o \in ValueOrders /\ o \in Orders /\ o \notin Physical
        /\ ValueRowOK(o) /\ LedgerOK(o) /\ AtPlace(pc[w], o)
        /\ status[o] \notin {"none", "pending_payment"}
    BY <1>1, HandledIsNotPayable DEF SagaOK, AtPlace, OrderOK, ValueOrders
  <1>3. ASSUME ValueRowOK(o)', LedgerOK(o)' PROVE OrderOK(o)'
    BY <1>2, <1>3 DEF OrderOK, ValueOrders
  <1>. USE DEF ValueRowOK, LedgerOK, AtPlace, Untouched, ValueOrders
  <1>4. CASE Reserve(w)
    <2>1. /\ ledger' = ledger /\ lost' = lost /\ status'[o] = status[o]
          /\ fulfillment'[o] = "processing" /\ pc'[w] = "credit"
      BY <1>2, <1>4 DEF Reserve, ReserveFulfillment, Update, rowVars, ledgerVars
    <2>2. QED
      BY <1>2, <1>3, <1>4, <2>1 DEF Reserve, SagaPlaces
  <1>5. CASE Credit(w)
    <2>1. /\ lost' = lost /\ status' = status /\ fulfillment' = fulfillment
          /\ \/ ledger'[o] = {"credit"} /\ pc'[w] = "commit"
             \/ ledger'[o] \in {{}, {"credit"}} /\ pc'[w] = "release"
      BY <1>2, <1>5, AppendedEntry DEF Credit, rowVars
    <2>2. QED
      BY <1>2, <1>3, <1>5, <2>1 DEF Credit, SagaPlaces
  <1>6. CASE Commit(w)
    <2>1. pc[w] = "commit"
      BY <1>2, <1>6 DEF Commit
    <2>2. /\ ledger' = ledger
          /\ status'[o] \in {status[o], "paid"}
          /\ \/ fulfillment'[o] = "fulfilled" /\ lost' = lost /\ pc'[w] = "answer"
             \/ fulfillment'[o] = "fulfilled" /\ lost' = lost \cup {o} /\ pc'[w] = "reverse"
             \/ fulfillment'[o] = "processing" /\ lost' = lost /\ pc'[w] = "reverse"
      BY <1>2, <1>6, <2>1 DEF Commit, CommitFulfillment, Compensation, Update, rowVars
    <2>3. QED
      BY <1>2, <1>3, <2>1, <2>2 DEF SagaPlaces, Handling
  <1>7. CASE Reverse(w)
    <2>1. ledger[o] = {"credit"} /\ (o \notin lost => fulfillment[o] = "processing")
      BY <1>2, <1>7 DEF Reverse
    <2>2. /\ lost' = lost /\ status' = status /\ fulfillment' = fulfillment
          /\ pc'[w] = "release"
          /\ ledger'[o] \in {{"credit"}, {"credit", "reversal"}}
      BY <1>7, <2>1, AppendedEntry DEF Reverse, rowVars
    <2>3. QED
      BY <1>2, <1>3, <2>1, <2>2 DEF SagaPlaces
  <1>8. CASE Release(w)
    <2>1. /\ ledger' = ledger /\ lost' = lost /\ status'[o] = status[o]
          /\ \/ fulfillment'[o] = "unfulfilled"
             \/ fulfillment'[o] = fulfillment[o]
          /\ pc'[w] \notin Handling
      BY <1>2, <1>8, HandlingIsBusy
      DEF Release, ReleaseFulfillment, Update, Finish, rowVars, ledgerVars
    <2>2. QED
      BY <1>2, <1>3, <1>8, <2>1 DEF Release
  <1>9. QED
    BY <1>4, <1>5, <1>6, <1>7, <1>8

\* Each order, whoever steps.
LEMMA OrdersNext ==
  ASSUME SagaInv, [Next]_vars, NEW o \in Orders PROVE OrderOK(o)'
  <1>1. OrderOK(o) /\ TypeOK
    BY DEF SagaInv, PipelineInv
  <1>2. CASE Same(o)
    BY <1>1, <1>2, SameOrderOK
  <1>3. ASSUME NEW w \in Workers, WorkerStep(w), o = Order(w) PROVE OrderOK(o)'
    BY <1>3, MarkOrderOK, HandleOrderOK, SagaOrderOK DEF WorkerStep
  <1>4. ASSUME NEW w \in Workers, WorkerStep(w) PROVE OrderOK(o)'
    BY <1>1, <1>2, <1>3, <1>4, WorkerTouchesItsOrder
  <1>5. ASSUME NEW p \in Orders, OrderStep(p) PROVE OrderOK(o)'
    BY <1>1, <1>2, <1>5, OrderStepTouchesItsOrder, OrderStepOrderOK
  <1>6. QED
    BY <1>2, <1>4, <1>5, QuietStepsTouchNothing DEF Next

\* A worker comes to handle a value order when it finds the order unpaid.
LEMMA ArrivalAtHandling ==
  ASSUME SagaInv, NEW w \in Workers,
         \/ WorkerStep(w) \/ Abort(w)
         \/ \E a \in Attempts : EnterPipeline(w, a),
         pc'[w] \in Handling
  PROVE  /\ WorkerStep(w) /\ pc[w] # "idle" /\ job'[w] = job[w]
         /\ \/ pc[w] \in Handling
            \/ Order(w) \in ValueOrders => status[Order(w)] \in {"none", "pending_payment"}
  <1>. USE DEF SagaInv, PipelineInv, TypeOK
  <1>1. ~Finish(w)
    BY HandlingIsBusy DEF Finish
  <1>2. ASSUME NEW a \in Attempts, EnterPipeline(w, a) PROVE FALSE
    BY <1>2 DEF EnterPipeline, Receive, Sweep, Compensate, Converge, ConfirmByOperator,
                Start, Handling
  <1>3. ~Abort(w) /\ WorkerStep(w)
    BY <1>1, <1>2 DEF Abort
  <1>4. pc[w] # "idle" /\ job'[w] = job[w] /\ Order(w) \in Orders
    BY <1>1, <1>3, WorkerMoves, JobOfWorker DEF Goto
  <1>5. CASE pc[w] \notin Handling
    <2>1. MarkSucceeded(w)
      BY <1>1, <1>3, <1>5
      DEF WorkerStep, IngestSucceeded, IngestFailed, MarkFailed, HandlePhysical, FulfillOrder,
          StockRefused, HandleValue, Reserve, Credit, Commit, Reverse, Release, Answer, Goto,
          Handling
    <2>2. ~TerminalOrderPreserved(Order(w))
      BY <2>1 DEF MarkSucceeded, Goto, Handling
    <2>3. QED
      BY <1>3, <1>4, <2>2
      DEF OrderOK, ValueRowOK, TerminalOrderPreserved, TerminalStatus
  <1>6. QED
    BY <1>3, <1>4, <1>5

\* No order is handled twice: whoever handles it has made it unpayable.
LEMMA OneHandlerNext ==
  ASSUME SagaInv, [Next]_vars PROVE OneHandler'
  <1> SUFFICES ASSUME NEW v \in Workers, NEW w \in Workers,
                      pc'[v] \in Handling, pc'[w] \in Handling, v # w,
                      Order(v)' = Order(w)', Order(v)' \notin Physical
               PROVE  FALSE
    BY DEF OneHandler
  <1>1. TypeOK /\ PipelineInv
    BY DEF SagaInv, PipelineInv
  <1>2. ASSUME NEW x \in Workers, pc[x] \in Handling
        PROVE  Order(x) \in Orders /\ status[Order(x)] \notin {"none", "pending_payment"}
    BY <1>1, <1>2, HandledIsNotPayable
  <1>3. ASSUME pc[v] \in Handling, pc[w] \in Handling, job'[v] = job[v], job'[w] = job[w]
        PROVE  FALSE
    BY <1>3 DEF SagaInv, OneHandler, Order
  <1>4. ASSUME NEW x \in Workers, NEW y \in Workers, x # y, Order(x)' = Order(y)',
               Order(x)' \notin Physical,
               \/ WorkerStep(x) \/ Abort(x)
               \/ \E a \in Attempts : EnterPipeline(x, a),
               pc'[x] \in Handling, pc[y] \in Handling, job'[y] = job[y]
        PROVE  job'[x] = job[x] /\ pc[x] \in Handling
    <2>1. job'[x] = job[x] /\ pc[x] # "idle"
      BY <1>4, ArrivalAtHandling
    <2>2. Order(x) = Order(y) /\ Order(x) \in Orders /\ Order(x) \notin Physical
      BY <1>1, <1>4, <2>1, JobOfWorker DEF Order
    <2>3. QED
      BY <1>2, <1>4, <2>1, <2>2, ArrivalAtHandling DEF ValueOrders
  <1>5. QED
    BY <1>1, <1>3, <1>4, OneMoves

LEMMA SagaOKNext ==
  ASSUME SagaInv, [Next]_vars PROVE SagaOK'
  <1> SUFFICES ASSUME NEW v \in Workers, pc'[v] \in Handling
               PROVE  AtPlace(pc[v], Order(v))'
    BY DEF SagaOK
  <1>1. TypeOK /\ PipelineInv
    BY DEF SagaInv, PipelineInv
  <1>2. ASSUME \/ WorkerStep(v) \/ Abort(v)
               \/ \E a \in Attempts : EnterPipeline(v, a)
        PROVE  AtPlace(pc[v], Order(v))'
    <2>1. WorkerStep(v) /\ pc[v] # "idle" /\ Order(v)' = Order(v)
      BY <1>2, ArrivalAtHandling DEF Order
    <2>2. Order(v) \in Orders
      BY <1>1, <2>1, JobOfWorker
    <2>3. ASSUME NEW o \in Orders, o = Order(v) PROVE AtPlace(pc[v], o)'
      BY <2>1, <2>3, MarkOrderOK, HandleOrderOK, SagaOrderOK DEF WorkerStep
    <2>4. QED
      BY <2>1, <2>2, <2>3
  <1>3. ASSUME pc'[v] = pc[v], job'[v] = job[v],
               ~WorkerStep(v)
        PROVE  AtPlace(pc[v], Order(v))'
    <2>1. /\ Order(v)' = Order(v) /\ Order(v) \in Orders
          /\ pc[v] \in Handling /\ AtPlace(pc[v], Order(v))
          /\ status[Order(v)] \notin {"none", "pending_payment"}
      BY <1>1, <1>3, HandledIsNotPayable DEF SagaInv, SagaOK, Order
    <2>2. ASSUME Same(Order(v)) PROVE AtPlace(pc[v], Order(v))'
      BY <1>3, <2>1, <2>2, SameAtPlace
    <2>3. CASE Order(v) \in Physical
      <3>1. pc[v] \notin SagaPlaces
        BY <2>1, <2>3 DEF AtPlace, ValueOrders
      <3>2. QED
        BY <1>3, <2>1, <2>3, <3>1 DEF AtPlace, SagaPlaces, Handling, ValueOrders
    <2>4. CASE Order(v) \in ValueOrders
      <3>1. ASSUME NEW w \in Workers, WorkerStep(w), Order(w) = Order(v)
            PROVE  AtPlace(pc[v], Order(v))'
        <4>1. w # v /\ pc[w] \notin Handling
          BY <1>3, <2>1, <2>4, <3>1 DEF SagaInv, OneHandler, ValueOrders
        <4>2. IngestSucceeded(w) \/ IngestFailed(w) \/ MarkFailed(w) \/ MarkSucceeded(w)
                \/ Answer(w)
          BY <3>1, <4>1 DEF WorkerStep, HandlePhysical, FulfillOrder, StockRefused,
                            HandleValue, Reserve, Credit, Commit, Reverse, Release, Handling
        <4>3. ledger' = ledger /\ lost' = lost /\ fulfillment' = fulfillment
          <5>1. \A o \in Orders : [fulfillment EXCEPT ![o] = fulfillment[o]] = fulfillment
            BY <1>1 DEF TypeOK, RowTypeOK
          <5>2. QED
            BY <2>1, <3>1, <4>2, <5>1
            DEF IngestSucceeded, IngestFailed, MarkFailed, MarkSucceeded, Answer,
                MarkPaymentFailed, MarkPaymentSucceeded, Update, rowVars, ledgerVars
        <4>4. QED
          BY <1>3, <2>1, <4>3 DEF AtPlace, Untouched, ValueOrders
      <3>2. ASSUME OrderStep(Order(v)) PROVE AtPlace(pc[v], Order(v))'
        <4>1. fulfillment'[Order(v)] = fulfillment[Order(v)] /\ ledger' = ledger /\ lost' = lost
          BY <2>1, <2>4, <3>2, OrderStepOrderOK DEF OrderStep, ledgerVars
        <4>2. QED
          BY <1>3, <2>1, <4>1 DEF AtPlace, Untouched, ValueOrders
      <3>3. QED
        BY <1>1, <2>1, <2>2, <3>1, <3>2, WorkerTouchesItsOrder, OrderStepTouchesItsOrder,
           QuietStepsTouchNothing DEF Next
    <2>5. QED
      BY <2>1, <2>3, <2>4 DEF ValueOrders
  <1>4. QED
    BY <1>1, <1>2, <1>3, OneMoves

LEMMA CollectedAttempt == \A o : CollectedAttempts(o) # {} <=> Collected(o)
  BY DEF CollectedAttempts, Collected

LEMMA NothingForFreeNext ==
  ASSUME SagaInv, [Next]_vars PROVE NothingForFree'
  <1>1. Forward /\ PipelineInv /\ TypeOK
    BY NextForward DEF SagaInv, PipelineInv
  <1> SUFFICES ASSUME NEW o \in Orders, ledger'[o] # {} \/ o \in fulfillmentOrders'
               PROVE  Collected(o)'
    BY CollectedAttempt DEF NothingForFree, CollectedAttempts, Collected
  <1>2. CASE Collected(o)
    BY <1>1, <1>2, CollectedStays
  <1>3. CASE ~Collected(o)
    <2>1. ledger[o] = {} /\ o \notin fulfillmentOrders
      BY <1>3, CollectedAttempt DEF SagaInv, NothingForFree
    <2>2. ASSUME NEW w \in Workers, pc[w] \in Handling PROVE Order(w) # o
      <3>1. job[w] \in Attempts /\ attempt[job[w]] = "succeeded"
        BY <1>1, <2>2, HandlingIsBusy, JobOfWorker
        DEF PipelineInv, PlacesOK, PlaceOK, Marking
      <3>2. QED
        BY <1>1, <1>3, <3>1 DEF PipelineInv, PaymentsOK, Order
    <2>3. ASSUME NEW w \in Workers, WorkerStep(w) PROVE FALSE
      <3>1. CASE pc[w] \in Handling
        <4>1. ledger'[o] = ledger[o] /\ fulfillmentOrders' \subseteq fulfillmentOrders \cup {Order(w)}
          BY <1>1, <2>2, <2>3, <3>1, WorkerTouchesItsOrder
          DEF Same, WorkerStep, IngestSucceeded, IngestFailed, MarkFailed, MarkSucceeded,
              MarkPaymentFailed, MarkPaymentSucceeded, HandlePhysical, FulfillOrder,
              FulfillPhysical, StockRefused, HandleValue, Reserve, ReserveFulfillment, Credit,
              Commit, CommitFulfillment, Reverse, Release, ReleaseFulfillment, Answer, rowVars
        <4>2. QED
          BY <2>1, <2>2, <3>1, <4>1
      <3>2. CASE pc[w] \notin Handling
        <4>1. ledger' = ledger /\ fulfillmentOrders' = fulfillmentOrders
          BY <2>3, <3>2
          DEF WorkerStep, IngestSucceeded, IngestFailed, MarkFailed, MarkSucceeded,
              MarkPaymentFailed, MarkPaymentSucceeded, HandlePhysical, FulfillOrder,
              StockRefused, HandleValue, Reserve, Credit, Commit, Reverse, Release, Answer,
              Handling, rowVars, ledgerVars
        <4>2. QED
          BY <2>1, <4>1
      <3>3. QED
        BY <3>1, <3>2
    <2>4. ASSUME ledger' = ledger, fulfillmentOrders' = fulfillmentOrders PROVE FALSE
      BY <2>1, <2>4
    <2>5. QED
      BY <2>3, <2>4
      DEF Next, vars, rowVars, ledgerVars, OrderStep, CreateOwnerOrder, CreateValueOrder,
          MarkInventoryReserved, MarkInventoryFailed, CancelOrder, CloseManagementOrder,
          ExpireDueOrder, ExpireStaleRechargeOrder, AdvanceToShipped, ConfirmReceipt,
          PaymentStep, OpenPayment, CustomerPays, TryFails, ClosePayment, Abort,
          EnterPipeline, Receive, Sweep, Compensate, Converge, ConfirmByOperator
  <1>4. QED
    BY <1>2, <1>3

LEMMA InitSagaInv == Init => SagaInv
  <1> SUFFICES ASSUME Init PROVE SagaInv
    OBVIOUS
  <1>1. PipelineInv
    BY InitPipelineInv
  <1>2. QED
    BY <1>1
    DEF Init, RowInit, SagaInv, OneHandler, SagaOK, OrderOK, ValueRowOK, Untouched, GoodsRowOK,
        LedgerOK, NothingForFree, Handling, ValueOrders

LEMMA NextSagaInv == SagaInv /\ [Next]_vars => SagaInv'
  <1> SUFFICES ASSUME SagaInv, [Next]_vars PROVE SagaInv'
    OBVIOUS
  <1>1. PipelineInv'
    BY NextPipelineInv DEF SagaInv
  <1>2. QED
    BY <1>1, OneHandlerNext, SagaOKNext, OrdersNext, NothingForFreeNext DEF SagaInv

-----------------------------------------------------------------------------
\* Lifecycle and Rows are instances of one specification under one mapping.
LEMMA RowsIsLifecycle ==
  /\ Rows!Init => Lifecycle!Init
  /\ [Rows!Next]_(Rows!vars) => [Lifecycle!Next]_(Lifecycle!vars)
  <1>1. Rows!Init => Lifecycle!Init
    BY DEF Rows!Init, Lifecycle!Init, Rows!RowInit, Lifecycle!RowInit, Open, Recorded, Settling
  <1>2. UNCHANGED Rows!vars => UNCHANGED Lifecycle!vars
    BY DEF Rows!vars, Lifecycle!vars, Rows!rowVars, Lifecycle!rowVars, Open, Recorded, Settling
  <1>3. Rows!Next => Lifecycle!Next
    BY DEF Rows!Next, Lifecycle!Next, Open, Recorded, Settling,
           Lifecycle!OpenPayment, Rows!OpenPayment, Lifecycle!RecordSuccess,
           Rows!RecordSuccess, Lifecycle!SettleSuccess, Rows!SettleSuccess,
           Lifecycle!SettleFailure, Rows!SettleFailure, Lifecycle!FulfillStep,
           Rows!FulfillStep, Lifecycle!EndSettling, Rows!EndSettling, Lifecycle!OwnerStep,
           Rows!OwnerStep, Lifecycle!CallersUnchanged, Rows!CallersUnchanged,
           Lifecycle!PaymentSideUnchanged, Rows!PaymentSideUnchanged,
           Lifecycle!MarkPaymentSucceeded, Rows!MarkPaymentSucceeded,
           Lifecycle!MarkPaymentFailed, Rows!MarkPaymentFailed, Lifecycle!FailurePreserved,
           Rows!FailurePreserved, Lifecycle!TerminalOrderPreserved,
           Rows!TerminalOrderPreserved, Lifecycle!TerminalStatus, Rows!TerminalStatus,
           Lifecycle!KeptBySuccess, Rows!KeptBySuccess, Lifecycle!SuccessEvents,
           Rows!SuccessEvents, Lifecycle!FulfillPhysical, Rows!FulfillPhysical,
           Lifecycle!ReserveFulfillment, Rows!ReserveFulfillment,
           Lifecycle!ReleaseFulfillment, Rows!ReleaseFulfillment,
           Lifecycle!CommitFulfillment, Rows!CommitFulfillment, Lifecycle!CreateOwnerOrder,
           Rows!CreateOwnerOrder, Lifecycle!CreateValueOrder, Rows!CreateValueOrder,
           Lifecycle!MarkInventoryReserved, Rows!MarkInventoryReserved,
           Lifecycle!MarkInventoryFailed, Rows!MarkInventoryFailed, Lifecycle!CancelOrder,
           Rows!CancelOrder, Lifecycle!CloseManagementOrder, Rows!CloseManagementOrder,
           Lifecycle!ExpireDueOrder, Rows!ExpireDueOrder,
           Lifecycle!ExpireStaleRechargeOrder, Rows!ExpireStaleRechargeOrder,
           Lifecycle!AdvanceToShipped, Rows!AdvanceToShipped, Lifecycle!ConfirmReceipt,
           Rows!ConfirmReceipt, Lifecycle!Update, Rows!Update, Lifecycle!Record,
           Rows!Record, Lifecycle!Payable, Rows!Payable, Lifecycle!ValueOrders,
           Rows!ValueOrders, Lifecycle!rowVars, Rows!rowVars
  <1>4. QED
    BY <1>1, <1>2, <1>3

\* The pipeline's invariant, with the lifecycle's inside it.
THEOREM PipelineInvariant == Spec => []SagaInv
  BY InitSagaInv, NextSagaInv, PTL DEF Spec

\* Every reachable state of rows, payments, ledger and workers is well typed.
THEOREM PipelineTypeCorrect == Spec => []TypeOK
  <1>1. SagaInv => TypeOK
    BY DEF SagaInv, PipelineInv
  <1>2. QED
    BY <1>1, PipelineInvariant, PTL

\* The pipeline implements the lifecycle: whatever workers, sweeps, operators and
\* provider do, in whatever order and however often they end early, each step is
\* one that OrderLifecycle allows or none.
THEOREM PipelineRefinesLifecycle == Spec => ImplementsLifecycle
  <1>1. Init => Lifecycle!Init
    BY InitRows, RowsIsLifecycle
  <1>2. SagaInv /\ [Next]_vars => [Lifecycle!Next]_(Lifecycle!vars)
    BY NextMaps, RowsIsLifecycle DEF SagaInv
  <1>3. QED
    BY <1>1, <1>2, PipelineInvariant, PTL DEF Spec, ImplementsLifecycle, Lifecycle!Spec

\* What is credited or handed over was collected by the provider.
THEOREM NothingIsForFree == Spec => []NothingForFree
  <1>1. SagaInv => NothingForFree
    BY DEF SagaInv
  <1>2. QED
    BY <1>1, PipelineInvariant, PTL

\* A settlement that was answered without an error is on the attempt and the order.
THEOREM AcknowledgedRecorded == Spec => []AcknowledgedIsRecorded
  <1>1. SagaInv => AcknowledgedIsRecorded
    BY DEF SagaInv, PipelineInv
  <1>2. QED
    BY <1>1, PipelineInvariant, PTL

\* A fulfilled value order is credited once and not debited, unless a commit that
\* took effect was reported to its worker as failed.
THEOREM FulfilledCredited == Spec => []FulfilledMeansCredited
  <1>1. SagaInv => FulfilledMeansCredited
    BY DEF SagaInv, OrderOK, LedgerOK, FulfilledMeansCredited
  <1>2. QED
    BY <1>1, PipelineInvariant, PTL

\* A debit takes back a credit that was made, and the order it is made for is not
\* fulfilled, with the same exception.
THEOREM CompensatedUnfulfilled == Spec => []CompensatedIsUnfulfilled
  <1>1. SagaInv => CompensatedIsUnfulfilled
    BY DEF SagaInv, OrderOK, LedgerOK, CompensatedIsUnfulfilled
  <1>2. QED
    BY <1>1, PipelineInvariant, PTL

\* No value order is ever handled by two workers at a time.
THEOREM OneWorkerPerOrder == Spec => []OneHandler
  <1>1. SagaInv => OneHandler
    BY DEF SagaInv
  <1>2. QED
    BY <1>1, PipelineInvariant, PTL

\* What the lifecycle keeps holds of the pipeline.
THEOREM LifecycleSafety ==
  Spec => [](/\ Lifecycle!PaidIsNotPayable
             /\ Lifecycle!LatePaymentIsAudited
             /\ Lifecycle!FulfillmentNeedsPayment
             /\ Lifecycle!DeadOrderIsNeverFulfilled
             /\ Lifecycle!LatePaymentIsNeverFulfilled
             /\ Lifecycle!ReceiptIsConsistent
             /\ Lifecycle!FulfillmentOrderMatchesRow)
  <1>1. SagaInv => /\ Lifecycle!PaidIsNotPayable
                   /\ Lifecycle!LatePaymentIsAudited
                   /\ Lifecycle!FulfillmentNeedsPayment
                   /\ Lifecycle!DeadOrderIsNeverFulfilled
                   /\ Lifecycle!LatePaymentIsNeverFulfilled
                   /\ Lifecycle!ReceiptIsConsistent
                   /\ Lifecycle!FulfillmentOrderMatchesRow
    BY DEF SagaInv, PipelineInv, Rows!IInv, Settling,
      Lifecycle!PaidIsNotPayable, Rows!PaidIsNotPayable,
      Lifecycle!LatePaymentIsAudited, Rows!LatePaymentIsAudited,
      Lifecycle!FulfillmentNeedsPayment, Rows!FulfillmentNeedsPayment,
      Lifecycle!DeadOrderIsNeverFulfilled, Rows!DeadOrderIsNeverFulfilled,
      Lifecycle!LatePaymentIsNeverFulfilled, Rows!LatePaymentIsNeverFulfilled,
      Lifecycle!ReceiptIsConsistent, Rows!ReceiptIsConsistent,
      Lifecycle!FulfillmentOrderMatchesRow, Rows!FulfillmentOrderMatchesRow,
      Lifecycle!Payable, Rows!Payable, Lifecycle!Dead, Rows!Dead, Lifecycle!Started, Rows!Started
  <1>2. QED
    BY <1>1, PipelineInvariant, PTL
=============================================================================

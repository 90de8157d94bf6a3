---------------------------- MODULE PaymentNotify ----------------------------
(***************************************************************************)
(* The payment settlement pipeline: provider notifications, the            *)
(* compensation and convergence sweeps and the operator's confirmation all *)
(* enter the same code (process_payment_notify_verified and                *)
(* settle_owner_order_after_payment_success_with_registry).  One call is a *)
(* worker that commits several independent transactions one after the      *)
(* other; it may end between any two of them (Abort: an error answered     *)
(* with a server error, or a crash) and any number of workers interleave,  *)
(* for the same order too.                                                 *)
(*                                                                         *)
(* The payment runtime, the provider and the account ledger are other      *)
(* systems; they are modelled from how this code uses them.                *)
(***************************************************************************)
EXTENDS OrderRow, Naturals

CONSTANTS Attempts,    \* payment attempt ids (one provider trade each)
          NoAttempt,   \* what an idle worker works on
          OrderOf,     \* the order of each attempt
          Workers,     \* calls that can be under way at the same time
          MaxAborts    \* bound on the calls that end early

ASSUME AttemptAssumption == /\ OrderOf \in [Attempts -> Orders]
                            /\ NoAttempt \notin Attempts
                            /\ MaxAborts \in Nat

VARIABLES psp,      \* the provider's trade: "none", "open", "paid", "closed"
          notices,  \* notifications ever sent: <<attempt, result>>, kept for redelivery
          attempt,  \* commerce_payment_attempt.status
          acked,    \* attempts whose settlement was answered without an error
          ledger,   \* ledger entries of each order, by idempotency key
          lost,     \* orders with a COMMIT that took effect and was reported as failed
          pc, job,  \* where each worker is, and for which attempt
          aborts    \* calls that ended early so far

paymentVars == <<psp, notices, attempt>>
ledgerVars == <<ledger, lost>>
workerVars == <<pc, job, aborts>>
vars == <<rowVars, paymentVars, acked, ledgerVars, workerVars>>

Results == {"succeeded", "failed"}
AttemptStatus == {"none", "pending", "succeeded", "failed", "closed"}

\* The places at which a worker fulfills an order it has marked paid.
Handling == {"handle", "reserve", "credit", "commit", "commitReplayed",
             "reverse", "release", "answer"}
Places == {"idle", "ingestSucceeded", "ingestFailed", "markFailed",
           "markSucceeded", "answerLate"} \cup Handling

\* What the sagas write to the ledger, each under a key of its own per order.
Entries == {"credit", "reversal"}

TypeOK == /\ RowTypeOK
          /\ psp \in [Attempts -> {"none", "open", "paid", "closed"}]
          /\ notices \subseteq Attempts \X Results
          /\ attempt \in [Attempts -> AttemptStatus]
          /\ acked \subseteq Attempts
          /\ ledger \in [Orders -> SUBSET Entries]
          /\ lost \subseteq ValueOrders
          /\ pc \in [Workers -> Places]
          /\ job \in [Workers -> Attempts \cup {NoAttempt}]
          /\ \A w \in Workers : pc[w] = "idle" <=> job[w] = NoAttempt
          /\ aborts \in 0..MaxAborts

Init == /\ RowInit
        /\ psp = [a \in Attempts |-> "none"]
        /\ notices = {}
        /\ attempt = [a \in Attempts |-> "none"]
        /\ acked = {}
        /\ ledger = [o \in Orders |-> {}]
        /\ lost = {}
        /\ pc = [w \in Workers |-> "idle"]
        /\ job = [w \in Workers |-> NoAttempt]
        /\ aborts = 0

Order(w) == OrderOf[job[w]]
Goto(w, place) == /\ pc' = [pc EXCEPT ![w] = place]
                  /\ UNCHANGED <<job, aborts>>
Finish(w) == /\ pc' = [pc EXCEPT ![w] = "idle"]
             /\ job' = [job EXCEPT ![w] = NoAttempt]
Start(w, a, place) == /\ pc[w] = "idle"
                      /\ pc' = [pc EXCEPT ![w] = place]
                      /\ job' = [job EXCEPT ![w] = a]
                      /\ UNCHANGED aborts

-----------------------------------------------------------------------------
(* The provider and the payment runtime (external).                        *)

\* pay_owner_order refuses an order that is not payable.
OpenPayment(a) ==
  /\ attempt[a] = "none"
  /\ status[OrderOf[a]] \in Payable
  /\ attempt' = [attempt EXCEPT ![a] = "pending"]
  /\ psp' = [psp EXCEPT ![a] = "open"]
  /\ UNCHANGED <<rowVars, notices, acked, ledgerVars, workerVars>>

CustomerPays(a) ==
  /\ psp[a] = "open"
  /\ psp' = [psp EXCEPT ![a] = "paid"]
  /\ notices' = notices \cup {<<a, "succeeded">>}
  /\ UNCHANGED <<rowVars, attempt, acked, ledgerVars, workerVars>>

\* A failed try; the customer may try the same trade again.
TryFails(a) ==
  /\ psp[a] = "open"
  /\ notices' = notices \cup {<<a, "failed">>}
  /\ UNCHANGED <<rowVars, psp, attempt, acked, ledgerVars, workerVars>>

\* cancel_owner_order_payments: the row is closed after the provider closed
\* the trade, so never when the trade is paid.
ClosePayment(a) ==
  /\ attempt[a] = "pending"
  /\ psp[a] = "open"
  /\ attempt' = [attempt EXCEPT ![a] = "closed"]
  /\ psp' = [psp EXCEPT ![a] = "closed"]
  /\ UNCHANGED <<rowVars, notices, acked, ledgerVars, workerVars>>

-----------------------------------------------------------------------------
(* The ways into the pipeline.                                             *)

\* A body whose signature verifies was sent by the provider, earlier or just now.
Delivered(a, r) == <<a, r>> \in notices

\* Mutant: the notification is acknowledged before it is processed.
ReceiveAcknowledges(w, a) ==
  \E r \in Results :
    /\ Delivered(a, r)
    /\ Start(w, a, IF r = "succeeded" THEN "ingestSucceeded" ELSE "ingestFailed")
    /\ acked' = IF r = "succeeded" THEN acked \cup {a} ELSE acked
    /\ UNCHANGED <<rowVars, paymentVars, ledgerVars>>

\* A notification, delivered for the first time or again, in any order.
Receive(w, a) ==
  \E r \in Results :
    /\ Delivered(a, r)
    /\ Start(w, a, IF r = "succeeded" THEN "ingestSucceeded" ELSE "ingestFailed")
    /\ UNCHANGED <<rowVars, paymentVars, acked, ledgerVars>>

\* What the provider answers about a trade.
QueriedPaid(a) == psp[a] = "paid"

\* compensate_payment_attempt: the provider is asked about a pending attempt;
\* a trade still open is left for the next pass.
Compensate(w, a) ==
  /\ attempt[a] = "pending"
  /\ QueriedPaid(a)
  /\ Start(w, a, "ingestSucceeded")
  /\ UNCHANGED <<rowVars, paymentVars, acked, ledgerVars>>

\* Mutant: an order that has ended is passed over.
ConvergeLiveOrders(w, a) ==
  /\ attempt[a] = "succeeded"
  /\ payment[OrderOf[a]] # "success"
  /\ ~TerminalOrderPreserved(OrderOf[a])
  /\ Start(w, a, "ingestSucceeded")
  /\ UNCHANGED <<rowVars, paymentVars, acked, ledgerVars>>

\* converge_settled_payment_attempt: a succeeded attempt whose order has not
\* recorded the payment.
Converge(w, a) ==
  /\ attempt[a] = "succeeded"
  /\ payment[OrderOf[a]] # "success"
  /\ Start(w, a, "ingestSucceeded")
  /\ UNCHANGED <<rowVars, paymentVars, acked, ledgerVars>>

\* The order has this payment attempt and no other.
UniqueCandidate(a) ==
  /\ attempt[a] # "none"
  /\ \A b \in Attempts : OrderOf[b] = OrderOf[a] /\ attempt[b] # "none" => b = a

\* The provider is asked unless the attempt is succeeded already; its answer
\* must name this trade, its amount and currency.
ProviderConfirms(a) == psp[a] = "paid"
Reconciled(a) == attempt[a] = "succeeded" \/ ProviderConfirms(a)

\* Mutant: the provider is not asked.
ConfirmUnverified(w, a) ==
  /\ UniqueCandidate(a)
  /\ Start(w, a, "markSucceeded")
  /\ attempt' = [attempt EXCEPT ![a] = "succeeded"]
  /\ UNCHANGED <<rowVars, psp, notices, acked, ledgerVars>>

\* confirm_order_payment: reconciles the only attempt of the order and settles.
ConfirmByOperator(w, a) ==
  /\ UniqueCandidate(a)
  /\ Reconciled(a)
  /\ Start(w, a, "markSucceeded")
  /\ attempt' = [attempt EXCEPT ![a] = "succeeded"]
  /\ UNCHANGED <<rowVars, psp, notices, acked, ledgerVars>>

-----------------------------------------------------------------------------
(* The steps of a worker, each one committed transaction.                  *)

\* External ingest: the notification is stored and the attempt moves.  What a
\* success does to an attempt that already failed or closed is the payment
\* runtime's choice: applied, or acknowledged as a conflict.
IngestSucceeded(w) ==
  /\ pc[w] = "ingestSucceeded"
  /\ \/ /\ attempt' = [attempt EXCEPT ![job[w]] = "succeeded"]
        /\ Goto(w, "markSucceeded")
     \/ /\ attempt[job[w]] \in {"failed", "closed"}
        /\ Finish(w) /\ UNCHANGED aborts
        /\ UNCHANGED attempt
  /\ UNCHANGED <<rowVars, psp, notices, acked, ledgerVars>>

\* A failure never overrides a terminal attempt, but a repeated one is replayed.
IngestFailed(w) ==
  /\ pc[w] = "ingestFailed"
  /\ IF attempt[job[w]] \in {"pending", "failed"}
       THEN /\ attempt' = [attempt EXCEPT ![job[w]] = "failed"]
            /\ Goto(w, "markFailed")
       ELSE /\ Finish(w) /\ UNCHANGED aborts
            /\ UNCHANGED attempt
  /\ UNCHANGED <<rowVars, psp, notices, acked, ledgerVars>>

MarkFailed(w) ==
  /\ pc[w] = "markFailed"
  /\ \/ MarkPaymentFailed(Order(w), "failed")
     \/ FailurePreserved(Order(w)) /\ UNCHANGED rowVars
  /\ Finish(w) /\ UNCHANGED aborts
  /\ UNCHANGED <<paymentVars, acked, ledgerVars>>

\* Mutant: the order is fulfilled whether or not it had ended.
MarkSucceededAndHandle(w) ==
  /\ pc[w] = "markSucceeded"
  /\ MarkPaymentSucceeded(Order(w))
  /\ Goto(w, "handle")
  /\ UNCHANGED <<paymentVars, acked, ledgerVars>>

\* confirm_owner_order_payment finds the attempt succeeded and changes nothing;
\* then the order is marked, and fulfilled unless it was terminal.
MarkSucceeded(w) ==
  /\ pc[w] = "markSucceeded"
  /\ MarkPaymentSucceeded(Order(w))
  /\ Goto(w, IF TerminalOrderPreserved(Order(w)) THEN "answerLate" ELSE "handle")
  /\ UNCHANGED <<paymentVars, acked, ledgerVars>>

\* PhysicalGoodsNotifyHandler; an existing fulfillment order is a replay.
FulfillOrder(w) ==
  /\ pc[w] = "handle"
  /\ \/ FulfillPhysical(Order(w))
     \/ Order(w) \in fulfillmentOrders /\ UNCHANGED rowVars
  /\ Goto(w, "answer")
  /\ UNCHANGED <<paymentVars, acked, ledgerVars>>

\* The stock of the order cannot be consumed: a server error.
StockRefused(w) ==
  /\ pc[w] = "handle"
  /\ Order(w) \in Physical
  /\ Finish(w) /\ UNCHANGED aborts
  /\ UNCHANGED <<rowVars, paymentVars, acked, ledgerVars>>

HandlePhysical(w) == FulfillOrder(w) \/ StockRefused(w)

\* The other attempts of an order that mark_points_recharge_payment_succeeded
\* finds open become succeeded too.
SucceedOpen(o) == attempt' = [a \in Attempts |->
                               IF OrderOf[a] = o /\ attempt[a] = "pending"
                                 THEN "succeeded" ELSE attempt[a]]

\* PointsRechargeNotifyHandler.
HandlePoints(w) == /\ Order(w) \in Points
                   /\ SucceedOpen(Order(w))
                   /\ payment' = [payment EXCEPT ![Order(w)] = "success"]

\* AccountValueNotifyHandler: straight to the saga.
HandleAccountValue(w) == /\ Order(w) \notin Points
                         /\ UNCHANGED <<attempt, payment>>

HandleValue(w) ==
  /\ pc[w] = "handle"
  /\ Order(w) \in ValueOrders
  /\ HandlePoints(w) \/ HandleAccountValue(w)
  /\ Goto(w, "reserve")
  /\ UNCHANGED <<status, fulfillment, events, fulfillmentOrders, psp, notices,
                 acked, ledgerVars>>

\* The row is read before and after the UPDATE: an order fulfilled by then is a
\* replay, one fulfilled in between goes on to a credit that is one.
Reserve(w) ==
  /\ pc[w] = "reserve"
  /\ \/ /\ ReserveFulfillment(Order(w))
        /\ Goto(w, "credit")
     \/ /\ fulfillment[Order(w)] = "processing"
        /\ Goto(w, "credit")
        /\ UNCHANGED rowVars
     \/ /\ fulfillment[Order(w)] = "fulfilled"
        /\ Goto(w, "answer") \/ Goto(w, "credit")
        /\ UNCHANGED rowVars
  /\ UNCHANGED <<paymentVars, acked, ledgerVars>>

\* A ledger command is found again by its key: it applies once.
AppendEntry(o, entry) == ledger' = [ledger EXCEPT ![o] = @ \cup {entry}]
\* One that is answered with an error, or not in time, may have been applied.
MayAppendEntry(o, entry) ==
  \E reached \in SUBSET {entry} : ledger' = [ledger EXCEPT ![o] = @ \cup reached]

\* Mutant: the order is committed even when the credit failed.
CreditIgnoringError(w) ==
  /\ pc[w] = "credit"
  /\ MayAppendEntry(Order(w), "credit")
  /\ Goto(w, "commit")
  /\ UNCHANGED <<rowVars, paymentVars, acked, lost>>

\* The credit is idempotent by key.  It may fail, and then it may or may not
\* have reached the ledger; the reservation is released.
Credit(w) ==
  /\ pc[w] = "credit"
  /\ \/ /\ Goto(w, IF "credit" \in ledger[Order(w)] THEN "commitReplayed" ELSE "commit")
        /\ AppendEntry(Order(w), "credit")
     \/ /\ Goto(w, "release")
        /\ MayAppendEntry(Order(w), "credit")
  /\ UNCHANGED <<rowVars, paymentVars, acked, lost>>

\* A commit that fails, or took effect and is reported as failed, is compensated
\* unless the credit was a replay.
Compensation(w) == IF pc[w] = "commit" THEN "reverse" ELSE "release"

Commit(w) ==
  /\ pc[w] \in {"commit", "commitReplayed"}
  /\ \/ /\ CommitFulfillment(Order(w))
        /\ \/ Goto(w, "answer") /\ UNCHANGED lost
           \/ Goto(w, Compensation(w)) /\ lost' = lost \cup {Order(w)}
     \/ /\ fulfillment[Order(w)] = "fulfilled"
        /\ Goto(w, "answer")
        /\ UNCHANGED <<rowVars, lost>>
     \/ /\ Goto(w, Compensation(w))
        /\ UNCHANGED <<rowVars, lost>>
  /\ UNCHANGED <<paymentVars, acked, ledger>>

\* Mutant: after the debit the commit is tried once more.
ReverseAndRetry(w) ==
  /\ pc[w] = "reverse"
  /\ MayAppendEntry(Order(w), "reversal")
  /\ Goto(w, "commitReplayed")
  /\ UNCHANGED <<rowVars, paymentVars, acked, lost>>

\* The compensating debit may fail: logged for the operator, then released.
Reverse(w) ==
  /\ pc[w] = "reverse"
  /\ MayAppendEntry(Order(w), "reversal")
  /\ Goto(w, "release")
  /\ UNCHANGED <<rowVars, paymentVars, acked, lost>>

\* Mutant: released whatever the fulfillment has come to.
ReleaseAlways(w) ==
  /\ pc[w] = "release"
  /\ Update(Order(w), status[Order(w)], payment[Order(w)], "unfulfilled")
  /\ Finish(w) /\ UNCHANGED aborts
  /\ UNCHANGED <<events, fulfillmentOrders, paymentVars, acked, ledgerVars>>

\* The error is returned after the release, whether or not it found the
\* reservation: a server error, so the notification is not acknowledged.
Release(w) ==
  /\ pc[w] = "release"
  /\ \/ ReleaseFulfillment(Order(w))
     \/ fulfillment[Order(w)] # "processing" /\ UNCHANGED rowVars
  /\ Finish(w) /\ UNCHANGED aborts
  /\ UNCHANGED <<paymentVars, acked, ledgerVars>>

Answer(w) ==
  /\ pc[w] \in {"answer", "answerLate"}
  /\ acked' = acked \cup {job[w]}
  /\ Finish(w) /\ UNCHANGED aborts
  /\ UNCHANGED <<rowVars, paymentVars, ledgerVars>>

\* The call ends early: a store or port error, or the process stops.
Abort(w) ==
  /\ pc[w] # "idle"
  /\ aborts < MaxAborts
  /\ aborts' = aborts + 1
  /\ Finish(w)
  /\ UNCHANGED <<rowVars, paymentVars, acked, ledgerVars>>

WorkerStep(w) == \/ IngestSucceeded(w)
                 \/ IngestFailed(w)
                 \/ MarkFailed(w)
                 \/ MarkSucceeded(w)
                 \/ HandlePhysical(w)
                 \/ HandleValue(w)
                 \/ Reserve(w)
                 \/ Credit(w)
                 \/ Commit(w)
                 \/ Reverse(w)
                 \/ Release(w)
                 \/ Answer(w)

\* The other callers of the order store.
OrderStep(o) == /\ \/ CreateOwnerOrder(o)
                   \/ CreateValueOrder(o)
                   \/ MarkInventoryReserved(o)
                   \/ MarkInventoryFailed(o)
                   \/ CancelOrder(o)
                   \/ CloseManagementOrder(o)
                   \/ ExpireDueOrder(o, \E a \in Attempts :
                        OrderOf[a] = o /\ attempt[a] = "succeeded")
                   \/ ExpireStaleRechargeOrder(o)
                   \/ AdvanceToShipped(o)
                   \/ ConfirmReceipt(o)
                /\ UNCHANGED <<paymentVars, acked, ledgerVars, workerVars>>

PaymentStep(a) == \/ OpenPayment(a)
                  \/ CustomerPays(a)
                  \/ TryFails(a)
                  \/ ClosePayment(a)

\* What the periodic pass of the compensation worker may take up.
Sweep(w, a) == Compensate(w, a) \/ Converge(w, a)

EnterPipeline(w, a) == \/ Receive(w, a)
                       \/ Sweep(w, a)
                       \/ ConfirmByOperator(w, a)

Next == \/ \E o \in Orders : OrderStep(o)
        \/ \E a \in Attempts : PaymentStep(a)
        \/ \E w \in Workers : \/ WorkerStep(w)
                              \/ Abort(w)
                              \/ \E a \in Attempts : EnterPipeline(w, a)

Spec == Init /\ [][Next]_vars

-----------------------------------------------------------------------------
(* Refinement.                                                             *)

\* OrderLifecycle's view of the payment side and of the workers.
Lifecycle == INSTANCE OrderLifecycle WITH
  open <- {OrderOf[a] : a \in {b \in Attempts : attempt[b] # "none"}},
  recorded <- {OrderOf[a] : a \in {b \in Attempts : attempt[b] = "succeeded"}},
  settling <- {OrderOf[job[w]] : w \in {v \in Workers : pc[v] \in Handling}}

\* The pipeline implements the lifecycle: every interleaving of workers is one
\* of the store calls OrderLifecycle allows, so its invariants hold here.
ImplementsLifecycle == Lifecycle!Spec

-----------------------------------------------------------------------------
(* Safety.                                                                 *)

CollectedAttempts(o) == {a \in Attempts : OrderOf[a] = o /\ psp[a] = "paid"}

\* Value is credited and goods are released only for orders whose customer
\* paid at the provider, whatever notices were lost, repeated or reordered.
NothingForFree ==
  \A o \in Orders : (ledger[o] # {} \/ o \in fulfillmentOrders) => CollectedAttempts(o) # {}

\* A fulfilled value order has its credit on the ledger and no compensating
\* debit, whichever phase of the saga failed or was repeated before, as long as
\* none of its commits was reported as failed after it took effect.
FulfilledMeansCredited ==
  \A o \in Orders \ lost : fulfillment[o] = "fulfilled" => ledger[o] = {"credit"}

\* A compensated order is not fulfilled in the books of the order domain: a
\* debit follows its credit and no commit, with the same exception.
CompensatedIsUnfulfilled ==
  \A o \in Orders : "reversal" \in ledger[o] =>
    /\ "credit" \in ledger[o]
    /\ o \notin lost => fulfillment[o] \in {"processing", "unfulfilled"}

\* A payment that was answered without an error is fulfilled once no worker is at
\* the order any more.  The documents promise it of redelivered events; a worker
\* that ends after marking the order paid breaks it.
RedeliveryCompletesSettlement ==
  \A a \in acked : status[OrderOf[a]] = "paid" =>
    \/ fulfillment[OrderOf[a]] # "unfulfilled"
    \/ \E w \in Workers : pc[w] # "idle" /\ Order(w) = OrderOf[a]

\* A settlement answered without an error is on the order row: the provider may
\* stop redelivering the notification, the operator may close the case.
AcknowledgedIsRecorded ==
  \A a \in acked : attempt[a] = "succeeded" /\ payment[OrderOf[a]] = "success"

-----------------------------------------------------------------------------
(* Liveness.                                                               *)

\* A worker does not stand still unless it aborts, and the periodic passes of
\* the compensation worker get a turn.  Nothing is assumed about redelivery,
\* the customer, the operator or the other callers.
Fairness == /\ \A w \in Workers : WF_vars(WorkerStep(w))
            /\ \A a \in Attempts : SF_vars(\E w \in Workers : Sweep(w, a))

FairSpec == Spec /\ Fairness

\* Money the provider collected is eventually on the order row, even when every
\* notification is lost and calls abort, unless an earlier failure notification
\* made the attempt terminal.
CollectedIsEventuallyRecorded ==
  \A a \in Attempts : psp[a] = "paid" ~>
    (payment[OrderOf[a]] = "success" \/ attempt[a] = "failed")
=============================================================================

---------------------------- MODULE RefundRequest ----------------------------
(***************************************************************************)
(* The refund requests of one paid order: creation within the amount that  *)
(* was paid, the operator's review (execute_account_value_request_review), *)
(* and the provider's refund notices with the compensation pass, which     *)
(* enter the same code (process_refund_notify_verified with the            *)
(* AccountValueRefundNotifyHandler).  A review places a hold on the value  *)
(* the order gave, has the payment runtime refund the money, and settles   *)
(* or releases the hold; a notice does the same when the answer comes      *)
(* later.  Reviews and notices interleave at their single transactions and *)
(* calls, and each may end between any two of them (Abort).                *)
(*                                                                         *)
(* The account ledger keeps one hold per idempotency key and the payment   *)
(* runtime one commerce_refund per request; both are other systems.  The   *)
(* release of stock that follows a refund is in PhysicalOrder.             *)
(***************************************************************************)
EXTENDS Naturals, FiniteSetsExt

CONSTANTS Requests,   \* refund requests of the order
          Amount,     \* what each asks for
          PaidAmount,    \* what was paid for the order
          Reviews,    \* review calls that can be under way at the same time
          Notices,    \* refund notices (and compensations) under way
          RetryKeys,  \* Idempotency-Key of reviews that retry a failed refund
          FirstKey,   \* the key of the hold a request places first
          NoRequest, NoHold

RefundCalls == Reviews \cup Notices
Holds == RetryKeys \cup {FirstKey}

ASSUME RefundAssumption == /\ Amount \in [Requests -> Nat \ {0}]
                           /\ PaidAmount \in Nat
                           /\ Reviews \cap Notices = {}
                           /\ FirstKey \notin RetryKeys
                           /\ NoHold \notin Holds
                           /\ NoRequest \notin Requests

VARIABLES requestStatus, \* commerce_order_refund_request.status
          effect,       \* its account_effect_reference_id
          hold,         \* the account holds of each request, by key
          refund,       \* commerce_refund.status of each request
          orderRefund,  \* commerce_order.refund_status
          pc, about,    \* where each call is, and for which request
          held,         \* the hold it works with
          answer        \* the end it is working towards

refundRequestVars == <<requestStatus, effect>>
callVars == <<pc, about, held, answer>>
refundVars == <<refundRequestVars, hold, refund, orderRefund, callVars>>

Statuses == {"requested", "account_reversal_held", "provider_refund_processing",
             "provider_refund_failed", "refunded", "rejected"}
RefundStatuses == {"processing", "succeeded", "failed", "canceled"}

\* The status a request is given at the end of a review or a notice.
FinalStatus == [rejected |-> "rejected",
                processing |-> "provider_refund_processing",
                succeeded |-> "refunded",
                failed |-> "provider_refund_failed",
                canceled |-> "provider_refund_failed"]

\* The places of a review, and those of a notice; they share three.
Places == {"idle", "placeHold", "markHeld", "markProcessing", "execute", "submit",
           "markFinal", "markOrder", "load", "markSettled",
           "settle", "release", "syncOrder"}

RefundTypeOK ==
  /\ requestStatus \in [Requests -> Statuses \cup {"absent"}]
  /\ effect \in [Requests -> Holds \cup {NoHold}]
  /\ hold \in [Requests -> [Holds -> {"none", "held", "settled", "released"}]]
  /\ refund \in [Requests -> RefundStatuses \cup {"none"}]
  /\ orderRefund \in {"none", "refunding", "refunded", "refund_failed",
                      "provider_refund_failed"}
  /\ pc \in [RefundCalls -> Places]
  /\ about \in [RefundCalls -> Requests \cup {NoRequest}]
  /\ held \in [RefundCalls -> Holds \cup {NoHold}]
  /\ answer \in [RefundCalls -> DOMAIN FinalStatus \cup {"none"}]
  /\ \A p \in RefundCalls : pc[p] = "idle" <=> about[p] = NoRequest

RefundInit == /\ requestStatus = [r \in Requests |-> "absent"]
              /\ effect = [r \in Requests |-> NoHold]
              /\ hold = [r \in Requests |-> [k \in Holds |-> "none"]]
              /\ refund = [r \in Requests |-> "none"]
              /\ orderRefund = "none"
              /\ pc = [p \in RefundCalls |-> "idle"]
              /\ about = [p \in RefundCalls |-> NoRequest]
              /\ held = [p \in RefundCalls |-> NoHold]
              /\ answer = [p \in RefundCalls |-> "none"]

Begin(p, r, place, h, a) == /\ pc' = [pc EXCEPT ![p] = place]
                            /\ about' = [about EXCEPT ![p] = r]
                            /\ held' = [held EXCEPT ![p] = h]
                            /\ answer' = [answer EXCEPT ![p] = a]
MoveOn(p, place) == /\ pc' = [pc EXCEPT ![p] = place]
                    /\ UNCHANGED <<about, held, answer>>
Decide(p, place, a) == /\ pc' = [pc EXCEPT ![p] = place]
                       /\ answer' = [answer EXCEPT ![p] = a]
                       /\ UNCHANGED <<about, held>>

End(p) == Begin(p, NoRequest, "idle", NoHold, "none")

-----------------------------------------------------------------------------
(* Creation.  A request that was rejected or whose refund failed no longer *)
(* counts against the amount paid.                                         *)

Live(r) == requestStatus[r] \notin {"absent", "rejected", "provider_refund_failed"}
LiveAmount == MapThenSumSet(LAMBDA r : Amount[r], {r \in Requests : Live(r)})

CreateRequest(r) == /\ requestStatus[r] = "absent"
                    /\ LiveAmount + Amount[r] <= PaidAmount
                    /\ requestStatus' = [requestStatus EXCEPT ![r] = "requested"]
                    /\ UNCHANGED <<effect, hold, refund, orderRefund, callVars>>

-----------------------------------------------------------------------------
(* The operator's review.  The request is read without a lock when the     *)
(* call begins, and every later step goes by what was read.                *)

\* Rejecting is refused for a refunded request only.
BeginReject(c, r) ==
  /\ pc[c] = "idle"
  /\ requestStatus[r] \notin {"absent", "refunded"}
  /\ Begin(c, r, IF effect[r] = NoHold THEN "markFinal" ELSE "release", effect[r], "rejected")
  /\ UNCHANGED <<refundRequestVars, hold, refund, orderRefund>>

\* ensure_account_hold: a hold the row refers to is reused, except after a
\* failed refund, when a hold with a key of this review takes its place.
BeginApprove(c, r) ==
  /\ pc[c] = "idle"
  /\ requestStatus[r] \notin {"absent", "refunded"}
  /\ \/ /\ requestStatus[r] # "provider_refund_failed"
        /\ IF effect[r] # NoHold THEN Begin(c, r, "markProcessing", effect[r], "none")
                                 ELSE Begin(c, r, "placeHold", FirstKey, "none")
     \/ /\ requestStatus[r] = "provider_refund_failed"
        /\ \E k \in RetryKeys : Begin(c, r, "placeHold", k, "none")
  /\ UNCHANGED <<refundRequestVars, hold, refund, orderRefund>>

\* The ledger answers a repeated key with the hold as it is by now.
PlaceHold(c) == /\ pc[c] = "placeHold"
                /\ hold' = [hold EXCEPT ![about[c]][held[c]] = IF @ = "none" THEN "held" ELSE @]
                /\ MoveOn(c, "markHeld")
                /\ UNCHANGED <<refundRequestVars, refund, orderRefund>>

\* REFUND_REQUEST_TERMINAL_STATUSES: the update finds no row and is an error.
Terminal(r) == requestStatus[r] \in {"refunded", "rejected"}

MarkStatus(c, s, place) ==
  /\ IF Terminal(about[c])
     THEN /\ End(c)
          /\ UNCHANGED refundRequestVars
     ELSE /\ requestStatus' = [requestStatus EXCEPT ![about[c]] = s]
          /\ effect' = [effect EXCEPT ![about[c]] = IF s = "rejected" THEN @ ELSE held[c]]
          /\ IF place = "idle" THEN End(c) ELSE MoveOn(c, place)
  /\ UNCHANGED <<hold, refund, orderRefund>>

MarkHeld(c) == /\ pc[c] = "markHeld"
               /\ MarkStatus(c, "account_reversal_held", "markProcessing")
MarkProcessing(c) == /\ pc[c] = "markProcessing"
                     /\ MarkStatus(c, "provider_refund_processing", "execute")
MarkFinal(c) == /\ pc[c] = "markFinal"
                /\ MarkStatus(c, FinalStatus[answer[c]],
                              IF answer[c] = "succeeded" THEN "syncOrder" ELSE "idle")

-----------------------------------------------------------------------------
(* The payment runtime executes a refund: one commerce_refund per request, *)
(* claimed as processing before it is submitted, submitted again when it   *)
(* had failed.                                                             *)

\* Mutant: a submitted refund counts as confirmed.
EndOfAnswerSubmitted(a) == IF a \in {"succeeded", "processing"} THEN "settle" ELSE "release"

\* What a review, or a notice, does about an answer: provider_refund_outcome_class.
EndOfAnswer(a) == CASE a = "succeeded" -> "settle"
                    [] a = "processing" -> "markFinal"
                    [] OTHER -> "release"

Execute(c) ==
  /\ pc[c] = "execute"
  /\ \/ /\ refund[about[c]] \in {"none", "failed", "processing"}
        /\ refund' = [refund EXCEPT ![about[c]] = "processing"]
        /\ MoveOn(c, "submit")
     \/ /\ refund[about[c]] \in {"succeeded", "canceled"}
        /\ Decide(c, EndOfAnswer(refund[about[c]]), refund[about[c]])
        /\ UNCHANGED refund
     \/ /\ Decide(c, "release", "failed")   \* refused: a deterministic error
        /\ UNCHANGED refund
  /\ UNCHANGED <<refundRequestVars, hold, orderRefund>>

\* The payment runtime never takes a success back, and may know of one before
\* the answer to the submission is in.
MayBecome(r, a) == refund[r] = "succeeded" => a = "succeeded"

Submit(c) ==
  /\ pc[c] = "submit"
  /\ \/ /\ Decide(c, EndOfAnswer("processing"), "processing")
        /\ UNCHANGED refund
     \/ \E a \in {"succeeded", "failed"} :
          /\ MayBecome(about[c], a)
          /\ refund' = [refund EXCEPT ![about[c]] = a]
          /\ Decide(c, EndOfAnswer(a), a)
     \/ /\ refund[about[c]] = "processing"   \* refused; marking it failed may fail too
        /\ refund' \in {refund, [refund EXCEPT ![about[c]] = "failed"]}
        /\ Decide(c, "release", "failed")
  /\ UNCHANGED <<refundRequestVars, hold, orderRefund>>

-----------------------------------------------------------------------------
(* Both reviews and notices end a hold; the ledger replays an end it knows *)
(* and refuses the other one.                                              *)

\* Mutant: an error of the ledger is logged and passed over.
EndHoldIgnoringRefusal(p, place, target) ==
  /\ pc[p] = place
  /\ hold' = [hold EXCEPT ![about[p]][held[p]] = IF @ = "held" THEN target ELSE @]
  /\ MoveOn(p, IF p \in Reviews THEN "markFinal" ELSE "markSettled")
  /\ UNCHANGED <<refundRequestVars, refund, orderRefund>>

EndHold(p, place, target) ==
  /\ pc[p] = place
  /\ IF hold[about[p]][held[p]] \in {"held", target}
     THEN /\ hold' = [hold EXCEPT ![about[p]][held[p]] = target]
          /\ MoveOn(p, IF p \in Reviews THEN "markFinal" ELSE "markSettled")
     ELSE /\ End(p)
          /\ UNCHANGED hold
  /\ UNCHANGED <<refundRequestVars, refund, orderRefund>>

SettleHold(p) == EndHold(p, "settle", "settled")
Release(p) == EndHold(p, "release", "released")

\* mark_owner_order_refunded writes whatever it is given.  Not every host passes
\* the notice handler a store for it, and errors of it are logged: see Abort.
SyncOrder(p) == /\ pc[p] = "syncOrder"
                /\ orderRefund' = FinalStatus[answer[p]]
                /\ End(p)
                /\ UNCHANGED <<refundRequestVars, hold, refund>>

-----------------------------------------------------------------------------
(* A notice or the answer to a compensation query, first of all recorded   *)
(* on the commerce_refund.  It may be repeated at any time.                *)

Ingest(w, r) ==
  /\ pc[w] = "idle"
  /\ refund[r] # "none"
  /\ \E a \in RefundStatuses : /\ MayBecome(r, a)
                               /\ refund' = [refund EXCEPT ![r] = a]
                               /\ Begin(w, r, "markOrder", NoHold, a)
  /\ UNCHANGED <<refundRequestVars, hold, orderRefund>>

\* Mutant: an order whose refund is under way counts as refunded.
OrderStatusOfProcessing == [succeeded |-> "refunded", failed |-> "refund_failed",
                            canceled |-> "refund_failed", processing |-> "refunded"]

OrderStatusOf == [succeeded |-> "refunded", failed |-> "refund_failed",
                  canceled |-> "refund_failed", processing |-> "refunding"]

\* Only a success or a failure is handed to the request's handler.
MarkOrderRefund(w) ==
  /\ pc[w] = "markOrder"
  /\ orderRefund' = IF orderRefund = "refunded" THEN orderRefund ELSE OrderStatusOf[answer[w]]
  /\ IF answer[w] \in {"succeeded", "failed"} THEN MoveOn(w, "load") ELSE End(w)
  /\ UNCHANGED <<refundRequestVars, hold, refund>>

LoadForSettlement(w) ==
  /\ pc[w] = "load"
  /\ IF requestStatus[about[w]] = "provider_refund_processing" /\ effect[about[w]] # NoHold
     THEN Begin(w, about[w], EndOfAnswer(answer[w]), effect[about[w]], answer[w])
     ELSE End(w)
  /\ UNCHANGED <<refundRequestVars, hold, refund, orderRefund>>

MarkSettled(w) ==
  /\ pc[w] = "markSettled"
  /\ IF requestStatus[about[w]] = "provider_refund_processing"
     THEN /\ requestStatus' = [requestStatus EXCEPT ![about[w]] = FinalStatus[answer[w]]]
          /\ MoveOn(w, "syncOrder")
     ELSE /\ End(w)
          /\ UNCHANGED requestStatus
  /\ UNCHANGED <<effect, hold, refund, orderRefund>>

-----------------------------------------------------------------------------
\* A call ends early: an error of the store, the ledger or the payment runtime,
\* which leaves what was done so far, or a crash.
Abort(p) == /\ pc[p] # "idle"
            /\ End(p)
            /\ UNCHANGED <<refundRequestVars, hold, refund, orderRefund>>

ReviewStep(c) == \/ \E r \in Requests : BeginReject(c, r) \/ BeginApprove(c, r)
                 \/ PlaceHold(c) \/ MarkHeld(c) \/ MarkProcessing(c)
                 \/ Execute(c) \/ Submit(c) \/ MarkFinal(c)
NoticeStep(w) == \/ \E r \in Requests : Ingest(w, r)
                 \/ MarkOrderRefund(w) \/ LoadForSettlement(w) \/ MarkSettled(w)

RefundNext == \/ \E r \in Requests : CreateRequest(r)
              \/ \E c \in Reviews : ReviewStep(c)
              \/ \E w \in Notices : NoticeStep(w)
              \/ \E p \in RefundCalls : SettleHold(p) \/ Release(p) \/ SyncOrder(p) \/ Abort(p)

RefundSpec == RefundInit /\ [][RefundNext]_refundVars

-----------------------------------------------------------------------------
(* Properties.                                                             *)

\* Value is taken from the owner's account only for money that was paid back:
\* a hold is settled only when the provider's refund has succeeded, whichever
\* of the reviews and notices settled it.
SettledIsRefunded == \A r \in Requests, k \in Holds :
                       hold[r][k] = "settled" => refund[r] = "succeeded"

\* A request that says refunded is one whose money was paid back and for which
\* a hold was settled, even if its row was written by a call that read it long
\* before.
RefundedIsBacked == \A r \in Requests :
  requestStatus[r] = "refunded" => /\ refund[r] = "succeeded"
                                   /\ \E k \in Holds : hold[r][k] = "settled"

\* The hold of a retry never comes on top of the first one: a failed request
\* has given its first hold back, and no retry holds value before that.
RetryReplacesFirstHold == \A r \in Requests :
  (requestStatus[r] = "provider_refund_failed" \/ \E k \in RetryKeys : hold[r][k] # "none")
    => hold[r][FirstKey] = "released"

\* An order that shows refunded had money paid back: no failed, cancelled or
\* unfinished refund is shown as one, by the pipeline or by the handler.
OrderRefundedIsReal == orderRefund = "refunded" =>
                         \E r \in Requests : refund[r] = "succeeded"

\* A request that was refunded or rejected stays so whichever call comes late:
\* a review that read it before, a retry, a notice.
EndedRequestStays ==
  [][\A r \in Requests : requestStatus[r] \in {"refunded", "rejected"} =>
                          requestStatus'[r] = requestStatus[r]]_refundVars
=============================================================================

------------------------- MODULE AccountValueProofs --------------------------
(***************************************************************************)
(* How value comes onto an account by a coupon and leaves it by a refund.  *)
(*                                                                         *)
(* RefundRequest, for any number of requests, reviews, notices and         *)
(* retries. The inductive invariant says of every call under way what it   *)
(* may rely on although it read the request long before (CallOK), and of   *)
(* every request what its row and its holds tell about each other          *)
(* (RequestOK). A step of one call cannot spoil CallOK of another, because *)
(* holds only move forward and a success stays one (MovesForward).         *)
(*                                                                         *)
(* RechargeOrder, for any number of orders, calls, codes and faults. A     *)
(* code stays redeemed as it was (RedemptionsLast), so a call that found   *)
(* its order in the redemption may grant, commit and release long after.   *)
(***************************************************************************)
EXTENDS RechargeOrder, RefundRequest, TLAPS

-----------------------------------------------------------------------------
(* Refund requests.                                                        *)

Working == {"placeHold", "markHeld", "markProcessing", "execute", "submit",
            "settle", "release", "markSettled"}

CallOK(p) ==
  /\ pc[p] = "idle" => held[p] = NoHold /\ answer[p] = "none"
  /\ pc[p] \in Working => held[p] # NoHold
  /\ pc[p] = "markFinal" => answer[p] = "rejected" \/ held[p] # NoHold
  /\ held[p] # NoHold /\ pc[p] # "placeHold" => hold[about[p]][held[p]] # "none"
  /\ pc[p] = "placeHold" /\ held[p] # FirstKey => hold[about[p]][FirstKey] = "released"
  /\ answer[p] = "succeeded" => refund[about[p]] = "succeeded"
  /\ pc[p] = "settle" => answer[p] = "succeeded"
  /\ pc[p] = "release" => answer[p] \in {"rejected", "failed", "canceled"}
  /\ pc[p] = "markFinal" => answer[p] # "none"
  /\ pc[p] = "markOrder" => answer[p] \in RefundStatuses
  /\ pc[p] \in {"load", "markSettled", "syncOrder"} => answer[p] \in {"succeeded", "failed"}
  /\ p \in Notices /\ pc[p] = "release" => answer[p] = "failed"
  /\ pc[p] \in {"markFinal", "markSettled", "syncOrder"} /\ answer[p] = "succeeded"
       => held[p] # NoHold /\ hold[about[p]][held[p]] = "settled"
  /\ pc[p] \in {"markFinal", "markSettled"} /\ answer[p] \in {"failed", "canceled"}
       => hold[about[p]][FirstKey] = "released"

RequestOK(r) ==
  /\ effect[r] # NoHold => hold[r][effect[r]] # "none"
  /\ \A k \in Holds : hold[r][k] = "settled" => refund[r] = "succeeded"
  /\ requestStatus[r] = "refunded" => /\ refund[r] = "succeeded"
                                      /\ \E k \in Holds : hold[r][k] = "settled"
  /\ requestStatus[r] = "provider_refund_failed" => hold[r][FirstKey] = "released"
  /\ (\E k \in RetryKeys : hold[r][k] # "none") => hold[r][FirstKey] = "released"

RefundIInv == /\ RefundTypeOK
              /\ \A p \in RefundCalls : CallOK(p)
              /\ \A r \in Requests : RequestOK(r)
              /\ OrderRefundedIsReal

-----------------------------------------------------------------------------
(* What every step has in common.                                          *)

\* No hold goes back, and a refund that succeeded has succeeded for good.
MovesForward ==
  \A r \in Requests :
    /\ refund[r] = "succeeded" => refund'[r] = "succeeded"
    /\ \A k \in Holds : /\ hold[r][k] # "none" => hold'[r][k] # "none"
                        /\ hold[r][k] = "settled" => hold'[r][k] = "settled"
                        /\ hold[r][k] = "released" => hold'[r][k] = "released"

SameCall(q) == /\ pc'[q] = pc[q]
               /\ about'[q] = about[q]
               /\ held'[q] = held[q]
               /\ answer'[q] = answer[q]

\* What a call relies on survives the steps of the others.
LEMMA OtherCallOK ==
  ASSUME RefundTypeOK, NEW q \in RefundCalls, CallOK(q), MovesForward, SameCall(q)
  PROVE  CallOK(q)'
  <1>1. CASE pc[q] = "idle"
    BY <1>1, RefundAssumption DEF CallOK, SameCall, Working
  <1>2. CASE pc[q] # "idle"
    <2>1. about[q] \in Requests /\ FirstKey \in Holds /\ held[q] \in Holds \cup {NoHold}
      BY <1>2 DEF RefundTypeOK, Holds
    <2>2. /\ refund[about[q]] = "succeeded" => refund'[about[q]] = "succeeded"
          /\ hold[about[q]][FirstKey] = "released" => hold'[about[q]][FirstKey] = "released"
          /\ held[q] # NoHold => /\ hold[about[q]][held[q]] # "none"
                                      => hold'[about[q]][held[q]] # "none"
                                 /\ hold[about[q]][held[q]] = "settled"
                                      => hold'[about[q]][held[q]] = "settled"
      BY <2>1 DEF MovesForward
    <2>3. QED
      BY <2>2 DEF CallOK, SameCall, Working
  <1>3. QED
    BY <1>1, <1>2

\* A step of one call: what remains to be shown is about this call, the rows
\* and the order.
LEMMA OneCallSteps ==
  ASSUME RefundIInv, NEW p \in RefundCalls, MovesForward,
         \A q \in RefundCalls \ {p} : SameCall(q),
         RefundTypeOK', CallOK(p)', \A r \in Requests : RequestOK(r)', OrderRefundedIsReal'
  PROVE  RefundIInv'
  <1>1. ASSUME NEW q \in RefundCalls
        PROVE  CallOK(q)'
    <2>1. CASE q = p
      BY <2>1
    <2>2. CASE q # p
      BY <2>2, OtherCallOK DEF RefundIInv
    <2>3. QED
      BY <2>1, <2>2
  <1>2. QED
    BY <1>1 DEF RefundIInv

\* The moves of a call.
LEMMA BeginMoves ==
  ASSUME RefundTypeOK, NEW p \in RefundCalls, NEW r, NEW place, NEW h, NEW a,
         Begin(p, r, place, h, a)
  PROVE  /\ \A q \in RefundCalls \ {p} : SameCall(q)
         /\ pc'[p] = place /\ about'[p] = r /\ held'[p] = h /\ answer'[p] = a
  BY DEF RefundTypeOK, Begin, SameCall

LEMMA DecideMoves ==
  ASSUME RefundTypeOK, NEW p \in RefundCalls, NEW place, NEW a, Decide(p, place, a)
  PROVE  /\ \A q \in RefundCalls \ {p} : SameCall(q)
         /\ pc'[p] = place /\ about'[p] = about[p] /\ held'[p] = held[p] /\ answer'[p] = a
  BY DEF RefundTypeOK, Decide, SameCall

LEMMA GotoMoves ==
  ASSUME RefundTypeOK, NEW p \in RefundCalls, NEW place, MoveOn(p, place)
  PROVE  /\ \A q \in RefundCalls \ {p} : SameCall(q)
         /\ pc'[p] = place /\ about'[p] = about[p] /\ held'[p] = held[p]
         /\ answer'[p] = answer[p]
  BY DEF RefundTypeOK, MoveOn, SameCall

LEMMA EndMoves ==
  ASSUME RefundTypeOK, NEW p \in RefundCalls, End(p)
  PROVE  /\ \A q \in RefundCalls \ {p} : SameCall(q)
         /\ pc'[p] = "idle" /\ CallOK(p)'
  BY BeginMoves, RefundAssumption DEF End, CallOK, Working

\* The types of the calls after a move.
CallTypeOK ==
  /\ pc \in [RefundCalls -> Places]
  /\ about \in [RefundCalls -> Requests \cup {NoRequest}]
  /\ held \in [RefundCalls -> Holds \cup {NoHold}]
  /\ answer \in [RefundCalls -> DOMAIN FinalStatus \cup {"none"}]
  /\ \A p \in RefundCalls : pc[p] = "idle" <=> about[p] = NoRequest

LEMMA BeginType ==
  ASSUME RefundTypeOK, NEW p \in RefundCalls, NEW r \in Requests \cup {NoRequest},
         NEW place \in Places, place = "idle" <=> r = NoRequest,
         NEW h \in Holds \cup {NoHold}, NEW a \in DOMAIN FinalStatus \cup {"none"},
         Begin(p, r, place, h, a)
  PROVE  CallTypeOK'
  BY DEF RefundTypeOK, CallTypeOK, Begin

LEMMA EndType ==
  ASSUME RefundTypeOK, NEW p \in RefundCalls, End(p)
  PROVE  CallTypeOK'
  BY BeginType DEF End, Places

LEMMA DecideType ==
  ASSUME RefundTypeOK, NEW p \in RefundCalls, pc[p] # "idle", NEW place \in Places \ {"idle"},
         NEW a \in DOMAIN FinalStatus \cup {"none"}, Decide(p, place, a)
  PROVE  CallTypeOK'
  BY DEF RefundTypeOK, CallTypeOK, Decide

LEMMA GotoType ==
  ASSUME RefundTypeOK, NEW p \in RefundCalls, pc[p] # "idle", NEW place \in Places \ {"idle"},
         MoveOn(p, place)
  PROVE  CallTypeOK'
  BY DEF RefundTypeOK, CallTypeOK, MoveOn

\* The rows and the order when a step only moves its call.
LEMMA RowsUntouched ==
  ASSUME RefundIInv, UNCHANGED <<refundRequestVars, hold, refund, orderRefund>>
  PROVE  /\ MovesForward
         /\ \A r \in Requests : RequestOK(r)'
         /\ OrderRefundedIsReal'
  BY DEF RefundIInv, MovesForward, RequestOK, OrderRefundedIsReal, refundRequestVars

-----------------------------------------------------------------------------
LEMMA RefundInitIInv == RefundInit => RefundIInv
  <1> SUFFICES ASSUME RefundInit PROVE RefundIInv
    OBVIOUS
  <1>1. RefundTypeOK
    BY DEF RefundInit, RefundTypeOK, Places
  <1>2. \A p \in RefundCalls : CallOK(p)
    BY DEF RefundInit, CallOK, Working
  <1>3. \A r \in Requests : RequestOK(r)
    BY DEF RefundInit, RequestOK, Holds
  <1>4. OrderRefundedIsReal
    BY DEF RefundInit, OrderRefundedIsReal
  <1>5. QED
    BY <1>1, <1>2, <1>3, <1>4 DEF RefundIInv

LEMMA CreateRequestIInv ==
  ASSUME RefundIInv, NEW r \in Requests, CreateRequest(r)
  PROVE  RefundIInv'
  <1>1. RefundTypeOK'
    BY DEF RefundIInv, RefundTypeOK, CreateRequest, Statuses, callVars
  <1>2. MovesForward
    BY DEF MovesForward, CreateRequest
  <1>3. ASSUME NEW q \in RefundCalls
        PROVE  CallOK(q)'
    BY <1>2, OtherCallOK DEF RefundIInv, CreateRequest, callVars, SameCall
  <1>4. \A s \in Requests : RequestOK(s)'
    BY DEF RefundIInv, RefundTypeOK, RequestOK, CreateRequest
  <1>5. OrderRefundedIsReal'
    BY DEF RefundIInv, OrderRefundedIsReal, CreateRequest
  <1>6. QED
    BY <1>1, <1>3, <1>4, <1>5 DEF RefundIInv

\* Steps that only move their call, to a place and a hold it may have there.
LEMMA MovingIInv ==
  ASSUME RefundIInv, NEW p \in RefundCalls, UNCHANGED <<refundRequestVars, hold, refund, orderRefund>>,
         \A q \in RefundCalls \ {p} : SameCall(q), CallTypeOK', CallOK(p)'
  PROVE  RefundIInv'
  <1>1. RefundTypeOK'
    BY DEF RefundIInv, RefundTypeOK, CallTypeOK, refundRequestVars
  <1>2. QED
    BY <1>1, RowsUntouched, OneCallSteps

LEMMA AbortIInv ==
  ASSUME RefundIInv, NEW p \in RefundCalls, Abort(p)
  PROVE  RefundIInv'
  BY EndType, EndMoves, MovingIInv DEF Abort, RefundIInv

LEMMA BeginRejectIInv ==
  ASSUME RefundIInv, NEW p \in RefundCalls, NEW r \in Requests, BeginReject(p, r), p \in Reviews
  PROVE  RefundIInv'
  <1> DEFINE place == IF effect[r] = NoHold THEN "markFinal" ELSE "release"
  <1>1. Begin(p, r, place, effect[r], "rejected") /\ UNCHANGED <<refundRequestVars, hold, refund>>
    BY DEF BeginReject
  <1>2. CallTypeOK'
    BY <1>1, BeginType, RefundAssumption DEF RefundIInv, RefundTypeOK, Places, FinalStatus
  <1>3. /\ \A q \in RefundCalls \ {p} : SameCall(q)
        /\ pc'[p] = place /\ about'[p] = r /\ held'[p] = effect[r] /\ answer'[p] = "rejected"
    BY <1>1, BeginMoves DEF RefundIInv
  <1>4. effect[r] # NoHold => hold'[r][effect[r]] # "none"
    BY <1>1 DEF RefundIInv, RequestOK, refundRequestVars
  <1>5. CallOK(p)'
    BY <1>3, <1>4, RefundAssumption DEF CallOK, Working
  <1>6. QED
    BY <1>2, <1>3, <1>5, MovingIInv DEF BeginReject

LEMMA BeginApproveIInv ==
  ASSUME RefundIInv, NEW p \in RefundCalls, NEW r \in Requests, BeginApprove(p, r)
  PROVE  RefundIInv'
  <1>1. UNCHANGED <<refundRequestVars, hold, refund, orderRefund>>
    BY DEF BeginApprove
  <1>2. RequestOK(r)
    BY DEF RefundIInv
  <1>3. CASE effect[r] # NoHold /\ Begin(p, r, "markProcessing", effect[r], "none")
    <2>1. CallTypeOK'
      BY <1>3, BeginType, RefundAssumption DEF RefundIInv, RefundTypeOK, Places
    <2>2. /\ \A q \in RefundCalls \ {p} : SameCall(q)
          /\ pc'[p] = "markProcessing" /\ about'[p] = r /\ held'[p] = effect[r]
          /\ answer'[p] = "none"
      BY <1>3, BeginMoves DEF RefundIInv
    <2>3. CallOK(p)'
      BY <1>1, <1>2, <1>3, <2>2 DEF CallOK, Working, RequestOK
    <2>4. QED
      BY <1>1, <2>1, <2>2, <2>3, MovingIInv
  <1>4. ASSUME NEW k \in Holds, Begin(p, r, "placeHold", k, "none"),
               k = FirstKey \/ requestStatus[r] = "provider_refund_failed"
        PROVE  RefundIInv'
    <2>1. CallTypeOK'
      BY <1>4, BeginType, RefundAssumption DEF RefundIInv, RefundTypeOK, Places
    <2>2. /\ \A q \in RefundCalls \ {p} : SameCall(q)
          /\ pc'[p] = "placeHold" /\ about'[p] = r /\ held'[p] = k /\ answer'[p] = "none"
      BY <1>4, BeginMoves DEF RefundIInv
    <2>3. k # NoHold /\ (k # FirstKey => hold'[r][FirstKey] = "released")
      BY <1>1, <1>2, <1>4, RefundAssumption DEF RequestOK
    <2>4. CallOK(p)'
      BY <2>2, <2>3 DEF CallOK, Working
    <2>5. QED
      BY <1>1, <2>1, <2>2, <2>4, MovingIInv
  <1>5. QED
    BY <1>3, <1>4 DEF BeginApprove, Holds

LEMMA PlaceHoldIInv ==
  ASSUME RefundIInv, NEW p \in RefundCalls, PlaceHold(p)
  PROVE  RefundIInv'
  <1> DEFINE r == about[p]
             h == held[p]
  <1>1. /\ r \in Requests /\ h \in Holds /\ FirstKey \in Holds
        /\ h # FirstKey => hold[r][FirstKey] = "released"
    BY DEF RefundIInv, RefundTypeOK, PlaceHold, CallOK, Working, Holds
  <1>2. /\ hold' = [hold EXCEPT ![r][h] = IF hold[r][h] = "none" THEN "held" ELSE hold[r][h]]
        /\ MoveOn(p, "markHeld") /\ UNCHANGED <<refundRequestVars, refund, orderRefund>>
    BY DEF PlaceHold
  <1>3. /\ hold' \in [Requests -> [Holds -> {"none", "held", "settled", "released"}]]
        /\ \A s \in Requests, k \in Holds :
             hold'[s][k] = IF s = r /\ k = h /\ hold[s][k] = "none" THEN "held" ELSE hold[s][k]
    BY <1>1, <1>2 DEF RefundIInv, RefundTypeOK
  <1>4. RefundTypeOK'
    <2>1. CallTypeOK'
      BY <1>2, GotoType DEF RefundIInv, Places, PlaceHold
    <2>2. QED
      BY <1>2, <1>3, <2>1 DEF RefundIInv, RefundTypeOK, CallTypeOK, refundRequestVars
  <1>5. MovesForward
    BY <1>2, <1>3 DEF MovesForward
  <1>6. /\ \A q \in RefundCalls \ {p} : SameCall(q)
        /\ pc'[p] = "markHeld" /\ about'[p] = r /\ held'[p] = h /\ answer'[p] = answer[p]
    BY <1>2, GotoMoves DEF RefundIInv
  <1>7. hold'[r][h] # "none" /\ (answer[p] = "succeeded" => refund'[r] = "succeeded")
    BY <1>1, <1>2, <1>3 DEF RefundIInv, CallOK
  <1>8. CallOK(p)'
    BY <1>1, <1>6, <1>7, RefundAssumption DEF CallOK, Working
  <1>9. ASSUME NEW s \in Requests
        PROVE  RequestOK(s)'
    <2>1. RequestOK(s) /\ effect[s] \in Holds \cup {NoHold}
      BY DEF RefundIInv, RefundTypeOK
    <2>2. /\ requestStatus'[s] = requestStatus[s] /\ effect'[s] = effect[s] /\ refund'[s] = refund[s]
          /\ effect[s] # NoHold => hold'[s][effect[s]] # "none"
      BY <1>2, <1>3, <2>1 DEF RequestOK, refundRequestVars
    <2>3. /\ \A k \in Holds : hold'[s][k] = "settled" <=> hold[s][k] = "settled"
          /\ hold[s][FirstKey] = "released" => hold'[s][FirstKey] = "released"
      BY <1>1, <1>3
    <2>4. (\E k \in RetryKeys : hold'[s][k] # "none") => hold'[s][FirstKey] = "released"
      <3>1. ASSUME NEW k \in RetryKeys, hold'[s][k] # "none"
            PROVE  hold[s][FirstKey] = "released"
        <4>1. k \in Holds /\ k # FirstKey
          BY RefundAssumption DEF Holds
        <4>2. CASE s = r /\ k = h
          BY <1>1, <4>1, <4>2
        <4>3. CASE ~(s = r /\ k = h)
          BY <1>3, <2>1, <3>1, <4>1, <4>3 DEF RequestOK
        <4>4. QED
          BY <4>2, <4>3
      <3>2. QED
        BY <2>3, <3>1
    <2>5. QED
      BY <2>1, <2>2, <2>3, <2>4 DEF RequestOK
  <1>10. OrderRefundedIsReal'
    BY <1>2 DEF RefundIInv, OrderRefundedIsReal
  <1>11. QED
    BY <1>4, <1>5, <1>6, <1>8, <1>9, <1>10, OneCallSteps

\* A review writes a status: what the status says must be so by then.
LEMMA MarkStatusIInv ==
  ASSUME RefundIInv, NEW p \in RefundCalls, NEW s \in Statuses, NEW place,
         MarkStatus(p, s, place), pc[p] # "idle",
         s # "rejected" => held[p] # NoHold /\ hold[about[p]][held[p]] # "none",
         s = "refunded" => refund[about[p]] = "succeeded" /\ hold[about[p]][held[p]] = "settled",
         s = "provider_refund_failed" => hold[about[p]][FirstKey] = "released",
         place \in Places, place # "idle" /\ MoveOn(p, place) => CallOK(p)'
  PROVE  RefundIInv'
  <1> DEFINE r == about[p]
             h == held[p]
  <1>1. r \in Requests /\ h \in Holds \cup {NoHold}
    BY DEF RefundIInv, RefundTypeOK
  <1>2. UNCHANGED <<hold, refund, orderRefund>>
    BY DEF MarkStatus
  <1>3. (\A q \in RefundCalls \ {p} : SameCall(q)) /\ CallOK(p)'
    BY EndMoves, GotoMoves DEF MarkStatus, RefundIInv
  <1>4. MovesForward
    BY <1>2 DEF MovesForward
  <1>5. ASSUME NEW t \in Requests
        PROVE  RequestOK(t)'
    <2>1. RequestOK(t)
      BY DEF RefundIInv
    <2>2. CASE requestStatus'[t] = requestStatus[t] /\ effect'[t] = effect[t]
      BY <1>2, <2>1, <2>2 DEF RequestOK
    <2>3. CASE t = r /\ requestStatus'[t] = s /\ effect'[t] = IF s = "rejected" THEN effect[t] ELSE h
      <3>1. effect'[t] # NoHold => hold[t][effect'[t]] # "none"
        BY <1>1, <2>1, <2>3 DEF RequestOK
      <3>2. s = "refunded" => \E k \in Holds : hold[t][k] = "settled"
        BY <1>1, <2>3
      <3>3. QED
        BY <1>2, <2>1, <2>3, <3>1, <3>2 DEF RequestOK
    <2>4. QED
      BY <2>2, <2>3 DEF MarkStatus, refundRequestVars, RefundIInv, RefundTypeOK
  <1>6. OrderRefundedIsReal'
    BY <1>2 DEF RefundIInv, OrderRefundedIsReal
  <1>7. CallTypeOK'
    BY EndType, GotoType DEF MarkStatus, RefundIInv
  <1>8. requestStatus' \in [Requests -> Statuses \cup {"absent"}]
    BY <1>1 DEF MarkStatus, RefundIInv, RefundTypeOK, refundRequestVars
  <1>9. effect' \in [Requests -> Holds \cup {NoHold}]
    BY <1>1 DEF MarkStatus, RefundIInv, RefundTypeOK, refundRequestVars
  <1>10. RefundTypeOK'
    BY <1>2, <1>7, <1>8, <1>9 DEF CallTypeOK, RefundIInv, RefundTypeOK
  <1>11. QED
    BY <1>3, <1>4, <1>5, <1>6, <1>10, OneCallSteps

LEMMA MarkHeldIInv ==
  ASSUME RefundIInv, NEW p \in RefundCalls, MarkHeld(p)
  PROVE  RefundIInv'
  <1>1. CallOK(p) /\ pc[p] = "markHeld"
    BY DEF RefundIInv, MarkHeld
  <1>2. MoveOn(p, "markProcessing") => CallOK(p)'
    BY <1>1, GotoMoves DEF RefundIInv, MarkHeld, MarkStatus, CallOK, Working
  <1>3. QED
    BY <1>1, <1>2, MarkStatusIInv DEF MarkHeld, CallOK, Working, Statuses, Places

LEMMA MarkProcessingIInv ==
  ASSUME RefundIInv, NEW p \in RefundCalls, MarkProcessing(p)
  PROVE  RefundIInv'
  <1>1. CallOK(p) /\ pc[p] = "markProcessing"
    BY DEF RefundIInv, MarkProcessing
  <1>2. MoveOn(p, "execute") => CallOK(p)'
    BY <1>1, GotoMoves DEF RefundIInv, MarkProcessing, MarkStatus, CallOK, Working
  <1>3. QED
    BY <1>1, <1>2, MarkStatusIInv DEF MarkProcessing, CallOK, Working, Statuses, Places

LEMMA MarkFinalIInv ==
  ASSUME RefundIInv, NEW p \in RefundCalls, MarkFinal(p)
  PROVE  RefundIInv'
  <1> DEFINE s == FinalStatus[answer[p]]
  <1>1. CallOK(p) /\ pc[p] = "markFinal" /\ answer[p] \in DOMAIN FinalStatus \cup {"none"}
    BY DEF RefundIInv, RefundTypeOK, MarkFinal
  <1>2. /\ s \in Statuses
        /\ s = "rejected" <=> answer[p] = "rejected"
        /\ s = "refunded" <=> answer[p] = "succeeded"
        /\ s = "provider_refund_failed" => answer[p] \in {"failed", "canceled"}
    BY <1>1 DEF CallOK, FinalStatus, Statuses
  <1>3. s # "rejected" => held[p] # NoHold /\ hold[about[p]][held[p]] # "none"
    BY <1>1, <1>2 DEF CallOK
  <1>4. /\ s = "refunded" => refund[about[p]] = "succeeded" /\ hold[about[p]][held[p]] = "settled"
        /\ s = "provider_refund_failed" => hold[about[p]][FirstKey] = "released"
    BY <1>1, <1>2 DEF CallOK
  <1>5. answer[p] = "succeeded" /\ MoveOn(p, "syncOrder") => CallOK(p)'
    BY <1>1, GotoMoves DEF RefundIInv, MarkFinal, MarkStatus, CallOK, Working
  <1>6. QED
    BY <1>1, <1>2, <1>3, <1>4, <1>5, MarkStatusIInv DEF MarkFinal, Places

\* The payment runtime moves a refund on.
LEMMA RefundMoves ==
  ASSUME RefundIInv, NEW r \in Requests, NEW a \in RefundStatuses, MayBecome(r, a),
         refund' = [refund EXCEPT ![r] = a], UNCHANGED <<refundRequestVars, hold, orderRefund>>
  PROVE  /\ MovesForward
         /\ \A s \in Requests : RequestOK(s)'
         /\ OrderRefundedIsReal'
         /\ refund' \in [Requests -> RefundStatuses \cup {"none"}]
         /\ refund'[r] = a
  <1>1. /\ refund' \in [Requests -> RefundStatuses \cup {"none"}]
        /\ refund'[r] = a
        /\ \A s \in Requests : refund[s] = "succeeded" => refund'[s] = "succeeded"
    BY DEF RefundIInv, RefundTypeOK, MayBecome
  <1>2. MovesForward
    BY <1>1 DEF MovesForward
  <1>3. ASSUME NEW s \in Requests
        PROVE  RequestOK(s)'
    BY <1>1 DEF RefundIInv, RequestOK, refundRequestVars
  <1>4. OrderRefundedIsReal'
    BY <1>1 DEF RefundIInv, OrderRefundedIsReal
  <1>5. QED
    BY <1>1, <1>2, <1>3, <1>4

\* A review that has an answer settles, releases or only writes its status.
LEMMA AnsweredIInv ==
  ASSUME RefundIInv, NEW p \in RefundCalls, pc[p] \in {"execute", "submit"}, p \in Reviews,
         NEW a \in {"processing", "succeeded", "failed", "canceled"},
         Decide(p, EndOfAnswer(a), a),
         MovesForward, \A s \in Requests : RequestOK(s)', OrderRefundedIsReal',
         refund' \in [Requests -> RefundStatuses \cup {"none"}],
         a = "succeeded" => refund'[about[p]] = "succeeded",
         UNCHANGED <<refundRequestVars, hold, orderRefund>>
  PROVE  RefundIInv'
  <1>1. EndOfAnswer(a) \in Places \ {"idle"} /\ a \in DOMAIN FinalStatus
    BY DEF EndOfAnswer, Places, FinalStatus
  <1>2. CallTypeOK'
    BY <1>1, DecideType DEF RefundIInv
  <1>3. RefundTypeOK'
    BY <1>2 DEF RefundIInv, RefundTypeOK, CallTypeOK, refundRequestVars
  <1>4. /\ \A q \in RefundCalls \ {p} : SameCall(q)
        /\ pc'[p] = EndOfAnswer(a) /\ about'[p] = about[p] /\ held'[p] = held[p]
        /\ answer'[p] = a
    BY DecideMoves DEF RefundIInv
  <1>5. /\ held[p] # NoHold /\ hold[about[p]][held[p]] # "none"
        /\ p \notin Notices
    BY RefundAssumption DEF RefundIInv, CallOK, Working
  <1>6. CallOK(p)'
    <2>1. CASE a = "succeeded"
      BY <1>4, <1>5, <2>1 DEF CallOK, Working, EndOfAnswer
    <2>2. CASE a = "processing"
      BY <1>4, <1>5, <2>2 DEF CallOK, Working, EndOfAnswer
    <2>3. CASE a \in {"failed", "canceled"}
      BY <1>4, <1>5, <2>3 DEF CallOK, Working, EndOfAnswer
    <2>4. QED
      BY <2>1, <2>2, <2>3
  <1>7. QED
    BY <1>3, <1>4, <1>6, OneCallSteps

LEMMA ExecuteIInv ==
  ASSUME RefundIInv, NEW p \in Reviews, Execute(p)
  PROVE  RefundIInv'
  <1> DEFINE r == about[p]
  <1>1. p \in RefundCalls /\ r \in Requests /\ CallOK(p) /\ pc[p] = "execute"
    BY DEF RefundCalls, RefundIInv, RefundTypeOK, Execute
  <1>2. UNCHANGED <<refundRequestVars, hold, orderRefund>>
    BY DEF Execute
  <1>3. CASE /\ refund[r] \in {"none", "failed", "processing"}
             /\ refund' = [refund EXCEPT ![r] = "processing"]
             /\ MoveOn(p, "submit")
    <2>1. /\ MovesForward /\ (\A s \in Requests : RequestOK(s)') /\ OrderRefundedIsReal'
          /\ refund' \in [Requests -> RefundStatuses \cup {"none"}]
      BY <1>1, <1>2, <1>3, RefundMoves DEF MayBecome, RefundStatuses
    <2>2. CallTypeOK'
      BY <1>1, <1>3, GotoType DEF RefundIInv, Places
    <2>3. RefundTypeOK'
      BY <1>2, <2>1, <2>2 DEF RefundIInv, RefundTypeOK, CallTypeOK, refundRequestVars
    <2>4. /\ \A q \in RefundCalls \ {p} : SameCall(q)
          /\ pc'[p] = "submit" /\ about'[p] = r /\ held'[p] = held[p] /\ answer'[p] = answer[p]
      BY <1>1, <1>3, GotoMoves DEF RefundIInv
    <2>5. CallOK(p)'
      BY <1>1, <1>2, <1>3, <2>4 DEF CallOK, Working
    <2>6. QED
      BY <1>1, <2>1, <2>3, <2>4, <2>5, OneCallSteps
  <1>4. CASE /\ refund[r] \in {"succeeded", "canceled"}
             /\ Decide(p, EndOfAnswer(refund[r]), refund[r])
             /\ UNCHANGED refund
    <2>1. /\ MovesForward /\ (\A s \in Requests : RequestOK(s)') /\ OrderRefundedIsReal'
          /\ refund' \in [Requests -> RefundStatuses \cup {"none"}]
      BY <1>2, <1>4, RowsUntouched DEF RefundIInv, RefundTypeOK
    <2>2. QED
      BY <1>1, <1>2, <1>4, <2>1, AnsweredIInv
  <1>5. CASE Decide(p, "release", "failed") /\ UNCHANGED refund
    <2>1. /\ MovesForward /\ (\A s \in Requests : RequestOK(s)') /\ OrderRefundedIsReal'
          /\ refund' \in [Requests -> RefundStatuses \cup {"none"}]
      BY <1>2, <1>5, RowsUntouched DEF RefundIInv, RefundTypeOK
    <2>2. EndOfAnswer("failed") = "release"
      BY DEF EndOfAnswer
    <2>3. QED
      BY <1>1, <1>2, <1>5, <2>1, <2>2, AnsweredIInv
  <1>6. QED
    BY <1>3, <1>4, <1>5 DEF Execute

LEMMA SubmitIInv ==
  ASSUME RefundIInv, NEW p \in Reviews, Submit(p)
  PROVE  RefundIInv'
  <1> DEFINE r == about[p]
  <1>1. p \in RefundCalls /\ r \in Requests /\ CallOK(p) /\ pc[p] = "submit"
    BY DEF RefundCalls, RefundIInv, RefundTypeOK, Submit
  <1>2. UNCHANGED <<refundRequestVars, hold, orderRefund>>
    BY DEF Submit
  <1>3. ASSUME UNCHANGED refund, NEW a \in {"processing", "failed"},
               Decide(p, EndOfAnswer(a), a)
        PROVE  RefundIInv'
    <2>1. /\ MovesForward /\ (\A s \in Requests : RequestOK(s)') /\ OrderRefundedIsReal'
          /\ refund' \in [Requests -> RefundStatuses \cup {"none"}]
      BY <1>2, <1>3, RowsUntouched DEF RefundIInv, RefundTypeOK
    <2>2. QED
      BY <1>1, <1>2, <1>3, <2>1, AnsweredIInv
  <1>4. ASSUME NEW a \in {"succeeded", "failed"}, MayBecome(r, a),
               refund' = [refund EXCEPT ![r] = a], Decide(p, EndOfAnswer(a), a)
        PROVE  RefundIInv'
    <2>1. a \in RefundStatuses
      BY DEF RefundStatuses
    <2>2. /\ MovesForward /\ (\A s \in Requests : RequestOK(s)') /\ OrderRefundedIsReal'
          /\ refund' \in [Requests -> RefundStatuses \cup {"none"}] /\ refund'[r] = a
      BY <1>1, <1>2, <1>4, <2>1, RefundMoves
    <2>3. QED
      BY <1>1, <1>2, <1>4, <2>2, AnsweredIInv
  <1>5. EndOfAnswer("failed") = "release"
    BY DEF EndOfAnswer
  <1>6. refund[r] = "processing" => MayBecome(r, "failed")
    BY DEF MayBecome
  <1>7. QED
    BY <1>3, <1>4, <1>5, <1>6 DEF Submit

-----------------------------------------------------------------------------
\* A hold ends the way the answer says.
LEMMA EndHoldIInv ==
  ASSUME RefundIInv, NEW p \in RefundCalls, NEW place, NEW target \in {"settled", "released"},
         EndHold(p, place, target), place # "idle", held[p] # NoHold,
         target = "settled" => answer[p] = "succeeded",
         target = "released" => answer[p] \in {"rejected", "failed", "canceled"},
         p \in Notices => answer[p] \in {"succeeded", "failed"}
  PROVE  RefundIInv'
  <1> DEFINE r == about[p]
             h == held[p]
             next == IF p \in Reviews THEN "markFinal" ELSE "markSettled"
  <1>1. /\ r \in Requests /\ h \in Holds /\ FirstKey \in Holds /\ pc[p] # "idle"
        /\ CallOK(p) /\ (\A s \in Requests : RequestOK(s))
    BY DEF RefundIInv, RefundTypeOK, EndHold, Holds
  <1>2. UNCHANGED <<refundRequestVars, refund, orderRefund>>
    BY DEF EndHold
  <1>3. CASE End(p) /\ UNCHANGED hold
    BY <1>2, <1>3, EndType, EndMoves, MovingIInv DEF RefundIInv
  <1>4. CASE /\ hold[r][h] \in {"held", target}
             /\ hold' = [hold EXCEPT ![r][h] = target]
             /\ MoveOn(p, next)
    <2>1. /\ hold' \in [Requests -> [Holds -> {"none", "held", "settled", "released"}]]
          /\ \A s \in Requests, k \in Holds :
               hold'[s][k] = IF s = r /\ k = h THEN target ELSE hold[s][k]
      BY <1>1, <1>4 DEF RefundIInv, RefundTypeOK
    <2>2. CallTypeOK'
      BY <1>1, <1>4, GotoType DEF RefundIInv, Places
    <2>3. RefundTypeOK'
      BY <1>2, <2>1, <2>2 DEF RefundIInv, RefundTypeOK, CallTypeOK, refundRequestVars
    <2>4. MovesForward
      BY <1>2, <1>4, <2>1 DEF MovesForward
    <2>5. /\ \A q \in RefundCalls \ {p} : SameCall(q)
          /\ pc'[p] = next /\ about'[p] = r /\ held'[p] = h /\ answer'[p] = answer[p]
      BY <1>4, GotoMoves DEF RefundIInv
    <2>6. hold'[r][h] = target /\ (answer[p] = "succeeded" => refund'[r] = "succeeded")
      BY <1>1, <1>2, <2>1 DEF CallOK
    <2>7. answer[p] \in {"failed", "canceled"} => hold'[r][FirstKey] = "released"
      <3>1. CASE h = FirstKey
        BY <2>6, <3>1
      <3>2. CASE h # FirstKey
        <4>1. h \in RetryKeys /\ hold[r][h] # "none"
          BY <1>1, <1>4, <3>2 DEF Holds
        <4>2. QED
          BY <1>1, <2>4, <4>1 DEF RequestOK, MovesForward
      <3>3. QED
        BY <3>1, <3>2
    <2>8. CallOK(p)'
      BY <1>1, <2>5, <2>6, <2>7 DEF CallOK, Working, RefundCalls
    <2>9. ASSUME NEW s \in Requests
          PROVE  RequestOK(s)'
      <3>1. RequestOK(s) /\ effect[s] \in Holds \cup {NoHold}
        BY <1>1 DEF RefundIInv, RefundTypeOK
      <3>2. /\ requestStatus'[s] = requestStatus[s] /\ effect'[s] = effect[s] /\ refund'[s] = refund[s]
            /\ effect[s] # NoHold => hold'[s][effect[s]] # "none"
        BY <1>2, <2>4, <3>1 DEF RequestOK, MovesForward, refundRequestVars
      <3>3. ASSUME NEW k \in Holds, hold'[s][k] = "settled"
            PROVE  refund[s] = "succeeded"
        BY <1>1, <2>1, <3>1, <3>3 DEF CallOK, RequestOK
      <3>4. (\E k \in Holds : hold[s][k] = "settled") => \E k \in Holds : hold'[s][k] = "settled"
        BY <2>4 DEF MovesForward
      <3>5. hold[s][FirstKey] = "released" => hold'[s][FirstKey] = "released"
        BY <1>1, <2>4 DEF MovesForward
      <3>6. (\E k \in RetryKeys : hold'[s][k] # "none") => hold'[s][FirstKey] = "released"
        BY <1>4, <2>1, <3>1, <3>5 DEF RequestOK, Holds
      <3>7. QED
        BY <3>1, <3>2, <3>3, <3>4, <3>5, <3>6 DEF RequestOK
    <2>10. OrderRefundedIsReal'
      BY <1>2 DEF RefundIInv, OrderRefundedIsReal
    <2>11. QED
      BY <2>3, <2>4, <2>5, <2>8, <2>9, <2>10, OneCallSteps
  <1>5. QED
    BY <1>3, <1>4 DEF EndHold

LEMMA SettleIInv ==
  ASSUME RefundIInv, NEW p \in RefundCalls, SettleHold(p)
  PROVE  RefundIInv'
  <1>1. CallOK(p) /\ EndHold(p, "settle", "settled") /\ pc[p] = "settle"
    BY DEF RefundIInv, SettleHold, EndHold
  <1>2. QED
    BY <1>1, EndHoldIInv DEF CallOK, Working

LEMMA ReleaseIInv ==
  ASSUME RefundIInv, NEW p \in RefundCalls, Release(p)
  PROVE  RefundIInv'
  <1>1. CallOK(p) /\ EndHold(p, "release", "released") /\ pc[p] = "release"
    BY DEF RefundIInv, Release, EndHold
  <1>2. QED
    BY <1>1, EndHoldIInv DEF CallOK, Working

\* The order row takes the end of the request.
LEMMA SyncOrderIInv ==
  ASSUME RefundIInv, NEW p \in RefundCalls, SyncOrder(p)
  PROVE  RefundIInv'
  <1>1. /\ CallOK(p) /\ pc[p] = "syncOrder" /\ about[p] \in Requests
        /\ answer[p] \in {"succeeded", "failed"} /\ End(p)
        /\ orderRefund' = FinalStatus[answer[p]]
        /\ UNCHANGED <<refundRequestVars, hold, refund>>
    BY DEF RefundIInv, RefundTypeOK, SyncOrder, CallOK
  <1>2. /\ orderRefund' \in {"refunded", "provider_refund_failed"}
        /\ orderRefund' = "refunded" => answer[p] = "succeeded"
    BY <1>1 DEF FinalStatus
  <1>3. OrderRefundedIsReal'
    BY <1>1, <1>2 DEF OrderRefundedIsReal, CallOK
  <1>4. CallTypeOK'
    BY <1>1, EndType DEF RefundIInv
  <1>5. RefundTypeOK'
    BY <1>1, <1>2, <1>4 DEF RefundIInv, RefundTypeOK, CallTypeOK, refundRequestVars
  <1>6. MovesForward /\ (\A r \in Requests : RequestOK(r)')
    BY <1>1 DEF RefundIInv, MovesForward, RequestOK, refundRequestVars
  <1>7. QED
    BY <1>1, <1>3, <1>5, <1>6, EndMoves, OneCallSteps DEF RefundIInv

-----------------------------------------------------------------------------
(* The steps of a notice.                                                  *)

LEMMA IngestIInv ==
  ASSUME RefundIInv, NEW w \in Notices, NEW r \in Requests, Ingest(w, r)
  PROVE  RefundIInv'
  <1>1. w \in RefundCalls /\ UNCHANGED <<refundRequestVars, hold, orderRefund>>
    BY DEF RefundCalls, Ingest
  <1>2. PICK a \in RefundStatuses : /\ MayBecome(r, a)
                                    /\ refund' = [refund EXCEPT ![r] = a]
                                    /\ Begin(w, r, "markOrder", NoHold, a)
    BY DEF Ingest
  <1>3. /\ MovesForward /\ (\A s \in Requests : RequestOK(s)') /\ OrderRefundedIsReal'
        /\ refund' \in [Requests -> RefundStatuses \cup {"none"}] /\ refund'[r] = a
    BY <1>1, <1>2, RefundMoves
  <1>4. a \in DOMAIN FinalStatus /\ "markOrder" \in Places /\ r # NoRequest
    BY RefundAssumption DEF FinalStatus, RefundStatuses, Places
  <1>5. CallTypeOK'
    BY <1>1, <1>2, <1>4, BeginType DEF RefundIInv
  <1>6. RefundTypeOK'
    BY <1>1, <1>3, <1>5 DEF RefundIInv, RefundTypeOK, CallTypeOK, refundRequestVars
  <1>7. /\ \A q \in RefundCalls \ {w} : SameCall(q)
        /\ pc'[w] = "markOrder" /\ about'[w] = r /\ held'[w] = NoHold /\ answer'[w] = a
    BY <1>1, <1>2, BeginMoves DEF RefundIInv
  <1>8. CallOK(w)'
    BY <1>3, <1>7 DEF CallOK, Working
  <1>9. QED
    BY <1>1, <1>3, <1>6, <1>7, <1>8, OneCallSteps

LEMMA MarkOrderRefundIInv ==
  ASSUME RefundIInv, NEW w \in Notices, MarkOrderRefund(w)
  PROVE  RefundIInv'
  <1>1. /\ w \in RefundCalls /\ CallOK(w) /\ pc[w] = "markOrder" /\ about[w] \in Requests
        /\ answer[w] \in RefundStatuses
        /\ UNCHANGED <<refundRequestVars, hold, refund>>
    BY DEF RefundCalls, RefundIInv, RefundTypeOK, MarkOrderRefund, CallOK
  <1>2. OrderStatusOf[answer[w]] \in {"refunding", "refunded", "refund_failed"}
        /\ (OrderStatusOf[answer[w]] = "refunded" => answer[w] = "succeeded")
    BY <1>1 DEF OrderStatusOf, RefundStatuses
  <1>3. /\ orderRefund' = IF orderRefund = "refunded" THEN orderRefund
                                                       ELSE OrderStatusOf[answer[w]]
        /\ IF answer[w] \in {"succeeded", "failed"} THEN MoveOn(w, "load") ELSE End(w)
    BY DEF MarkOrderRefund
  <1>4. OrderRefundedIsReal'
    BY <1>1, <1>2, <1>3 DEF RefundIInv, OrderRefundedIsReal, CallOK
  <1>5. CallTypeOK'
    BY <1>1, <1>3, EndType, GotoType DEF RefundIInv, Places
  <1>6. RefundTypeOK'
    BY <1>1, <1>2, <1>3, <1>5 DEF RefundIInv, RefundTypeOK, CallTypeOK, refundRequestVars
  <1>7. MovesForward /\ (\A s \in Requests : RequestOK(s)')
    BY <1>1 DEF RefundIInv, MovesForward, RequestOK, refundRequestVars
  <1>8. CASE End(w)
    BY <1>1, <1>4, <1>6, <1>7, <1>8, EndMoves, OneCallSteps DEF RefundIInv
  <1>9. CASE answer[w] \in {"succeeded", "failed"} /\ MoveOn(w, "load")
    <2>1. /\ \A q \in RefundCalls \ {w} : SameCall(q)
          /\ pc'[w] = "load" /\ about'[w] = about[w] /\ held'[w] = held[w]
          /\ answer'[w] = answer[w]
      BY <1>1, <1>9, GotoMoves DEF RefundIInv
    <2>2. CallOK(w)'
      BY <1>1, <1>9, <2>1 DEF CallOK, Working
    <2>3. QED
      BY <1>1, <1>4, <1>6, <1>7, <2>1, <2>2, OneCallSteps
  <1>10. QED
    BY <1>3, <1>8, <1>9

LEMMA LoadForSettlementIInv ==
  ASSUME RefundIInv, NEW w \in Notices, LoadForSettlement(w)
  PROVE  RefundIInv'
  <1> DEFINE r == about[w]
             a == answer[w]
  <1>1. /\ w \in RefundCalls /\ CallOK(w) /\ pc[w] = "load" /\ r \in Requests
        /\ a \in {"succeeded", "failed"} /\ RequestOK(r) /\ effect[r] \in Holds \cup {NoHold}
        /\ UNCHANGED <<refundRequestVars, hold, refund, orderRefund>>
    BY DEF RefundCalls, RefundIInv, RefundTypeOK, LoadForSettlement, CallOK
  <1>2. CASE End(w)
    BY <1>1, <1>2, EndType, EndMoves, MovingIInv DEF RefundIInv
  <1>3. CASE effect[r] # NoHold /\ Begin(w, r, EndOfAnswer(a), effect[r], a)
    <2>1. /\ EndOfAnswer(a) \in Places /\ EndOfAnswer(a) # "idle" /\ r # NoRequest
          /\ EndOfAnswer(a) = IF a = "succeeded" THEN "settle" ELSE "release"
          /\ a \in DOMAIN FinalStatus
      BY <1>1, RefundAssumption DEF EndOfAnswer, Places, FinalStatus
    <2>2. CallTypeOK'
      BY <1>1, <1>3, <2>1, BeginType DEF RefundIInv
    <2>3. /\ \A q \in RefundCalls \ {w} : SameCall(q)
          /\ pc'[w] = EndOfAnswer(a) /\ about'[w] = r /\ held'[w] = effect[r] /\ answer'[w] = a
      BY <1>1, <1>3, BeginMoves DEF RefundIInv
    <2>4. hold'[r][effect[r]] # "none" /\ (a = "succeeded" => refund'[r] = "succeeded")
      BY <1>1, <1>3 DEF RequestOK, CallOK
    <2>5. CallOK(w)'
      BY <1>1, <1>3, <2>1, <2>3, <2>4 DEF CallOK, Working
    <2>6. QED
      BY <1>1, <2>2, <2>3, <2>5, MovingIInv
  <1>4. QED
    BY <1>2, <1>3 DEF LoadForSettlement

LEMMA MarkSettledIInv ==
  ASSUME RefundIInv, NEW w \in Notices, MarkSettled(w)
  PROVE  RefundIInv'
  <1> DEFINE r == about[w]
             s == FinalStatus[answer[w]]
  <1>1. /\ w \in RefundCalls /\ CallOK(w) /\ pc[w] = "markSettled" /\ r \in Requests
        /\ answer[w] \in {"succeeded", "failed"} /\ held[w] \in Holds
        /\ UNCHANGED <<effect, hold, refund, orderRefund>>
    BY DEF RefundCalls, RefundIInv, RefundTypeOK, MarkSettled, CallOK, Working
  <1>2. CASE End(w) /\ UNCHANGED requestStatus
    BY <1>1, <1>2, EndType, EndMoves, MovingIInv DEF RefundIInv, refundRequestVars
  <1>3. CASE requestStatus' = [requestStatus EXCEPT ![r] = s] /\ MoveOn(w, "syncOrder")
    <2>1. /\ s \in {"refunded", "provider_refund_failed"}
          /\ s = "refunded" => answer[w] = "succeeded"
          /\ s = "provider_refund_failed" => answer[w] = "failed"
      BY <1>1 DEF FinalStatus
    <2>2. /\ requestStatus' \in [Requests -> Statuses \cup {"absent"}]
          /\ \A t \in Requests : requestStatus'[t] = IF t = r THEN s ELSE requestStatus[t]
      BY <1>1, <1>3, <2>1 DEF RefundIInv, RefundTypeOK, Statuses
    <2>3. CallTypeOK'
      BY <1>1, <1>3, GotoType DEF RefundIInv, Places
    <2>4. RefundTypeOK'
      BY <1>1, <2>2, <2>3 DEF RefundIInv, RefundTypeOK, CallTypeOK
    <2>5. MovesForward /\ OrderRefundedIsReal'
      BY <1>1 DEF RefundIInv, MovesForward, OrderRefundedIsReal
    <2>6. /\ \A q \in RefundCalls \ {w} : SameCall(q)
          /\ pc'[w] = "syncOrder" /\ about'[w] = r /\ held'[w] = held[w] /\ answer'[w] = answer[w]
      BY <1>1, <1>3, GotoMoves DEF RefundIInv
    <2>7. CallOK(w)'
      BY <1>1, <2>6 DEF CallOK, Working
    <2>8. ASSUME NEW t \in Requests
          PROVE  RequestOK(t)'
      <3>1. RequestOK(t)
        BY DEF RefundIInv
      <3>2. CASE t # r
        BY <1>1, <2>2, <3>1, <3>2 DEF RequestOK
      <3>3. CASE t = r
        BY <1>1, <2>1, <2>2, <3>1, <3>3 DEF RequestOK, CallOK
      <3>4. QED
        BY <3>2, <3>3
    <2>9. QED
      BY <1>1, <2>4, <2>5, <2>6, <2>7, <2>8, OneCallSteps
  <1>4. QED
    BY <1>2, <1>3 DEF MarkSettled

-----------------------------------------------------------------------------
\* RefundIInv is kept by every step: one lemma per action.
LEMMA RefundNextIInv == RefundIInv /\ [RefundNext]_refundVars => RefundIInv'
  <1> SUFFICES ASSUME RefundIInv, [RefundNext]_refundVars PROVE RefundIInv'
    OBVIOUS
  <1>1. ASSUME NEW r \in Requests, CreateRequest(r) PROVE RefundIInv'
    BY <1>1, CreateRequestIInv
  <1>2. ASSUME NEW c \in Reviews, ReviewStep(c) PROVE RefundIInv'
    <2>1. c \in RefundCalls
      BY DEF RefundCalls
    <2>2. ASSUME NEW r \in Requests, BeginReject(c, r) PROVE RefundIInv'
      BY <2>1, <2>2, BeginRejectIInv
    <2>3. ASSUME NEW r \in Requests, BeginApprove(c, r) PROVE RefundIInv'
      BY <2>1, <2>3, BeginApproveIInv
    <2>4. CASE PlaceHold(c)
      BY <2>1, <2>4, PlaceHoldIInv
    <2>5. CASE MarkHeld(c) \/ MarkProcessing(c) \/ MarkFinal(c)
      BY <2>1, <2>5, MarkHeldIInv, MarkProcessingIInv, MarkFinalIInv
    <2>6. CASE Execute(c) \/ Submit(c)
      BY <2>6, ExecuteIInv, SubmitIInv
    <2>7. QED
      BY <1>2, <2>2, <2>3, <2>4, <2>5, <2>6 DEF ReviewStep
  <1>3. ASSUME NEW w \in Notices, NoticeStep(w) PROVE RefundIInv'
    BY <1>3, IngestIInv, MarkOrderRefundIInv, LoadForSettlementIInv, MarkSettledIInv
    DEF NoticeStep
  <1>4. ASSUME NEW p \in RefundCalls, SettleHold(p) \/ Release(p) \/ SyncOrder(p) \/ Abort(p)
        PROVE  RefundIInv'
    BY <1>4, SettleIInv, ReleaseIInv, SyncOrderIInv, AbortIInv
  <1>5. CASE UNCHANGED refundVars
    <2>1. UNCHANGED <<refundRequestVars, hold, refund, orderRefund, callVars>>
      BY <1>5 DEF refundVars
    <2>2. /\ RefundTypeOK' /\ MovesForward /\ (\A r \in Requests : RequestOK(r)')
          /\ OrderRefundedIsReal'
      BY <2>1, RowsUntouched DEF RefundIInv, RefundTypeOK, refundRequestVars, callVars
    <2>3. \A p \in RefundCalls : CallOK(p)'
      BY <2>1, <2>2, OtherCallOK DEF RefundIInv, SameCall, callVars
    <2>4. QED
      BY <2>2, <2>3 DEF RefundIInv
  <1>6. QED
    BY <1>1, <1>2, <1>3, <1>4, <1>5 DEF RefundNext

\* Everything a refund call relies on holds of every reachable state.
THEOREM RefundInvariant == RefundSpec => []RefundIInv
  BY RefundInitIInv, RefundNextIInv, PTL DEF RefundSpec

-----------------------------------------------------------------------------
(* The properties.                                                         *)

\* The statuses, holds and places of refund calls are those of the code.
THEOREM RefundTypeCorrect == RefundSpec => []RefundTypeOK
  <1>1. RefundIInv => RefundTypeOK
    BY DEF RefundIInv
  <1>2. QED
    BY <1>1, RefundInvariant, PTL

\* settle_hold (account_value_request_execution.rs, refund_notify.rs): value is
\* taken only for money that was paid back, with any number of calls.
THEOREM SettledOnlyRefunded == RefundSpec => []SettledIsRefunded
  <1>1. RefundIInv => SettledIsRefunded
    BY DEF RefundIInv, RequestOK, SettledIsRefunded
  <1>2. QED
    BY <1>1, RefundInvariant, PTL

\* update_refund_request_status and the settlement store: the status refunded
\* always has a succeeded refund and a settled hold behind it.
THEOREM RefundedBacked == RefundSpec => []RefundedIsBacked
  <1>1. RefundIInv => RefundedIsBacked
    BY DEF RefundIInv, RequestOK, RefundedIsBacked
  <1>2. QED
    BY <1>1, RefundInvariant, PTL

\* ensure_account_hold: no retry's hold exists beside a first hold that still
\* holds or has taken the value.
THEOREM RetryReplacesFirst == RefundSpec => []RetryReplacesFirstHold
  <1>1. RefundIInv => RetryReplacesFirstHold
    BY DEF RefundIInv, RequestOK, RetryReplacesFirstHold
  <1>2. QED
    BY <1>1, RefundInvariant, PTL

\* mark_owner_order_refunded and the pipeline's refund statuses: an order shown
\* as refunded has a refund that succeeded.
THEOREM OrderRefundedReal == RefundSpec => []OrderRefundedIsReal
  <1>1. RefundIInv => OrderRefundedIsReal
    BY DEF RefundIInv
  <1>2. QED
    BY <1>1, RefundInvariant, PTL

\* REFUND_REQUEST_TERMINAL_STATUSES and the settlement store's condition: no
\* step of any call changes a refunded or a rejected request.
THEOREM EndedStays == RefundSpec => EndedRequestStays
  <1>1. ASSUME RefundIInv, RefundNext, NEW r \in Requests, requestStatus[r] \in {"refunded", "rejected"}
        PROVE  requestStatus'[r] = requestStatus[r]
    <2>1. RefundTypeOK
      BY <1>1 DEF RefundIInv
    <2>2. ASSUME NEW c \in RefundCalls, NEW s, NEW place, pc[c] # "idle", MarkStatus(c, s, place)
          PROVE  requestStatus'[r] = requestStatus[r]
      BY <1>1, <2>1, <2>2 DEF MarkStatus, Terminal, RefundTypeOK, refundRequestVars
    <2>3. ASSUME NEW q \in Requests, CreateRequest(q)
          PROVE  requestStatus'[r] = requestStatus[r]
      BY <1>1, <2>1, <2>3 DEF CreateRequest, RefundTypeOK
    <2>4. ASSUME NEW c \in Reviews, ReviewStep(c)
          PROVE  requestStatus'[r] = requestStatus[r]
      <3>1. CASE MarkHeld(c) \/ MarkProcessing(c) \/ MarkFinal(c)
        BY <2>2, <3>1 DEF MarkHeld, MarkProcessing, MarkFinal, RefundCalls
      <3>2. CASE ~(MarkHeld(c) \/ MarkProcessing(c) \/ MarkFinal(c))
        BY <2>4, <3>2 DEF ReviewStep, BeginReject, BeginApprove, PlaceHold, Execute, Submit,
                          refundRequestVars
      <3>3. QED
        BY <3>1, <3>2
    <2>5. ASSUME NEW w \in Notices, NoticeStep(w)
          PROVE  requestStatus'[r] = requestStatus[r]
      <3>1. CASE MarkSettled(w)
        BY <1>1, <2>1, <3>1 DEF MarkSettled, RefundTypeOK
      <3>2. CASE ~MarkSettled(w)
        BY <2>5, <3>2 DEF NoticeStep, Ingest, MarkOrderRefund, LoadForSettlement, refundRequestVars
      <3>3. QED
        BY <3>1, <3>2
    <2>6. ASSUME NEW p \in RefundCalls, SettleHold(p) \/ Release(p) \/ SyncOrder(p) \/ Abort(p)
          PROVE  requestStatus'[r] = requestStatus[r]
      BY <2>6 DEF SettleHold, Release, EndHold, SyncOrder, Abort, refundRequestVars
    <2>7. QED
      BY <1>1, <2>3, <2>4, <2>5, <2>6 DEF RefundNext
  <1>2. RefundIInv /\ [RefundNext]_refundVars
          => [\A r \in Requests :
                requestStatus[r] \in {"refunded", "rejected"} => requestStatus'[r] = requestStatus[r]]_refundVars
    BY <1>1
  <1>3. QED
    BY <1>2, RefundInvariant, PTL DEF RefundSpec, EndedRequestStays

-----------------------------------------------------------------------------
(* Recharge orders and coupons.                                            *)

Granting == {"reserve", "grant", "commit", "commitAgain"}
RechargeOps == {"points", "preview", "insert", "pay", "undo", "redeem", "release"} \cup Granting
RechargeCalls == [op : RechargeOps, want : Orders, order : Orders, via : {"submit", "redemption"},
                  at : Nat, stale : SUBSET Orders]
Redemptions == {Unredeemed} \cup [by : Coupons, benefit : Benefits]

\* A coupon that costs nothing is inserted with the payment status "succeeded".
RechargeRowsOK ==
  /\ status \in [Orders -> Status]
  /\ payment \in [Orders -> Payment \cup {"succeeded"}]
  /\ fulfillment \in [Orders -> Fulfillment]
  /\ events \in [Orders -> SUBSET EventType]
  /\ fulfillmentOrders = {}

RechargeTypeOK ==
  /\ RechargeRowsOK
  /\ asked \subseteq Orders /\ attempted \subseteq Orders
  /\ expires \in [Orders -> Nat]
  /\ benefit \in [Codes -> Benefits]
  /\ redeemed \in [Codes -> Redemptions]
  /\ grants \subseteq Coupons /\ reversed \subseteq grants
  /\ calls \in [Calls -> {Idle} \cup RechargeCalls]
  /\ now \in Nat /\ faults \in Nat

\* o redeemed its code, for the benefit it was made with.
RedeemedBy(o, redemptions) ==
  redemptions[o.code].by = o /\ redemptions[o.code].benefit = o.benefit

\* What a call at a place may rely on, given the redemptions and the grants.
CallIsSure(call, redemptions, granted) ==
  /\ call.op = "preview" => call.want \in Coupons
  /\ call.op \in Granting => call.order \in Coupons /\ RedeemedBy(call.order, redemptions)
  /\ call.op \in {"commit", "commitAgain"} => call.order \in granted

CallsAreSure == \A c \in Calls : calls[c] # Idle => CallIsSure(calls[c], redeemed, grants)

\* A coupon order says fulfilled only if its benefit was granted.
FulfilledIsGranted == \A o \in Coupons : fulfillment[o] = "fulfilled" => o \in grants

RechargeIInv == /\ RechargeTypeOK
                /\ CallsAreSure
                /\ GrantedByTheRedeemer
                /\ FulfilledIsGranted

\* A code stays redeemed as it was, and a grant stays on record.
RedemptionsLast == /\ \A x \in Codes : redeemed[x] # Unredeemed => redeemed'[x] = redeemed[x]
                   /\ grants \subseteq grants'

LEMMA CouponCode == \A o \in Coupons : o \in Orders /\ o.code \in Codes /\ o.subject = "coupon"
  BY RechargeAssumption DEF Coupons

LEMMA RechargeCallOps ==
  ASSUME NEW call \in {Idle} \cup RechargeCalls
  PROVE  (call = Idle <=> call.op = "idle") /\ (call # Idle => call \in RechargeCalls)
  <1>1. Idle.op = "idle"
    BY DEF Idle
  <1>2. ASSUME call \in RechargeCalls PROVE call.op \in RechargeOps /\ call.op # "idle"
    BY <1>2 DEF RechargeCalls, RechargeOps, Granting
  <1>3. QED
    BY <1>1, <1>2

\* Only the redeemer finds its order in a redemption, and it goes on doing so.
LEMMA RedeemerLasts ==
  ASSUME RedemptionsLast, NEW o \in Coupons, RedeemedBy(o, redeemed)
  PROVE  RedeemedBy(o, redeemed')
  <1>1. redeemed[o.code] # Unredeemed
    BY CouponCode DEF RedeemedBy, Unredeemed
  <1>2. QED
    BY <1>1, CouponCode DEF RedemptionsLast, RedeemedBy

LEMMA SureLasts ==
  ASSUME RedemptionsLast, NEW call, CallIsSure(call, redeemed, grants)
  PROVE  CallIsSure(call, redeemed', grants')
  BY RedeemerLasts DEF CallIsSure, RedemptionsLast

\* A call that moves on, among others that go on relying on what they did.
LEMMA RechargeCallMoves ==
  ASSUME RechargeIInv, RedemptionsLast, NEW c \in Calls, NEW next \in {Idle} \cup RechargeCalls,
         Goto(c, next), next # Idle => CallIsSure(next, redeemed', grants')
  PROVE  CallsAreSure' /\ calls' \in [Calls -> {Idle} \cup RechargeCalls]
  <1>1. calls \in [Calls -> {Idle} \cup RechargeCalls]
    BY DEF RechargeIInv, RechargeTypeOK
  <1>2. /\ calls' \in [Calls -> {Idle} \cup RechargeCalls]
        /\ calls'[c] = next
        /\ \A d \in Calls \ {c} : calls'[d] = calls[d]
    BY <1>1 DEF Goto
  <1>3. ASSUME NEW d \in Calls, calls'[d] # Idle PROVE CallIsSure(calls'[d], redeemed', grants')
    <2>1. CASE d = c
      BY <1>2, <1>3, <2>1
    <2>2. CASE d # c
      BY <1>2, <1>3, <2>2, SureLasts DEF RechargeIInv, CallsAreSure
    <2>3. QED
      BY <2>1, <2>2
  <1>4. QED
    BY <1>2, <1>3 DEF CallsAreSure

LEMMA RechargeCallsRest ==
  ASSUME RechargeIInv, RedemptionsLast, UNCHANGED calls
  PROVE  CallsAreSure' /\ calls' \in [Calls -> {Idle} \cup RechargeCalls]
  BY SureLasts DEF RechargeIInv, RechargeTypeOK, CallsAreSure

\* With, as the record it makes of the call.
LEMMA WithCall ==
  ASSUME RechargeIInv, NEW c \in Calls, calls[c] # Idle, NEW op \in RechargeOps, NEW o \in Orders,
         With(c, op, o)
  PROVE  \E next \in RechargeCalls :
           /\ Goto(c, next) /\ next # Idle
           /\ next.op = op /\ next.order = o /\ next.want = calls[c].want
  <1> DEFINE next == [calls[c] EXCEPT !.op = op, !.order = o, !.at = At(op, calls[c].at), !.stale = {}]
  <1>1. calls[c] \in RechargeCalls
    BY RechargeCallOps DEF RechargeIInv, RechargeTypeOK
  <1>2. At(op, calls[c].at) \in Nat
    BY <1>1 DEF RechargeCalls, At
  <1>3. /\ next \in RechargeCalls
        /\ next.op = op /\ next.order = o /\ next.want = calls[c].want
    BY <1>1, <1>2 DEF RechargeCalls
  <1>4. Goto(c, next)
    BY DEF With
  <1> HIDE DEF next
  <1>5. next # Idle
    BY <1>3, RechargeCallOps DEF RechargeOps, Granting
  <1>6. QED
    BY <1>3, <1>4, <1>5

\* A new call.
LEMMA FirstCall ==
  ASSUME RechargeIInv, NEW op \in RechargeOps, NEW o \in Orders, NEW via \in {"submit", "redemption"}
  PROVE  /\ Call(op, o, via) \in RechargeCalls
         /\ Call(op, o, via).op = op /\ Call(op, o, via).want = o
  <1>1. At(op, now) \in Nat
    BY DEF RechargeIInv, RechargeTypeOK, At
  <1>2. QED
    BY <1>1 DEF Call, RechargeCalls

\* A step that redeems and grants nothing.
LEMMA QuietRechargeKeeps ==
  ASSUME RechargeIInv, UNCHANGED <<asked, redeemed, grants, reversed>>,
         CallsAreSure' /\ calls' \in [Calls -> {Idle} \cup RechargeCalls],
         RechargeRowsOK', FulfilledIsGranted',
         attempted' \subseteq Orders, expires' \in [Orders -> Nat],
         benefit' \in [Codes -> Benefits], now' \in Nat, faults' \in Nat
  PROVE  RechargeIInv'
  BY DEF RechargeIInv, RechargeTypeOK, GrantedByTheRedeemer

LEMMA NothingRedeemed == UNCHANGED <<redeemed, grants>> => RedemptionsLast
  BY DEF RedemptionsLast

LEMMA RowsRest ==
  ASSUME RechargeIInv, UNCHANGED <<rowVars, grants>> PROVE RechargeRowsOK' /\ FulfilledIsGranted'
  BY DEF RechargeIInv, RechargeTypeOK, RechargeRowsOK, FulfilledIsGranted, rowVars

\* A call that only reads.
LEMMA ReadingKeeps ==
  ASSUME RechargeIInv, ReadOnly, NEW c \in Calls,
         \/ UNCHANGED calls
         \/ \E next \in {Idle} \cup RechargeCalls :
              Goto(c, next) /\ (next # Idle => CallIsSure(next, redeemed, grants))
  PROVE  RechargeIInv'
  <1>1. UNCHANGED <<rowVars, asked, expires, attempted, benefit, redeemed, grants, reversed, now, faults>>
    BY DEF ReadOnly
  <1>2. CallsAreSure' /\ calls' \in [Calls -> {Idle} \cup RechargeCalls]
    <2>1. CASE UNCHANGED calls
      BY <1>1, <2>1, NothingRedeemed, RechargeCallsRest
    <2>2. ASSUME NEW next \in {Idle} \cup RechargeCalls, Goto(c, next),
                 next # Idle => CallIsSure(next, redeemed, grants)
          PROVE  CallsAreSure' /\ calls' \in [Calls -> {Idle} \cup RechargeCalls]
      BY <1>1, <2>2, NothingRedeemed, RechargeCallMoves
    <2>3. QED
      BY <2>1, <2>2
  <1>3. RechargeRowsOK' /\ FulfilledIsGranted'
    BY <1>1, RowsRest
  <1>4. QED
    BY <1>1, <1>2, <1>3, QuietRechargeKeeps DEF RechargeIInv, RechargeTypeOK

-----------------------------------------------------------------------------
(* The steps.                                                              *)

LEMMA CallUnderWayTyped ==
  ASSUME RechargeIInv, NEW c \in Calls, calls[c].op \in RechargeOps
  PROVE  /\ calls[c] # Idle /\ calls[c] \in RechargeCalls
         /\ calls[c].want \in Orders /\ calls[c].order \in Orders
         /\ CallIsSure(calls[c], redeemed, grants)
  <1>1. calls[c] \in {Idle} \cup RechargeCalls
    BY DEF RechargeIInv, RechargeTypeOK
  <1>2. calls[c] # Idle /\ calls[c] \in RechargeCalls
    BY <1>1, RechargeCallOps DEF RechargeOps, Granting
  <1>3. QED
    BY <1>2 DEF RechargeCalls, RechargeIInv, CallsAreSure

\* Calls that rely on nothing.
LEMMA Unsure ==
  ASSUME NEW call, call.op \in RechargeOps \ (Granting \cup {"preview"})
  PROVE  CallIsSure(call, redeemed, grants) /\ CallIsSure(call, redeemed', grants')
  BY DEF CallIsSure, Granting

\* The call returns, or goes on to a place where it relies on nothing.
LEMMA OnwardCall ==
  ASSUME RechargeIInv, RedemptionsLast, NEW c \in Calls, calls[c].op \in RechargeOps,
         \/ Return(c)
         \/ \E op \in RechargeOps \ (Granting \cup {"preview"}), o \in Orders : With(c, op, o)
  PROVE  CallsAreSure' /\ calls' \in [Calls -> {Idle} \cup RechargeCalls]
  <1>1. CASE Return(c)
    BY <1>1, RechargeCallMoves DEF Return
  <1>2. ASSUME NEW op \in RechargeOps \ (Granting \cup {"preview"}), NEW o \in Orders, With(c, op, o)
        PROVE  CallsAreSure' /\ calls' \in [Calls -> {Idle} \cup RechargeCalls]
    <2>1. PICK next \in RechargeCalls : Goto(c, next) /\ next.op = op
      BY <1>2, CallUnderWayTyped, WithCall
    <2>2. CallIsSure(next, redeemed', grants')
      BY <2>1, Unsure
    <2>3. QED
      BY <2>1, <2>2, RechargeCallMoves
  <1>3. QED
    BY <1>1, <1>2

LEMMA AskKeeps ==
  ASSUME RechargeIInv, NEW c \in Calls, NEW o \in Orders,
         AskPoints(c, o) \/ AskValue(c, o) \/ AskRedemption(c, o) \/ SubmitCoupon(c, o)
  PROVE  RechargeIInv'
  <1>1. PointsByKey(o) \subseteq Orders /\ ValueByKey(o) \subseteq Orders
    BY DEF PointsByKey, ValueByKey, Created
  <1>2. ASSUME NEW op \in {"pay", "points", "insert", "redeem"}, NEW p \in Orders,
               NEW via \in {"submit", "redemption"},
               \/ Goto(c, [Call(op, o, via) EXCEPT !.order = p])
               \/ Goto(c, Call(op, o, via))
        PROVE  \E next \in {Idle} \cup RechargeCalls :
                 Goto(c, next) /\ (next # Idle => CallIsSure(next, redeemed, grants))
    <2>1. op \in RechargeOps \ (Granting \cup {"preview"})
      BY DEF RechargeOps, Granting
    <2>2. CASE Goto(c, [Call(op, o, via) EXCEPT !.order = p])
      <3> DEFINE next == [Call(op, o, via) EXCEPT !.order = p]
      <3>1. next \in RechargeCalls /\ next.op = op
        BY <2>1, FirstCall DEF RechargeCalls
      <3>2. Goto(c, next)
        BY <2>2
      <3> HIDE DEF next
      <3>3. QED
        BY <2>1, <3>1, <3>2, Unsure
    <2>3. CASE Goto(c, Call(op, o, via))
      BY <2>1, <2>3, FirstCall, Unsure
    <2>4. QED
      BY <1>2, <2>2, <2>3
  <1>3. ASSUME NEW via \in {"submit", "redemption"}, o \in Coupons, Goto(c, Call("preview", o, via))
        PROVE  \E next \in {Idle} \cup RechargeCalls :
                 Goto(c, next) /\ (next # Idle => CallIsSure(next, redeemed, grants))
    <2>1. "preview" \in RechargeOps /\ "preview" \notin Granting
      BY DEF RechargeOps, Granting
    <2>2. Call("preview", o, via).op = "preview" /\ Call("preview", o, via).want = o
      BY <2>1, FirstCall
    <2>3. CallIsSure(Call("preview", o, via), redeemed, grants)
      BY <1>3, <2>2 DEF CallIsSure, Granting
    <2>4. QED
      BY <1>3, <2>1, <2>3, FirstCall
  <1>4. o.subject = "coupon" => o \in Coupons
    BY DEF Coupons
  <1>5. CASE AskPoints(c, o)
    BY <1>1, <1>2, <1>5, ReadingKeeps DEF AskPoints
  <1>6. CASE AskValue(c, o)
    BY <1>1, <1>2, <1>6, ReadingKeeps DEF AskValue
  <1>7. CASE AskRedemption(c, o)
    BY <1>1, <1>2, <1>3, <1>4, <1>7, ReadingKeeps DEF AskRedemption
  <1>8. CASE SubmitCoupon(c, o)
    BY <1>3, <1>4, <1>8, ReadingKeeps DEF SubmitCoupon
  <1>9. QED
    BY <1>5, <1>6, <1>7, <1>8

LEMMA ReusePointsKeeps ==
  ASSUME RechargeIInv, NEW c \in Calls, ReusePoints(c) PROVE RechargeIInv'
  <1>1. calls[c].op \in RechargeOps
    BY DEF ReusePoints, RechargeOps
  <1>2. calls[c] \in RechargeCalls
    BY <1>1, CallUnderWayTyped
  <1>3. CASE Reusable(calls[c]) # {}
    <2>1. Reusable(calls[c]) \subseteq Orders
      BY DEF Reusable, Created
    <2>2. PICK p \in Orders : With(c, "pay", p)
      BY <1>3, <2>1 DEF ReusePoints
    <2>3. UNCHANGED <<redeemed, grants>> /\ ReadOnly
      BY DEF ReusePoints, ReadOnly
    <2>4. "pay" \in RechargeOps \ (Granting \cup {"preview"})
      BY DEF RechargeOps, Granting
    <2>5. PICK next \in RechargeCalls : Goto(c, next) /\ next.op = "pay"
      BY <1>1, <2>2, <2>4, CallUnderWayTyped, WithCall
    <2>6. QED
      BY <2>3, <2>4, <2>5, Unsure, ReadingKeeps
  <1>4. CASE Reusable(calls[c]) = {}
    <2> DEFINE next == [calls[c] EXCEPT !.op = "insert", !.stale = StalePoints(calls[c].at)]
    <2>1. StalePoints(calls[c].at) \subseteq Orders
      BY DEF StalePoints, Created
    <2>2. next \in RechargeCalls /\ next.op = "insert"
      BY <1>2, <2>1 DEF RechargeCalls, RechargeOps
    <2>3. Goto(c, next) /\ ReadOnly
      BY <1>4 DEF ReusePoints
    <2> HIDE DEF next
    <2>4. CallIsSure(next, redeemed, grants)
      BY <2>2, Unsure DEF RechargeOps, Granting
    <2>5. QED
      BY <2>2, <2>3, <2>4, ReadingKeeps
  <1>5. QED
    BY <1>3, <1>4

LEMMA PreviewKeeps ==
  ASSUME RechargeIInv, NEW c \in Calls, PreviewCoupon(c) PROVE RechargeIInv'
  <1>1. calls[c].op = "preview" /\ calls[c].op \in RechargeOps
    BY DEF PreviewCoupon, RechargeOps
  <1>2. calls[c].want \in Coupons
    BY <1>1, CallUnderWayTyped DEF CallIsSure
  <1>3. Shown(calls[c]) \in Orders
    BY <1>2, RechargeAssumption, CouponCode DEF Shown, RechargeIInv, RechargeTypeOK
  <1>4. ValueByKey(calls[c].want) \subseteq Orders
    BY DEF ValueByKey, Created
  <1>5. /\ \/ Return(c)
           \/ \E op \in {"insert", "redeem", "pay"}, o \in Orders : With(c, op, o)
        /\ ReadOnly
    BY <1>3, <1>4 DEF PreviewCoupon
  <1>6. {"insert", "redeem", "pay"} \subseteq RechargeOps \ (Granting \cup {"preview"})
    BY DEF RechargeOps, Granting
  <1>7. CallsAreSure' /\ calls' \in [Calls -> {Idle} \cup RechargeCalls]
    BY <1>1, <1>5, <1>6, NothingRedeemed, OnwardCall DEF ReadOnly
  <1>8. RechargeRowsOK' /\ FulfilledIsGranted'
    BY <1>5, RowsRest DEF ReadOnly
  <1>9. QED
    BY <1>5, <1>7, <1>8, QuietRechargeKeeps DEF ReadOnly, RechargeIInv, RechargeTypeOK

LEMMA InsertKeeps ==
  ASSUME RechargeIInv, NEW c \in Calls, InsertOrder(c) PROVE RechargeIInv'
  <1> DEFINE o == calls[c].order
  <1>1. calls[c].op \in RechargeOps
    BY DEF InsertOrder, RechargeOps
  <1>2. calls[c] \in RechargeCalls /\ o \in Orders
    BY <1>1, CallUnderWayTyped
  <1>3. UNCHANGED <<events, fulfillmentOrders, asked, attempted, benefit, redeemed, grants,
                    reversed, now, faults>>
    BY DEF InsertOrder
  <1>4. \/ Return(c) /\ UNCHANGED <<status, payment, fulfillment, expires>>
        \/ /\ \E op \in {"pay", "redeem"} : With(c, op, o)
           /\ status' = [p \in Orders |-> IF p = o THEN FirstStatus(o)[1]
                                         ELSE IF p \in calls[c].stale THEN "expired" ELSE status[p]]
           /\ payment' = [payment EXCEPT ![o] = FirstStatus(o)[2]]
           /\ fulfillment' = [fulfillment EXCEPT ![o] = "unfulfilled"]
           /\ expires' = [expires EXCEPT ![o] = calls[c].at + Window]
    BY DEF InsertOrder
  <1>5. {"pay", "redeem"} \subseteq RechargeOps \ (Granting \cup {"preview"})
    BY DEF RechargeOps, Granting
  <1>6. CallsAreSure' /\ calls' \in [Calls -> {Idle} \cup RechargeCalls]
    BY <1>1, <1>2, <1>3, <1>4, <1>5, NothingRedeemed, OnwardCall
  <1>7. FirstStatus(o)[1] \in Status /\ FirstStatus(o)[2] \in Payment \cup {"succeeded"}
    BY DEF FirstStatus, Status, Payment
  <1>8. calls[c].at + Window \in Nat
    BY <1>2 DEF RechargeCalls, Window
  <1>9. /\ status' \in [Orders -> Status]
        /\ payment' \in [Orders -> Payment \cup {"succeeded"}]
        /\ fulfillment' \in [Orders -> Fulfillment]
        /\ expires' \in [Orders -> Nat]
    <2>1. /\ status \in [Orders -> Status] /\ expires \in [Orders -> Nat]
          /\ payment \in [Orders -> Payment \cup {"succeeded"}]
          /\ fulfillment \in [Orders -> Fulfillment]
      BY DEF RechargeIInv, RechargeTypeOK, RechargeRowsOK
    <2>2. "expired" \in Status /\ "unfulfilled" \in Fulfillment
      BY DEF Status, Fulfillment
    <2> HIDE DEF o
    <2>3. QED
      BY <1>2, <1>4, <1>7, <1>8, <2>1, <2>2
  <1>10. RechargeRowsOK'
    BY <1>3, <1>9 DEF RechargeIInv, RechargeTypeOK, RechargeRowsOK
  <1>11. FulfilledIsGranted'
    BY <1>2, <1>3, <1>4 DEF RechargeIInv, RechargeTypeOK, RechargeRowsOK, FulfilledIsGranted, Coupons
  <1>12. QED
    BY <1>3, <1>6, <1>9, <1>10, <1>11, QuietRechargeKeeps DEF RechargeIInv, RechargeTypeOK

\* The methods of the row, and which of them makes an order fulfilled.
LEMMA RechargeRowMethods ==
  ASSUME RechargeIInv, NEW o \in Orders,
         \/ MarkPaymentSucceeded(o) \/ CancelOrder(o) \/ ExpireDueOrder(o, FALSE)
         \/ ReserveFulfillment(o) \/ ReleaseFulfillment(o) \/ CommitFulfillment(o)
  PROVE  /\ RechargeRowsOK'
         /\ \A p \in Orders : fulfillment'[p] = "fulfilled" =>
              fulfillment[p] = "fulfilled" \/ (CommitFulfillment(o) /\ p = o)
  <1> USE DEF RechargeIInv, RechargeTypeOK, RechargeRowsOK, Update, Record
  <1>1. {"paid", "cancelled", "expired"} \subseteq Status
        /\ {"success", "closed", "expired"} \subseteq Payment
        /\ {"processing", "unfulfilled", "fulfilled"} \subseteq Fulfillment
        /\ {"cancelled", "expired"} \subseteq EventType
        /\ SuccessEvents(o) \subseteq EventType
    BY DEF Status, Payment, Fulfillment, EventType, SuccessEvents
  <1>2. CASE MarkPaymentSucceeded(o)
    BY <1>1, <1>2 DEF MarkPaymentSucceeded
  <1>3. CASE CancelOrder(o)
    BY <1>1, <1>3 DEF CancelOrder
  <1>4. CASE ExpireDueOrder(o, FALSE)
    BY <1>1, <1>4 DEF ExpireDueOrder
  <1>5. CASE ReserveFulfillment(o)
    BY <1>1, <1>5 DEF ReserveFulfillment
  <1>6. CASE ReleaseFulfillment(o)
    BY <1>1, <1>6 DEF ReleaseFulfillment
  <1>7. CASE CommitFulfillment(o)
    BY <1>1, <1>7 DEF CommitFulfillment
  <1>8. QED
    BY <1>2, <1>3, <1>4, <1>5, <1>6, <1>7

\* None but the commit of a grant makes one that says fulfilled.
LEMMA RowMethodKeeps ==
  ASSUME RechargeIInv, NEW o \in Orders, UNCHANGED grants,
         \/ UNCHANGED rowVars
         \/ MarkPaymentSucceeded(o) \/ CancelOrder(o) \/ ExpireDueOrder(o, FALSE)
         \/ ReserveFulfillment(o) \/ ReleaseFulfillment(o)
         \/ CommitFulfillment(o) /\ o \in grants
  PROVE  RechargeRowsOK' /\ FulfilledIsGranted'
  <1>1. CASE UNCHANGED rowVars
    BY <1>1, RowsRest
  <1>2. CASE ~UNCHANGED rowVars
    <2>1. RechargeRowsOK'
      BY <1>2, RechargeRowMethods
    <2>2. ASSUME NEW p \in Coupons, fulfillment'[p] = "fulfilled" PROVE p \in grants'
      <3>1. fulfillment[p] = "fulfilled" \/ (CommitFulfillment(o) /\ p = o)
        BY <1>2, <2>2, CouponCode, RechargeRowMethods
      <3>2. CASE fulfillment[p] = "fulfilled"
        BY <3>2 DEF RechargeIInv, FulfilledIsGranted
      <3>3. CASE CommitFulfillment(o) /\ p = o
        <4>1. MarkPaymentSucceeded(o) \/ CancelOrder(o) \/ ExpireDueOrder(o, FALSE)
              \/ ReserveFulfillment(o) \/ ReleaseFulfillment(o) => fulfillment[o] = "fulfilled"
          <5>1. fulfillment \in [Orders -> Fulfillment]
            BY DEF RechargeIInv, RechargeTypeOK, RechargeRowsOK
          <5>2. fulfillment'[o] = "fulfilled"
            BY <2>2, <3>3
          <5>3. QED
            BY <5>1, <5>2 DEF MarkPaymentSucceeded, CancelOrder, ExpireDueOrder,
                              ReserveFulfillment, ReleaseFulfillment, Update
        <4>2. QED
          BY <1>2, <3>3, <4>1 DEF RechargeIInv, FulfilledIsGranted
      <3>4. QED
        BY <3>1, <3>2, <3>3
    <2>3. QED
      BY <2>1, <2>2 DEF FulfilledIsGranted
  <1>3. QED
    BY <1>1, <1>2

LEMMA PayKeeps ==
  ASSUME RechargeIInv, NEW c \in Calls,
         PayPoints(c) \/ PayValue(c) \/ PayCoupon(c) \/ CompensatePay(c)
  PROVE  RechargeIInv'
  <1> DEFINE o == calls[c].order
  <1>1. calls[c].op \in RechargeOps /\ "undo" \in RechargeOps \ (Granting \cup {"preview"})
    BY DEF PayPoints, PayValue, PayCoupon, CompensatePay, RechargeOps, Granting
  <1>2. o \in Orders
    BY <1>1, CallUnderWayTyped
  <1>3. /\ Return(c) \/ With(c, "undo", o)
        /\ UNCHANGED rowVars \/ CancelOrder(o)
        /\ attempted' \in {attempted, attempted \cup {o}, attempted \ {o}}
        /\ UNCHANGED <<asked, expires, benefit, redeemed, grants, reversed, now, faults>>
    <2>1. CASE PayPoints(c) \/ PayValue(c) \/ PayCoupon(c)
      BY <2>1 DEF PayPoints, PayValue, PayCoupon, PayOrder, LeaveToCashier, ReadOnly
    <2>2. CASE CompensatePay(c)
      BY <2>2 DEF CompensatePay, CancelWithPayments
    <2>3. QED
      BY <2>1, <2>2
  <1> HIDE DEF o
  <1>4. CallsAreSure' /\ calls' \in [Calls -> {Idle} \cup RechargeCalls]
    BY <1>1, <1>2, <1>3, NothingRedeemed, OnwardCall
  <1>5. RechargeRowsOK' /\ FulfilledIsGranted'
    BY <1>2, <1>3, RowMethodKeeps
  <1>6. attempted' \subseteq Orders
    BY <1>2, <1>3 DEF RechargeIInv, RechargeTypeOK
  <1>7. QED
    BY <1>3, <1>4, <1>5, <1>6, QuietRechargeKeeps DEF RechargeIInv, RechargeTypeOK

LEMMA SettleKeeps ==
  ASSUME RechargeIInv, NEW c \in Calls, NEW o \in Orders, Settle(c, o) PROVE RechargeIInv'
  <1>1. /\ MarkPaymentSucceeded(o)
        /\ Goto(c, Call("redeem", o, "submit")) \/ UNCHANGED calls
        /\ UNCHANGED <<asked, expires, attempted, benefit, redeemed, grants, reversed, now, faults>>
    BY DEF Settle
  <1>2. CallsAreSure' /\ calls' \in [Calls -> {Idle} \cup RechargeCalls]
    <2>1. CASE UNCHANGED calls
      BY <1>1, <2>1, NothingRedeemed, RechargeCallsRest
    <2>2. CASE Goto(c, Call("redeem", o, "submit"))
      <3>1. "redeem" \in RechargeOps \ (Granting \cup {"preview"})
        BY DEF RechargeOps, Granting
      <3>2. Call("redeem", o, "submit") \in RechargeCalls /\ Call("redeem", o, "submit").op = "redeem"
        BY <3>1, FirstCall
      <3>3. CallIsSure(Call("redeem", o, "submit"), redeemed', grants')
        BY <3>1, <3>2, Unsure
      <3>4. QED
        BY <1>1, <2>2, <3>2, <3>3, NothingRedeemed, RechargeCallMoves
    <2>3. QED
      BY <1>1, <2>1, <2>2
  <1>3. RechargeRowsOK' /\ FulfilledIsGranted'
    BY <1>1, RowMethodKeeps
  <1>4. QED
    BY <1>1, <1>2, <1>3, QuietRechargeKeeps DEF RechargeIInv, RechargeTypeOK

\* What happens beside the calls.
LEMMA BesideKeeps ==
  ASSUME RechargeIInv,
         \/ \E o \in Created : CashierPay(o) \/ EndOpenOrder(o)
         \/ \E x \in Codes : ChangeBenefit(x)
         \/ Tick
  PROVE  RechargeIInv'
  <1>1. Created \subseteq Orders
    BY DEF Created
  <1>2. UNCHANGED <<asked, redeemed, grants, reversed, calls, expires, faults>>
    BY DEF CashierPay, EndOpenOrder, ChangeBenefit, Tick
  <1>3. CallsAreSure' /\ calls' \in [Calls -> {Idle} \cup RechargeCalls]
    BY <1>2, NothingRedeemed, RechargeCallsRest
  <1>4. ASSUME NEW o \in Orders, CashierPay(o) \/ EndOpenOrder(o) PROVE RechargeIInv'
    <2>1. /\ UNCHANGED rowVars \/ CancelOrder(o) \/ ExpireDueOrder(o, FALSE)
          /\ attempted' \in {attempted \cup {o}, attempted \ {o}}
          /\ UNCHANGED <<benefit, now>>
      BY <1>4 DEF CashierPay, EndOpenOrder, CancelWithPayments
    <2>2. RechargeRowsOK' /\ FulfilledIsGranted'
      BY <1>2, <2>1, RowMethodKeeps
    <2>3. QED
      BY <1>2, <1>3, <2>1, <2>2, QuietRechargeKeeps DEF RechargeIInv, RechargeTypeOK
  <1>5. ASSUME (\E x \in Codes : ChangeBenefit(x)) \/ Tick PROVE RechargeIInv'
    <2>1. UNCHANGED <<rowVars, attempted>>
      BY <1>5 DEF ChangeBenefit, Tick
    <2>2. benefit' \in [Codes -> Benefits] /\ now' \in Nat
      BY <1>5 DEF ChangeBenefit, Tick, RechargeIInv, RechargeTypeOK
    <2>3. RechargeRowsOK' /\ FulfilledIsGranted'
      BY <1>2, <2>1, RowsRest
    <2>4. QED
      BY <1>2, <1>3, <2>1, <2>2, <2>3, QuietRechargeKeeps DEF RechargeIInv, RechargeTypeOK
  <1>6. QED
    BY <1>1, <1>4, <1>5

LEMMA CrashKeeps ==
  ASSUME RechargeIInv, NEW c \in Calls, Crash(c) PROVE RechargeIInv'
  <1>1. UNCHANGED <<rowVars, asked, expires, attempted, benefit, redeemed, grants, reversed, now>>
    BY DEF Crash
  <1>2. CallsAreSure' /\ calls' \in [Calls -> {Idle} \cup RechargeCalls]
    BY <1>1, NothingRedeemed, RechargeCallMoves DEF Crash, Return
  <1>3. faults' \in Nat
    BY DEF Crash, RechargeIInv, RechargeTypeOK
  <1>4. QED
    BY <1>1, <1>2, <1>3, RowsRest, QuietRechargeKeeps DEF RechargeIInv, RechargeTypeOK

-----------------------------------------------------------------------------
(* Redemption and grant.                                                   *)

\* Only an order that the code was redeemed for, and as it was made, goes on.
LEMMA RedeemKeeps ==
  ASSUME RechargeIInv, NEW c \in Calls, Redeem(c) PROVE RechargeIInv'
  <1> DEFINE o == calls[c].order
  <1>1. calls[c].op \in RechargeOps
    BY DEF Redeem, RechargeOps
  <1>2. calls[c] # Idle /\ o \in Orders
    BY <1>1, CallUnderWayTyped
  <1>3. /\ UNCHANGED <<rowVars, asked, expires, attempted, benefit, grants, reversed, now, faults>>
        /\ \/ UNCHANGED redeemed /\ Return(c)
           \/ /\ o \in Coupons
              /\ (Redeemer(o) /\ RedeemCode(o)) \/ UNCHANGED redeemed
              /\ \/ Return(c)
                 \/ Grantable(o) /\ With(c, "reserve", o)
    BY <1>2 DEF Redeem, Redeemable, Coupons
  <1>4. redeemed \in [Codes -> Redemptions] /\ benefit \in [Codes -> Benefits]
    BY DEF RechargeIInv, RechargeTypeOK
  <1> HIDE DEF o
  <1>5. redeemed' \in [Codes -> Redemptions] /\ RedemptionsLast
    <2>1. CASE UNCHANGED redeemed
      BY <1>3, <1>4, <2>1 DEF RedemptionsLast
    <2>2. CASE o \in Coupons /\ Redeemer(o) /\ RedeemCode(o)
      <3>1. /\ o.code \in Codes
            /\ [by |-> o, benefit |-> benefit[o.code]] \in Redemptions
        BY <1>4, <2>2, CouponCode DEF Redemptions
      <3>2. redeemed' = [redeemed EXCEPT ![o.code] =
                           IF redeemed[o.code] = Unredeemed
                           THEN [by |-> o, benefit |-> benefit[o.code]] ELSE redeemed[o.code]]
        BY <2>2 DEF RedeemCode
      <3>3. QED
        BY <1>3, <1>4, <3>1, <3>2 DEF RedemptionsLast
    <2>3. QED
      BY <1>3, <2>1, <2>2
  <1>6. CallsAreSure' /\ calls' \in [Calls -> {Idle} \cup RechargeCalls]
    <2>1. CASE Return(c)
      BY <1>1, <1>5, <2>1, OnwardCall
    <2>2. CASE o \in Coupons /\ Grantable(o) /\ With(c, "reserve", o)
      <3>1. "reserve" \in RechargeOps
        BY DEF RechargeOps, Granting
      <3>2. PICK next \in RechargeCalls : Goto(c, next) /\ next.op = "reserve" /\ next.order = o
        BY <1>2, <2>2, <3>1, WithCall
      <3>3. CallIsSure(next, redeemed', grants')
        BY <2>2, <3>2 DEF CallIsSure, Grantable, RedeemedBy
      <3>4. QED
        BY <1>5, <3>2, <3>3, RechargeCallMoves
    <2>3. QED
      BY <1>3, <2>1, <2>2
  <1>7. GrantedByTheRedeemer'
    <2>1. \A p \in grants : p \in Coupons /\ RedeemedBy(p, redeemed)
      BY DEF RechargeIInv, RechargeTypeOK, GrantedByTheRedeemer, RedeemedBy
    <2>2. QED
      BY <1>3, <1>5, <2>1, RedeemerLasts DEF GrantedByTheRedeemer, RedeemedBy
  <1>8. RechargeRowsOK' /\ FulfilledIsGranted'
    BY <1>3, RowsRest
  <1>9. QED
    BY <1>3, <1>5, <1>6, <1>7, <1>8 DEF RechargeIInv, RechargeTypeOK

\* A call that grants is sure of its order.
LEMMA GrantingIsSure ==
  ASSUME RechargeIInv, NEW c \in Calls, calls[c].op \in Granting
  PROVE  /\ calls[c] # Idle /\ calls[c].order \in Coupons /\ calls[c].order \in Orders
         /\ RedeemedBy(calls[c].order, redeemed)
  <1>1. calls[c].op \in RechargeOps
    BY DEF RechargeOps
  <1>2. QED
    BY <1>1, CallUnderWayTyped DEF CallIsSure

\* It goes on with it.
LEMMA GrantingGoesOn ==
  ASSUME RechargeIInv, RedemptionsLast, NEW c \in Calls, calls[c] # Idle,
         NEW o \in Coupons, RedeemedBy(o, redeemed), NEW op \in Granting \cup {"release"},
         With(c, op, o), op \in {"commit", "commitAgain"} => o \in grants'
  PROVE  CallsAreSure' /\ calls' \in [Calls -> {Idle} \cup RechargeCalls]
  <1>1. op \in RechargeOps /\ o \in Orders
    BY CouponCode DEF RechargeOps
  <1>2. PICK next \in RechargeCalls : Goto(c, next) /\ next.op = op /\ next.order = o
    BY <1>1, WithCall
  <1>3. CallIsSure(next, redeemed', grants')
    BY <1>2, RedeemerLasts DEF CallIsSure, Granting
  <1>4. QED
    BY <1>2, <1>3, RechargeCallMoves

LEMMA ReserveKeeps ==
  ASSUME RechargeIInv, NEW c \in Calls, Reserve(c) PROVE RechargeIInv'
  <1> DEFINE o == calls[c].order
  <1>1. calls[c].op \in RechargeOps /\ calls[c].op \in Granting
    BY DEF Reserve, RechargeOps, Granting
  <1>2. o \in Orders
    BY <1>1, CallUnderWayTyped
  <1>3. /\ UNCHANGED rowVars \/ ReserveFulfillment(o)
        /\ Return(c) \/ With(c, "grant", o)
        /\ UNCHANGED <<asked, expires, attempted, benefit, redeemed, grants, reversed, now, faults>>
    BY DEF Reserve
  <1>4. CallsAreSure' /\ calls' \in [Calls -> {Idle} \cup RechargeCalls]
    <2>1. CASE Return(c)
      BY <1>1, <1>3, <2>1, NothingRedeemed, OnwardCall
    <2>2. CASE With(c, "grant", o)
      <3>1. /\ calls[c] # Idle /\ calls[c].order \in Orders
            /\ calls[c].order \in Coupons /\ RedeemedBy(calls[c].order, redeemed)
        BY <1>1, GrantingIsSure
      <3>2. QED
        BY <1>3, <2>2, <3>1, NothingRedeemed, GrantingGoesOn DEF Granting
    <2>3. QED
      BY <1>3, <2>1, <2>2
  <1> HIDE DEF o
  <1>5. RechargeRowsOK' /\ FulfilledIsGranted'
    BY <1>2, <1>3, RowMethodKeeps
  <1>6. QED
    BY <1>3, <1>4, <1>5, QuietRechargeKeeps DEF RechargeIInv, RechargeTypeOK

\* What is granted is granted to the redeemer.
LEMMA GrantKeeps ==
  ASSUME RechargeIInv, NEW c \in Calls, GrantAsset(c) \/ GrantSubscription(c)
  PROVE  RechargeIInv'
  <1> DEFINE o == calls[c].order
  <1>1. calls[c].op = "grant" /\ calls[c].op \in RechargeOps /\ calls[c].op \in Granting
    BY DEF GrantAsset, GrantSubscription, RechargeOps, Granting
  <1>2. calls[c] # Idle /\ o \in Orders /\ o \in Coupons /\ RedeemedBy(o, redeemed)
    BY <1>1, GrantingIsSure
  <1>3. UNCHANGED <<rowVars, asked, expires, attempted, benefit, redeemed, reversed, now>>
    BY DEF GrantAsset, GrantSubscription
  <1>4. \/ /\ grants' = grants \cup {o} /\ UNCHANGED faults
           /\ With(c, "commit", o) \/ With(c, "commitAgain", o)
        \/ /\ UNCHANGED grants /\ faults' = faults + 1
           /\ With(c, "release", o)
    BY DEF GrantAsset, GrantSubscription, GrantOnce, GrantFails
  <1>5. RedemptionsLast /\ grants' \subseteq Coupons /\ reversed' \subseteq grants' /\ faults' \in Nat
    <2> HIDE DEF o
    <2>1. grants' \in {grants, grants \cup {o}} /\ faults' \in {faults, faults + 1}
      BY <1>4
    <2>2. grants \subseteq Coupons /\ reversed \subseteq grants /\ faults \in Nat
      BY DEF RechargeIInv, RechargeTypeOK
    <2>3. QED
      BY <1>2, <1>3, <2>1, <2>2 DEF RedemptionsLast
  <1>6. CallsAreSure' /\ calls' \in [Calls -> {Idle} \cup RechargeCalls]
    <2> HIDE DEF o
    <2>1. CASE With(c, "release", o)
      BY <1>2, <1>5, <2>1, GrantingGoesOn
    <2>2. CASE With(c, "commit", o) /\ grants' = grants \cup {o}
      BY <1>2, <1>5, <2>2, GrantingGoesOn DEF Granting
    <2>3. CASE With(c, "commitAgain", o) /\ grants' = grants \cup {o}
      BY <1>2, <1>5, <2>3, GrantingGoesOn DEF Granting
    <2>4. QED
      BY <1>4, <2>1, <2>2, <2>3
  <1>7. GrantedByTheRedeemer'
    BY <1>2, <1>3, <1>4 DEF RechargeIInv, GrantedByTheRedeemer, RedeemedBy
  <1>8. RechargeRowsOK' /\ FulfilledIsGranted'
    BY <1>3, <1>4 DEF RechargeIInv, RechargeTypeOK, RechargeRowsOK, FulfilledIsGranted, rowVars
  <1>9. QED
    BY <1>3, <1>5, <1>6, <1>7, <1>8 DEF RechargeIInv, RechargeTypeOK

LEMMA CommitKeeps ==
  ASSUME RechargeIInv, NEW c \in Calls, CommitGrant(c) \/ ReleaseGrant(c) PROVE RechargeIInv'
  <1> DEFINE o == calls[c].order
  <1>1. calls[c].op \in {"commit", "commitAgain", "release"} /\ calls[c].op \in RechargeOps
    BY DEF CommitGrant, ReleaseGrant, RechargeOps, Granting
  <1>2. /\ o \in Orders
        /\ calls[c].op \in {"commit", "commitAgain"} => o \in grants
    BY <1>1, CallUnderWayTyped DEF CallIsSure
  <1>3. /\ UNCHANGED rowVars \/ ReleaseFulfillment(o)
           \/ (CommitFulfillment(o) /\ calls[c].op \in {"commit", "commitAgain"})
        /\ Return(c)
        /\ UNCHANGED <<asked, expires, attempted, benefit, redeemed, grants, reversed, now, faults>>
    BY DEF CommitGrant, ReleaseGrant
  <1>4. CallsAreSure' /\ calls' \in [Calls -> {Idle} \cup RechargeCalls]
    BY <1>1, <1>3, NothingRedeemed, OnwardCall
  <1> HIDE DEF o
  <1>5. RechargeRowsOK' /\ FulfilledIsGranted'
    BY <1>2, <1>3, RowMethodKeeps
  <1>6. QED
    BY <1>3, <1>4, <1>5, QuietRechargeKeeps DEF RechargeIInv, RechargeTypeOK

LEMMA CommitFaultKeeps ==
  ASSUME RechargeIInv, NEW c \in Calls, AssetCommitFails(c) \/ SubscriptionCommitFails(c)
  PROVE  RechargeIInv'
  <1> DEFINE o == calls[c].order
  <1>1. /\ calls[c].op \in {"commit", "commitAgain"}
        /\ calls[c].op \in RechargeOps /\ calls[c].op \in Granting
    BY DEF AssetCommitFails, SubscriptionCommitFails, CommitFault, RechargeOps, Granting
  <1>2. o \in grants
    BY <1>1, CallUnderWayTyped DEF CallIsSure
  <1>3. /\ UNCHANGED <<rowVars, asked, expires, attempted, benefit, redeemed, grants, now>>
        /\ With(c, "release", o)
        /\ reversed' \in {reversed, reversed \cup {o}}
        /\ faults' = faults + 1
    BY DEF AssetCommitFails, SubscriptionCommitFails, CommitFault
  <1>4. CallsAreSure' /\ calls' \in [Calls -> {Idle} \cup RechargeCalls]
    <2>1. /\ calls[c] # Idle /\ o \in Orders /\ o \in Coupons /\ RedeemedBy(o, redeemed)
      BY <1>1, GrantingIsSure
    <2> HIDE DEF o
    <2>2. QED
      BY <1>3, <2>1, NothingRedeemed, GrantingGoesOn
  <1>5. RechargeRowsOK' /\ FulfilledIsGranted'
    BY <1>3, RowsRest
  <1> HIDE DEF o
  <1>6. reversed' \subseteq grants' /\ faults' \in Nat
    BY <1>2, <1>3 DEF RechargeIInv, RechargeTypeOK
  <1>7. QED
    BY <1>3, <1>4, <1>5, <1>6 DEF RechargeIInv, RechargeTypeOK, GrantedByTheRedeemer

-----------------------------------------------------------------------------

LEMMA RechargeInitIInv == Init => RechargeIInv
  <1> SUFFICES ASSUME Init PROVE RechargeIInv
    OBVIOUS
  <1>1. RechargeRowsOK
    BY DEF Init, RowInit, RechargeRowsOK, Status, Payment, Fulfillment, EventType
  <1>2. benefit \in [Codes -> Benefits]
    BY RechargeAssumption DEF Init
  <1>3. RechargeTypeOK
    BY <1>1, <1>2, RechargeAssumption DEF Init, RechargeTypeOK, Redemptions
  <1>4. CallsAreSure /\ GrantedByTheRedeemer
    BY DEF Init, CallsAreSure, GrantedByTheRedeemer
  <1>5. FulfilledIsGranted
    BY CouponCode DEF Init, RowInit, FulfilledIsGranted
  <1>6. QED
    BY <1>3, <1>4, <1>5 DEF RechargeIInv

LEMMA RechargeNextIInv == RechargeIInv /\ [Next]_vars => RechargeIInv'
  <1> SUFFICES ASSUME RechargeIInv, [Next]_vars PROVE RechargeIInv'
    OBVIOUS
  <1>1. asked \subseteq Orders /\ Created \subseteq Orders
    BY DEF RechargeIInv, RechargeTypeOK, Created
  <1>2. {o.code : o \in asked \cap Coupons} \subseteq Codes
    BY CouponCode
  <1>3. CASE UNCHANGED vars
    <2>1. UNCHANGED <<rowVars, rechargeVars>>
      BY <1>3 DEF vars
    <2>2. CallsAreSure' /\ calls' \in [Calls -> {Idle} \cup RechargeCalls]
      BY <2>1, NothingRedeemed, RechargeCallsRest DEF rechargeVars
    <2>3. RechargeRowsOK' /\ FulfilledIsGranted'
      BY <2>1, RowsRest DEF rechargeVars
    <2>4. QED
      BY <2>1, <2>2, <2>3, QuietRechargeKeeps DEF rechargeVars, RechargeIInv, RechargeTypeOK
  <1>4. ASSUME NEW c \in Calls, Serve(c) PROVE RechargeIInv'
    BY <1>4, ReusePointsKeeps, PreviewKeeps, InsertKeeps, PayKeeps, RedeemKeeps, ReserveKeeps,
       GrantKeeps, CommitKeeps DEF Serve
  <1>5. ASSUME NEW c \in Calls, Crash(c) \/ AssetCommitFails(c) \/ SubscriptionCommitFails(c)
        PROVE  RechargeIInv'
    BY <1>5, CrashKeeps, CommitFaultKeeps
  <1>6. ASSUME NEW c \in Calls, NEW o \in asked,
               AskPoints(c, o) \/ AskValue(c, o) \/ AskRedemption(c, o) \/ SubmitCoupon(c, o)
        PROVE  RechargeIInv'
    BY <1>1, <1>6, AskKeeps
  <1>7. ASSUME NEW c \in Calls, NEW o \in Created, Settle(c, o) PROVE RechargeIInv'
    BY <1>1, <1>7, SettleKeeps
  <1>8. ASSUME \/ \E o \in Created : CashierPay(o) \/ EndOpenOrder(o)
               \/ \E x \in {o.code : o \in asked \cap Coupons} : ChangeBenefit(x)
               \/ Tick
        PROVE  RechargeIInv'
    BY <1>2, <1>8, BesideKeeps
  <1>9. QED
    BY <1>3, <1>4, <1>5, <1>6, <1>7, <1>8 DEF Next

\* Every step of a recharge, of the promotion and of the ledger keeps orders,
\* redemptions, grants and calls under way together.
THEOREM RechargeInvariant == RechargeSpec => []RechargeIInv
  BY RechargeInitIInv, RechargeNextIInv, PTL DEF RechargeSpec

\* The recharge model is type correct for every set of calls, codes, benefits
\* and requests.
THEOREM RechargeTypeCorrect == RechargeSpec => []RechargeTypeOK
  BY RechargeInvariant, PTL DEF RechargeIInv

\* coupon_recharge_fulfillment.rs: a coupon's benefit goes to the order that
\* redeemed the code and as that order was made, for any number of calls,
\* crashes, retries and changes of the benefit.
THEOREM GrantedToRedeemer == RechargeSpec => []GrantedByTheRedeemer
  BY RechargeInvariant, PTL DEF RechargeIInv

\* A coupon order that says fulfilled had its benefit granted, and only what was
\* granted is ever taken back.
THEOREM FulfilledGranted == RechargeSpec => [](FulfilledIsGranted /\ reversed \subseteq grants)
  BY RechargeInvariant, PTL DEF RechargeIInv, RechargeTypeOK
=============================================================================

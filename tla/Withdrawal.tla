----------------------------- MODULE Withdrawal -----------------------------
(***************************************************************************)
(* The cash withdrawal requests of one owner: creation, and the operator's *)
(* review (execute_withdrawal_request), which holds the cash, has it paid  *)
(* out, and settles or releases the hold.  No notice follows a payout: one *)
(* that is processing is asked about by the next review.                   *)
(*                                                                         *)
(* A request has two names.  Its id is made of the owner's Idempotency-Key *)
(* and stays; the key stored with it is replaced, with every status, by    *)
(* the key of the review and the status.                                   *)
(***************************************************************************)
EXTENDS FiniteSets

CONSTANTS Keys,        \* the owner's Idempotency-Keys
          Bodies,      \* what a creation may ask for
          Creators, Reviews,   \* calls that can be under way at the same time
          ReviewKeys,  \* the operators' Idempotency-Keys
          FirstKey,    \* the key of the hold a request places first
          Nothing

Callers == Creators \cup Reviews
Holds == ReviewKeys \cup {FirstKey}

ASSUME WithdrawalAssumption == /\ Creators \cap Reviews = {}
                               /\ FirstKey \notin ReviewKeys
                               /\ Nothing \notin Keys \cup Holds \cup Bodies

VARIABLES request,  \* commerce_order_withdrawal_request, by id
          hold,     \* the account holds of each request, by key
          payout,   \* the payout the provider made for each request
          call      \* what each call is about to do

withdrawalVars == <<request, hold, payout, call>>

WithdrawalStatuses == {"requested", "account_cash_held", "provider_payout_processing",
             "provider_payout_failed", "paid_out", "rejected"}
Absent == [status |-> "absent", key |-> <<Nothing, Nothing>>, effect |-> Nothing,
           body |-> Nothing, madeBy |-> Nothing]
Rows == {i \in Keys : request[i] # Absent}

Idle == [at |-> "idle", id |-> Nothing, key |-> Nothing, body |-> Nothing, hold |-> Nothing,
         answer |-> Nothing]

WithdrawalInit == /\ request = [i \in Keys |-> Absent]
                  /\ hold = [i \in Keys |-> [h \in Holds |-> "none"]]
                  /\ payout = [i \in Keys |-> "none"]
                  /\ call = [c \in Callers |-> Idle]

Goto(c, next) == call' = [call EXCEPT ![c] = next]
Step(c, at) == Goto(c, [call[c] EXCEPT !.at = at])
Return(c) == Goto(c, Idle)

-----------------------------------------------------------------------------
(* Creation                                                                *)

\* Mutant: an id of its own for every creation.
FreshId(k) == IF Rows = Keys THEN k ELSE CHOOSE i \in Keys : i \notin Rows

\* The hash of prefix, tenant, owner and key; no two keys share one.
StableId(k) == k

KeyTaken(key, ids) == \E i \in ids : request[i].key = key

\* A request found by the key is compared with the command and answered, or is
\* a conflict: nothing is changed either way.
LookUp(c, k, b) == /\ call[c] = Idle
                   /\ ~KeyTaken(<<k, Nothing>>, Rows)
                   /\ Goto(c, [Idle EXCEPT !.at = "insert", !.key = k, !.body = b])
                   /\ UNCHANGED <<request, hold, payout>>

\* ON CONFLICT DO NOTHING on the id and on the key.  The second lookup by key
\* answers a request another call made, and is an error once it was reviewed.
Insert(c) ==
  LET k == call[c].key
      i == StableId(k)
  IN /\ call[c].at = "insert"
     /\ request' = IF i \in Rows \/ KeyTaken(<<k, Nothing>>, Rows) THEN request
                   ELSE [request EXCEPT ![i] =
                           [status |-> "requested", key |-> <<k, Nothing>>, effect |-> Nothing,
                            body |-> call[c].body, madeBy |-> k]]
     /\ Return(c)
     /\ UNCHANGED <<hold, payout>>

-----------------------------------------------------------------------------
(* The review.  The request is read without a lock and every later step    *)
(* goes by what was read.                                                  *)

BeginReview(c, i, k, at, h, answer) ==
  Goto(c, [Idle EXCEPT !.at = at, !.id = i, !.key = k, !.hold = h, !.answer = answer])

\* What a review finds; it has ended already if the request was paid out.
Reviewable(i) == request[i].status \notin {"absent", "paid_out"}

BeginReject(c, i, k) ==
  /\ call[c] = Idle
  /\ Reviewable(i)
  /\ BeginReview(c, i, k, IF request[i].effect = Nothing THEN "mark" ELSE "release",
                 request[i].effect, "rejected")
  /\ UNCHANGED <<request, hold, payout>>

\* Approve and retry are one action; a paid request is answered as it is.
BeginApprove(c, i, k) ==
  LET row == request[i] IN
  /\ call[c] = Idle
  /\ Reviewable(i)
  /\ CASE row.status = "provider_payout_failed" -> BeginReview(c, i, k, "hold", k, Nothing)
       [] row.status # "provider_payout_failed" /\ row.effect = Nothing ->
            BeginReview(c, i, k, "hold", FirstKey, Nothing)
       [] OTHER -> BeginReview(c, i, k, "processing", row.effect, Nothing)
  /\ UNCHANGED <<request, hold, payout>>

\* The ledger answers a repeated key with the hold as it is by now; cash that
\* is not there is refused, which ends the call (AbortCall).
PlaceHold(c) == /\ call[c].at = "hold"
                /\ hold' = [hold EXCEPT ![call[c].id][call[c].hold] = IF @ = "none" THEN "held" ELSE @]
                /\ Step(c, "held")
                /\ UNCHANGED <<request, payout>>

Terminal(i) == request[i].status \in {"paid_out", "rejected"}

FinalStatus == [rejected |-> "rejected", processing |-> "provider_payout_processing",
                succeeded |-> "paid_out", failed |-> "provider_payout_failed"]

\* The update skips requests in a terminal status, an error then, and is one as
\* well if another request of the owner has the key by now.
Mark(c, status, next) ==
  LET i == call[c].id
      key == <<call[c].key, status>>
  IN /\ IF Terminal(i) \/ KeyTaken(key, Rows \ {i})
        THEN /\ Return(c)
             /\ UNCHANGED request
        ELSE /\ request' = [request EXCEPT
                   ![i].status = status, ![i].key = key,
                   ![i].effect = IF status = "rejected" THEN @ ELSE call[c].hold]
             /\ IF next = "idle" THEN Return(c) ELSE Step(c, next)
     /\ UNCHANGED <<hold, payout>>

MarkHeld(c) == call[c].at = "held" /\ Mark(c, "account_cash_held", "processing")
MarkProcessing(c) ==
  call[c].at = "processing" /\ Mark(c, "provider_payout_processing", "payout")
MarkFinal(c) == call[c].at = "mark" /\ Mark(c, FinalStatus[call[c].answer], "idle")

\* Mutant: the hold is settled as soon as the payout is submitted.
AfterAnswerSubmitted(a) == IF a \in {"succeeded", "processing"} THEN "settle" ELSE "release"

AfterAnswer(a) == CASE a = "succeeded" -> "settle"
                    [] a = "processing" -> "mark"
                    [] OTHER -> "release"

\* PaymentPayoutExecutorPort: one payout per request, whatever is asked; one
\* that failed may be tried again.  Errors that are certain count as failed, the
\* others end the call with the outcome unknown (AbortCall).
Payout(c) ==
  LET i == call[c].id
      Answer(a) == Goto(c, [call[c] EXCEPT !.at = AfterAnswer(a), !.answer = a])
  IN /\ call[c].at = "payout"
     /\ \/ \E a \in {"processing", "succeeded", "failed"} :
             /\ payout[i] = "succeeded" => a = "succeeded"
             /\ payout' = [payout EXCEPT ![i] = a]
             /\ Answer(a) \/ Return(c)
        \/ /\ Answer("failed")
           /\ UNCHANGED payout
     /\ UNCHANGED <<request, hold>>

\* The ledger replays an end it knows and refuses the other one.
EndHold(c, at, target) ==
  LET i == call[c].id
      h == call[c].hold
  IN /\ call[c].at = at
     /\ IF hold[i][h] \in {"held", target}
        THEN /\ hold' = [hold EXCEPT ![i][h] = target]
             /\ Step(c, "mark")
        ELSE /\ Return(c)
             /\ UNCHANGED hold
     /\ UNCHANGED <<request, payout>>

Settle(c) == EndHold(c, "settle", "settled")
Release(c) == EndHold(c, "release", "released")

-----------------------------------------------------------------------------
\* A call ends early: an error of the store or the ledger, or a crash.
AbortCall(c) == /\ call[c] # Idle
                /\ Return(c)
                /\ UNCHANGED <<request, hold, payout>>

\* The provider goes on with a payout that is processing.
PayoutEnds(i) == /\ payout[i] = "processing"
                 /\ \E a \in {"succeeded", "failed"} : payout' = [payout EXCEPT ![i] = a]
                 /\ UNCHANGED <<request, hold, call>>

ReviewStep(c) == \/ \E i \in Keys, k \in ReviewKeys : BeginReject(c, i, k) \/ BeginApprove(c, i, k)
                 \/ PlaceHold(c) \/ MarkHeld(c) \/ MarkProcessing(c) \/ Payout(c)
                 \/ Settle(c) \/ Release(c) \/ MarkFinal(c)

WithdrawalNext == \/ \E c \in Creators, k \in Keys, b \in Bodies : LookUp(c, k, b)
                  \/ \E c \in Creators : Insert(c)
                  \/ \E c \in Reviews : ReviewStep(c)
                  \/ \E c \in Callers : AbortCall(c)
                  \/ \E i \in Keys : PayoutEnds(i)

WithdrawalSpec == WithdrawalInit /\ [][WithdrawalNext]_withdrawalVars

-----------------------------------------------------------------------------
(* Properties.                                                             *)

WithdrawalTypeOK ==
  /\ request \in [Keys -> [status : WithdrawalStatuses \cup {"absent"},
                           key : (Keys \cup ReviewKeys \cup {Nothing}) \X (WithdrawalStatuses \cup {Nothing}),
                           effect : Holds \cup {Nothing}, body : Bodies \cup {Nothing},
                           madeBy : Keys \cup {Nothing}]]
  /\ hold \in [Keys -> [Holds -> {"none", "held", "settled", "released"}]]
  /\ payout \in [Keys -> {"none", "processing", "succeeded", "failed"}]

\* Cash leaves the account only for a payout that was made, and a request that
\* says paid_out is one that was paid and whose hold was settled, whichever of
\* the reviews, each going by the row it read long before, wrote it.
PaidOutIsBacked == \A i \in Keys :
  /\ \A h \in Holds : hold[i][h] = "settled" => payout[i] = "succeeded"
  /\ request[i].status = "paid_out" => \E h \in Holds : hold[i][h] = "settled"

\* A creation that is repeated makes no second request, although the first
\* review replaces the key a repetition is recognised by.
OneRequestPerKey == \A i, j \in Rows : request[i].madeBy = request[j].madeBy => i = j
=============================================================================

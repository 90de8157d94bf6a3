----------------------------- MODULE DeskProofs -----------------------------
(***************************************************************************)
(* Four desks that keep rows of their own.                                 *)
(*                                                                         *)
(* Withdrawals, for every set of keys, requests, calls and reviews: cash   *)
(* leaves an account only for a payout that was made, and one creation     *)
(* makes one request.  A review goes by a row it read long before; what    *)
(* saves it is that a payout that succeeded, a hold that was settled and   *)
(* the key a request was made with never change again, so what a call      *)
(* knows of them stays true until it acts on it.                           *)
(*                                                                         *)
(* The catalogue, for every workload and any number of operators: a call   *)
(* is always at a statement of the command whose key it carries, so the    *)
(* key it writes into a row names what it made of the row.                 *)
(*                                                                         *)
(* Recharge pricing, for every rule, package and request: whatever payload *)
(* an order gets carries the points on the order's item, or none, and the  *)
(* points on the item never change.                                        *)
(*                                                                         *)
(* Demand claims, for every set of bidders and calls: the unique index     *)
(* lets one transaction at a time between its entry and its commit, and    *)
(* that one entered while nothing was awarded; no guarded UPDATE makes an  *)
(* award of a claim that was none.  So the commit is the only award.       *)
(* An event repeats what its call had read, which the guard of an UPDATE   *)
(* or the row's lock makes true when it is written.                        *)
(***************************************************************************)
EXTENDS Withdrawal, ValueCatalogue, RechargePricing, DemandClaim, TLAPS

-----------------------------------------------------------------------------
(* Withdrawals.                                                            *)


ReviewPlaces == {"hold", "held", "processing", "payout", "settle", "release", "mark"}
Answers == {"rejected", "processing", "succeeded", "failed"}
Works == [at : {"idle", "insert"} \cup ReviewPlaces, id : Keys \cup {Nothing},
          key : Keys \cup ReviewKeys \cup {Nothing}, body : Bodies \cup {Nothing},
          hold : Holds \cup {Nothing}, answer : Answers \cup {Nothing}]

\* What a call at work w may rely on, given the requests, payouts and holds.
WorkOK(w, rows, paid, held) ==
  /\ w \in Works
  /\ w.at = "insert" => w.key \in Keys /\ w.body \in Bodies
  /\ w.at \in ReviewPlaces =>
       /\ w.id \in Keys /\ w.key \in ReviewKeys
       /\ rows[w.id].madeBy = w.id
  /\ w.at \in ReviewPlaces \ {"mark"} => w.hold \in Holds
  /\ w.at = "settle" => w.answer = "succeeded" /\ paid[w.id] = "succeeded"
  /\ w.at = "release" => w.answer \in {"failed", "rejected"}
  /\ w.at = "mark" =>
       /\ w.answer \in Answers
       /\ w.answer # "rejected" => w.hold \in Holds
       /\ w.answer = "succeeded" => held[w.id][w.hold] = "settled"

CallsWork == /\ call \in [Callers -> Works]
             /\ \A c \in Callers : WorkOK(call[c], request, payout, hold)
MadeByItsKey == \A i \in Keys : request[i] = Absent \/ request[i].madeBy = i

WithdrawalIInv == /\ WithdrawalTypeOK
                  /\ CallsWork
                  /\ MadeByItsKey
                  /\ PaidOutIsBacked

\* What never changes once it has come about.
Lasting == /\ \A i \in Keys : request[i].madeBy = i => request'[i].madeBy = i
           /\ \A i \in Keys : payout[i] = "succeeded" => payout'[i] = "succeeded"
           /\ \A i \in Keys, h \in Holds : hold[i][h] = "settled" => hold'[i][h] = "settled"

USE WithdrawalAssumption

-----------------------------------------------------------------------------
(* The frame of a step.                                                    *)

\* A step moves one call to its next work and leaves to the others what they
\* rely on.
LEMMA MovesOneCall ==
  ASSUME WithdrawalIInv, NEW c \in Callers, NEW next,
         Goto(c, next), Lasting, WorkOK(next, request', payout', hold')
  PROVE  CallsWork'
  <1>1. call' = [call EXCEPT ![c] = next] /\ next \in Works
    BY DEF Goto, WorkOK
  <1>2. call' \in [Callers -> Works]
    BY <1>1 DEF WithdrawalIInv, CallsWork
  <1>3. ASSUME NEW d \in Callers
        PROVE  WorkOK(call'[d], request', payout', hold')
    <2>1. CASE d = c
      BY <1>1, <2>1 DEF WithdrawalIInv, CallsWork
    <2>2. CASE d # c
      <3>1. call'[d] = call[d] /\ WorkOK(call[d], request, payout, hold)
        BY <1>1, <2>2 DEF WithdrawalIInv, CallsWork
      <3>2. QED
        BY <3>1 DEF WorkOK, Lasting, ReviewPlaces
    <2>3. QED
      BY <2>1, <2>2
  <1>4. QED
    BY <1>2, <1>3 DEF CallsWork

LEMMA IdleIsOK == WorkOK(Idle, request', payout', hold')
  BY DEF WorkOK, Works, Idle, ReviewPlaces, Answers

\* A step that only moves a call.
LEMMA OnlyMoves ==
  ASSUME WithdrawalIInv, NEW c \in Callers, NEW next, Goto(c, next),
         UNCHANGED <<request, hold, payout>>, WorkOK(next, request, payout, hold)
  PROVE  WithdrawalIInv'
  <1>1. Lasting /\ WorkOK(next, request', payout', hold')
    BY DEF Lasting, WorkOK
  <1>2. CallsWork'
    BY <1>1, MovesOneCall
  <1>3. QED
    BY <1>2 DEF WithdrawalIInv, WithdrawalTypeOK, MadeByItsKey, PaidOutIsBacked

LEMMA ReturnKeeps ==
  ASSUME WithdrawalIInv, NEW c \in Callers, Return(c), UNCHANGED <<request, hold, payout>>
  PROVE  WithdrawalIInv'
  BY OnlyMoves DEF Return, WorkOK, Works, Idle, ReviewPlaces, Answers

-----------------------------------------------------------------------------
(* Creation.                                                               *)

LEMMA LookUpKeeps ==
  ASSUME WithdrawalIInv, NEW c \in Creators, NEW k \in Keys, NEW b \in Bodies, LookUp(c, k, b)
  PROVE  WithdrawalIInv'
  <1>1. c \in Callers
    BY DEF Callers
  <1>2. WorkOK([Idle EXCEPT !.at = "insert", !.key = k, !.body = b], request, payout, hold)
    BY DEF WorkOK, Works, Idle, ReviewPlaces, Answers
  <1>3. QED
    BY <1>1, <1>2, OnlyMoves DEF LookUp

LEMMA InsertKeeps ==
  ASSUME WithdrawalIInv, NEW c \in Creators, Insert(c)
  PROVE  WithdrawalIInv'
  <1> DEFINE k == call[c].key
             row == [status |-> "requested", key |-> <<k, Nothing>>, effect |-> Nothing,
                     body |-> call[c].body, madeBy |-> k]
  <1>1. c \in Callers
    BY DEF Callers
  <1>2. k \in Keys /\ call[c].body \in Bodies
    BY <1>1 DEF WithdrawalIInv, CallsWork, WorkOK, Insert
  <1>3. CASE request' = request
    BY <1>1, <1>3, ReturnKeeps DEF Insert
  <1>4. CASE k \notin Rows /\ request' = [request EXCEPT ![k] = row]
    <2>1. UNCHANGED <<hold, payout>>
      BY DEF Insert
    <2>2. request[k] = Absent
      BY <1>2, <1>4 DEF Rows
    <2>3. WithdrawalTypeOK'
      BY <1>2, <1>4, <2>1 DEF WithdrawalIInv, WithdrawalTypeOK, WithdrawalStatuses
    <2>4. /\ \A i \in Keys \ {k} : request'[i] = request[i]
          /\ request'[k] = row
      BY <1>2, <1>4 DEF WithdrawalIInv, WithdrawalTypeOK
    <2>5. Lasting
      BY <2>1, <2>4 DEF Lasting
    <2>6. CallsWork'
      BY <1>1, <2>5, IdleIsOK, MovesOneCall DEF Insert, Return
    <2>7. MadeByItsKey'
      BY <2>1, <2>4 DEF WithdrawalIInv, MadeByItsKey, Absent
    <2>8. PaidOutIsBacked'
      BY <2>1, <2>4 DEF WithdrawalIInv, PaidOutIsBacked
    <2>9. QED
      BY <2>3, <2>6, <2>7, <2>8 DEF WithdrawalIInv
  <1>5. QED
    BY <1>3, <1>4 DEF Insert, StableId

-----------------------------------------------------------------------------
(* The review.                                                             *)

\* What a review finds was made by its key, and its effect is one of its holds.
LEMMA ReviewableRow ==
  ASSUME WithdrawalIInv, NEW i \in Keys, Reviewable(i)
  PROVE  request[i].madeBy = i /\ request[i].effect \in Holds \cup {Nothing}
  BY DEF WithdrawalIInv, WithdrawalTypeOK, MadeByItsKey, Reviewable, Absent

LEMMA BeginKeeps ==
  ASSUME WithdrawalIInv, NEW c \in Reviews, NEW i \in Keys, NEW k \in ReviewKeys,
         BeginReject(c, i, k) \/ BeginApprove(c, i, k)
  PROVE  WithdrawalIInv'
  <1>1. c \in Callers /\ Holds = ReviewKeys \cup {FirstKey}
    BY DEF Callers, Holds
  <1>2. ASSUME NEW at \in {"hold", "processing", "release", "mark"},
               NEW h \in Holds \cup {Nothing}, NEW answer \in Answers \cup {Nothing},
               Reviewable(i), BeginReview(c, i, k, at, h, answer), UNCHANGED <<request, hold, payout>>,
               at # "mark" => h \in Holds,
               at \in {"release", "mark"} => answer = "rejected"
        PROVE  WithdrawalIInv'
    <2>1. WorkOK([Idle EXCEPT !.at = at, !.id = i, !.key = k, !.hold = h, !.answer = answer],
                 request, payout, hold)
      BY <1>2, ReviewableRow DEF WorkOK, Works, Idle, ReviewPlaces, Answers
    <2>2. QED
      BY <1>1, <1>2, <2>1, OnlyMoves DEF BeginReview
  <1>3. CASE BeginReject(c, i, k)
    BY <1>2, <1>3, ReviewableRow DEF BeginReject, Answers
  <1>4. CASE BeginApprove(c, i, k)
    <2>1. Reviewable(i) /\ UNCHANGED <<request, hold, payout>>
      BY <1>4 DEF BeginApprove
    <2>2. \/ BeginReview(c, i, k, "hold", k, Nothing)
          \/ BeginReview(c, i, k, "hold", FirstKey, Nothing)
          \/ /\ request[i].effect # Nothing
             /\ BeginReview(c, i, k, "processing", request[i].effect, Nothing)
      BY <1>4 DEF BeginApprove
    <2>3. QED
      BY <1>1, <1>2, <2>1, <2>2, ReviewableRow
  <1>5. QED
    BY <1>3, <1>4

LEMMA PlaceHoldKeeps ==
  ASSUME WithdrawalIInv, NEW c \in Reviews, PlaceHold(c)
  PROVE  WithdrawalIInv'
  <1> DEFINE i == call[c].id
             h == call[c].hold
             next == [call[c] EXCEPT !.at = "held"]
  <1>1. /\ c \in Callers /\ call[c].at = "hold"
        /\ WorkOK(call[c], request, payout, hold)
        /\ i \in Keys /\ h \in Holds
    BY DEF WithdrawalIInv, CallsWork, WorkOK, PlaceHold, Callers, ReviewPlaces
  <1>2. /\ hold' = [hold EXCEPT ![i][h] = IF hold[i][h] = "none" THEN "held" ELSE hold[i][h]]
        /\ UNCHANGED <<request, payout>>
    BY DEF PlaceHold
  <1>3. WithdrawalTypeOK'
    BY <1>1, <1>2 DEF WithdrawalIInv, WithdrawalTypeOK
  <1>4. \A j \in Keys, g \in Holds : hold'[j][g] = "settled" <=> hold[j][g] = "settled"
    BY <1>1, <1>2 DEF WithdrawalIInv, WithdrawalTypeOK
  <1>5. Lasting
    BY <1>2, <1>4 DEF Lasting
  <1>6. WorkOK(next, request', payout', hold')
    BY <1>1, <1>2 DEF WorkOK, Works, ReviewPlaces
  <1>7. CallsWork'
    BY <1>1, <1>5, <1>6, MovesOneCall DEF PlaceHold, Step
  <1>8. MadeByItsKey' /\ PaidOutIsBacked'
    BY <1>2, <1>4 DEF WithdrawalIInv, MadeByItsKey, PaidOutIsBacked
  <1>9. QED
    BY <1>3, <1>7, <1>8 DEF WithdrawalIInv

\* The guarded update of a status: paid_out only with a settled hold.
LEMMA MarkKeeps ==
  ASSUME WithdrawalIInv, NEW c \in Reviews, NEW st \in WithdrawalStatuses, NEW next,
         call[c].at \in ReviewPlaces, Mark(c, st, next),
         call[c].hold \in Holds \/ st = "rejected",
         st = "paid_out" => hold[call[c].id][call[c].hold] = "settled",
         next \in {"processing", "payout", "idle"},
         next # "idle" => call[c].hold \in Holds
  PROVE  WithdrawalIInv'
  <1> DEFINE i == call[c].id
             key == <<call[c].key, st>>
             effect == IF st = "rejected" THEN request[i].effect ELSE call[c].hold
             row == [request[i] EXCEPT !.status = st, !.key = key, !.effect = effect]
  <1>1. /\ c \in Callers
        /\ WorkOK(call[c], request, payout, hold)
        /\ i \in Keys /\ call[c].key \in ReviewKeys
        /\ request[i].madeBy = i
    BY DEF WithdrawalIInv, CallsWork, WorkOK, Callers
  <1>2. CASE Return(c) /\ UNCHANGED request
    BY <1>1, <1>2, ReturnKeeps DEF Mark
  <1>3. CASE /\ request' = [request EXCEPT ![i] = row]
             /\ IF next = "idle" THEN Return(c) ELSE Step(c, next)
    <2>1. UNCHANGED <<hold, payout>>
      BY DEF Mark
    <2>2. /\ \A j \in Keys \ {i} : request'[j] = request[j]
          /\ request'[i] = row
      BY <1>1, <1>3 DEF WithdrawalIInv, WithdrawalTypeOK
    <2>3. request[i] \in [status : WithdrawalStatuses \cup {"absent"},
                          key : (Keys \cup ReviewKeys \cup {Nothing}) \X (WithdrawalStatuses \cup {Nothing}),
                          effect : Holds \cup {Nothing}, body : Bodies \cup {Nothing},
                          madeBy : Keys \cup {Nothing}]
      BY <1>1 DEF WithdrawalIInv, WithdrawalTypeOK
    <2>4. /\ row.status = st /\ row.madeBy = i
          /\ row \in [status : WithdrawalStatuses \cup {"absent"},
                      key : (Keys \cup ReviewKeys \cup {Nothing}) \X (WithdrawalStatuses \cup {Nothing}),
                      effect : Holds \cup {Nothing}, body : Bodies \cup {Nothing},
                      madeBy : Keys \cup {Nothing}]
      <3>1. /\ st \in WithdrawalStatuses /\ key \in (Keys \cup ReviewKeys \cup {Nothing}) \X (WithdrawalStatuses \cup {Nothing})
            /\ st # "rejected" => call[c].hold \in Holds
        BY <1>1
      <3>2. effect \in Holds \cup {Nothing}
        BY <2>3, <3>1
      <3> HIDE DEF i, key, effect
      <3>3. QED
        BY <1>1, <2>3, <3>1, <3>2
    <2>5. WithdrawalTypeOK'
      BY <1>1, <1>3, <2>1, <2>4 DEF WithdrawalIInv, WithdrawalTypeOK
    <2>6. Lasting
      <3>1. ASSUME NEW j \in Keys, request[j].madeBy = j PROVE request'[j].madeBy = j
        <4> HIDE DEF i, row
        <4>1. CASE j = i
          BY <2>2, <2>4, <4>1
        <4>2. CASE j # i
          BY <2>2, <3>1, <4>2
        <4>3. QED
          BY <4>1, <4>2
      <3>2. QED
        BY <2>1, <3>1 DEF Lasting
    <2>7. CallsWork'
      <3>1. CASE next = "idle"
        BY <1>1, <1>3, <2>6, <3>1, IdleIsOK, MovesOneCall DEF Return
      <3>2. CASE next # "idle"
        <4>1. WorkOK([call[c] EXCEPT !.at = next], request', payout', hold')
          BY ZenonT(60), <1>1, <2>2, <2>4, <3>2 DEF WorkOK, Works, ReviewPlaces
        <4>2. QED
          BY <1>1, <1>3, <2>6, <3>2, <4>1, MovesOneCall DEF Step
      <3>3. QED
        BY <3>1, <3>2
    <2>8. MadeByItsKey'
      BY ZenonT(60), <2>2, <2>4 DEF WithdrawalIInv, MadeByItsKey
    <2>9. PaidOutIsBacked'
      <3>1. st = "paid_out" => call[c].hold \in Holds /\ hold[i][call[c].hold] = "settled"
        OBVIOUS
      <3>2. \A j \in Keys : request'[j].status = "paid_out" =>
                             \E h \in Holds : hold[j][h] = "settled"
        <4>1. ASSUME NEW j \in Keys, request'[j].status = "paid_out"
              PROVE  \E h \in Holds : hold[j][h] = "settled"
          <5>1. CASE j = i
            BY <2>2, <2>4, <3>1, <4>1, <5>1
          <5>2. CASE j # i
            BY <2>2, <4>1, <5>2 DEF WithdrawalIInv, PaidOutIsBacked
          <5>3. QED
            BY <5>1, <5>2
        <4>2. QED
          BY <4>1
      <3>3. QED
        BY <2>1, <3>2 DEF WithdrawalIInv, PaidOutIsBacked
    <2>10. QED
      BY <2>5, <2>7, <2>8, <2>9 DEF WithdrawalIInv
  <1>4. QED
    BY <1>2, <1>3 DEF Mark

LEMMA MarkStepsKeep ==
  ASSUME WithdrawalIInv, NEW c \in Reviews, MarkHeld(c) \/ MarkProcessing(c) \/ MarkFinal(c)
  PROVE  WithdrawalIInv'
  <1>1. WorkOK(call[c], request, payout, hold)
    BY DEF WithdrawalIInv, CallsWork, Callers
  <1>2. CASE MarkHeld(c)
    BY <1>1, <1>2, MarkKeeps DEF MarkHeld, WorkOK, ReviewPlaces, WithdrawalStatuses
  <1>3. CASE MarkProcessing(c)
    BY <1>1, <1>3, MarkKeeps DEF MarkProcessing, WorkOK, ReviewPlaces, WithdrawalStatuses
  <1>4. CASE MarkFinal(c)
    <2>1. /\ call[c].at = "mark" /\ call[c].answer \in Answers
          /\ call[c].answer = "succeeded" => hold[call[c].id][call[c].hold] = "settled"
      BY <1>1, <1>4 DEF MarkFinal, WorkOK
    <2>0. /\ FinalStatus["rejected"] = "rejected"
          /\ FinalStatus["processing"] = "provider_payout_processing"
          /\ FinalStatus["succeeded"] = "paid_out"
          /\ FinalStatus["failed"] = "provider_payout_failed"
      BY DEF FinalStatus
    <2>2. Mark(c, FinalStatus[call[c].answer], "idle")
      BY <1>4 DEF MarkFinal
    <2>3. CASE call[c].answer = "rejected"
      BY <2>0, <2>1, <2>2, <2>3, MarkKeeps DEF ReviewPlaces, WithdrawalStatuses
    <2>4. CASE call[c].answer = "succeeded"
      <3>1. call[c].hold \in Holds
        BY <1>1, <2>1, <2>4 DEF WorkOK
      <3>2. QED
        BY <2>0, <2>1, <2>2, <2>4, <3>1, MarkKeeps DEF ReviewPlaces, WithdrawalStatuses
    <2>5. CASE call[c].answer \in {"processing", "failed"}
      <3>1. call[c].hold \in Holds
        BY <1>1, <2>1, <2>5 DEF WorkOK
      <3>2. QED
        BY <2>0, <2>1, <2>2, <2>5, <3>1, MarkKeeps DEF ReviewPlaces, WithdrawalStatuses
    <2>6. QED
      BY <2>1, <2>3, <2>4, <2>5 DEF Answers
  <1>5. QED
    BY <1>2, <1>3, <1>4

LEMMA PayoutKeeps ==
  ASSUME WithdrawalIInv, NEW c \in Reviews, Payout(c)
  PROVE  WithdrawalIInv'
  <1> DEFINE i == call[c].id
             Next(a) == [call[c] EXCEPT !.at = AfterAnswer(a), !.answer = a]
  <1>1. /\ c \in Callers /\ call[c].at = "payout"
        /\ WorkOK(call[c], request, payout, hold)
        /\ i \in Keys /\ call[c].hold \in Holds /\ call[c].key \in ReviewKeys
    BY DEF WithdrawalIInv, CallsWork, WorkOK, Payout, Callers, ReviewPlaces
  <1>2. UNCHANGED <<request, hold>>
    BY DEF Payout
  <1>3. ASSUME NEW a \in {"processing", "succeeded", "failed"},
               payout' \in [Keys -> {"none", "processing", "succeeded", "failed"}],
               \A j \in Keys : payout[j] = "succeeded" => payout'[j] = "succeeded",
               a = "succeeded" => payout'[i] = "succeeded",
               Goto(c, Next(a)) \/ Return(c)
        PROVE  WithdrawalIInv'
    <2>1. Lasting
      BY <1>2, <1>3 DEF Lasting
    <2>2. WorkOK(Next(a), request', payout', hold')
      BY <1>1, <1>2, <1>3 DEF WorkOK, Works, ReviewPlaces, AfterAnswer, Answers
    <2>3. CallsWork'
      BY <1>1, <1>3, <2>1, <2>2, IdleIsOK, MovesOneCall DEF Return
    <2>4. WithdrawalTypeOK' /\ MadeByItsKey' /\ PaidOutIsBacked'
      BY <1>2, <1>3, <2>1 DEF WithdrawalIInv, WithdrawalTypeOK, MadeByItsKey, PaidOutIsBacked
    <2>5. QED
      BY <2>3, <2>4 DEF WithdrawalIInv
  <1>4. CASE Goto(c, Next("failed")) /\ UNCHANGED payout
    BY <1>3, <1>4 DEF WithdrawalIInv, WithdrawalTypeOK
  <1>5. ASSUME NEW a \in {"processing", "succeeded", "failed"},
               payout[i] = "succeeded" => a = "succeeded",
               payout' = [payout EXCEPT ![i] = a],
               Goto(c, Next(a)) \/ Return(c)
        PROVE  WithdrawalIInv'
    <2>1. /\ payout' \in [Keys -> {"none", "processing", "succeeded", "failed"}]
          /\ \A j \in Keys : payout[j] = "succeeded" => payout'[j] = "succeeded"
          /\ a = "succeeded" => payout'[i] = "succeeded"
      BY <1>1, <1>5 DEF WithdrawalIInv, WithdrawalTypeOK
    <2>2. QED
      BY <1>3, <1>5, <2>1
  <1>6. QED
    BY <1>4, <1>5 DEF Payout

LEMMA EndHoldKeeps ==
  ASSUME WithdrawalIInv, NEW c \in Reviews, Settle(c) \/ Release(c)
  PROVE  WithdrawalIInv'
  <1> DEFINE i == call[c].id
             h == call[c].hold
             next == [call[c] EXCEPT !.at = "mark"]
  <1>1. PICK at \in {"settle", "release"}, target \in {"settled", "released"} :
          /\ EndHold(c, at, target)
          /\ at = "settle" <=> target = "settled"
    BY DEF Settle, Release
  <1>2. /\ c \in Callers /\ call[c].at = at
        /\ WorkOK(call[c], request, payout, hold)
        /\ i \in Keys /\ h \in Holds
        /\ at = "settle" => call[c].answer = "succeeded" /\ payout[i] = "succeeded"
        /\ at = "release" => call[c].answer \in {"failed", "rejected"}
    BY <1>1 DEF WithdrawalIInv, CallsWork, WorkOK, EndHold, Callers, ReviewPlaces
  <1>3. CASE Return(c) /\ UNCHANGED hold
    BY <1>1, <1>2, <1>3, ReturnKeeps DEF EndHold
  <1>4. CASE /\ hold[i][h] \in {"held", target}
             /\ hold' = [hold EXCEPT ![i][h] = target]
             /\ Step(c, "mark")
    <2>1. UNCHANGED <<request, payout>>
      BY <1>1 DEF EndHold
    <2>2. /\ WithdrawalTypeOK'
          /\ hold'[i][h] = target
      BY <1>2, <1>4, <2>1 DEF WithdrawalIInv, WithdrawalTypeOK
    <2>3. \A j \in Keys, g \in Holds :
            /\ hold[j][g] = "settled" => hold'[j][g] = "settled"
            /\ hold'[j][g] = "settled" =>
                 hold[j][g] = "settled" \/ (j = i /\ target = "settled")
      BY <1>1, <1>2, <1>4 DEF WithdrawalIInv, WithdrawalTypeOK
    <2>4. Lasting
      BY <2>1, <2>3 DEF Lasting
    <2>5. WorkOK(next, request', payout', hold')
      BY <1>1, <1>2, <2>1, <2>2 DEF WorkOK, Works, ReviewPlaces, Answers
    <2>6. CallsWork'
      BY <1>2, <1>4, <2>4, <2>5, MovesOneCall DEF Step
    <2>7. MadeByItsKey'
      BY <2>1 DEF WithdrawalIInv, MadeByItsKey
    <2>8. PaidOutIsBacked'
      BY <1>1, <1>2, <2>1, <2>3 DEF WithdrawalIInv, PaidOutIsBacked
    <2>9. QED
      BY <2>2, <2>6, <2>7, <2>8 DEF WithdrawalIInv
  <1>5. QED
    BY <1>1, <1>3, <1>4 DEF EndHold

LEMMA PayoutEndsKeeps ==
  ASSUME WithdrawalIInv, NEW i \in Keys, PayoutEnds(i)
  PROVE  WithdrawalIInv'
  <1>1. PICK a \in {"succeeded", "failed"} :
          payout[i] = "processing" /\ payout' = [payout EXCEPT ![i] = a]
    BY DEF PayoutEnds
  <1>2. UNCHANGED <<request, hold, call>>
    BY DEF PayoutEnds
  <1>3. /\ payout' \in [Keys -> {"none", "processing", "succeeded", "failed"}]
        /\ \A j \in Keys : payout[j] = "succeeded" => payout'[j] = "succeeded"
    BY <1>1 DEF WithdrawalIInv, WithdrawalTypeOK
  <1>4. CallsWork'
    BY <1>2, <1>3 DEF WithdrawalIInv, CallsWork, WorkOK, ReviewPlaces
  <1>5. WithdrawalTypeOK' /\ MadeByItsKey' /\ PaidOutIsBacked'
    BY <1>2, <1>3 DEF WithdrawalIInv, WithdrawalTypeOK, MadeByItsKey, PaidOutIsBacked
  <1>6. QED
    BY <1>4, <1>5 DEF WithdrawalIInv

-----------------------------------------------------------------------------
(* The invariant.                                                          *)

LEMMA WithdrawalInitIInv == WithdrawalInit => WithdrawalIInv
  <1> SUFFICES ASSUME WithdrawalInit PROVE WithdrawalIInv
    OBVIOUS
  <1>1. WithdrawalTypeOK
    BY DEF WithdrawalInit, WithdrawalTypeOK, Absent
  <1>2. CallsWork
    BY DEF WithdrawalInit, CallsWork, WorkOK, Works, Idle, ReviewPlaces, Answers
  <1>3. MadeByItsKey /\ PaidOutIsBacked
    BY DEF WithdrawalInit, MadeByItsKey, PaidOutIsBacked, Absent
  <1>4. QED
    BY <1>1, <1>2, <1>3 DEF WithdrawalIInv

LEMMA WithdrawalNextIInv == WithdrawalIInv /\ [WithdrawalNext]_withdrawalVars => WithdrawalIInv'
  <1> SUFFICES ASSUME WithdrawalIInv, [WithdrawalNext]_withdrawalVars PROVE WithdrawalIInv'
    OBVIOUS
  <1>1. CASE UNCHANGED withdrawalVars
    BY <1>1 DEF withdrawalVars, WithdrawalIInv, WithdrawalTypeOK, CallsWork, MadeByItsKey,
                PaidOutIsBacked
  <1>2. ASSUME NEW c \in Reviews, ReviewStep(c)
        PROVE  WithdrawalIInv'
    BY <1>2, BeginKeeps, PlaceHoldKeeps, MarkStepsKeep, PayoutKeeps, EndHoldKeeps DEF ReviewStep
  <1>3. ASSUME NEW c \in Callers, AbortCall(c)
        PROVE  WithdrawalIInv'
    BY <1>3, ReturnKeeps DEF AbortCall
  <1>4. QED
    BY <1>1, <1>2, <1>3, LookUpKeeps, InsertKeeps, PayoutEndsKeeps DEF WithdrawalNext

LEMMA WithdrawalInvariant == WithdrawalSpec => []WithdrawalIInv
  BY WithdrawalInitIInv, WithdrawalNextIInv, PTL DEF WithdrawalSpec

\* WithdrawalTypeOK in every reachable state of Withdrawal, for every set of
\* keys, calls and reviews.
THEOREM WithdrawalTypeCorrect == WithdrawalSpec => []WithdrawalTypeOK
  <1>1. WithdrawalIInv => WithdrawalTypeOK
    BY DEF WithdrawalIInv
  <1>2. QED
    BY <1>1, WithdrawalInvariant, PTL

\* execute_withdrawal_request: no cash is taken for a payout that was not made,
\* and no request says paid_out without it.
THEOREM PaidOutBacked == WithdrawalSpec => []PaidOutIsBacked
  <1>1. WithdrawalIInv => PaidOutIsBacked
    BY DEF WithdrawalIInv
  <1>2. QED
    BY <1>1, WithdrawalInvariant, PTL

\* The request's id, and not the key stored with it, makes a repeated creation
\* harmless, also after a review.
THEOREM OneRequest == WithdrawalSpec => []OneRequestPerKey
  <1>1. WithdrawalIInv => OneRequestPerKey
    BY DEF WithdrawalIInv, MadeByItsKey, OneRequestPerKey, Rows
  <1>2. QED
    BY <1>1, WithdrawalInvariant, PTL

-----------------------------------------------------------------------------
(* The catalogue.                                                          *)

CatalogueOps == {"putPackage", "retirePackage", "putPlan", "retirePlan"}
\* What an operator's call may be about to do for a command.
ServedAt == [op \in CatalogueOps |-> CASE op = "putPackage" -> {op, "insertPackage"}
                                       [] op = "putPlan" -> {op, "insertPlan"}
                                       [] OTHER -> {op}]
CatalogueRows == [key : Commands \cup {"none"}, code : Codes \cup {"none"},
                  status : {"none", "active", "retired"}, price : Nat,
                  madeBy : Commands \cup {"none"}]
OperatorPlaces == {"rest", "insertPackage", "insertPlan"} \cup CatalogueOps

CatalogueIInv ==
  /\ says \in Workloads
  /\ packages \in [PackageIds -> CatalogueRows]
  /\ plans \in [Codes -> CatalogueRows]
  /\ operator \in [Operators -> [at : OperatorPlaces, key : Commands \cup {"none"}]]
  /\ \A c \in Operators : operator[c].at # "rest" =>
       /\ operator[c].key \in Commands
       /\ operator[c].at \in ServedAt[says[operator[c].key].op]
  /\ RowObeysItsKey

\* What a command says, by its kind.
LEMMA CommandSays ==
  ASSUME CatalogueIInv, NEW k \in Commands
  PROVE  /\ says[k].op \in CatalogueOps
         /\ says[k].op = "putPackage" => says[k] \in UpsertPackageCommands
         /\ says[k].op = "retirePackage" => says[k] \in RetirePackageCommands
         /\ says[k].op = "putPlan" => says[k] \in UpsertPlanCommands
         /\ says[k].op = "retirePlan" => says[k] \in RetirePlanCommands
  BY CatalogueAssumption DEF CatalogueIInv, CatalogueOps, UpsertPackageCommands,
     RetirePackageCommands, UpsertPlanCommands, RetirePlanCommands

\* What a call under way does is what its command says.
LEMMA CallServesItsCommand ==
  ASSUME CatalogueIInv, NEW c \in Operators
  PROVE  /\ operator[c].at # "rest" => operator[c].key \in Commands
         /\ operator[c].at \in {"putPackage", "insertPackage"} =>
              says[operator[c].key].op = "putPackage"
         /\ operator[c].at = "retirePackage" => says[operator[c].key].op = "retirePackage"
         /\ operator[c].at \in {"putPlan", "insertPlan"} => says[operator[c].key].op = "putPlan"
         /\ operator[c].at = "retirePlan" => says[operator[c].key].op = "retirePlan"
  BY CommandSays DEF CatalogueIInv, ServedAt, CatalogueOps

LEMMA TurnsTo ==
  ASSUME CatalogueIInv, NEW c \in Operators, NEW at, Turn(c, at)
  PROVE  operator' = [operator EXCEPT ![c] = [at |-> at, key |-> operator[c].key]]
  <1>1. operator[c] \in [at : OperatorPlaces, key : Commands \cup {"none"}]
    BY DEF CatalogueIInv
  <1>2. [operator[c] EXCEPT !.at = at] = [at |-> at, key |-> operator[c].key]
    BY <1>1
  <1>3. QED
    BY <1>2 DEF Turn

\* A call that turns to the next statement of its command, or ends.
LEMMA TurnKeeps ==
  ASSUME CatalogueIInv, NEW c \in Operators, NEW k \in Commands,
         NEW at \in ServedAt[says[k].op] \cup {"rest"},
         operator' = [operator EXCEPT ![c] = IF at = "rest" THEN Resting ELSE [at |-> at, key |-> k]],
         UNCHANGED says,
         packages' \in [PackageIds -> CatalogueRows], plans' \in [Codes -> CatalogueRows],
         RowObeysItsKey'
  PROVE  CatalogueIInv'
  <1>1. at \in OperatorPlaces
    BY CommandSays DEF ServedAt, OperatorPlaces, CatalogueOps
  <1>2. operator' \in [Operators -> [at : OperatorPlaces, key : Commands \cup {"none"}]]
    BY <1>1 DEF CatalogueIInv, Resting, OperatorPlaces
  <1>3. ASSUME NEW d \in Operators, operator'[d].at # "rest"
        PROVE  /\ operator'[d].key \in Commands
               /\ operator'[d].at \in ServedAt[says'[operator'[d].key].op]
    <2>1. CASE d = c
      BY <1>3, <2>1 DEF CatalogueIInv, Resting
    <2>2. CASE d # c
      BY <1>3, <2>2 DEF CatalogueIInv
    <2>3. QED
      BY <2>1, <2>2
  <1>4. QED
    BY <1>2, <1>3 DEF CatalogueIInv

LEMMA RestKeeps ==
  ASSUME CatalogueIInv, NEW c \in Operators, Rest(c), UNCHANGED says,
         packages' \in [PackageIds -> CatalogueRows], plans' \in [Codes -> CatalogueRows],
         RowObeysItsKey'
  PROVE  CatalogueIInv'
  <1>1. operator' \in [Operators -> [at : OperatorPlaces, key : Commands \cup {"none"}]]
    BY DEF CatalogueIInv, Rest, Resting, OperatorPlaces
  <1>2. ASSUME NEW d \in Operators, operator'[d].at # "rest"
        PROVE  operator'[d] = operator[d]
    BY <1>2 DEF CatalogueIInv, Rest, Resting
  <1>3. QED
    BY <1>1, <1>2 DEF CatalogueIInv

\* A row a command writes obeys it, and so does one it retires.
LEMMA WrittenObeys ==
  ASSUME CatalogueIInv, NEW k \in Commands, NEW row \in CatalogueRows,
         says[k].op \in {"putPackage", "putPlan"}
  PROVE  /\ \A code \in Codes : /\ Written(k, code) \in CatalogueRows
                                /\ Obeys(Written(k, code))
         /\ Rewritten(row, k) \in CatalogueRows
         /\ Obeys(Rewritten(row, k))
  BY CommandSays DEF Written, Rewritten, Obeys, CatalogueRows, UpsertPackageCommands,
     UpsertPlanCommands

LEMMA RetiredObeys ==
  ASSUME NEW k \in Commands, NEW row \in CatalogueRows,
         says[k].op \in {"retirePackage", "retirePlan"}
  PROVE  Retired(row, k) \in CatalogueRows /\ Obeys(Retired(row, k))
  BY DEF Retired, Obeys, CatalogueRows

\* A step that changes only packages, each into one that obeys its key.
LEMMA PackagesKeep ==
  ASSUME CatalogueIInv, NEW c \in Operators, Rest(c), UNCHANGED <<says, plans>>,
         NEW written, packages' = [i \in PackageIds |-> written[i]],
         \A i \in PackageIds : \/ written[i] = packages[i]
                               \/ written[i] \in CatalogueRows /\ Obeys(written[i])
  PROVE  CatalogueIInv'
  <1>1. packages' \in [PackageIds -> CatalogueRows]
    BY DEF CatalogueIInv
  <1>2. RowObeysItsKey'
    BY DEF CatalogueIInv, RowObeysItsKey, Packages, Plans, Obeys
  <1>3. plans' \in [Codes -> CatalogueRows]
    BY DEF CatalogueIInv
  <1>4. QED
    BY <1>1, <1>2, <1>3, RestKeeps

LEMMA PlansKeep ==
  ASSUME CatalogueIInv, NEW c \in Operators, Rest(c), UNCHANGED <<says, packages>>,
         NEW x \in Codes, NEW row, row \in CatalogueRows /\ Obeys(row),
         plans' \in {plans, [plans EXCEPT ![x] = row]}
  PROVE  CatalogueIInv'
  <1>1. plans' \in [Codes -> CatalogueRows]
    BY DEF CatalogueIInv
  <1>2. RowObeysItsKey'
    BY DEF CatalogueIInv, RowObeysItsKey, Packages, Plans, Obeys
  <1>3. packages' \in [PackageIds -> CatalogueRows]
    BY DEF CatalogueIInv
  <1>4. QED
    BY <1>1, <1>2, <1>3, RestKeeps

LEMMA FindRowKeeps ==
  ASSUME CatalogueIInv, NEW c \in Operators, NEW k \in Commands,
         \/ BeginCreatePackage(c, k) \/ BeginUpdatePackage(c, k) \/ BeginRetirePackage(c, k)
         \/ BeginPutPlan(c, k) \/ BeginRetirePlan(c, k)
  PROVE  CatalogueIInv'
  <1>1. /\ operator' = [operator EXCEPT ![c] = [at |-> says[k].op, key |-> k]]
        /\ UNCHANGED <<says, packages, plans>>
    BY DEF BeginCreatePackage, BeginUpdatePackage, BeginRetirePackage, BeginPutPlan,
           BeginRetirePlan, LookUpPackage, LookUpPlan, FindRow
  <1>2. says[k].op \in ServedAt[says[k].op] /\ says[k].op # "rest"
    BY CommandSays DEF ServedAt, CatalogueOps
  <1>3. RowObeysItsKey'
    BY <1>1 DEF CatalogueIInv, RowObeysItsKey, Packages, Plans, Obeys
  <1>4. packages' \in [PackageIds -> CatalogueRows] /\ plans' \in [Codes -> CatalogueRows]
    BY <1>1 DEF CatalogueIInv
  <1>5. QED
    BY <1>1, <1>2, <1>3, <1>4, TurnKeeps

LEMMA UpdatePackageKeeps ==
  ASSUME CatalogueIInv, NEW c \in Operators, UpdatePackage(c)
  PROVE  CatalogueIInv'
  <1> DEFINE k == operator[c].key
  <1>1. k \in Commands /\ says[k].op = "putPackage"
    BY CallServesItsCommand DEF UpdatePackage
  <1>2. CASE Turn(c, "insertPackage") /\ UNCHANGED packages
    <2>1. operator' = [operator EXCEPT ![c] = [at |-> "insertPackage", key |-> k]]
      BY <1>2, TurnsTo
    <2>2. UNCHANGED <<says, packages, plans>>
      BY <1>2 DEF UpdatePackage
    <2>3. "insertPackage" \in ServedAt[says[k].op]
      BY <1>1 DEF ServedAt, CatalogueOps
    <2>4. RowObeysItsKey'
      BY <2>2 DEF CatalogueIInv, RowObeysItsKey, Packages, Plans, Obeys
    <2>5. packages' \in [PackageIds -> CatalogueRows] /\ plans' \in [Codes -> CatalogueRows]
      BY <2>2 DEF CatalogueIInv
    <2>6. QED
      BY <1>1, <2>1, <2>2, <2>3, <2>4, <2>5, TurnKeeps
  <1>3. CASE Rest(c)
    <2> DEFINE taken == \E i \in Named(k) : Named(k) = {i} /\ PackageKeyFree(i, k)
               written == [i \in PackageIds |-> IF taken /\ i \in Named(k)
                                                THEN Rewritten(packages[i], k) ELSE packages[i]]
    <2>1. packages' = [i \in PackageIds |-> written[i]] /\ UNCHANGED <<says, plans>>
      <3>1. packages = [i \in PackageIds |-> packages[i]]
        BY DEF CatalogueIInv
      <3>2. \/ UNCHANGED packages /\ Turn(c, "insertPackage")
            \/ packages' = IF taken THEN [i \in PackageIds |-> IF i \in Named(k)
                                            THEN Rewritten(packages[i], k) ELSE packages[i]]
                           ELSE packages
        BY DEF UpdatePackage
      <3>3. ~Turn(c, "insertPackage")
        BY <1>3 DEF Rest, Turn, Resting, CatalogueIInv
      <3>4. QED
        BY <3>1, <3>2, <3>3 DEF UpdatePackage
    <2>2. \A i \in PackageIds : packages[i] \in CatalogueRows
      BY DEF CatalogueIInv
    <2>3. \A i \in PackageIds : \/ written[i] = packages[i]
                                \/ written[i] \in CatalogueRows /\ Obeys(written[i])
      BY <1>1, <2>2, WrittenObeys
    <2> HIDE DEF written
    <2>4. QED
      BY <1>3, <2>1, <2>3, PackagesKeep
  <1>4. QED
    BY <1>2, <1>3 DEF UpdatePackage

LEMMA InsertPackageKeeps ==
  ASSUME CatalogueIInv, NEW c \in Operators, InsertPackage(c)
  PROVE  CatalogueIInv'
  <1> DEFINE k == operator[c].key
  <1>1. k \in Commands /\ says[k].op = "putPackage"
    BY CallServesItsCommand DEF InsertPackage
  <1>2. says[k].code \in Codes /\ says[k].id \in PackageIds \cup {NoId}
    BY <1>1, CommandSays DEF UpsertPackageCommands
  <1>3. PICK i \in PackageIds : packages' \in {packages, [packages EXCEPT ![i] = Written(k, says[k].code)]}
    BY <1>2 DEF InsertPackage, Packages
  <1> DEFINE written == [j \in PackageIds |-> packages'[j]]
  <1>4. packages' = [j \in PackageIds |-> written[j]]
    BY <1>3 DEF CatalogueIInv
  <1>5. Written(k, says[k].code) \in CatalogueRows /\ Obeys(Written(k, says[k].code))
    <2>1. packages[i] \in CatalogueRows
      BY DEF CatalogueIInv
    <2>2. QED
      BY <1>1, <1>2, <2>1, WrittenObeys
  <1>6. \A j \in PackageIds : \/ written[j] = packages[j]
                              \/ written[j] \in CatalogueRows /\ Obeys(written[j])
    BY <1>3, <1>5 DEF CatalogueIInv
  <1>7. Rest(c) /\ UNCHANGED <<says, plans>>
    BY DEF InsertPackage
  <1> HIDE DEF written
  <1>8. QED
    BY <1>4, <1>6, <1>7, PackagesKeep

LEMMA RetirePackageKeeps ==
  ASSUME CatalogueIInv, NEW c \in Operators, RetirePackage(c)
  PROVE  CatalogueIInv'
  <1> DEFINE k == operator[c].key
             i == says[k].id
             written == [j \in PackageIds |-> packages'[j]]
  <1>1. k \in Commands /\ says[k].op = "retirePackage"
    BY CallServesItsCommand DEF RetirePackage
  <1>2. i \in PackageIds /\ packages[i] \in CatalogueRows
    BY <1>1, CommandSays DEF RetirePackageCommands, CatalogueIInv
  <1>3. /\ packages' \in {packages, [packages EXCEPT ![i] = Retired(packages[i], k)]}
        /\ Rest(c) /\ UNCHANGED <<says, plans>>
    BY DEF RetirePackage
  <1>4. packages' = [j \in PackageIds |-> written[j]]
    BY <1>3 DEF CatalogueIInv
  <1>5. Retired(packages[i], k) \in CatalogueRows /\ Obeys(Retired(packages[i], k))
    BY <1>1, <1>2, RetiredObeys
  <1>6. \A j \in PackageIds : \/ written[j] = packages[j]
                              \/ written[j] \in CatalogueRows /\ Obeys(written[j])
    BY <1>2, <1>3, <1>5 DEF CatalogueIInv
  <1> HIDE DEF written
  <1>7. QED
    BY <1>3, <1>4, <1>6, PackagesKeep

LEMMA PlanStepsKeep ==
  ASSUME CatalogueIInv, NEW c \in Operators, UpdatePlan(c) \/ InsertPlan(c) \/ RetirePlan(c)
  PROVE  CatalogueIInv'
  <1> DEFINE k == operator[c].key
             x == says[k].code
  <1>1. /\ k \in Commands /\ says[k].op \in {"putPlan", "retirePlan"}
        /\ RetirePlan(c) <=> says[k].op = "retirePlan"
    BY CallServesItsCommand DEF UpdatePlan, InsertPlan, RetirePlan
  <1>2. x \in Codes /\ plans[x] \in CatalogueRows
    BY <1>1, CommandSays DEF UpsertPlanCommands, RetirePlanCommands, CatalogueIInv
  <1>3. CASE Turn(c, "insertPlan") /\ UNCHANGED plans /\ UpdatePlan(c)
    <2>1. operator' = [operator EXCEPT ![c] = [at |-> "insertPlan", key |-> k]]
      BY <1>3, TurnsTo
    <2>2. UNCHANGED <<says, packages, plans>>
      BY <1>3 DEF UpdatePlan
    <2>3. says[k].op = "putPlan"
      BY <1>3, CallServesItsCommand DEF UpdatePlan
    <2>4. "insertPlan" \in ServedAt[says[k].op]
      BY <2>3 DEF ServedAt, CatalogueOps
    <2>5. RowObeysItsKey'
      BY <2>2 DEF CatalogueIInv, RowObeysItsKey, Packages, Plans, Obeys
    <2>6. packages' \in [PackageIds -> CatalogueRows] /\ plans' \in [Codes -> CatalogueRows]
      BY <2>2 DEF CatalogueIInv
    <2>7. QED
      BY <1>1, <2>1, <2>2, <2>4, <2>5, <2>6, TurnKeeps
  <1>4. ASSUME NEW row, row \in CatalogueRows /\ Obeys(row), Rest(c), UNCHANGED <<says, packages>>,
               plans' \in {plans, [plans EXCEPT ![x] = row]}
        PROVE  CatalogueIInv'
    BY <1>2, <1>4, PlansKeep
  <1>5. CASE RetirePlan(c)
    <2>1. Retired(plans[x], k) \in CatalogueRows /\ Obeys(Retired(plans[x], k))
      BY <1>1, <1>2, <1>5, RetiredObeys
    <2>2. /\ plans' \in {plans, [plans EXCEPT ![x] = Retired(plans[x], k)]}
          /\ Rest(c) /\ UNCHANGED <<says, packages>>
      BY <1>5 DEF RetirePlan
    <2>3. QED
      BY <1>4, <2>1, <2>2
  <1>6. CASE says[k].op = "putPlan" /\ Rest(c)
    <2>1. /\ Written(k, x) \in CatalogueRows /\ Obeys(Written(k, x))
          /\ Rewritten(plans[x], k) \in CatalogueRows /\ Obeys(Rewritten(plans[x], k))
      BY <1>1, <1>2, <1>6, WrittenObeys
    <2>2. CASE UpdatePlan(c)
      <3>1. ~Turn(c, "insertPlan")
        BY <1>6 DEF Rest, Turn, Resting, CatalogueIInv
      <3>2. /\ plans' \in {plans, [plans EXCEPT ![x] = Rewritten(plans[x], k)]}
            /\ UNCHANGED <<says, packages>>
        BY <2>2, <3>1 DEF UpdatePlan
      <3>3. QED
        BY <1>4, <1>6, <2>1, <3>2
    <2>3. CASE InsertPlan(c)
      <3>1. /\ plans' \in {plans, [plans EXCEPT ![x] = Written(k, x)]}
            /\ UNCHANGED <<says, packages>>
        BY <2>3 DEF InsertPlan
      <3>2. QED
        BY <1>4, <1>6, <2>1, <3>1
    <2>4. QED
      BY <1>1, <1>6, <2>2, <2>3
  <1>7. QED
    BY <1>1, <1>3, <1>5, <1>6 DEF UpdatePlan, InsertPlan

LEMMA DropKeeps ==
  ASSUME CatalogueIInv, NEW c \in Operators, Drop(c)
  PROVE  CatalogueIInv'
  <1>1. Rest(c) /\ UNCHANGED <<says, packages, plans>>
    BY DEF Drop
  <1>2. RowObeysItsKey'
    BY <1>1 DEF CatalogueIInv, RowObeysItsKey, Packages, Plans, Obeys
  <1>3. packages' \in [PackageIds -> CatalogueRows] /\ plans' \in [Codes -> CatalogueRows]
    BY <1>1 DEF CatalogueIInv
  <1>4. QED
    BY <1>1, <1>2, <1>3, RestKeeps

LEMMA CatalogueInitIInv == CatalogueInit => CatalogueIInv
  BY DEF CatalogueInit, CatalogueIInv, RowObeysItsKey, Packages, Plans, NoRow, CatalogueRows,
         Resting, OperatorPlaces

LEMMA CatalogueNextIInv == CatalogueIInv /\ [CatalogueNext]_catalogueVars => CatalogueIInv'
  <1> SUFFICES ASSUME CatalogueIInv, [CatalogueNext]_catalogueVars PROVE CatalogueIInv'
    OBVIOUS
  <1>1. CASE UNCHANGED catalogueVars
    BY <1>1 DEF catalogueVars, CatalogueIInv, RowObeysItsKey, Packages, Plans, Obeys
  <1>2. CASE CatalogueNext
    BY <1>2, FindRowKeeps, UpdatePackageKeeps, InsertPackageKeeps, RetirePackageKeeps,
       PlanStepsKeep, DropKeeps DEF CatalogueNext
  <1>3. QED
    BY <1>1, <1>2

\* The operators' writes of packages and plans: a row always shows what the
\* command whose key it carries asked for, so a repeated command is answered
\* by the row it made, whatever other commands wrote and retired meanwhile.
THEOREM RowsObeyTheirKeys == CatalogueSpec => []RowObeysItsKey
  <1>1. CatalogueIInv => RowObeysItsKey
    BY DEF CatalogueIInv
  <1>2. QED
    BY <1>1, CatalogueInitIInv, CatalogueNextIInv, PTL DEF CatalogueSpec

-----------------------------------------------------------------------------
(* What a recharge grants.                                                 *)

AskedPacks == PackNames \cup {NoPack}
\* The payloads an order that grants so many points can get.
PayloadsOf(points) == [points : {NoPoints, points}, pack : AskedPacks, silent : BOOLEAN]
ListedToday == [p \in PackNames |-> IF p \in Offered THEN PackGrant(p) ELSE 0]

PricingIInv ==
  /\ item = [k \in OrderKeys |-> [status |-> item[k].status, points |-> item[k].points,
                                  shown |-> item[k].shown]]
  /\ asked \in [OrderKeys -> Asks \cup {NoPack}]
  /\ attempts = [k \in OrderKeys |-> attempts[k]]
  /\ creditedPoints = [k \in OrderKeys |-> creditedPoints[k]]
  /\ \A k \in OrderKeys :
       /\ attempts[k] \in Seq(PayloadsOf(item[k].points))
       /\ item[k].status = "none" => attempts[k] = <<>> /\ creditedPoints[k] = 0
       /\ item[k].status # "none" => asked[k] \in Asks
       /\ item[k].status = "paid" => attempts[k] # <<>>
  /\ \/ calling = AtRest
     \/ /\ calling.order \in OrderKeys
        /\ item[calling.order].status # "none"
        /\ calling.points \in {NoPoints, item[calling.order].points}
        /\ calling.pack \in AskedPacks
  /\ fresh => listed = ListedToday
  /\ CreditIsTheGrant
  /\ ShownIsGranted

\* What the list shows depends on rule and packages alone.
LEMMA ListStands == UNCHANGED <<rule, packs>> => UNCHANGED ListedToday
  <1> SUFFICES ASSUME UNCHANGED <<rule, packs>> PROVE UNCHANGED ListedToday
    OBVIOUS
  <1>1. Offered' = Offered /\ Settings' = Settings
    BY DEF Offered, OnSale, Settings, EffectiveRule
  <1>2. \A p \in PackNames : PackGrant(p)' = PackGrant(p)
    BY <1>1 DEF PackGrant, compute_grant_amount
  <1>3. QED
    BY <1>1, <1>2 DEF ListedToday

\* A package an order names and fits grants what the list says of it.
LEMMA GrantedAsListed ==
  ASSUME NEW a \in Asks, a.pack # NoPack, NEW p \in load_recharge_pack(a)
  PROVE  p = a.pack /\ Granted(a, p) = PackGrant(p)
  <1>1. p = a.pack /\ Fits(a, p)
    BY DEF load_recharge_pack, NamedPack
  <1>2. QED
    BY <1>1 DEF Fits, Granted, PackGrant

\* The points of a checkout, and of any payload of an order, are the order's
\* or none.
LEMMA PayloadPoints ==
  ASSUME PricingIInv, NEW k \in OrderKeys
  PROVE  /\ \A i \in DOMAIN attempts[k] : attempts[k][i] \in PayloadsOf(item[k].points)
         /\ CheckoutPoints(k) \in {NoPoints, item[k].points}
         /\ attempts[k] # <<>> => Latest(k) \in PayloadsOf(item[k].points)
  <1>1. attempts[k] \in Seq(PayloadsOf(item[k].points))
    BY DEF PricingIInv
  <1>2. \A i \in DOMAIN attempts[k] : attempts[k][i] \in PayloadsOf(item[k].points)
    BY <1>1
  <1>3. attempts[k] # <<>> => Len(attempts[k]) \in DOMAIN attempts[k]
    BY <1>1
  <1>4. attempts[k] # <<>> => Latest(k) \in PayloadsOf(item[k].points)
    BY <1>2, <1>3 DEF Latest
  <1>5. CheckoutPoints(k) \in {NoPoints, item[k].points}
    BY <1>4 DEF CheckoutPoints, PayloadsOf
  <1>6. QED
    BY <1>2, <1>4, <1>5

LEMMA CatalogueWriteKeeps ==
  ASSUME PricingIInv, Administered,
         UNCHANGED <<listed, asked, item, attempts, calling, drops, creditedPoints>>
  PROVE  PricingIInv'
  BY DEF PricingIInv, Administered, CreditIsTheGrant, ShownIsGranted

LEMMA ListKeeps ==
  ASSUME PricingIInv, list_recharge_packages
  PROVE  PricingIInv'
  <1>1. listed' = ListedToday' /\ UNCHANGED <<asked, item, attempts, calling, creditedPoints>>
    BY ListStands DEF list_recharge_packages, ListedToday
  <1>2. QED
    BY <1>1 DEF PricingIInv, CreditIsTheGrant, ShownIsGranted

\* A step that leaves the list alone keeps what is known of it.
LEMMA FreshStands ==
  ASSUME PricingIInv, UNCHANGED <<rule, packs, listed, fresh>>
  PROVE  (fresh => listed = ListedToday)'
  BY ListStands DEF PricingIInv

LEMMA ProceedReaches ==
  ASSUME NEW k \in OrderKeys, NEW points, NEW a \in Asks, Proceed(k, points, a)
  PROVE  \/ calling' = AtRest
         \/ /\ calling'.order = k
            /\ calling'.points = points
            /\ calling'.pack \in AskedPacks
  BY PricingAssumption DEF Proceed, AskedPacks

LEMMA ReplayKeeps ==
  ASSUME PricingIInv, NEW k \in OrderKeys, Replay(k),
         UNCHANGED <<rule, packs, writes, listed, fresh, attempts, drops, creditedPoints>>
  PROVE  PricingIInv'
  <1>1. asked[k] \in Asks /\ UNCHANGED <<asked, item>>
    BY DEF PricingIInv, Replay
  <1>2. \/ calling' = AtRest
        \/ /\ calling'.order = k
           /\ calling'.points = CheckoutPoints(k)
           /\ calling'.pack \in AskedPacks
    BY <1>1, ProceedReaches DEF Replay
  <1>3. \/ calling' = AtRest
        \/ /\ calling'.order \in OrderKeys
           /\ item'[calling'.order].status # "none"
           /\ calling'.points \in {NoPoints, item'[calling'.order].points}
           /\ calling'.pack \in AskedPacks
    BY <1>1, <1>2, PayloadPoints DEF Replay
  <1>4. (fresh => listed = ListedToday)'
    BY FreshStands
  <1>5. QED
    BY <1>1, <1>3, <1>4 DEF PricingIInv, CreditIsTheGrant, ShownIsGranted

\* An order that is made anew: it has no payment yet, and what it grants is
\* what the list showed, if it shows anything.
LEMMA NewOrderKeeps ==
  ASSUME PricingIInv, NEW k \in OrderKeys, NEW a \in Asks, NEW p \in load_recharge_pack(a),
         item[k].status = "none", asked' = [asked EXCEPT ![k] = a],
         item' = [item EXCEPT ![k] = NewItem(a, Granted(a, p))],
         Proceed(k, Granted(a, p), a), calling = AtRest,
         UNCHANGED <<rule, packs, writes, listed, fresh, attempts, drops, creditedPoints>>
  PROVE  PricingIInv'
  <1> DEFINE points == Granted(a, p)
             new == NewItem(a, points)
  <1>1. /\ new = [status |-> new.status, points |-> new.points, shown |-> new.shown]
        /\ new.status = "pending_payment" /\ new.points = points
    BY DEF NewItem
  <1>2. new.shown # 0 => new.points = new.shown
    <2>1. CASE fresh /\ a.pack # NoPack
      <3>1. a.pack \in PackNames /\ listed = ListedToday
        BY <2>1, PricingAssumption DEF PricingIInv
      <3>2. new.shown \in {0, PackGrant(a.pack)}
        BY <2>1, <3>1 DEF NewItem, ListedToday
      <3>3. points = PackGrant(a.pack)
        BY <2>1, GrantedAsListed
      <3>4. QED
        BY <1>1, <3>2, <3>3
    <2>2. CASE ~(fresh /\ a.pack # NoPack)
      BY <2>2 DEF NewItem
    <2>3. QED
      BY <2>1, <2>2
  <1> HIDE DEF points, new
  <1>3. /\ item'[k] = new /\ asked'[k] = a
        /\ \A j \in OrderKeys \ {k} : item'[j] = item[j] /\ asked'[j] = asked[j]
    BY DEF PricingIInv, points, new
  <1>4. item' = [j \in OrderKeys |-> [status |-> item'[j].status, points |-> item'[j].points,
                                      shown |-> item'[j].shown]]
    <2>1. item' = [j \in OrderKeys |-> item'[j]]
      BY DEF PricingIInv
    <2>2. \A j \in OrderKeys :
            item'[j] = [status |-> item'[j].status, points |-> item'[j].points,
                        shown |-> item'[j].shown]
      BY <1>1, <1>3 DEF PricingIInv
    <2>3. QED
      BY <2>1, <2>2
  <1>5. asked' \in [OrderKeys -> Asks \cup {NoPack}]
    BY DEF PricingIInv
  <1>6. ASSUME NEW j \in OrderKeys
        PROVE  /\ attempts'[j] \in Seq(PayloadsOf(item'[j].points))
               /\ item'[j].status = "none" => attempts'[j] = <<>> /\ creditedPoints'[j] = 0
               /\ item'[j].status # "none" => asked'[j] \in Asks
               /\ item'[j].status = "paid" => attempts'[j] # <<>>
               /\ creditedPoints'[j] # 0 => creditedPoints'[j] = item'[j].points
               /\ item'[j].shown # 0 => item'[j].points = item'[j].shown
    <2>1. CASE j = k
      <3>1. attempts'[j] = <<>> /\ creditedPoints'[j] = 0
        BY <2>1 DEF PricingIInv
      <3>2. attempts'[j] \in Seq(PayloadsOf(item'[j].points))
        BY <3>1
      <3>3. QED
        BY <1>1, <1>2, <1>3, <2>1, <3>1, <3>2
    <2>2. CASE j # k
      BY <1>3, <2>2 DEF PricingIInv, CreditIsTheGrant, ShownIsGranted
    <2>3. QED
      BY <2>1, <2>2
  <1>7. \/ calling' = AtRest
        \/ /\ calling'.order \in OrderKeys
           /\ item'[calling'.order].status # "none"
           /\ calling'.points \in {NoPoints, item'[calling'.order].points}
           /\ calling'.pack \in AskedPacks
    <2>1. \/ calling' = AtRest
          \/ /\ calling'.order = k
             /\ calling'.points = points
             /\ calling'.pack \in AskedPacks
      BY ProceedReaches DEF points
    <2>2. QED
      BY <1>1, <1>3, <2>1
  <1>8. (fresh => listed = ListedToday)'
    BY FreshStands
  <1>9. attempts' = [j \in OrderKeys |-> attempts'[j]]
        /\ creditedPoints' = [j \in OrderKeys |-> creditedPoints'[j]]
    BY DEF PricingIInv
  <1>10. CreditIsTheGrant' /\ ShownIsGranted'
    BY <1>6 DEF CreditIsTheGrant, ShownIsGranted
  <1>11. QED
    BY <1>4, <1>5, <1>6, <1>7, <1>8, <1>9, <1>10 DEF PricingIInv

LEMMA CreateKeeps ==
  ASSUME PricingIInv, NEW k \in OrderKeys, NEW a \in Asks, Create(k, a), calling = AtRest,
         UNCHANGED <<rule, packs, writes, listed, fresh, attempts, drops, creditedPoints>>
  PROVE  PricingIInv'
  <1>1. PICK p \in load_recharge_pack(a) :
          \/ /\ \E j \in Reusable(a, p, Granted(a, p)) : Proceed(j, Granted(a, p), a)
             /\ UNCHANGED item
          \/ /\ item' = [item EXCEPT ![k] = NewItem(a, Granted(a, p))]
             /\ Proceed(k, Granted(a, p), a)
    BY DEF Create
  <1>2. item[k].status = "none" /\ asked' = [asked EXCEPT ![k] = a]
    BY DEF Create
  <1>3. CASE /\ item' = [item EXCEPT ![k] = NewItem(a, Granted(a, p))]
             /\ Proceed(k, Granted(a, p), a)
    BY <1>2, <1>3, NewOrderKeeps
  <1>4. ASSUME NEW j \in Reusable(a, p, Granted(a, p)), Proceed(j, Granted(a, p), a),
               UNCHANGED item
        PROVE  PricingIInv'
    <2> DEFINE points == Granted(a, p)
    <2>1. /\ j \in OrderKeys /\ item[j].status = "pending_payment"
          /\ \E i \in DOMAIN attempts[j] : attempts[j][i].points = points
      BY <1>4 DEF Reusable
    <2>2. points \in {NoPoints, item[j].points}
      BY <2>1, PayloadPoints DEF PayloadsOf
    <2> HIDE DEF points
    <2>3. \/ calling' = AtRest
          \/ /\ calling'.order = j
             /\ calling'.points = points
             /\ calling'.pack \in AskedPacks
      BY <1>4, <2>1, ProceedReaches DEF points
    <2>4. \/ calling' = AtRest
          \/ /\ calling'.order \in OrderKeys
             /\ item'[calling'.order].status # "none"
             /\ calling'.points \in {NoPoints, item'[calling'.order].points}
             /\ calling'.pack \in AskedPacks
      BY <1>4, <2>1, <2>2, <2>3
    <2>5. /\ asked' \in [OrderKeys -> Asks \cup {NoPack}]
          /\ \A i \in OrderKeys : item'[i].status # "none" => asked'[i] \in Asks
      BY <1>2, <1>4 DEF PricingIInv
    <2>6. (fresh => listed = ListedToday)'
      BY FreshStands
    <2>7. QED
      BY <1>4, <2>4, <2>5, <2>6 DEF PricingIInv, CreditIsTheGrant, ShownIsGranted
  <1>5. QED
    BY <1>1, <1>3, <1>4

\* A payment attempt: a payload of the order's joins the others.
LEMMA AttemptKeeps ==
  ASSUME PricingIInv, NEW k \in OrderKeys, NEW payload \in PayloadsOf(item[k].points),
         Attempt(k, payload), calling' \in {calling, AtRest},
         UNCHANGED <<rule, packs, writes, listed, fresh, asked, item, drops, creditedPoints>>
  PROVE  PricingIInv'
  <1>1. /\ attempts' = [attempts EXCEPT ![k] = Append(attempts[k], payload)]
        /\ item[k].status = "pending_payment"
    BY DEF Attempt
  <1>2. /\ attempts' = [j \in OrderKeys |-> attempts'[j]]
        /\ attempts'[k] = Append(attempts[k], payload)
        /\ \A j \in OrderKeys \ {k} : attempts'[j] = attempts[j]
    BY <1>1 DEF PricingIInv
  <1>3. \A j \in OrderKeys : attempts'[j] \in Seq(PayloadsOf(item[j].points))
    <2>1. attempts[k] \in Seq(PayloadsOf(item[k].points))
      BY DEF PricingIInv
    <2>2. Append(attempts[k], payload) \in Seq(PayloadsOf(item[k].points))
      BY <2>1
    <2>3. QED
      BY <1>2, <2>2 DEF PricingIInv
  <1>4. \A j \in OrderKeys : /\ item[j].status = "none" => attempts'[j] = <<>>
                             /\ item[j].status = "paid" => attempts'[j] # <<>>
    BY <1>1, <1>2 DEF PricingIInv
  <1>5. (fresh => listed = ListedToday)'
    BY FreshStands
  <1>6. QED
    BY <1>2, <1>3, <1>4, <1>5 DEF PricingIInv, CreditIsTheGrant, ShownIsGranted

LEMMA PaymentKeeps ==
  ASSUME PricingIInv, PayOrder \/ \E k \in OrderKeys : PayAtCashier(k)
  PROVE  PricingIInv'
  <1>1. CASE PayOrder
    <2>1. /\ calling.order \in OrderKeys
          /\ Payload(calling.points, calling.pack) \in PayloadsOf(item[calling.order].points)
      BY <1>1 DEF PricingIInv, PayOrder, Payload, PayloadsOf
    <2>2. QED
      BY <1>1, <2>1, AttemptKeeps DEF PayOrder
  <1>2. ASSUME NEW k \in OrderKeys, PayAtCashier(k)
        PROVE  PricingIInv'
    <2>1. CashierPayload \in PayloadsOf(item[k].points)
      BY DEF CashierPayload, PayloadsOf, AskedPacks
    <2>2. QED
      BY <1>2, <2>1, AttemptKeeps DEF PayAtCashier
  <1>3. QED
    BY <1>1, <1>2

\* A step of an order that exists: only its status moves, and what is credited
\* is what it grants.
LEMMA StatusKeeps ==
  ASSUME PricingIInv, NEW k \in OrderKeys, item[k].status # "none",
         NEW st, st # "none", st = "paid" => attempts[k] # <<>>,
         item' = [item EXCEPT ![k].status = st],
         \/ UNCHANGED creditedPoints
         \/ creditedPoints' = [creditedPoints EXCEPT ![k] = item[k].points],
         calling' \in {calling, AtRest},
         UNCHANGED <<rule, packs, writes, listed, fresh, asked, attempts, drops>>
  PROVE  PricingIInv'
  <1>1. /\ item'[k] = [status |-> st, points |-> item[k].points, shown |-> item[k].shown]
        /\ \A j \in OrderKeys \ {k} : item'[j] = item[j]
        /\ item' = [j \in OrderKeys |-> item'[j]]
    <2>1. item[k] = [status |-> item[k].status, points |-> item[k].points,
                     shown |-> item[k].shown]
      BY DEF PricingIInv
    <2>2. [item[k] EXCEPT !.status = st] = [status |-> st, points |-> item[k].points,
                                            shown |-> item[k].shown]
      BY <2>1
    <2>3. item' = [item EXCEPT ![k] = [item[k] EXCEPT !.status = st]]
      OBVIOUS
    <2>4. QED
      BY <2>2, <2>3 DEF PricingIInv
  <1>2. \A j \in OrderKeys :
          /\ item'[j] = [status |-> item'[j].status, points |-> item'[j].points,
                         shown |-> item'[j].shown]
          /\ item'[j].points = item[j].points
          /\ item'[j].shown = item[j].shown
          /\ item'[j].status # "none" <=> item[j].status # "none"
          /\ item'[j].status = "paid" => attempts[j] # <<>>
    <2>1. \A j \in OrderKeys :
            /\ item[j] = [status |-> item[j].status, points |-> item[j].points,
                          shown |-> item[j].shown]
            /\ item[j].status = "paid" => attempts[j] # <<>>
      BY DEF PricingIInv
    <2>2. QED
      BY <1>1, <2>1
  <1>3. item' = [j \in OrderKeys |-> [status |-> item'[j].status, points |-> item'[j].points,
                                      shown |-> item'[j].shown]]
    BY <1>1, <1>2
  <1>4. /\ creditedPoints' = [j \in OrderKeys |-> creditedPoints'[j]]
        /\ \A j \in OrderKeys : creditedPoints'[j] \in {creditedPoints[j], item[j].points}
        /\ \A j \in OrderKeys : item[j].status = "none" => creditedPoints'[j] = creditedPoints[j]
    BY DEF PricingIInv
  <1>5. (fresh => listed = ListedToday)'
    BY FreshStands
  <1>6. CreditIsTheGrant'
    <2>1. CreditIsTheGrant
      BY DEF PricingIInv
    <2>2. QED
      BY <1>2, <1>4, <2>1 DEF CreditIsTheGrant
  <1>7. ShownIsGranted'
    <2>1. ShownIsGranted
      BY DEF PricingIInv
    <2>2. QED
      BY <1>2, <2>1 DEF ShownIsGranted
  <1>8. \A j \in OrderKeys : attempts'[j] \in Seq(PayloadsOf(item'[j].points))
    BY <1>2 DEF PricingIInv
  <1>9. \/ calling' = AtRest
        \/ /\ calling'.order \in OrderKeys
           /\ item'[calling'.order].status # "none"
           /\ calling'.points \in {NoPoints, item'[calling'.order].points}
           /\ calling'.pack \in AskedPacks
    BY <1>2 DEF PricingIInv
  <1>10. QED
    BY ZenonT(60), <1>2, <1>3, <1>4, <1>5, <1>6, <1>7, <1>8, <1>9 DEF PricingIInv

LEMMA OrderStepsKeep ==
  ASSUME PricingIInv, PayFails \/ \E k \in OrderKeys : Collect(k) \/ Fulfill(k)
  PROVE  PricingIInv'
  <1>1. CASE PayFails
    <2> DEFINE k == calling.order
               st == IF item[k].status = "pending_payment" THEN "cancelled" ELSE item[k].status
    <2>1. k \in OrderKeys /\ item[k].status # "none"
      BY <1>1 DEF PricingIInv, PayFails
    <2>2. st # "none" /\ (st = "paid" => attempts[k] # <<>>)
      BY <2>1 DEF PricingIInv
    <2>3. item' = [item EXCEPT ![k].status = st]
      BY <1>1 DEF PayFails
    <2> HIDE DEF st
    <2>4. QED
      BY <1>1, <2>1, <2>2, <2>3, StatusKeeps DEF PayFails
  <1>2. ASSUME NEW k \in OrderKeys, Collect(k)
        PROVE  PricingIInv'
    BY <1>2, StatusKeeps DEF Collect
  <1>3. ASSUME NEW k \in OrderKeys, Fulfill(k)
        PROVE  PricingIInv'
    <2>1. attempts[k] # <<>> /\ ContextPoints(k) > 0
      BY <1>3 DEF PricingIInv, Fulfill
    <2>2. ContextPoints(k) = item[k].points
      BY <2>1, PayloadPoints DEF ContextPoints, PayloadsOf, NoPoints
    <2>3. /\ item[k].status # "none"
          /\ item' = [item EXCEPT ![k].status = "fulfilled"]
          /\ creditedPoints' = [creditedPoints EXCEPT ![k] = item[k].points]
      BY <1>3, <2>2 DEF Fulfill
    <2>4. UNCHANGED <<rule, packs, writes, listed, fresh, asked, attempts, calling, drops>>
      BY <1>3 DEF Fulfill
    <2>5. /\ calling' \in {calling, AtRest}
          /\ \/ UNCHANGED creditedPoints
             \/ creditedPoints' = [creditedPoints EXCEPT ![k] = item[k].points]
          /\ UNCHANGED <<rule, packs, writes, listed, fresh, asked, attempts, drops>>
      BY <2>3, <2>4
    <2>6. QED
      BY <2>1, <2>3, <2>5, StatusKeeps
  <1>4. QED
    BY <1>1, <1>2, <1>3

LEMMA DropCallKeeps ==
  ASSUME PricingIInv, DropCall
  PROVE  PricingIInv'
  <1>1. (fresh => listed = ListedToday)'
    BY FreshStands DEF DropCall
  <1>2. QED
    BY <1>1 DEF DropCall, PricingIInv, CreditIsTheGrant, ShownIsGranted

LEMMA PricingInitIInv == PricingInit => PricingIInv
  BY DEF PricingInit, PricingIInv, NoItem, CreditIsTheGrant, ShownIsGranted

LEMMA PricingNextIInv == PricingIInv /\ [PricingNext]_pricingVars => PricingIInv'
  <1> SUFFICES ASSUME PricingIInv, [PricingNext]_pricingVars PROVE PricingIInv'
    OBVIOUS
  <1>1. CASE UNCHANGED pricingVars
    <2>1. UNCHANGED <<rule, packs, listed, fresh>>
      BY <1>1 DEF pricingVars
    <2>2. (fresh => listed = ListedToday)'
      BY <2>1, FreshStands
    <2>3. QED
      BY <1>1, <2>2 DEF pricingVars, PricingIInv, CreditIsTheGrant, ShownIsGranted
  <1>2. ASSUME NEW k \in OrderKeys, NEW a \in Asks, create_points_recharge_order(k, a)
        PROVE  PricingIInv'
    BY <1>2, ReplayKeeps, CreateKeeps DEF create_points_recharge_order
  <1>3. CASE \/ \E s \in Scopes, r \in RuleRows : WriteRule(s, r)
             \/ \E p \in PackNames, row \in PackRows : WritePack(p, row)
    BY <1>3, CatalogueWriteKeeps DEF WriteRule, WritePack
  <1>4. QED
    BY <1>1, <1>2, <1>3, ListKeeps, PaymentKeeps, OrderStepsKeep, DropCallKeeps DEF PricingNext

LEMMA PricingInvariant == PricingSpec => []PricingIInv
  BY PricingInitIInv, PricingNextIInv, PTL DEF PricingSpec

\* The points credited for a recharge are those its order was created for,
\* however often rule and packages change, however often the request is
\* repeated, reused or paid again, and whichever payload is the latest.
THEOREM CreditsTheGrant == PricingSpec => []CreditIsTheGrant
  <1>1. PricingIInv => CreditIsTheGrant
    BY DEF PricingIInv
  <1>2. QED
    BY <1>1, PricingInvariant, PTL

\* list_recharge_packages and load_recharge_pack agree: an order of a package
\* made while the list stands grants what the list showed.
THEOREM GrantsWhatItShows == PricingSpec => []ShownIsGranted
  <1>1. PricingIInv => ShownIsGranted
    BY DEF PricingIInv
  <1>2. QED
    BY <1>1, PricingInvariant, PTL

-----------------------------------------------------------------------------
(* Demand claims.                                                          *)


\* A call that is under way is about a claim; one that updates a claim read it
\* in a status its action may start from.
CallsAreAboutClaims ==
  \A c \in Calls :
    /\ pc[c] # "idle" => about[c] \in Bidders
    /\ pc[c] = "update" => /\ action[c] \in Actions
                           /\ expected[c] \in FromStatuses[action[c]]

\* Between its index entry and its commit a transaction is alone there, and
\* nothing is awarded.
IndexIsExclusive ==
  \A c \in Calls : InIndex(c) =>
    /\ \A d \in Calls : InIndex(d) => d = c
    /\ \A b \in Bidders : status[b] \notin Awarded

\* A row that is locked is an open claim and stays as its holder found it.
LockedAsFound ==
  \A b \in Bidders : lock[b] # NoCall => found[b] = status[b] /\ status[b] \in Open

DemandIInv == /\ DemandTypeOK
              /\ CallsAreAboutClaims
              /\ IndexIsExclusive
              /\ LockedAsFound
              /\ OneAward

USE DemandAssumption

-----------------------------------------------------------------------------
(* The table of actions.                                                   *)

LEMMA ActionNames ==
  Actions = {"shortlist", "accept", "reject", "withdraw", "start", "deliver",
             "complete", "rework", "cancel"}
  BY DEF Actions, ToStatus

\* An action of the table leads to a status, and only accept makes an award of
\* a claim that was none.
LEMMA ActionLeads ==
  ASSUME NEW a \in Actions
  PROVE  /\ ToStatus[a] \in Statuses
         /\ FromStatuses[a] \subseteq Statuses
         /\ a # "accept" /\ ToStatus[a] \in Awarded => FromStatuses[a] \subseteq Awarded
  BY ActionNames DEF ToStatus, FromStatuses, Statuses, Open, Awarded, Closed

-----------------------------------------------------------------------------
(* The frame of a call.                                                    *)

\* A transaction that ends without having moved a claim disturbs nothing.
LEMMA EndKeeps ==
  ASSUME DemandIInv, NEW c \in Calls, End(c), UNCHANGED <<rowVars, bidding>>
  PROVE  DemandIInv'
  <1>1. DemandTypeOK'
    BY DEF DemandIInv, DemandTypeOK, End, rowVars, Places
  <1>2. CallsAreAboutClaims'
    BY DEF DemandIInv, DemandTypeOK, CallsAreAboutClaims, End
  <1>3. IndexIsExclusive' /\ OneAward'
    BY DEF DemandIInv, DemandTypeOK, IndexIsExclusive, OneAward, InIndex, End, rowVars
  <1>4. LockedAsFound'
    BY DEF DemandIInv, LockedAsFound, End, rowVars
  <1>5. QED
    BY <1>1, <1>2, <1>3, <1>4 DEF DemandIInv

\* Neither does one that moves a claim nobody has locked and makes no award of
\* one that was none.
LEMMA MoveKeeps ==
  ASSUME DemandIInv, NEW c \in Calls, End(c), UNCHANGED bidding,
         NEW b \in Bidders, NEW from \in Statuses \cup {"absent"}, NEW s \in Statuses,
         s \in Awarded => status[b] \in Awarded,
         status[b] \in Open => Unlocked(b),
         MoveOne(b, from, s)
  PROVE  DemandIInv'
  <1>1. /\ status' = [x \in Bidders |-> IF x = b THEN s ELSE status[x]]
        /\ event' = [x \in Bidders |-> IF x = b THEN <<from, s>> ELSE event[x]]
    BY DEF MoveOne, Move
  <1>2. status' \in [Bidders -> Statuses \cup {"absent"}]
    BY <1>1 DEF DemandIInv, DemandTypeOK
  <1>3. event' \in [Bidders -> (Statuses \cup {"absent"}) \X (Statuses \cup {"absent"})]
    BY <1>1 DEF DemandIInv, DemandTypeOK
  <1>4. DemandTypeOK'
    BY <1>2, <1>3 DEF DemandIInv, DemandTypeOK, End, Places
  <1>5. CallsAreAboutClaims'
    BY DEF DemandIInv, DemandTypeOK, CallsAreAboutClaims, End
  <1>6. \A x \in Bidders : status'[x] \in Awarded => status[x] \in Awarded
    BY <1>1 DEF DemandIInv, DemandTypeOK
  <1>7. IndexIsExclusive' /\ OneAward'
    BY <1>6 DEF DemandIInv, DemandTypeOK, IndexIsExclusive, OneAward, InIndex, End
  <1>8. lock[b] = NoCall
    BY DEF DemandIInv, LockedAsFound, Unlocked
  <1>9. LockedAsFound'
    BY <1>1, <1>8 DEF DemandIInv, LockedAsFound, End
  <1>10. QED
    BY <1>4, <1>5, <1>7, <1>9 DEF DemandIInv

\* A call begins with what it reads.
LEMMA ClaimBeginKeeps ==
  ASSUME DemandIInv, NEW c \in Calls, NEW b \in Bidders, NEW place, NEW a,
         Begin(c, place, b, a),
         \/ place = "insert" /\ a = "create"
         \/ place = "update" /\ a \in Actions /\ status[b] \in FromStatuses[a]
  PROVE  DemandIInv'
  <1>1. DemandTypeOK'
    BY DEF DemandIInv, DemandTypeOK, Begin, rowVars, lockVars, Places
  <1>2. CallsAreAboutClaims'
    BY DEF DemandIInv, DemandTypeOK, CallsAreAboutClaims, Begin
  <1>3. IndexIsExclusive' /\ OneAward'
    BY DEF DemandIInv, DemandTypeOK, IndexIsExclusive, OneAward, InIndex, Begin, rowVars
  <1>4. LockedAsFound'
    BY DEF DemandIInv, LockedAsFound, Begin, rowVars, lockVars
  <1>5. QED
    BY <1>1, <1>2, <1>3, <1>4 DEF DemandIInv

-----------------------------------------------------------------------------
(* The steps of a call.                                                    *)

LEMMA ClaimInsertKeeps ==
  ASSUME DemandIInv, NEW c \in Calls, InsertClaim(c)
  PROVE  DemandIInv'
  <1>1. about[c] \in Bidders
    BY DEF DemandIInv, CallsAreAboutClaims, InsertClaim
  <1>2. "submitted" \in Statuses /\ "submitted" \notin Awarded
    BY DEF Statuses, Open, Awarded
  <1>3. CASE status[about[c]] = "absent"
    <2>1. "absent" \notin Open
      BY DEF Open
    <2>2. QED
      BY <1>1, <1>2, <1>3, <2>1, MoveKeeps DEF InsertClaim
  <1>4. CASE status[about[c]] # "absent"
    BY <1>4, EndKeeps DEF InsertClaim
  <1>5. QED
    BY <1>3, <1>4

LEMMA TransitionKeeps ==
  ASSUME DemandIInv, NEW c \in Calls, Transition(c)
  PROVE  DemandIInv'
  <1>1. /\ about[c] \in Bidders
        /\ action[c] \in Actions /\ action[c] # "accept"
        /\ expected[c] \in FromStatuses[action[c]]
    BY DEF DemandIInv, CallsAreAboutClaims, Transition
  <1>2. CASE status[about[c]] = expected[c]
    <2>1. /\ ToStatus[action[c]] \in Statuses /\ expected[c] \in Statuses
          /\ ToStatus[action[c]] \in Awarded => status[about[c]] \in Awarded
      BY <1>1, <1>2, ActionLeads
    <2>2. QED
      BY <1>1, <1>2, <2>1, MoveKeeps DEF Transition
  <1>3. CASE status[about[c]] # expected[c]
    BY <1>3, EndKeeps DEF Transition
  <1>4. QED
    BY <1>2, <1>3

\* The type invariant in three parts.
ClaimRowsOK == /\ status \in [Bidders -> Statuses \cup {"absent"}]
               /\ event \in [Bidders -> (Statuses \cup {"absent"}) \X (Statuses \cup {"absent"})]
LocksOK == /\ lock \in [Bidders -> Calls \cup {NoCall}]
           /\ found \in [Bidders -> Statuses \cup {"absent"}]
CallPlacesOK == /\ bidding \in BOOLEAN
                /\ pc \in [Calls -> Places]
                /\ about \in [Calls -> Bidders \cup {NoBidder}]
                /\ action \in [Calls -> Actions \cup {"create"}]
                /\ expected \in [Calls -> Statuses \cup {"absent"}]
                /\ want \in [Calls -> SUBSET Bidders]

LEMMA DemandTypes == ASSUME ClaimRowsOK', LocksOK', CallPlacesOK' PROVE DemandTypeOK'
  BY DEF DemandTypeOK, ClaimRowsOK, LocksOK, CallPlacesOK

LEMMA ClaimRowsRest == ASSUME DemandIInv, UNCHANGED rowVars PROVE ClaimRowsOK'
  BY DEF DemandIInv, DemandTypeOK, ClaimRowsOK, rowVars

\* Taking row locks moves no claim and no index entry.
LEMMA LockKeeps ==
  ASSUME DemandIInv, NEW c \in Calls,
         TakeClaim(c) \/ \E b \in Bidders : LockCompetitor(c, b)
  PROVE  DemandIInv'
  <1>1. CASE TakeClaim(c) /\ status[about[c]] # expected[c]
    BY <1>1, EndKeeps DEF TakeClaim
  <1>2. CASE TakeClaim(c) /\ status[about[c]] = expected[c]
    <2>1. DemandTypeOK'
      <3>0. /\ lock' = [lock EXCEPT ![about[c]] = c]
            /\ found' = [found EXCEPT ![about[c]] = expected[c]]
        BY <1>2 DEF TakeClaim
      <3>1. LocksOK'
        BY <3>0 DEF DemandIInv, DemandTypeOK, LocksOK
      <3>2. CallPlacesOK'
        BY <1>2 DEF DemandIInv, DemandTypeOK, CallPlacesOK, TakeClaim, Places
      <3>3. QED
        BY <1>2, <3>1, <3>2, ClaimRowsRest, DemandTypes DEF TakeClaim
    <2>2. CallsAreAboutClaims' /\ IndexIsExclusive' /\ OneAward'
      BY <1>2 DEF DemandIInv, DemandTypeOK, CallsAreAboutClaims, IndexIsExclusive, OneAward,
                  InIndex, TakeClaim, rowVars
    <2>3. LockedAsFound'
      BY <1>2 DEF DemandIInv, DemandTypeOK, CallsAreAboutClaims, FromStatuses, LockedAsFound,
                  TakeClaim, rowVars
    <2>4. QED
      BY <2>1, <2>2, <2>3 DEF DemandIInv
  <1>3. ASSUME NEW b \in Bidders, LockCompetitor(c, b)
        PROVE  DemandIInv'
    <2>1. DemandTypeOK'
      <3>0. \/ UNCHANGED <<lock, found>>
            \/ /\ lock' = [lock EXCEPT ![b] = c]
               /\ found' = [found EXCEPT ![b] = status[b]]
        BY <1>3 DEF LockCompetitor, lockVars
      <3>1. LocksOK'
        <4>1. status[b] \in Statuses \cup {"absent"} /\ LocksOK
          BY DEF DemandIInv, DemandTypeOK, LocksOK
        <4>2. QED
          BY <3>0, <4>1 DEF LocksOK
      <3>2. CallPlacesOK'
        BY <1>3 DEF DemandIInv, DemandTypeOK, CallPlacesOK, LockCompetitor, callVars
      <3>3. QED
        BY <1>3, <3>1, <3>2, ClaimRowsRest, DemandTypes DEF LockCompetitor
    <2>2. CallsAreAboutClaims' /\ IndexIsExclusive' /\ OneAward'
      BY <1>3 DEF DemandIInv, CallsAreAboutClaims, IndexIsExclusive, OneAward, InIndex,
                  LockCompetitor, rowVars, callVars
    <2>3. LockedAsFound'
      BY <1>3 DEF DemandIInv, DemandTypeOK, LockedAsFound, LockCompetitor, rowVars, lockVars
    <2>4. QED
      BY <2>1, <2>2, <2>3 DEF DemandIInv
  <1>4. QED
    BY <1>1, <1>2, <1>3

LEMMA EnterKeeps ==
  ASSUME DemandIInv, NEW c \in Calls, EnterIndex(c)
  PROVE  DemandIInv'
  <1>1. CASE \E b \in Bidders : status[b] \in Awarded
    BY <1>1, EndKeeps DEF EnterIndex
  <1>2. CASE \A b \in Bidders : status[b] \notin Awarded
    <2>1. DemandTypeOK'
      <3>1. LocksOK'
        BY <1>2 DEF DemandIInv, DemandTypeOK, LocksOK, EnterIndex, lockVars
      <3>2. CallPlacesOK'
        BY <1>2 DEF DemandIInv, DemandTypeOK, CallPlacesOK, EnterIndex, OpenCompetitors, Places
      <3>3. QED
        BY <1>2, <3>1, <3>2, ClaimRowsRest, DemandTypes DEF EnterIndex
    <2>2. CallsAreAboutClaims'
      BY <1>2 DEF DemandIInv, DemandTypeOK, CallsAreAboutClaims, EnterIndex
    <2>3. IndexIsExclusive' /\ OneAward'
      BY <1>2 DEF DemandIInv, DemandTypeOK, IndexIsExclusive, OneAward, InIndex, EnterIndex,
                  rowVars
    <2>4. LockedAsFound'
      BY <1>2 DEF DemandIInv, LockedAsFound, EnterIndex, rowVars, lockVars
    <2>5. QED
      BY <2>1, <2>2, <2>3, <2>4 DEF DemandIInv
  <1>3. QED
    BY <1>1, <1>2

\* The commit awards its own claim where nothing was awarded, and leaves the
\* index to nobody.
LEMMA CommitKeeps ==
  ASSUME DemandIInv, NEW c \in Calls, CommitAccept(c)
  PROVE  DemandIInv'
  <1>1. /\ \A d \in Calls : InIndex(d) => d = c
        /\ \A b \in Bidders : status[b] \notin Awarded
    BY DEF DemandIInv, IndexIsExclusive, CommitAccept
  <1>2. /\ status' = [b \in Bidders |->
              IF lock[b] = c THEN (IF b = about[c] THEN "accepted" ELSE "rejected")
                             ELSE status[b]]
        /\ \A b \in Bidders : event'[b] =
              IF lock[b] = c THEN <<found[b], status'[b]>> ELSE event[b]
        /\ event' = [b \in Bidders |-> event'[b]]
    BY DEF CommitAccept, Move
  <1>3. "accepted" \in Statuses /\ "rejected" \in Statuses /\ "rejected" \notin Awarded
    BY DEF Statuses, Awarded, Closed
  <1>4. status' \in [Bidders -> Statuses \cup {"absent"}]
    BY <1>2, <1>3 DEF DemandIInv, DemandTypeOK
  <1>5. event' \in [Bidders -> (Statuses \cup {"absent"}) \X (Statuses \cup {"absent"})]
    BY <1>2, <1>4 DEF DemandIInv, DemandTypeOK
  <1>6. DemandTypeOK'
    BY <1>4, <1>5 DEF DemandIInv, DemandTypeOK, CommitAccept, End, Places
  <1>7. CallsAreAboutClaims'
    BY DEF DemandIInv, DemandTypeOK, CallsAreAboutClaims, CommitAccept, End
  <1>8. \A b \in Bidders : status'[b] \in Awarded => b = about[c]
    BY <1>1, <1>2, <1>3
  <1>9. \A d \in Calls : ~InIndex(d)'
    BY <1>1 DEF DemandIInv, DemandTypeOK, InIndex, CommitAccept, End
  <1>10. LockedAsFound'
    BY <1>2 DEF DemandIInv, LockedAsFound, CommitAccept, End
  <1>11. QED
    BY <1>6, <1>7, <1>8, <1>9, <1>10 DEF DemandIInv, IndexIsExclusive, OneAward

-----------------------------------------------------------------------------
(* The invariant.                                                          *)

LEMMA DemandInitIInv == DemandInit => DemandIInv
  <1> SUFFICES ASSUME DemandInit PROVE DemandIInv
    OBVIOUS
  <1>1. DemandTypeOK
    BY DEF DemandInit, DemandTypeOK, Places
  <1>2. CallsAreAboutClaims /\ IndexIsExclusive /\ OneAward /\ LockedAsFound
    BY DEF DemandInit, CallsAreAboutClaims, IndexIsExclusive, OneAward, LockedAsFound, InIndex,
           Awarded
  <1>3. QED
    BY <1>1, <1>2 DEF DemandIInv

LEMMA DemandNextIInv == DemandIInv /\ [DemandNext]_vars => DemandIInv'
  <1> SUFFICES ASSUME DemandIInv, [DemandNext]_vars PROVE DemandIInv'
    OBVIOUS
  <1>1. CASE DeadlinePasses \/ UNCHANGED vars
    BY <1>1 DEF DeadlinePasses, vars, rowVars, callVars, lockVars, DemandIInv, DemandTypeOK,
                CallsAreAboutClaims, IndexIsExclusive, LockedAsFound, OneAward, InIndex
  <1>2. ASSUME NEW c \in Calls, NEW b \in Bidders, BeginCreate(c, b)
        PROVE  DemandIInv'
    BY <1>2, ClaimBeginKeeps DEF BeginCreate
  <1>3. ASSUME NEW c \in Calls, NEW b \in Bidders, NEW a \in Actions, BeginAction(c, b, a)
        PROVE  DemandIInv'
    BY <1>3, ClaimBeginKeeps DEF BeginAction
  <1>4. ASSUME NEW c \in Calls, CallStep(c)
        PROVE  DemandIInv'
    <2>1. CASE Victim(c)
      BY <2>1, EndKeeps DEF Victim
    <2>2. QED
      BY <1>4, <2>1, ClaimInsertKeeps, TransitionKeeps, LockKeeps, EnterKeeps, CommitKeeps
         DEF CallStep
  <1>5. ASSUME NEW c \in Calls, Abort(c)
        PROVE  DemandIInv'
    BY <1>5, EndKeeps DEF Abort
  <1>6. QED
    BY <1>1, <1>2, <1>3, <1>4, <1>5 DEF DemandNext

LEMMA DemandInvariant == DemandSpec => []DemandIInv
  BY DemandInitIInv, DemandNextIInv, PTL DEF DemandSpec

\* DemandTypeOK in every reachable state of DemandClaim, for every set of
\* bidders and calls.
THEOREM DemandTypeCorrect == DemandSpec => []DemandTypeOK
  <1>1. DemandIInv => DemandTypeOK
    BY DEF DemandIInv
  <1>2. QED
    BY <1>1, DemandInvariant, PTL

\* accept_claim and the unique index: a demand is awarded at most once, however
\* many publishers' calls and bidders interleave.
THEOREM AwardedOnce == DemandSpec => []OneAward
  <1>1. DemandIInv => OneAward
    BY DEF DemandIInv
  <1>2. QED
    BY <1>1, DemandInvariant, PTL

\* A claim that moves has an event, and an event tells of a claim that moved.
Recorded(b) == status'[b] # status[b] \/ event'[b] # event[b]
                 => event'[b] = <<status[b], status'[b]>>

\* An action's event repeats what its call read before: the guard of the UPDATE
\* makes that the status the claim still has.
LEMMA CallRecords ==
  ASSUME DemandIInv, NEW c \in Calls, InsertClaim(c) \/ Transition(c), NEW b \in Bidders
  PROVE  Recorded(b)
  <1>1. ASSUME NEW to, MoveOne(about[c], status[about[c]], to)
        PROVE  Recorded(b)
    <2>1. /\ status'[b] = IF b = about[c] THEN to ELSE status[b]
          /\ event'[b] = IF b = about[c] THEN <<status[about[c]], to>> ELSE event[b]
      BY <1>1 DEF MoveOne, Move
    <2>2. QED
      BY <2>1 DEF Recorded
  <1>2. CASE UNCHANGED rowVars
    BY <1>2 DEF rowVars, Recorded
  <1>3. CASE InsertClaim(c)
    BY <1>1, <1>2, <1>3 DEF InsertClaim
  <1>4. CASE Transition(c)
    BY <1>1, <1>2, <1>4 DEF Transition
  <1>5. QED
    BY <1>3, <1>4

\* The events of an award repeat what was found when the rows were locked: the
\* locks keep the claims so until the commit.
LEMMA CommitRecords ==
  ASSUME DemandIInv, NEW c \in Calls, CommitAccept(c), NEW b \in Bidders
  PROVE  Recorded(b)
  <1>1. CASE lock[b] = c
    <2>1. found[b] = status[b]
      BY <1>1 DEF DemandIInv, LockedAsFound
    <2>2. event'[b] = <<found[b], status'[b]>>
      BY <1>1 DEF CommitAccept, Move
    <2>3. QED
      BY <2>1, <2>2 DEF Recorded
  <1>2. CASE lock[b] # c
    BY <1>2 DEF CommitAccept, Move, Recorded
  <1>3. QED
    BY <1>1, <1>2

\* apply_transition and close_competing_claims: an event carries the status its
\* call had read, and that is the status the claim came from, because the UPDATE
\* is guarded by it or the row was locked when it was read.
THEOREM TimelineComplete == DemandSpec => TimelineRecordsEveryChange
  <1>1. ASSUME DemandIInv, DemandNext, NEW b \in Bidders
        PROVE  Recorded(b)
    <2>1. CASE UNCHANGED rowVars
      BY <2>1 DEF rowVars, Recorded
    <2>2. ASSUME NEW c \in Calls, CallStep(c) \/ Abort(c)
          PROVE  Recorded(b)
      <3>1. CASE InsertClaim(c) \/ Transition(c)
        BY <1>1, <3>1, CallRecords
      <3>2. CASE CommitAccept(c)
        BY <1>1, <3>2, CommitRecords
      <3>3. CASE TakeClaim(c) \/ EnterIndex(c) \/ Victim(c) \/ Abort(c)
        BY <2>1, <3>3 DEF TakeClaim, EnterIndex, Victim, Abort
      <3>4. CASE \E x \in Bidders : LockCompetitor(c, x)
        BY <2>1, <3>4 DEF LockCompetitor
      <3>5. QED
        BY <2>2, <3>1, <3>2, <3>3, <3>4 DEF CallStep
    <2>3. CASE \A c \in Calls : ~(CallStep(c) \/ Abort(c))
      BY <1>1, <2>1, <2>3 DEF DemandNext, DeadlinePasses, BeginCreate, BeginAction, Begin
    <2>4. QED
      BY <2>2, <2>3
  <1>2. DemandIInv /\ [DemandNext]_vars => [\A b \in Bidders : Recorded(b)]_vars
    BY <1>1
  <1>3. DemandSpec => [][\A b \in Bidders : Recorded(b)]_vars
    BY <1>2, DemandInvariant, PTL DEF DemandSpec
  <1>4. QED
    BY <1>3 DEF TimelineRecordsEveryChange, Recorded
=============================================================================

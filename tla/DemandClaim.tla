---------------------------- MODULE DemandClaim ----------------------------
(***************************************************************************)
(* The claims of one demand: a provider makes at most one, its publisher   *)
(* shortlists, rejects or accepts it, and an accepted claim is delivered,  *)
(* reworked, completed or cancelled.  A call reads the claim, checks the   *)
(* action against what it read and applies it in a later transaction whose *)
(* UPDATE is guarded by the status that was read.  Accepting also rejects  *)
(* the competing open claims, row lock by row lock in one transaction, and *)
(* enters the claim in the unique index over awarded claims: its steps are *)
(* modelled one by one, with the locks they wait for and the deadlock the  *)
(* database resolves.                                                      *)
(*                                                                         *)
(* A claim is named by its bidder, who has at most one: a repeated         *)
(* submission is answered with it, or refused, and changes nothing.        *)
(***************************************************************************)
EXTENDS FiniteSets

CONSTANTS Bidders,   \* the providers that may claim the demand
          Calls,     \* requests that can be under way at the same time
          NoCall, NoBidder

ASSUME DemandAssumption == NoCall \notin Calls /\ NoBidder \notin Bidders

VARIABLES status,     \* commerce_demand_claim.status of each bidder's claim
          event,      \* <<from_status, to_status>> of the last event of its timeline
          bidding,    \* the deadline the demand shows has not passed
          lock,       \* the transaction that holds each claim's row
          found,      \* the status the holder of the row read, for its event
          pc, about, action, expected,  \* each call: where it is, and what it read
          want        \* the competitors its transaction has yet to lock

rowVars == <<status, event>>
lockVars == <<lock, found>>
callVars == <<pc, about, action, expected>>
vars == <<rowVars, bidding, lockVars, callVars, want>>

Open == {"submitted", "shortlisted"}
Awarded == {"accepted", "in_delivery", "delivered", "completed"}
Closed == {"rejected", "withdrawn", "cancelled"}
Statuses == Open \cup Awarded \cup Closed

\* DemandClaimAction: the statuses an action may start from, and where it leads.
FromStatuses == [shortlist |-> {"submitted"},
                 accept |-> Open, reject |-> Open, withdraw |-> Open,
                 start |-> {"accepted"},
                 deliver |-> {"in_delivery"},
                 complete |-> {"delivered"},
                 rework |-> {"delivered"},
                 cancel |-> {"accepted", "in_delivery"}]
ToStatus == [shortlist |-> "shortlisted", accept |-> "accepted", reject |-> "rejected",
             withdraw |-> "withdrawn", start |-> "in_delivery", deliver |-> "delivered",
             complete |-> "completed", rework |-> "in_delivery", cancel |-> "cancelled"]
Actions == DOMAIN ToStatus

Places == {"idle", "insert", "update", "index", "competitors"}

DemandTypeOK ==
  /\ status \in [Bidders -> Statuses \cup {"absent"}]
  /\ event \in [Bidders -> (Statuses \cup {"absent"}) \X (Statuses \cup {"absent"})]
  /\ bidding \in BOOLEAN
  /\ lock \in [Bidders -> Calls \cup {NoCall}]
  /\ found \in [Bidders -> Statuses \cup {"absent"}]
  /\ pc \in [Calls -> Places]
  /\ about \in [Calls -> Bidders \cup {NoBidder}]
  /\ action \in [Calls -> Actions \cup {"create"}]
  /\ expected \in [Calls -> Statuses \cup {"absent"}]
  /\ want \in [Calls -> SUBSET Bidders]

DemandInit == /\ status = [b \in Bidders |-> "absent"]
              /\ event = [b \in Bidders |-> <<"absent", "absent">>]
              /\ bidding = TRUE
              /\ lock = [b \in Bidders |-> NoCall]
              /\ found = [b \in Bidders |-> "absent"]
              /\ pc = [c \in Calls |-> "idle"]
              /\ about = [c \in Calls |-> NoBidder]
              /\ action = [c \in Calls |-> "create"]
              /\ expected = [c \in Calls |-> "absent"]
              /\ want = [c \in Calls |-> {}]

-----------------------------------------------------------------------------
(* The frame of a call.                                                    *)

Begin(c, place, b, a) == /\ pc[c] = "idle"
                         /\ pc' = [pc EXCEPT ![c] = place]
                         /\ about' = [about EXCEPT ![c] = b]
                         /\ action' = [action EXCEPT ![c] = a]
                         /\ expected' = [expected EXCEPT ![c] = status[b]]
                         /\ UNCHANGED <<rowVars, bidding, lockVars, want>>

\* Mutant: the transaction ends and its row locks stay.
EndKeepsLocks(c) == /\ pc' = [pc EXCEPT ![c] = "idle"]
                    /\ about' = [about EXCEPT ![c] = NoBidder]
                    /\ action' = [action EXCEPT ![c] = "create"]
                    /\ expected' = [expected EXCEPT ![c] = "absent"]
                    /\ want' = [want EXCEPT ![c] = {}]
                    /\ UNCHANGED lockVars

\* The transaction ends, committed or rolled back, and with it its locks.
End(c) == /\ pc' = [pc EXCEPT ![c] = "idle"]
          /\ about' = [about EXCEPT ![c] = NoBidder]
          /\ action' = [action EXCEPT ![c] = "create"]
          /\ expected' = [expected EXCEPT ![c] = "absent"]
          /\ want' = [want EXCEPT ![c] = {}]
          /\ lock' = [b \in Bidders |-> IF lock[b] = c THEN NoCall ELSE lock[b]]
          /\ found' = [b \in Bidders |-> IF lock[b] = c THEN "absent" ELSE found[b]]

\* Claims S go to the statuses in s.  The event of each says it came from the
\* status in from, which is what the transaction read, whatever the row holds.
Move(S, from, s) ==
  /\ status' = [b \in Bidders |-> IF b \in S THEN s[b] ELSE status[b]]
  /\ event' = [b \in Bidders |-> IF b \in S THEN <<from[b], s[b]>> ELSE event[b]]

\* One claim, by a call that read it in one status.
MoveOne(b, from, to) == Move({b}, [x \in Bidders |-> from], [x \in Bidders |-> to])

-----------------------------------------------------------------------------
(* Submission.                                                             *)

\* The deadline is the one the client copied from the demand.
Biddable == bidding
DeadlinePasses == /\ bidding
                  /\ bidding' = FALSE
                  /\ UNCHANGED <<rowVars, lockVars, callVars, want>>

\* The bidder has no claim and, so far, no claim of the demand was awarded.
BeginCreate(c, b) == /\ Biddable
                     /\ status[b] = "absent"
                     /\ \A other \in Bidders : status[other] \notin Awarded
                     /\ Begin(c, "insert", b, "create")

\* The unique index over bidder and demand refuses a second claim.
InsertClaim(c) ==
  /\ pc[c] = "insert"
  /\ IF status[about[c]] = "absent" THEN MoveOne(about[c], "absent", "submitted")
                                    ELSE UNCHANGED rowVars
  /\ End(c)
  /\ UNCHANGED bidding

-----------------------------------------------------------------------------
(* The actions on a claim.                                                 *)

BeginAction(c, b, a) == /\ status[b] \in FromStatuses[a]
                        /\ Begin(c, "update", b, a)

Unlocked(b) == lock[b] = NoCall

\* Mutant: the UPDATE names the claim only.
TransitionUnguarded(c) ==
  /\ pc[c] = "update" /\ action[c] # "accept"
  /\ Unlocked(about[c])
  /\ MoveOne(about[c], expected[c], ToStatus[action[c]])
  /\ End(c)
  /\ UNCHANGED bidding

\* apply_transition of every action but accept: one guarded UPDATE, which waits
\* for the row, and its event, which repeats what the call had read.
Transition(c) ==
  /\ pc[c] = "update" /\ action[c] # "accept"
  /\ Unlocked(about[c])
  /\ IF status[about[c]] = expected[c]
     THEN MoveOne(about[c], expected[c], ToStatus[action[c]])
     ELSE UNCHANGED rowVars
  /\ End(c)
  /\ UNCHANGED bidding

-----------------------------------------------------------------------------
(* The transaction that accepts a claim.                                   *)

TakeClaim(c) ==
  /\ pc[c] = "update" /\ action[c] = "accept"
  /\ Unlocked(about[c])
  /\ IF status[about[c]] = expected[c]
     THEN /\ lock' = [lock EXCEPT ![about[c]] = c]
          /\ found' = [found EXCEPT ![about[c]] = expected[c]]
          /\ pc' = [pc EXCEPT ![c] = "index"]
          /\ UNCHANGED <<about, action, expected, want>>
     ELSE End(c)
  /\ UNCHANGED <<rowVars, bidding>>

InIndex(c) == pc[c] = "competitors"
OpenCompetitors(c) == {b \in Bidders \ {about[c]} : status[b] \in Open}

\* Mutant: the demand has no unique index over awarded claims.
EnterIndexUnchecked(c) ==
  /\ pc[c] = "index"
  /\ pc' = [pc EXCEPT ![c] = "competitors"]
  /\ want' = [want EXCEPT ![c] = OpenCompetitors(c)]
  /\ UNCHANGED <<rowVars, bidding, lockVars, about, action, expected>>

\* The index entry waits for a transaction that has one for the same demand and
\* is refused when an award was committed; then the competitors are listed.
EnterIndex(c) ==
  /\ pc[c] = "index"
  /\ \A other \in Calls : ~InIndex(other)
  /\ IF \E b \in Bidders : status[b] \in Awarded
     THEN End(c)
     ELSE /\ pc' = [pc EXCEPT ![c] = "competitors"]
          /\ want' = [want EXCEPT ![c] = OpenCompetitors(c)]
          /\ UNCHANGED <<lockVars, about, action, expected>>
  /\ UNCHANGED <<rowVars, bidding>>

\* SELECT ... FOR UPDATE: one row after the other, those no longer open dropped.
LockCompetitor(c, b) ==
  /\ InIndex(c)
  /\ b \in want[c]
  /\ Unlocked(b)
  /\ want' = [want EXCEPT ![c] = @ \ {b}]
  /\ IF status[b] \in Open
     THEN /\ lock' = [lock EXCEPT ![b] = c]
          /\ found' = [found EXCEPT ![b] = status[b]]
     ELSE UNCHANGED lockVars
  /\ UNCHANGED <<rowVars, bidding, callVars>>

\* The events name what was found when each row was locked.
CommitAccept(c) ==
  /\ InIndex(c)
  /\ want[c] = {}
  /\ Move({b \in Bidders : lock[b] = c}, found,
          [b \in Bidders |-> IF b = about[c] THEN "accepted" ELSE "rejected"])
  /\ End(c)
  /\ UNCHANGED bidding

WaitsFor(c, d) == \/ pc[c] = "index" /\ InIndex(d)
                  \/ InIndex(c) /\ \E b \in want[c] : lock[b] = d

\* The database aborts a transaction of a cycle of waiting ones.
Victim(c) == /\ \E d \in Calls \ {c} : WaitsFor(c, d) /\ WaitsFor(d, c)
             /\ End(c)
             /\ UNCHANGED <<rowVars, bidding>>

\* An error or a crash: the open transaction is rolled back.
Abort(c) == /\ pc[c] # "idle"
            /\ End(c)
            /\ UNCHANGED <<rowVars, bidding>>

CallStep(c) == \/ InsertClaim(c) \/ Transition(c)
               \/ TakeClaim(c) \/ EnterIndex(c) \/ CommitAccept(c) \/ Victim(c)
               \/ \E b \in Bidders : LockCompetitor(c, b)

DemandNext == \/ DeadlinePasses
              \/ \E c \in Calls, b \in Bidders :
                   \/ BeginCreate(c, b)
                   \/ \E a \in Actions : BeginAction(c, b, a)
              \/ \E c \in Calls : CallStep(c) \/ Abort(c)

DemandSpec == DemandInit /\ [][DemandNext]_vars

\* A call under way goes on.  Strong, because a step may have to wait for a lock
\* that others take in between: the database queues those who wait for a row.
FairDemandSpec == DemandSpec /\ \A c \in Calls : SF_vars(CallStep(c))

-----------------------------------------------------------------------------
(* Properties.                                                             *)

\* A demand is awarded once: however the accepts of its claims, their reading
\* and their transactions interleave, no two claims are ever accepted or beyond.
OneAward == \A a, b \in Bidders :
              status[a] \in Awarded /\ status[b] \in Awarded => a = b

\* The timeline of a claim has an event for every change of its status and none
\* without a change.  The event carries the status the call had read, long before
\* for an action, when it took the lock for a competitor of the award: it is also
\* the status the claim really came from.
TimelineRecordsEveryChange ==
  [][\A b \in Bidders :
       status'[b] # status[b] \/ event'[b] # event[b]
         => event'[b] = <<status[b], status'[b]>>]_vars

\* An accept that has the claim's row ends, with the award or without it: the
\* publisher's accepts of two claims at once, each with its claim's row and
\* waiting for the other's, do not wait for ever.
AcceptEnds == \A c \in Calls : pc[c] = "index" ~> pc[c] = "idle"
=============================================================================

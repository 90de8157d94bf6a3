------------------------ MODULE OrderLifecycleProofs ------------------------
(***************************************************************************)
(* The safety of OrderLifecycle for every set of orders.  No single        *)
(* property is inductive: that a dead order is not fulfilled rests on the  *)
(* row never being payable after a payment, that a completed order is      *)
(* delivered rests on the fulfillment order being created once, and so on. *)
(* Their conjunction is inductive; it is shown action by action.           *)
(***************************************************************************)
EXTENDS OrderLifecycle, TLAPS

IInv == /\ TypeOK
        /\ PaidIsNotPayable
        /\ LatePaymentIsAudited
        /\ FulfillmentNeedsPayment
        /\ DeadOrderIsNeverFulfilled
        /\ ReceiptIsConsistent
        /\ LatePaymentIsNeverFulfilled
        /\ FulfillmentOrderMatchesRow

USE DEF IInv, TypeOK, RowTypeOK, Status, Payment, Fulfillment, EventType,
        PaidIsNotPayable, LatePaymentIsAudited, FulfillmentNeedsPayment,
        DeadOrderIsNeverFulfilled, LatePaymentIsNeverFulfilled, ReceiptIsConsistent,
        FulfillmentOrderMatchesRow, Payable, Started, Dead, ValueOrders

LEMMA InitIInv == Init => IInv
  BY SubjectAssumption DEF Init, RowInit

LEMMA OpenPaymentIInv ==
  ASSUME IInv, NEW o \in Orders, OpenPayment(o) PROVE IInv'
  BY DEF OpenPayment, rowVars

LEMMA RecordSuccessIInv ==
  ASSUME IInv, NEW o \in Orders, RecordSuccess(o) PROVE IInv'
  BY DEF RecordSuccess, rowVars

LEMMA SettleSuccessIInv ==
  ASSUME IInv, NEW o \in Orders, SettleSuccess(o) PROVE IInv'
  BY DEF SettleSuccess, MarkPaymentSucceeded, Update, Record, SuccessEvents,
         TerminalOrderPreserved, TerminalStatus, KeptBySuccess, PaymentSideUnchanged

LEMMA SettleFailureIInv ==
  ASSUME IInv, NEW o \in Orders, SettleFailure(o) PROVE IInv'
  BY DEF SettleFailure, MarkPaymentFailed, FailurePreserved, Update,
         TerminalOrderPreserved, TerminalStatus, CallersUnchanged, PaymentSideUnchanged

LEMMA EndSettlingIInv ==
  ASSUME IInv, NEW o \in Orders, EndSettling(o) PROVE IInv'
  BY DEF EndSettling, rowVars, PaymentSideUnchanged

LEMMA FulfillStepIInv ==
  ASSUME IInv, NEW o \in Orders, FulfillStep(o) PROVE IInv'
  <1>1. CASE FulfillPhysical(o)
    BY <1>1 DEF FulfillStep, FulfillPhysical, Update, PaymentSideUnchanged
  <1>2. CASE ReserveFulfillment(o)
    BY <1>2 DEF FulfillStep, ReserveFulfillment, Update, PaymentSideUnchanged
  <1>3. CASE ReleaseFulfillment(o)
    BY <1>3 DEF FulfillStep, ReleaseFulfillment, Update, PaymentSideUnchanged
  <1>4. CASE CommitFulfillment(o)
    BY <1>4 DEF FulfillStep, CommitFulfillment, Update, PaymentSideUnchanged
  <1>5. QED
    BY <1>1, <1>2, <1>3, <1>4 DEF FulfillStep

LEMMA CreationIInv ==
  ASSUME IInv, NEW o \in Orders, CallersUnchanged,
         \/ CreateOwnerOrder(o)
         \/ CreateValueOrder(o)
         \/ MarkInventoryReserved(o)
         \/ MarkInventoryFailed(o)
  PROVE  IInv'
  <1>1. CASE CreateOwnerOrder(o)
    BY <1>1 DEF CreateOwnerOrder, Update, CallersUnchanged, PaymentSideUnchanged
  <1>2. CASE CreateValueOrder(o)
    BY <1>2 DEF CreateValueOrder, Update, CallersUnchanged, PaymentSideUnchanged
  <1>3. CASE MarkInventoryReserved(o)
    BY <1>3 DEF MarkInventoryReserved, Update, CallersUnchanged, PaymentSideUnchanged
  <1>4. CASE MarkInventoryFailed(o)
    BY <1>4 DEF MarkInventoryFailed, Update, CallersUnchanged, PaymentSideUnchanged
  <1>5. QED
    BY <1>1, <1>2, <1>3, <1>4

LEMMA EndingIInv ==
  ASSUME IInv, NEW o \in Orders, CallersUnchanged,
         \/ CancelOrder(o)
         \/ CloseManagementOrder(o)
         \/ ExpireDueOrder(o, o \in recorded)
         \/ ExpireStaleRechargeOrder(o)
  PROVE  IInv'
  <1>1. CASE CancelOrder(o)
    BY <1>1 DEF CancelOrder, Update, Record, CallersUnchanged, PaymentSideUnchanged
  <1>2. CASE CloseManagementOrder(o)
    BY <1>2 DEF CloseManagementOrder, Update, Record, CallersUnchanged, PaymentSideUnchanged
  <1>3. CASE ExpireDueOrder(o, o \in recorded)
    BY <1>3 DEF ExpireDueOrder, Update, Record, CallersUnchanged, PaymentSideUnchanged
  <1>4. CASE ExpireStaleRechargeOrder(o)
    BY <1>4 DEF ExpireStaleRechargeOrder, Update, CallersUnchanged, PaymentSideUnchanged
  <1>5. QED
    BY <1>1, <1>2, <1>3, <1>4

LEMMA DeliveryIInv ==
  ASSUME IInv, NEW o \in Orders, CallersUnchanged,
         AdvanceToShipped(o) \/ ConfirmReceipt(o)
  PROVE  IInv'
  <1>1. CASE AdvanceToShipped(o)
    BY <1>1 DEF AdvanceToShipped, Update, Record, CallersUnchanged, PaymentSideUnchanged
  <1>2. CASE ConfirmReceipt(o)
    BY <1>2 DEF ConfirmReceipt, Update, Record, CallersUnchanged, PaymentSideUnchanged
  <1>3. QED
    BY <1>1, <1>2

LEMMA NextIInv == IInv /\ [Next]_vars => IInv'
  <1>1. ASSUME IInv, UNCHANGED vars PROVE IInv'
    BY <1>1 DEF vars, rowVars
  <1>2. ASSUME IInv, NEW o \in Orders, OwnerStep(o) PROVE IInv'
    BY <1>2, CreationIInv, EndingIInv, DeliveryIInv DEF OwnerStep
  <1>3. ASSUME IInv, NEW o \in Orders,
               \/ OpenPayment(o)   \/ RecordSuccess(o) \/ SettleSuccess(o)
               \/ SettleFailure(o) \/ FulfillStep(o)   \/ EndSettling(o)
        PROVE  IInv'
    BY <1>3, OpenPaymentIInv, RecordSuccessIInv, SettleSuccessIInv,
       SettleFailureIInv, FulfillStepIInv, EndSettlingIInv
  <1>4. QED
    BY <1>1, <1>2, <1>3 DEF Next

\* A step keeps the payment of every order that has one.
LEMMA StepKeepsPayment ==
  ASSUME IInv, [Next]_vars, NEW o \in Orders, payment[o] = "success"
  PROVE  payment'[o] = "success"
  <1>1. CASE UNCHANGED vars
    BY <1>1 DEF vars, rowVars
  <1>2. ASSUME NEW p \in Orders,
               OpenPayment(p) \/ RecordSuccess(p) \/ EndSettling(p)
        PROVE  payment'[o] = "success"
    BY <1>2 DEF OpenPayment, RecordSuccess, EndSettling, rowVars
  <1>3. ASSUME NEW p \in Orders, SettleSuccess(p) \/ SettleFailure(p)
        PROVE  payment'[o] = "success"
    BY <1>3 DEF SettleSuccess, MarkPaymentSucceeded, SettleFailure, MarkPaymentFailed,
                FailurePreserved, Update
  <1>4. ASSUME NEW p \in Orders, FulfillStep(p)
        PROVE  payment'[o] = "success"
    BY <1>4 DEF FulfillStep, FulfillPhysical, ReserveFulfillment, ReleaseFulfillment,
                CommitFulfillment, Update
  <1>5. ASSUME NEW p \in Orders, OwnerStep(p)
        PROVE  payment'[o] = "success"
    BY <1>5 DEF OwnerStep, CreateOwnerOrder, CreateValueOrder, MarkInventoryReserved,
                MarkInventoryFailed, CancelOrder, CloseManagementOrder, ExpireDueOrder,
                ExpireStaleRechargeOrder, AdvanceToShipped, ConfirmReceipt, Update
  <1>6. QED
    BY <1>1, <1>2, <1>3, <1>4, <1>5 DEF Next

\* What DeadOrderStaysDead says of one order and one step.
StaysDead(o) ==
  /\ status[o] = "cancelled" => status'[o] = "cancelled"
  /\ status[o] = "expired" => status'[o] \in {"expired", "closed"}
  /\ status[o] = "closed" => \/ status'[o] = "closed"
                             \/ o \in settling /\ fulfillment'[o] = "fulfilled"

LEMMA StepKeepsDead ==
  ASSUME IInv, [Next]_vars, NEW o \in Orders PROVE StaysDead(o)
  <1>. USE DEF StaysDead
  <1>1. CASE UNCHANGED vars
    BY <1>1 DEF vars, rowVars
  <1>2. ASSUME NEW p \in Orders,
               OpenPayment(p) \/ RecordSuccess(p) \/ EndSettling(p)
        PROVE  StaysDead(o)
    BY <1>2 DEF OpenPayment, RecordSuccess, EndSettling, rowVars
  <1>3. ASSUME NEW p \in Orders, SettleSuccess(p) \/ SettleFailure(p)
        PROVE  StaysDead(o)
    BY <1>3 DEF SettleSuccess, MarkPaymentSucceeded, SettleFailure, MarkPaymentFailed,
                FailurePreserved, TerminalOrderPreserved, TerminalStatus,
                KeptBySuccess, Update
  <1>4. ASSUME NEW p \in Orders, FulfillStep(p)
        PROVE  StaysDead(o)
    BY <1>4 DEF FulfillStep, FulfillPhysical, ReserveFulfillment, ReleaseFulfillment,
                CommitFulfillment, Update
  <1>5. ASSUME NEW p \in Orders, OwnerStep(p)
        PROVE  StaysDead(o)
    BY <1>5 DEF OwnerStep, CreateOwnerOrder, CreateValueOrder, MarkInventoryReserved,
                MarkInventoryFailed, CancelOrder, CloseManagementOrder, ExpireDueOrder,
                ExpireStaleRechargeOrder, AdvanceToShipped, ConfirmReceipt, Update
  <1>6. QED
    BY <1>1, <1>2, <1>3, <1>4, <1>5 DEF Next

-----------------------------------------------------------------------------
HIDE DEF IInv

\* The conjunction of the properties is an invariant.
THEOREM InductiveInvariant == Spec => []IInv
  BY InitIInv, NextIInv, PTL DEF Spec

\* Every reachable row is well typed, for any set of orders.
THEOREM TypeCorrect == Spec => []TypeOK
  <1>1. IInv => TypeOK
    BY DEF IInv
  <1>2. QED
    BY <1>1, InductiveInvariant, PTL

\* An order that has been paid is never one that can still be cancelled,
\* expired or paid for.
THEOREM PaidNeverPayable == Spec => []PaidIsNotPayable
  <1>1. IInv => PaidIsNotPayable
    BY DEF IInv
  <1>2. QED
    BY <1>1, InductiveInvariant, PTL

\* Money that reaches a cancelled or expired order leaves its audit event.
THEOREM LatePaymentAudit == Spec => []LatePaymentIsAudited
  <1>1. IInv => LatePaymentIsAudited
    BY DEF IInv
  <1>2. QED
    BY <1>1, InductiveInvariant, PTL

\* A cancelled or expired order is never fulfilled, and what is fulfilled is
\* paid for: however callers interleave, crash or repeat themselves.
THEOREM NothingFulfilledUnpaid ==
  Spec => [](FulfillmentNeedsPayment /\ DeadOrderIsNeverFulfilled)
  <1>1. IInv => FulfillmentNeedsPayment /\ DeadOrderIsNeverFulfilled
    BY DEF IInv
  <1>2. QED
    BY <1>1, InductiveInvariant, PTL

\* A late payment is never fulfilled, whether the order was cancelled, expired
\* or closed before it.
THEOREM LatePaymentUnfulfilled == Spec => []LatePaymentIsNeverFulfilled
  <1>1. IInv => LatePaymentIsNeverFulfilled
    BY DEF IInv
  <1>2. QED
    BY <1>1, InductiveInvariant, PTL

\* A completed order was delivered and audited, and the fulfillment order and
\* the fulfillment column agree.
THEOREM ReceiptConsistency ==
  Spec => [](ReceiptIsConsistent /\ FulfillmentOrderMatchesRow)
  <1>1. IInv => ReceiptIsConsistent /\ FulfillmentOrderMatchesRow
    BY DEF IInv
  <1>2. QED
    BY <1>1, InductiveInvariant, PTL

\* A recorded payment is never taken off an order.
THEOREM MoneyKept == Spec => CollectedMoneyIsNeverForgotten
  <1>1. IInv /\ [Next]_vars =>
          [\A o \in Orders : payment[o] = "success" => payment'[o] = "success"]_vars
    BY StepKeepsPayment
  <1>2. QED
    BY <1>1, InductiveInvariant, PTL DEF Spec, CollectedMoneyIsNeverForgotten

\* Cancelled, expired and closed orders stay so, but for the commit of a
\* fulfillment that was under way when the order was closed.
THEOREM DeadStaysDead == Spec => DeadOrderStaysDead
  <1>1. IInv /\ [Next]_vars => [\A o \in Orders : StaysDead(o)]_vars
    BY StepKeepsDead
  <1>2. QED
    BY <1>1, InductiveInvariant, PTL DEF Spec, DeadOrderStaysDead, StaysDead
=============================================================================

-------------------------- MODULE MCPaymentNotify ---------------------------
(* PaymentNotify with a points order of two attempts, a value order and a    *)
(* physical order.  No step relates two orders, so each behaviour is about   *)
(* one of them, its subject, and the others are never created.               *)
EXTENDS PaymentNotify, TLC

CONSTANTS points, value, goods, a1, a2, a3, a4, w1, w2

MCOrderOf == a1 :> points @@ a2 :> points @@ a3 :> value @@ a4 :> goods

VARIABLE subject
subjectVars == <<vars, subject>>

SubjectInit == Init /\ subject \in Orders
SubjectNext == /\ Next
               /\ \A o \in Orders \ {subject} : status'[o] = status[o]
               /\ UNCHANGED subject
SubjectSpec == SubjectInit /\ [][SubjectNext]_subjectVars

\* Fairness, stated of the subject's attempts: no other is ever opened.
FirstOf == points :> a1 @@ value :> a3 @@ goods :> a4
SubjectFairness ==
  /\ \A w \in Workers : WF_subjectVars(WorkerStep(w) /\ UNCHANGED subject)
  /\ SF_subjectVars(\E w \in Workers : Sweep(w, FirstOf[subject]) /\ UNCHANGED subject)
  /\ SF_subjectVars(\E w \in Workers : Sweep(w, a2) /\ UNCHANGED subject)
FairSubjectSpec == SubjectSpec /\ SubjectFairness
=============================================================================

--------------------------- MODULE MCRefundRequest ---------------------------
(* RefundRequest for an order with one request of its full amount, reviewed *)
(* by two operators while a notice comes in.                                *)
EXTENDS RefundRequest, TLC

CONSTANTS r1, c1, c2, w1, k1, k2

MCAmount == [r \in Requests |-> PaidAmount]
CallSymmetry == Permutations(Reviews) \cup Permutations(RetryKeys)
=============================================================================

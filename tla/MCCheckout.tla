----------------------------- MODULE MCCheckout -----------------------------
(* Checkout with a session of goods and one of a service.                    *)
EXTENDS Checkout, TLC

CONSTANTS k1, k2, c1, c2
OrdersValue == {k1, k2}
CallsValue == {c1, c2}
NoPoints == {}
PriceBound == {1, 2}
MCWanted == k1 :> {"addressed", "unaddressed"} @@ k2 :> {"service"}
=============================================================================

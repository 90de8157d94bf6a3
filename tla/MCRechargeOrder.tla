--------------------------- MODULE MCRechargeOrder ---------------------------
EXTENDS RechargeOrder, TLC

CONSTANTS c1, c2
CallsValue == {c1, c2}

Points1(k, a) == [subject |-> "points", key |-> k, amount |-> a, code |-> "none", benefit |-> "none"]
Value1(k, a) == [subject |-> "value", key |-> k, amount |-> a, code |-> "none", benefit |-> "none"]
Coupon(k, a, b) == [subject |-> "coupon", key |-> k, amount |-> a, code |-> "x", benefit |-> b]

BenefitsValue == {"asset", "plan"}
PlanBenefit == {"plan"}
PointsValue == {Points1("a", 1), Points1("b", 1), Points1("b", 2)}
ValueValue == {Value1("a", 1)}
CouponsValue == {Coupon(k, a, b) : k \in {"c", "d"}, a \in {0, 1}, b \in BenefitsValue}
OrdersValue == PointsValue \cup ValueValue \cup CouponsValue
ScenariosValue == {{Points1("a", 1), Points1("b", 1)}, {Points1("a", 1), Points1("b", 2)},
                   {Points1("a", 1)} \cup ValueValue,
                   {Points1("b", 1), Points1("b", 2)},
                   {Coupon("c", 0, "asset"), Coupon("d", 0, "asset")},
                   {Coupon("c", 0, "asset"), Coupon("c", 1, "asset")}}
NoOrders == {}
=============================================================================

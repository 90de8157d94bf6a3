-------------------------- MODULE MCPurchaseOrder --------------------------
EXTENDS PurchaseOrder, TLC

CONSTANTS c1, c2
CallsValue == {c1, c2}
OrdersValue == 1 .. 3
NoOrders == {}
KindValue == "plan" :> "membership" @@ "quota" :> "quota" @@ "app" :> "template"
PricesValue == "plan" :> {1} @@ "quota" :> {1} @@ "app" :> {0, 1}
Request(i, k, m) == [item |-> i, key |-> k, method |-> m]
RequestsValue == {Request("plan", "a", "native"), Request("quota", "a", "native"),
                  Request("app", "a", "native"), Request("app", "b", "cashier")}
CallSymmetry == Permutations(CallsValue)
=============================================================================

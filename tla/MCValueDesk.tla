----------------------------- MODULE MCValueDesk -----------------------------
\* Three parts of the account value service: one owner's withdrawals, the
\* operators' catalogue, and what a points recharge costs and grants.  They
\* share no row, so each behaviour shows one of them at work.
EXTENDS Withdrawal, ValueCatalogue, RechargePricing, TLC

CONSTANTS m1, m2, m3, p1, p2, noPack

\* A package of code "a" is made and retired, or a plan is; and a third command.
Put(id, code, price) ==
  [op |-> "putPackage", id |-> id, code |-> code, status |-> "active", price |-> price]
PutPlan(price) == [op |-> "putPlan", code |-> "a", status |-> "active", price |-> price]
MCWorkloads ==
  {(m1 :> Put(NoId, "a", 1) @@ m2 :> [op |-> "retirePackage", id |-> p1] @@ m3 :> x) :
     x \in {Put(p1, "a", 2), Put(NoId, "a", 2), Put(NoId, "b", 1), Put(p1, "b", 2), PutPlan(2),
            [Put(p2, "b", 2) EXCEPT !.status = "retired"]}}
  \cup {(m1 :> PutPlan(1) @@ m2 :> [op |-> "retirePlan", code |-> "a"] @@ m3 :> PutPlan(2))}

\* Ten yuan at large, or the package at its price in another currency.
Ask(amount, cur, pack, product) ==
  [amount |-> amount, cur |-> cur, pack |-> pack, method |-> "alipay", product |-> product]
MCAsks == {Ask(<<10, 0>>, "CNY", noPack, "provider"), Ask(<<1050, 2>>, "USD", "small", "cashier"),
           [Ask(<<10, 0>>, "CNY", noPack, "provider") EXCEPT !.method = "cheque"]}
PackRow(scope, price, cur, bonus) == [scope |-> scope, price |-> price, cur |-> cur,
                                      bonus |-> bonus, active |-> TRUE, sku |-> TRUE]
MCPackRows == {PackRow("tenant", <<10, 0>>, "CNY", 2), PackRow("platform", <<105, 1>>, "USD", 0),
               [PackRow("platform", <<1000, 0>>, "CNY", 1) EXCEPT !.active = FALSE]}
MCRuleRows == {[base |-> 15, baseCur |-> "EUR", rates |-> [c \in {"USD"} |-> 65]]}

VARIABLE desk
deskVars == <<withdrawalVars, catalogueVars, pricingVars, desk>>

DeskInit == /\ WithdrawalInit
            /\ PricingInit
            /\ desk \in {"withdrawals", "catalogue", "pricing"}
            /\ CatalogueInit
            /\ desk # "catalogue" => says = CHOOSE w \in Workloads : TRUE
DeskNext ==
  \/ /\ desk = "withdrawals" /\ WithdrawalNext
     /\ UNCHANGED <<catalogueVars, pricingVars, desk>>
  \/ /\ desk = "catalogue" /\ CatalogueNext
     /\ UNCHANGED <<withdrawalVars, pricingVars, desk>>
  \/ /\ desk = "pricing" /\ PricingNext
     /\ UNCHANGED <<withdrawalVars, catalogueVars, desk>>
DeskSpec == DeskInit /\ [][DeskNext]_deskVars

DeskSymmetry == Permutations(Keys) \cup Permutations(Reviews)
=============================================================================

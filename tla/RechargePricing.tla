-------------------------- MODULE RechargePricing --------------------------
(***************************************************************************)
(* What a points recharge costs and what it grants: the exchange rule and  *)
(* the packages, the list the buyer reads, the order's item, the payload   *)
(* of each payment attempt, and the points credited in the end             *)
(* (postgres_recharge.rs, recharge_router.rs).  Rule and packages are      *)
(* written by other systems at any time.                                   *)
(*                                                                         *)
(* A price is a text: a number of digits and of decimals.  Without a       *)
(* decimal point the store reads it as minor units, the buyer means major  *)
(* ones.  Expiry and concurrent calls are RechargeOrder's.                 *)
(***************************************************************************)
EXTENDS Naturals, Sequences

CONSTANTS OrderKeys,  \* Idempotency-Keys of the buyer, one order each
          Asks,       \* requests: [amount : Text, cur, pack, method, product]
          Methods,    \* payment methods offered
          PackNames, PackRows,   \* packages and what a row of one may hold
          RuleRows,   \* exchange rules: [base, baseCur, rates]
          Products,   \* currencies the points product is sold in
          Scale,      \* parts of a point: 10^6 in the code
          NoPack, NoRule,
          MaxWrites, MaxAttempts, MaxDrops   \* bounds

Text == Nat \X {0, 1, 2}
Scopes == {"tenant", "platform"}

ASSUME PricingAssumption ==
  /\ Scale \in Nat \ {0}
  /\ \A a \in Asks : /\ a.amount \in Text /\ a.amount[1] > 0
                     /\ a.pack \in PackNames \cup {NoPack}
                     /\ a.product \in {"cashier", "provider"}
  /\ \A p \in PackRows : p.price \in Text /\ p.price[1] > 0 /\ p.bonus \in Nat /\ p.scope \in Scopes

VARIABLES rule, packs,  \* the catalogue
          writes,
          listed,       \* what the buyer last read of each package
          fresh,        \* nothing was written since
          asked,        \* the request of each key
          item,         \* the order of each key and the points on its item
          attempts,     \* per order, the payload of each payment attempt
          calling,      \* the buyer's call between order and payment
          drops,
          creditedPoints

pricingVars == <<rule, packs, writes, listed, fresh, asked, item, attempts, calling, drops,
                 creditedPoints>>

AtRest == [at |-> "rest"]
NoItem == [status |-> "none", points |-> 0, shown |-> 0]
NoPoints == 0   \* a payload without points reads as '0'
Payload(points, pack) == [points |-> points, pack |-> pack, silent |-> FALSE]
CashierPayload == [points |-> NoPoints, pack |-> NoPack, silent |-> TRUE]

PricingInit ==
  /\ rule \in [Scopes -> {NoRule}]
  /\ packs = [p \in PackNames |-> NoPack]
  /\ writes = 0 /\ drops = 0 /\ fresh = FALSE
  /\ listed = [p \in PackNames |-> 0]
  /\ asked = [k \in OrderKeys |-> NoPack]
  /\ item = [k \in OrderKeys |-> NoItem]
  /\ attempts = [k \in OrderKeys |-> <<>>]
  /\ calling = AtRest
  /\ creditedPoints = [k \in OrderKeys |-> 0]

-----------------------------------------------------------------------------
(* Prices.                                                                 *)

\* The router and the store's decimal prices.
money_cents(t) == t[1] * 10 ^ (2 - t[2])
MaxRechargeCents == 1000000
\* A stored price: minor units unless it has a decimal point.
normalize_money_minor_units(t) == IF t[2] = 0 THEN t[1] ELSE money_cents(t)

\* The texts of the stored prices an amount is looked up by.
decimal_sql_match_keys(cents) ==
  {<<cents, 0>>, <<cents, 2>>}
    \cup (IF cents % 10 = 0 THEN {<<cents \div 10, 1>>} ELSE {})
    \cup (IF cents % 100 = 0 THEN {<<cents \div 100, 0>>} ELSE {})

DefaultRates == [c \in {"CNY", "USD"} |-> IF c = "CNY" THEN Scale ELSE 7 * Scale]
DefaultSettings == [base |-> 10 * Scale, rates |-> DefaultRates]

Listing(rates, c) == IF c \in DOMAIN rates THEN rates
                     ELSE [x \in DOMAIN rates \cup {c} |-> IF x = c THEN Scale ELSE rates[x]]
map_settings_row(r) ==
  LET rates == IF DOMAIN r.rates = {} THEN DefaultRates ELSE r.rates
  IN [base |-> r.base, rates |-> Listing(Listing(rates, "CNY"), r.baseCur)]

\* The tenant's rule goes before the platform's.
EffectiveRule == IF rule["tenant"] # NoRule THEN rule["tenant"] ELSE rule["platform"]
Settings == IF EffectiveRule = NoRule THEN DefaultSettings ELSE map_settings_row(EffectiveRule)

round_divide(numerator, denominator) == (numerator + denominator \div 2) \div denominator
compute_grant_amount(cents, cur, bonus) ==
  LET s == Settings
      rate == IF cur \in DOMAIN s.rates THEN s.rates[cur] ELSE s.rates["CNY"]
  IN round_divide(cents * rate * s.base, 100 * Scale) + bonus * Scale

OnSale(scope) == {p \in PackNames : packs[p] # NoPack /\ packs[p].scope = scope /\ packs[p].active}
\* The platform's packages show only to a tenant without its own.
Offered == IF OnSale("tenant") # {} THEN OnSale("tenant") ELSE OnSale("platform")

\* Mutant: the digits of the stored price are taken for cents.
PackGrantOfDigits(p) == compute_grant_amount(packs[p].price[1], packs[p].cur, packs[p].bonus)

PackGrant(p) ==
  compute_grant_amount(normalize_money_minor_units(packs[p].price), packs[p].cur, packs[p].bonus)

-----------------------------------------------------------------------------
(* The catalogue and its list.                                             *)

\* Whatever administers rules and packages.
Administered == writes < MaxWrites /\ writes' = writes + 1 /\ fresh' = FALSE
WriteRule(s, r) == /\ Administered
                   /\ rule' = [rule EXCEPT ![s] = r]
                   /\ UNCHANGED <<packs, listed, asked, item, attempts, calling, drops, creditedPoints>>
WritePack(p, row) == /\ Administered
                     /\ packs' = [packs EXCEPT ![p] = row]
                     /\ UNCHANGED <<rule, listed, asked, item, attempts, calling, drops, creditedPoints>>

list_recharge_packages ==
  /\ listed' = [p \in PackNames |-> IF p \in Offered THEN PackGrant(p) ELSE 0]
  /\ fresh' = TRUE
  /\ UNCHANGED <<rule, packs, writes, asked, item, attempts, calling, drops, creditedPoints>>

-----------------------------------------------------------------------------
(* The buyer's order.                                                      *)

\* The package an order is for: the one it names, at that package's price, or
\* one whose price text matches.
Fits(a, p) == /\ packs[p].cur = a.cur
              /\ normalize_money_minor_units(packs[p].price) = money_cents(a.amount)
NamedPack(a) == {a.pack} \cap (OnSale("tenant") \cup OnSale("platform"))
Matching(a, scope) == {p \in OnSale(scope) :
                         /\ packs[p].cur = a.cur
                         /\ packs[p].price \in decimal_sql_match_keys(money_cents(a.amount))}
PackForAmount(a) == IF Matching(a, "tenant") # {} THEN Matching(a, "tenant")
                    ELSE Matching(a, "platform")
load_recharge_pack(a) ==
  IF a.pack # NoPack THEN {p \in NamedPack(a) : Fits(a, p)}
  ELSE IF PackForAmount(a) # {} THEN PackForAmount(a) ELSE {NoPack}

\* The sku of an order: its package's, or the points product in its currency.
Sold(a, p) == IF p = NoPack THEN a.cur \in Products ELSE packs[p].sku

Granted(a, p) == compute_grant_amount(money_cents(a.amount), a.cur,
                                      IF p = NoPack THEN 0 ELSE packs[p].bonus)

Latest(k) == attempts[k][Len(attempts[k])]

\* Mutant: what the order grants is worked out again.
CheckoutPointsOfToday(k) ==
  IF attempts[k] = <<>> THEN NoPoints ELSE Granted(asked[k], asked[k].pack)

\* The points a checkout of an existing order shows: those of its latest attempt.
CheckoutPoints(k) == IF attempts[k] = <<>> THEN NoPoints ELSE Latest(k).points

\* Another open order of the same price, package and points, with a payment begun.
Reusable(a, p, points) ==
  {j \in OrderKeys :
     /\ item[j].status = "pending_payment"
     /\ money_cents(asked[j].amount) = money_cents(a.amount) /\ asked[j].cur = a.cur
     /\ \E i \in DOMAIN attempts[j] : attempts[j][i].points = points /\ attempts[j][i].pack = p}

\* The call goes on to the payment, or leaves it to the cashier.
Proceed(k, points, a) ==
  calling' = IF a.product = "cashier" THEN AtRest
             ELSE [at |-> "pay", order |-> k, points |-> points, pack |-> a.pack]

NewItem(a, points) == [status |-> "pending_payment", points |-> points,
                       shown |-> IF fresh /\ a.pack # NoPack THEN listed[a.pack] ELSE 0]

\* The buyer's request, first or repeated.
Replay(k) == /\ item[k].status # "none"
             /\ Proceed(k, CheckoutPoints(k), asked[k])
             /\ UNCHANGED <<asked, item>>
Create(k, a) ==
  /\ item[k].status = "none"
  /\ money_cents(a.amount) <= MaxRechargeCents
  /\ asked' = [asked EXCEPT ![k] = a]
  /\ \E p \in load_recharge_pack(a) :
       LET points == Granted(a, p)
           reusable == Reusable(a, p, points)
       IN IF reusable # {}
          THEN /\ \E j \in reusable : Proceed(j, points, a)
               /\ UNCHANGED item
          ELSE /\ a.method \in Methods
               /\ Sold(a, p)
               /\ item' = [item EXCEPT ![k] = NewItem(a, points)]
               /\ Proceed(k, points, a)

create_points_recharge_order(k, a) ==
  /\ calling = AtRest
  /\ asked[k] \in {NoPack, a}
  /\ Replay(k) \/ Create(k, a)
  /\ UNCHANGED <<rule, packs, writes, listed, fresh, attempts, drops, creditedPoints>>

\* The payment provider takes the attempt if the order is still open ...
Attempt(k, payload) == /\ item[k].status = "pending_payment"
                       /\ Len(attempts[k]) < MaxAttempts
                       /\ attempts' = [attempts EXCEPT ![k] = Append(@, payload)]
PayOrder == /\ calling # AtRest
            /\ Attempt(calling.order, Payload(calling.points, calling.pack))
            /\ calling' = AtRest
            /\ UNCHANGED <<rule, packs, writes, listed, fresh, asked, item, drops, creditedPoints>>
\* ... or it does not, and the order is cancelled.
PayFails == /\ calling # AtRest
            /\ item' = [item EXCEPT ![calling.order].status =
                          IF @ = "pending_payment" THEN "cancelled" ELSE @]
            /\ calling' = AtRest
            /\ UNCHANGED <<rule, packs, writes, listed, fresh, asked, attempts, drops, creditedPoints>>

\* Paying an open order from the order page: a payload without points.
PayAtCashier(k) ==
  /\ Attempt(k, CashierPayload)
  /\ UNCHANGED <<rule, packs, writes, listed, fresh, asked, item, calling, drops, creditedPoints>>

\* The server stops between order and payment.
DropCall == /\ calling # AtRest /\ drops < MaxDrops
            /\ drops' = drops + 1
            /\ calling' = AtRest
            /\ UNCHANGED <<rule, packs, writes, listed, fresh, asked, item, attempts, creditedPoints>>

-----------------------------------------------------------------------------
(* Payment and credit.                                                     *)

Collect(k) == /\ item[k].status = "pending_payment" /\ attempts[k] # <<>>
              /\ item' = [item EXCEPT ![k].status = "paid"]
              /\ UNCHANGED <<rule, packs, writes, listed, fresh, asked, attempts, calling, drops,
                             creditedPoints>>

\* The latest attempt's payload, or the item when it says nothing.
ContextPoints(k) == IF Latest(k).silent THEN item[k].points ELSE Latest(k).points

Fulfill(k) == /\ item[k].status = "paid"
              /\ ContextPoints(k) > 0
              /\ item' = [item EXCEPT ![k].status = "fulfilled"]
              /\ creditedPoints' = [creditedPoints EXCEPT ![k] = ContextPoints(k)]
              /\ UNCHANGED <<rule, packs, writes, listed, fresh, asked, attempts, calling, drops>>

PricingNext ==
  \/ \E s \in Scopes, r \in RuleRows : WriteRule(s, r)
  \/ \E p \in PackNames, row \in PackRows : WritePack(p, row)
  \/ list_recharge_packages
  \/ \E k \in OrderKeys : \/ \E a \in Asks : create_points_recharge_order(k, a)
                          \/ PayAtCashier(k) \/ Collect(k) \/ Fulfill(k)
  \/ PayOrder \/ PayFails \/ DropCall

PricingSpec == PricingInit /\ [][PricingNext]_pricingVars

-----------------------------------------------------------------------------
(* Properties.                                                             *)

\* What is credited is what the order was created for, whatever happened to
\* rule and packages meanwhile and however often the request was repeated.
CreditIsTheGrant ==
  \A k \in OrderKeys : creditedPoints[k] # 0 => creditedPoints[k] = item[k].points

\* An order of a package, made while the list the buyer read still stands,
\* grants what the list showed.
ShownIsGranted == \A k \in OrderKeys : item[k].shown # 0 => item[k].points = item[k].shown
=============================================================================

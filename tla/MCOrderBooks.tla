---------------------------- MODULE MCOrderBooks ----------------------------
(* The two books an order is kept in.  OrderLifecycle is the row, whatever   *)
(* store method is called: one physical and one points order, for Next never *)
(* relates two orders.  Inventory is the stock: three orders over two skus,  *)
(* sku k1 in two places, and too little of it for all the orders.  They      *)
(* share no state here, so each behaviour shows one book; PhysicalOrder puts *)
(* them together.                                                            *)
EXTENDS OrderLifecycle, Inventory

CONSTANTS o1, o2, o3, k1, k2, s1, s2, s3

MCLines == {<<o1, k1>>, <<o1, k2>>, <<o2, k1>>, <<o3, k1>>, <<o3, k2>>}
MCLineOrder == [l \in MCLines |-> l[1]]
MCLineSku == [l \in MCLines |-> l[2]]
MCQuantity == [l \in MCLines |-> IF l = <<o2, k1>> THEN 2 ELSE 1]
MCStockSku == [s \in {s1, s2, s3} |-> IF s = s3 THEN k2 ELSE k1]
MCInitialStock == [s \in {s1, s2, s3} |-> IF s = s2 THEN 2 ELSE 3]
MCSafetyStock == [s \in {s1, s2, s3} |-> IF s = s2 THEN 0 ELSE 1]

VARIABLE book
booksVars == <<vars, inventoryVars, book>>

BooksInit == Init /\ InventoryInit /\ book \in {"row", "stock"}
BooksNext == \/ book = "row" /\ Next /\ UNCHANGED <<inventoryVars, book>>
             \/ book = "stock" /\ InventoryNext /\ UNCHANGED <<vars, book>>
\* Where the row is at work no stock action is ever enabled that fairness asks for.
BooksSpec == BooksInit /\ [][BooksNext]_booksVars /\ InventoryFairness
=============================================================================

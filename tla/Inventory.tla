------------------------------ MODULE Inventory ------------------------------
(***************************************************************************)
(* Stock and reservations of physical orders                               *)
(* (sdkwork-order-integration-physical-commerce/src/inventory.rs).  A line *)
(* is an order's reservation row: one sku, one quantity, and, once         *)
(* reserved, one stock record.  Each operation is one transaction over all *)
(* the lines of an order; it changes every line it has to or, on an error, *)
(* none, so an operation the code refuses is an action that is not         *)
(* enabled.                                                                *)
(*                                                                         *)
(* The mutations find the stock record by sku, warehouse and node; the     *)
(* model takes these three to identify it.                                 *)
(***************************************************************************)
EXTENDS Integers, FiniteSets

CONSTANTS Lines,      \* reservation rows of all orders
          LineOrder,  \* the order of each line
          LineSku,    \* its sku: distinct within an order
          Quantity,   \* its quantity
          Stocks,     \* stock records
          StockSku,   \* the sku of each
          InitialStock, SafetyStock

\* validate_reserve_request: positive quantities, no sku twice in an order.
ASSUME LinesAssumption ==
  /\ IsFiniteSet(Lines)
  /\ Quantity \in [Lines -> Nat \ {0}]
  /\ StockSku \in [Stocks -> {LineSku[l] : l \in Lines}]
  /\ \A l, m \in Lines :
       LineOrder[l] = LineOrder[m] /\ LineSku[l] = LineSku[m] => l = m
ASSUME StockAssumption == /\ Stocks # {}
                          /\ InitialStock \in [Stocks -> Nat]
                          /\ SafetyStock \in [Stocks -> Nat]

VARIABLES available, reserved, sold,  \* the three quantities of a stock record
          line,                       \* status of a reservation row
          source,                     \* the stock record it was taken from
          lapsed,                     \* rows whose expires_at has passed
          sweeping                    \* orders a running sweep has listed

stockVars == <<available, reserved, sold>>
inventoryVars == <<stockVars, line, source, lapsed, sweeping>>

LineStatus == {"none", "reserved", "consumed", "released", "restocked"}
LinesOf(o) == {l \in Lines : LineOrder[l] = o}
Customers == {LineOrder[l] : l \in Lines}

InventoryTypeOK == /\ available \in [Stocks -> Int]
                   /\ reserved \in [Stocks -> Int]
                   /\ sold \in [Stocks -> Int]
                   /\ line \in [Lines -> LineStatus]
                   /\ source \in [Lines -> Stocks]
                   /\ lapsed \subseteq Lines
                   /\ sweeping \subseteq Customers

\* The source of a row that is not there yet is not looked at.
InventoryInit == /\ available = InitialStock
                 /\ reserved = [s \in Stocks |-> 0]
                 /\ sold = [s \in Stocks |-> 0]
                 /\ line = [l \in Lines |-> "none"]
                 /\ source = [l \in Lines |-> CHOOSE s \in Stocks : TRUE]
                 /\ lapsed = {}
                 /\ sweeping = {}

\* The quantity the lines in L have at s: at most one line of an order has the
\* sku of s.
QuantityAt(L, from, s) ==
  IF \E l \in L : from[l] = s THEN Quantity[CHOOSE l \in L : from[l] = s] ELSE 0

Add(counter, L, s) == counter[s] + QuantityAt(L, source, s)
Take(counter, L, s) == counter[s] - QuantityAt(L, source, s)

InStatus(o, st) == {l \in LinesOf(o) : line[l] = st}
SetStatus(L, st) == line' = [l \in Lines |-> IF l \in L THEN st ELSE line[l]]

-----------------------------------------------------------------------------
(* The transactions.                                                       *)

\* A stock record the SELECT ... FOR UPDATE may return for line l.  It prefers
\* the largest, but by the time it has the lock another may be larger.
Eligible(l, s) == /\ StockSku[s] = LineSku[l]
                  /\ available[s] - SafetyStock[s] >= Quantity[l]

Unreserved(o) == \A l \in LinesOf(o) : line[l] = "none"

\* Mutant: the lines that can be reserved are, the others wait.
ReservePart(o) ==
  \E L \in SUBSET LinesOf(o) \ {{}} :
    /\ Unreserved(o)
    /\ \E from \in [L -> Stocks] :
         /\ \A l \in L : Eligible(l, from[l])
         /\ available' = [s \in Stocks |-> available[s] - QuantityAt(L, from, s)]
         /\ reserved' = [s \in Stocks |-> reserved[s] + QuantityAt(L, from, s)]
         /\ source' = [l \in Lines |-> IF l \in L THEN from[l] ELSE source[l]]
    /\ SetStatus(L, "reserved")
    /\ UNCHANGED <<sold, lapsed, sweeping>>

ReserveOrder(o) ==
  /\ LinesOf(o) # {}
  /\ Unreserved(o)
  /\ \E from \in [LinesOf(o) -> Stocks] :
       /\ \A l \in LinesOf(o) : Eligible(l, from[l])
       /\ available' = [s \in Stocks |-> available[s] - QuantityAt(LinesOf(o), from, s)]
       /\ reserved' = [s \in Stocks |-> reserved[s] + QuantityAt(LinesOf(o), from, s)]
       /\ source' = [l \in Lines |-> IF l \in LinesOf(o) THEN from[l] ELSE source[l]]
  /\ SetStatus(LinesOf(o), "reserved")
  /\ UNCHANGED <<sold, lapsed, sweeping>>

\* mutate_stock: refuses to take more than the record has reserved.
StockCovers(L) == \A l \in L : reserved[source[l]] >= Quantity[l]

\* Mutant: a repeated consumption moves the stock again.
ConsumeAgain(o) ==
  LET moved == LinesOf(o) IN
  /\ moved # {}
  /\ \A l \in moved : line[l] \in {"reserved", "consumed"}
  /\ StockCovers(moved)
  /\ reserved' = [s \in Stocks |-> Take(reserved, moved, s)]
  /\ sold' = [s \in Stocks |-> Add(sold, moved, s)]
  /\ SetStatus(moved, "consumed")
  /\ UNCHANGED <<available, source, lapsed, sweeping>>

ConsumeOrder(o) ==
  LET moved == InStatus(o, "reserved") IN
  /\ moved # {}
  /\ \A l \in LinesOf(o) : line[l] \in {"reserved", "consumed"}
  /\ StockCovers(moved)
  /\ reserved' = [s \in Stocks |-> Take(reserved, moved, s)]
  /\ sold' = [s \in Stocks |-> Add(sold, moved, s)]
  /\ SetStatus(moved, "consumed")
  /\ UNCHANGED <<available, source, lapsed, sweeping>>

\* Mutant: a reservation that has expired is taken for gone.
ReleaseChangesUnlapsed(o) ==
  /\ InStatus(o, "reserved") \ lapsed # {}
  /\ StockCovers(InStatus(o, "reserved"))

ReleaseChanges(o) ==
  /\ InStatus(o, "reserved") # {}
  /\ \A l \in LinesOf(o) : line[l] \in {"reserved", "released", "consumed"}
  /\ StockCovers(InStatus(o, "reserved"))

ReleaseOrder(o) ==
  LET moved == InStatus(o, "reserved") IN
  /\ ReleaseChanges(o)
  /\ reserved' = [s \in Stocks |-> Take(reserved, moved, s)]
  /\ available' = [s \in Stocks |-> Add(available, moved, s)]
  /\ SetStatus(moved, "released")
  /\ UNCHANGED <<sold, source, lapsed>>

\* restock_stock: unlike mutate_stock it does not look at the number of updated
\* rows, so the row becomes restocked even when the stock was not moved.
RestockOrder(o) ==
  LET moved == InStatus(o, "consumed")
      booked == {l \in moved : sold[source[l]] >= Quantity[l]} IN
  /\ moved # {}
  /\ \A l \in LinesOf(o) : line[l] \in {"consumed", "restocked", "released"}
  /\ sold' = [s \in Stocks |-> Take(sold, booked, s)]
  /\ available' = [s \in Stocks |-> Add(available, booked, s)]
  /\ SetStatus(moved, "restocked")
  /\ UNCHANGED <<reserved, source, lapsed, sweeping>>

-----------------------------------------------------------------------------
(* Time and the sweep.                                                     *)

\* expires_at of the order's rows, written together, passes.
Lapse(o) ==
  /\ InStatus(o, "reserved") \ lapsed # {}
  /\ lapsed' = lapsed \cup LinesOf(o)
  /\ UNCHANGED <<stockVars, line, source, sweeping>>

\* sweep_expired_reservations lists the orders, holding no lock ...
SweepList ==
  /\ sweeping = {}
  /\ sweeping' = {LineOrder[l] : l \in {m \in lapsed : line[m] = "reserved"}}
  /\ sweeping' # {}
  /\ UNCHANGED <<stockVars, line, source, lapsed>>

\* ... and releases them one by one; a release with nothing to do or in error
\* is passed over.
SweepRelease(o) ==
  /\ o \in sweeping
  /\ sweeping' = sweeping \ {o}
  /\ \/ ReleaseOrder(o)
     \/ /\ ~ReleaseChanges(o)
        /\ UNCHANGED <<stockVars, line, source, lapsed>>

\* The process stops in the middle of a sweep.
SweepCrash ==
  /\ sweeping # {}
  /\ sweeping' = {}
  /\ UNCHANGED <<stockVars, line, source, lapsed>>

InventoryNext ==
  \/ \E o \in Customers : \/ ReserveOrder(o)
                          \/ ConsumeOrder(o)
                          \/ ReleaseOrder(o) /\ UNCHANGED sweeping
                          \/ RestockOrder(o)
                          \/ Lapse(o)
                          \/ SweepRelease(o)
  \/ SweepList
  \/ SweepCrash

InventorySpec == InventoryInit /\ [][InventoryNext]_inventoryVars

-----------------------------------------------------------------------------
(* Safety.                                                                 *)

\* The pieces that the rows in status st have at stock record s.
Pieces(st, s) ==
  {p \in UNION {{l} \X (1..Quantity[l]) : l \in Lines} :
     line[p[1]] = st /\ source[p[1]] = s}

\* The counters of a stock record are what its reservation rows say: no
\* interleaving of reserve, consume, release, restock and sweep, and no retry
\* of any of them, moves a piece twice or loses one.
CountersMatchRows ==
  \A s \in Stocks : /\ reserved[s] = Cardinality(Pieces("reserved", s))
                    /\ sold[s] = Cardinality(Pieces("consumed", s))

\* Nothing appears or disappears.
StockIsConserved ==
  \A s \in Stocks : available[s] + reserved[s] + sold[s] = InitialStock[s]

\* Reservations never dig into the safety stock.
SafetyStockIsKept ==
  \A s \in Stocks : available[s] >= SafetyStock[s] \/ available[s] = InitialStock[s]

\* The rows of an order are reserved, sold, released and returned together: no
\* order is partly sold and partly released.
OrderMovesAsOne ==
  \A l, m \in Lines : LineOrder[l] = LineOrder[m] => line[l] = line[m]

\* "consumed stock cannot be released", and what was released or returned stays
\* so: a row moves forward only.
RowsMoveForward ==
  [][\A l \in Lines :
       line'[l] # line[l] =>
         <<line[l], line'[l]>> \in {<<"none", "reserved">>, <<"reserved", "consumed">>,
                                   <<"reserved", "released">>, <<"consumed", "restocked">>}
    ]_inventoryVars

-----------------------------------------------------------------------------
(* Liveness.                                                               *)

\* The scheduler comes round, and a running sweep goes on unless it crashes.
InventoryFairness ==
  /\ SF_inventoryVars(SweepList)
  /\ \A o \in Customers : SF_inventoryVars(SweepRelease(o))

FairInventorySpec == InventorySpec /\ InventoryFairness

\* A reservation that has expired does not hold its stock for ever, even if
\* every other release failed and sweeps crash.
LapsedStockReturns ==
  \A l \in Lines : (l \in lapsed /\ line[l] = "reserved") ~> line[l] # "reserved"
=============================================================================

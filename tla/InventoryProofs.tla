--------------------------- MODULE InventoryProofs ---------------------------
(***************************************************************************)
(* The safety of Inventory for all orders, lines, quantities and stocks.   *)
(* The inductive invariant adds to the properties that no counter is ever  *)
(* negative: it is what keeps a release from lifting a stock that started  *)
(* below its safety level to something between the two.                    *)
(***************************************************************************)
EXTENDS Inventory, FiniteSetTheorems, TLAPS

CountersAreNatural == \A s \in Stocks : reserved[s] >= 0 /\ sold[s] >= 0

InventoryIInv == /\ InventoryTypeOK
                 /\ StockIsConserved
                 /\ CountersAreNatural
                 /\ OrderMovesAsOne
                 /\ SafetyStockIsKept

\* An order's lines take a natural quantity from a stock record.
LEMMA QuantityAtType ==
  ASSUME NEW L \in SUBSET Lines, NEW from, NEW s
  PROVE  QuantityAt(L, from, s) \in Nat
  BY LinesAssumption DEF QuantityAt

\* What covers every line covers what they have at one record: it is one line.
LEMMA QuantityAtCovered ==
  ASSUME NEW L \in SUBSET Lines, NEW from, NEW s, NEW bound \in Nat,
         \A l \in L : from[l] = s => Quantity[l] <= bound
  PROVE  QuantityAt(L, from, s) <= bound
  BY LinesAssumption DEF QuantityAt

LEMMA InventoryInitIInv == InventoryInit => InventoryIInv
  BY StockAssumption
  DEF InventoryInit, InventoryIInv, InventoryTypeOK, StockIsConserved,
      CountersAreNatural, OrderMovesAsOne, SafetyStockIsKept, LineStatus

LEMMA ReserveOrderIInv ==
  ASSUME InventoryIInv, NEW o \in Customers, ReserveOrder(o)
  PROVE  InventoryIInv'
  <1>1. PICK from \in [LinesOf(o) -> Stocks] :
          /\ \A l \in LinesOf(o) : Eligible(l, from[l])
          /\ available' = [s \in Stocks |-> available[s] - QuantityAt(LinesOf(o), from, s)]
          /\ reserved' = [s \in Stocks |-> reserved[s] + QuantityAt(LinesOf(o), from, s)]
          /\ source' = [l \in Lines |-> IF l \in LinesOf(o) THEN from[l] ELSE source[l]]
    BY DEF ReserveOrder
  <1>2. LinesOf(o) \in SUBSET Lines
    BY DEF LinesOf
  <1>3. \A s \in Stocks : QuantityAt(LinesOf(o), from, s) \in Nat
    BY <1>2, QuantityAtType
  <1>4. InventoryTypeOK'
    BY <1>1, <1>2, <1>3
    DEF InventoryIInv, InventoryTypeOK, ReserveOrder, SetStatus, LineStatus
  <1>5. StockIsConserved' /\ CountersAreNatural'
    BY <1>1, <1>3 DEF InventoryIInv, InventoryTypeOK, StockIsConserved, CountersAreNatural,
                      ReserveOrder
  <1>6. OrderMovesAsOne'
    BY DEF InventoryIInv, OrderMovesAsOne, ReserveOrder, SetStatus, LinesOf
  <1>7. SafetyStockIsKept'
    <2>1. ASSUME NEW s \in Stocks
          PROVE  available'[s] >= SafetyStock[s] \/ available'[s] = available[s]
      <3>1. CASE \E l \in LinesOf(o) : from[l] = s
        <4>1. PICK l \in LinesOf(o) :
                from[l] = s /\ QuantityAt(LinesOf(o), from, s) = Quantity[l]
          BY <3>1 DEF QuantityAt
        <4>2. available[s] - SafetyStock[s] >= Quantity[l]
          BY <1>1, <4>1 DEF Eligible
        <4>3. available'[s] = available[s] - Quantity[l]
          BY <1>1, <4>1
        <4>4. Quantity[l] \in Nat /\ SafetyStock[s] \in Nat /\ available[s] \in Int
          BY <1>2, LinesAssumption, StockAssumption DEF InventoryIInv, InventoryTypeOK
        <4>5. QED
          BY <4>2, <4>3, <4>4
      <3>2. CASE ~ \E l \in LinesOf(o) : from[l] = s
        BY <1>1, <3>2 DEF QuantityAt, InventoryIInv, InventoryTypeOK
      <3>3. QED
        BY <3>1, <3>2
    <2>2. QED
      BY <2>1 DEF InventoryIInv, SafetyStockIsKept
  <1>8. QED
    BY <1>4, <1>5, <1>6, <1>7 DEF InventoryIInv

\* What a group of lines that a counter covers can be taken from it.
LEMMA TakeIsNatural ==
  ASSUME NEW counter \in [Stocks -> Int], NEW L \in SUBSET Lines, NEW s \in Stocks,
         counter[s] >= 0, \A l \in L : counter[source[l]] >= Quantity[l]
  PROVE  Take(counter, L, s) \in Int /\ Take(counter, L, s) >= 0
  <1>1. \A l \in L : source[l] = s => Quantity[l] <= counter[s]
    BY LinesAssumption
  <1>2. QuantityAt(L, source, s) <= counter[s]
    BY <1>1, QuantityAtCovered
  <1>3. QuantityAt(L, source, s) \in Nat
    BY QuantityAtType
  <1>4. QED
    BY <1>2, <1>3 DEF Take

LEMMA ConsumeOrderIInv ==
  ASSUME InventoryIInv, NEW o \in Customers, ConsumeOrder(o)
  PROVE  InventoryIInv'
  <1> DEFINE moved == InStatus(o, "reserved")
  <1>1. moved \in SUBSET Lines
    BY DEF InStatus, LinesOf
  <1>2. \A s \in Stocks : QuantityAt(moved, source, s) \in Nat
    BY <1>1, QuantityAtType
  <1>3. InventoryTypeOK'
    BY <1>1, <1>2
    DEF InventoryIInv, InventoryTypeOK, ConsumeOrder, SetStatus, LineStatus, Take, Add
  <1>4. StockIsConserved'
    BY <1>2
    DEF InventoryIInv, InventoryTypeOK, StockIsConserved, ConsumeOrder, Take, Add
  <1>5. CountersAreNatural'
    <2>1. \A s \in Stocks : Take(reserved, moved, s) >= 0
      BY <1>1, TakeIsNatural
      DEF InventoryIInv, InventoryTypeOK, CountersAreNatural, ConsumeOrder, StockCovers
    <2>2. QED
      BY <1>2, <2>1
      DEF InventoryIInv, InventoryTypeOK, CountersAreNatural, ConsumeOrder, Add
  <1>6. OrderMovesAsOne'
    BY DEF InventoryIInv, InventoryTypeOK, OrderMovesAsOne, ConsumeOrder, SetStatus,
           InStatus, LinesOf
  <1>7. SafetyStockIsKept'
    BY DEF InventoryIInv, SafetyStockIsKept, ConsumeOrder
  <1>8. QED
    BY <1>3, <1>4, <1>5, <1>6, <1>7 DEF InventoryIInv

\* Giving stock back keeps SafetyStockIsKept: the record is at its safety level,
\* or it has everything it began with and there is nothing to give back.
LEMMA GivingBackIsSafe ==
  ASSUME InventoryIInv, NEW L \in SUBSET Lines, NEW s \in Stocks,
         QuantityAt(L, source, s) <= reserved[s] + sold[s]
  PROVE  LET a == available[s] + QuantityAt(L, source, s) IN
           a >= SafetyStock[s] \/ a = InitialStock[s]
  <1>1. QuantityAt(L, source, s) \in Nat
    BY QuantityAtType
  <1>2. /\ available[s] \in Int /\ reserved[s] \in Int /\ sold[s] \in Int
        /\ SafetyStock[s] \in Nat /\ InitialStock[s] \in Nat
    BY StockAssumption DEF InventoryIInv, InventoryTypeOK
  <1>3. /\ available[s] + reserved[s] + sold[s] = InitialStock[s]
        /\ available[s] >= SafetyStock[s] \/ available[s] = InitialStock[s]
    BY DEF InventoryIInv, StockIsConserved, SafetyStockIsKept
  <1>4. QED
    BY <1>1, <1>2, <1>3

LEMMA ReleaseOrderIInv ==
  ASSUME InventoryIInv, NEW o \in Customers, ReleaseOrder(o),
         sweeping' \subseteq sweeping
  PROVE  InventoryIInv'
  <1> DEFINE moved == InStatus(o, "reserved")
  <1>1. moved \in SUBSET Lines
    BY DEF InStatus, LinesOf
  <1>2. \A s \in Stocks : QuantityAt(moved, source, s) \in Nat
    BY <1>1, QuantityAtType
  <1>3. InventoryTypeOK'
    BY <1>1, <1>2
    DEF InventoryIInv, InventoryTypeOK, ReleaseOrder, SetStatus, LineStatus, Take, Add
  <1>4. StockIsConserved'
    BY <1>2
    DEF InventoryIInv, InventoryTypeOK, StockIsConserved, ReleaseOrder, Take, Add
  <1>5. \A s \in Stocks : Take(reserved, moved, s) >= 0
    BY <1>1, TakeIsNatural
    DEF InventoryIInv, InventoryTypeOK, CountersAreNatural, ReleaseOrder, ReleaseChanges,
        StockCovers
  <1>6. CountersAreNatural'
    BY <1>5 DEF InventoryIInv, CountersAreNatural, ReleaseOrder
  <1>7. OrderMovesAsOne'
    BY DEF InventoryIInv, InventoryTypeOK, OrderMovesAsOne, ReleaseOrder, ReleaseChanges,
           SetStatus, InStatus, LinesOf
  <1>8. SafetyStockIsKept'
    <2>1. ASSUME NEW s \in Stocks
          PROVE  QuantityAt(moved, source, s) <= reserved[s] + sold[s]
      <3>1. reserved[s] \in Int /\ sold[s] \in Int /\ sold[s] >= 0
        BY DEF InventoryIInv, InventoryTypeOK, CountersAreNatural
      <3>2. QED
        BY <1>2, <1>5, <3>1 DEF Take
    <2>2. \A s \in Stocks : available'[s] = available[s] + QuantityAt(moved, source, s)
      BY DEF ReleaseOrder, Add
    <2>3. QED
      BY <1>1, <2>1, <2>2, GivingBackIsSafe DEF SafetyStockIsKept
  <1>9. QED
    BY <1>3, <1>4, <1>6, <1>7, <1>8 DEF InventoryIInv

LEMMA RestockOrderIInv ==
  ASSUME InventoryIInv, NEW o \in Customers, RestockOrder(o)
  PROVE  InventoryIInv'
  <1> DEFINE moved == InStatus(o, "consumed")
             booked == {l \in moved : sold[source[l]] >= Quantity[l]}
  <1>1. moved \in SUBSET Lines /\ booked \in SUBSET Lines
    BY DEF InStatus, LinesOf
  <1>2. \A s \in Stocks : QuantityAt(booked, source, s) \in Nat
    BY <1>1, QuantityAtType
  <1>3. InventoryTypeOK'
    BY <1>1, <1>2
    DEF InventoryIInv, InventoryTypeOK, RestockOrder, SetStatus, LineStatus, Take, Add
  <1>4. StockIsConserved'
    BY <1>2
    DEF InventoryIInv, InventoryTypeOK, StockIsConserved, RestockOrder, Take, Add
  <1>5. \A s \in Stocks : Take(sold, booked, s) >= 0
    BY <1>1, TakeIsNatural DEF InventoryIInv, InventoryTypeOK, CountersAreNatural
  <1>6. CountersAreNatural'
    BY <1>5 DEF InventoryIInv, CountersAreNatural, RestockOrder
  <1>7. OrderMovesAsOne'
    BY DEF InventoryIInv, InventoryTypeOK, OrderMovesAsOne, RestockOrder,
           SetStatus, InStatus, LinesOf
  <1>8. SafetyStockIsKept'
    <2>1. ASSUME NEW s \in Stocks
          PROVE  QuantityAt(booked, source, s) <= reserved[s] + sold[s]
      <3>1. reserved[s] \in Int /\ sold[s] \in Int /\ reserved[s] >= 0
        BY DEF InventoryIInv, InventoryTypeOK, CountersAreNatural
      <3>2. QED
        BY <1>2, <1>5, <3>1 DEF Take
    <2>2. \A s \in Stocks : available'[s] = available[s] + QuantityAt(booked, source, s)
      BY DEF RestockOrder, Add
    <2>3. QED
      BY <1>1, <2>1, <2>2, GivingBackIsSafe DEF SafetyStockIsKept
  <1>9. QED
    BY <1>3, <1>4, <1>6, <1>7, <1>8 DEF InventoryIInv

\* Steps that change neither stock nor rows.
LEMMA QuietStepIInv ==
  ASSUME InventoryIInv, UNCHANGED <<stockVars, line, source>>,
         lapsed' \subseteq Lines, sweeping' \subseteq Customers
  PROVE  InventoryIInv'
  BY DEF InventoryIInv, InventoryTypeOK, StockIsConserved, CountersAreNatural,
         OrderMovesAsOne, SafetyStockIsKept, stockVars

LEMMA InventoryNextIInv == InventoryIInv /\ [InventoryNext]_inventoryVars => InventoryIInv'
  <1> SUFFICES ASSUME InventoryIInv, [InventoryNext]_inventoryVars PROVE InventoryIInv'
    OBVIOUS
  <1>1. lapsed \subseteq Lines /\ sweeping \subseteq Customers
    BY DEF InventoryIInv, InventoryTypeOK
  <1>2. CASE UNCHANGED inventoryVars
    BY <1>1, <1>2, QuietStepIInv DEF inventoryVars
  <1>3. ASSUME NEW o \in Customers, ReleaseOrder(o) /\ UNCHANGED sweeping
        PROVE  InventoryIInv'
    BY <1>3, ReleaseOrderIInv
  <1>4. ASSUME NEW o \in Customers, Lapse(o) PROVE InventoryIInv'
    BY <1>1, <1>4, QuietStepIInv DEF Lapse, LinesOf
  <1>5. ASSUME NEW o \in Customers, SweepRelease(o) PROVE InventoryIInv'
    <2>1. sweeping' \subseteq sweeping
      BY <1>5 DEF SweepRelease
    <2>2. CASE ReleaseOrder(o)
      BY <2>1, <2>2, ReleaseOrderIInv
    <2>3. CASE UNCHANGED <<stockVars, line, source, lapsed>>
      BY <1>1, <2>1, <2>3, QuietStepIInv
    <2>4. QED
      BY <1>5, <2>2, <2>3 DEF SweepRelease
  <1>6. CASE SweepList
    <2>1. sweeping' \subseteq Customers
      BY <1>1, <1>6 DEF SweepList, Customers
    <2>2. QED
      BY <1>1, <1>6, <2>1, QuietStepIInv DEF SweepList
  <1>7. CASE SweepCrash
    BY <1>1, <1>7, QuietStepIInv DEF SweepCrash
  <1>8. QED
    BY <1>2, <1>3, <1>4, <1>5, <1>6, <1>7, ReserveOrderIInv, ConsumeOrderIInv,
       RestockOrderIInv DEF InventoryNext

\* The invariant of the whole module.
THEOREM InventoryInvariant == InventorySpec => []InventoryIInv
  BY InventoryInitIInv, InventoryNextIInv, PTL DEF InventorySpec

\* Types: the counters are integers, the rows in one of their five states.
THEOREM InventoryTypeCorrect == InventorySpec => []InventoryTypeOK
  BY InventoryInvariant, PTL DEF InventoryIInv

\* No stock appears or disappears, however the operations of all the orders,
\* their retries and the sweep interleave.
THEOREM StockConserved == InventorySpec => []StockIsConserved
  BY InventoryInvariant, PTL DEF InventoryIInv

\* No reservation ever takes a stock record below its safety level.
THEOREM SafetyStockKept == InventorySpec => []SafetyStockIsKept
  BY InventoryInvariant, PTL DEF InventoryIInv

\* The rows of an order are always all in the same state.
THEOREM OrderAtomicity == InventorySpec => []OrderMovesAsOne
  BY InventoryInvariant, PTL DEF InventoryIInv

\* A row never goes back: what was sold is not released, what was released is
\* not sold, and a return happens once.
THEOREM RowsForward == InventorySpec => RowsMoveForward
  <1> DEFINE Forward ==
        \A l \in Lines :
          line'[l] # line[l] =>
            <<line[l], line'[l]>> \in {<<"none", "reserved">>, <<"reserved", "consumed">>,
                                      <<"reserved", "released">>, <<"consumed", "restocked">>}
  <1>1. ASSUME InventoryTypeOK, [InventoryNext]_inventoryVars PROVE Forward
    <2>1. CASE UNCHANGED line
      BY <2>1
    <2>2. ASSUME NEW o \in Customers, ReserveOrder(o) PROVE Forward
      BY <1>1, <2>2 DEF InventoryTypeOK, ReserveOrder, Unreserved, SetStatus
    <2>3. ASSUME NEW o \in Customers, ConsumeOrder(o) PROVE Forward
      BY <1>1, <2>3 DEF InventoryTypeOK, ConsumeOrder, InStatus, SetStatus
    <2>4. ASSUME NEW o \in Customers, ReleaseOrder(o) PROVE Forward
      BY <1>1, <2>4 DEF InventoryTypeOK, ReleaseOrder, InStatus, SetStatus
    <2>5. ASSUME NEW o \in Customers, RestockOrder(o) PROVE Forward
      BY <1>1, <2>5 DEF InventoryTypeOK, RestockOrder, InStatus, SetStatus
    <2>6. QED
      BY <1>1, <2>1, <2>2, <2>3, <2>4, <2>5
      DEF InventoryNext, Lapse, SweepRelease, SweepList, SweepCrash, inventoryVars
  <1>2. QED
    BY <1>1, InventoryTypeCorrect, PTL DEF InventorySpec, RowsMoveForward

-----------------------------------------------------------------------------
(* The counters against the rows.  A piece is one unit of one row; a step  *)
(* moves the pieces of the rows it changes from one counter to another,    *)
(* and at one stock record these are the pieces of one row.                *)

AllPieces == UNION {{l} \X (1..Quantity[l]) : l \in Lines}

\* The pieces that the rows L have at s.
PiecesAt(L, from, s) == {p \in AllPieces : p[1] \in L /\ from[p[1]] = s}

\* Pieces, for rows of statuses status and of records from.
PiecesIn(statuses, from, st, s) == {p \in AllPieces : statuses[p[1]] = st /\ from[p[1]] = s}

\* The statuses once the rows L have moved to st.
Moved(statuses, L, st) == [l \in Lines |-> IF l \in L THEN st ELSE statuses[l]]

\* A row that was reserved was reserved from a record of its sku.
RowsFit == \A l \in Lines : line[l] # "none" => StockSku[source[l]] = LineSku[l]

BooksIInv == InventoryIInv /\ RowsFit /\ CountersMatchRows

LEMMA PieceIsOfLine == \A p \in AllPieces : p[1] \in Lines
  BY DEF AllPieces

LEMMA RowPieces ==
  ASSUME NEW l \in Lines
  PROVE  /\ IsFiniteSet({l} \X (1..Quantity[l]))
         /\ Cardinality({l} \X (1..Quantity[l])) = Quantity[l]
  <1>1. Quantity[l] \in Nat /\ Quantity[l] >= 1
    BY LinesAssumption
  <1>2. IsFiniteSet({l}) /\ Cardinality({l}) = 1
    BY FS_Singleton
  <1>3. IsFiniteSet(1..Quantity[l]) /\ Cardinality(1..Quantity[l]) = Quantity[l]
    BY <1>1, FS_Interval
  <1>4. /\ IsFiniteSet({l} \X (1..Quantity[l]))
        /\ Cardinality({l} \X (1..Quantity[l])) = 1 * Quantity[l]
    BY ZenonT(60), <1>2, <1>3, FS_Product
  <1>5. QED
    BY <1>1, <1>4

LEMMA PiecesAreFinite == IsFiniteSet(AllPieces)
  <1> DEFINE f == [l \in Lines |-> {l} \X (1..Quantity[l])]
             T == {{l} \X (1..Quantity[l]) : l \in Lines}
  <1>1. f \in Surjection(Lines, T)
    BY DEF Surjection
  <1>2. IsFiniteSet(T)
    BY <1>1, LinesAssumption, FS_Surjection
  <1>3. \A t \in T : IsFiniteSet(t)
    BY RowPieces
  <1>4. QED
    BY <1>2, <1>3, FS_UNION DEF AllPieces

LEMMA PiecesAtFinite ==
  ASSUME NEW L, NEW from, NEW s PROVE IsFiniteSet(PiecesAt(L, from, s))
  BY PiecesAreFinite, FS_Subset DEF PiecesAt

LEMMA PiecesOfStatus ==
  ASSUME NEW st, NEW s
  PROVE  Pieces(st, s) = PiecesAt({l \in Lines : line[l] = st}, source, s)
  BY PieceIsOfLine DEF Pieces, PiecesAt, AllPieces

\* Where a group of rows has one row at most, it has that row's quantity.
LEMMA QuantityIsPieces ==
  ASSUME NEW L \in SUBSET Lines, NEW from, NEW s,
         \A l, m \in L : from[l] = s /\ from[m] = s => l = m
  PROVE  Cardinality(PiecesAt(L, from, s)) = QuantityAt(L, from, s)
  <1>1. CASE \E l \in L : from[l] = s
    <2> DEFINE m == CHOOSE l \in L : from[l] = s
    <2>1. m \in L /\ from[m] = s /\ m \in Lines
      BY <1>1
    <2>2. \A p : p \in PiecesAt(L, from, s) <=> p \in {m} \X (1..Quantity[m])
      BY <2>1 DEF PiecesAt, AllPieces
    <2>3. PiecesAt(L, from, s) = {m} \X (1..Quantity[m])
      BY <2>2
    <2>4. QED
      BY <1>1, <2>1, <2>3, RowPieces DEF QuantityAt
  <1>2. CASE ~ \E l \in L : from[l] = s
    <2>1. PiecesAt(L, from, s) = {}
      BY <1>2 DEF PiecesAt
    <2>2. QED
      BY <1>2, <2>1, FS_EmptySet DEF QuantityAt
  <1>3. QED
    BY <1>1, <1>2

\* Pieces that come to a counter or leave it.
LEMMA PiecesArrive ==
  ASSUME NEW A, NEW B, IsFiniteSet(A), IsFiniteSet(B), A \cap B = {}
  PROVE  Cardinality(A \cup B) = Cardinality(A) + Cardinality(B)
  <1>1. /\ Cardinality(A \cup B) = Cardinality(A) + Cardinality(B) - Cardinality(A \cap B)
        /\ Cardinality(A) \in Nat /\ Cardinality(B) \in Nat
    BY FS_Union, FS_CardinalityType
  <1>2. Cardinality(A \cap B) = 0
    BY FS_EmptySet
  <1>3. QED
    BY <1>1, <1>2

LEMMA PiecesLeave ==
  ASSUME NEW A, NEW B, IsFiniteSet(A), B \subseteq A
  PROVE  Cardinality(A \ B) = Cardinality(A) - Cardinality(B)
  <1>1. A \cap B = B
    OBVIOUS
  <1>2. QED
    BY <1>1, FS_Difference

LEMMA PiecesInRows ==
  ASSUME NEW st, NEW s
  PROVE  /\ Pieces(st, s) = PiecesIn(line, source, st, s)
         /\ Pieces(st, s)' = PiecesIn(line', source', st, s)
  BY DEF Pieces, PiecesIn, AllPieces

\* The rows L of an order have what QuantityAt says at a record they all fit.
LEMMA OrderPieces ==
  ASSUME NEW o, NEW L \in SUBSET LinesOf(o), NEW from, NEW s,
         \A l \in L : StockSku[from[l]] = LineSku[l]
  PROVE  Cardinality(PiecesAt(L, from, s)) = QuantityAt(L, from, s)
  <1>1. L \in SUBSET Lines
    BY DEF LinesOf
  <1>2. \A l, m \in L : from[l] = s /\ from[m] = s => l = m
    BY <1>1, LinesAssumption DEF LinesOf
  <1>3. QED
    BY <1>1, <1>2, QuantityIsPieces

\* The rows L leave status st, come to status new, or have nothing to do with x.
LEMMA RowsLeave ==
  ASSUME NEW L \in SUBSET Lines, NEW before, NEW from, NEW s, NEW st, NEW new, st # new,
         \A l \in L : before[l] = st
  PROVE  Cardinality(PiecesIn(Moved(before, L, new), from, st, s))
           = Cardinality(PiecesIn(before, from, st, s)) - Cardinality(PiecesAt(L, from, s))
  <1>1. /\ PiecesIn(Moved(before, L, new), from, st, s)
             = PiecesIn(before, from, st, s) \ PiecesAt(L, from, s)
        /\ PiecesAt(L, from, s) \subseteq PiecesIn(before, from, st, s)
    BY PieceIsOfLine DEF PiecesIn, PiecesAt, Moved
  <1>2. IsFiniteSet(PiecesIn(before, from, st, s))
    BY PiecesAreFinite, FS_Subset DEF PiecesIn
  <1>3. QED
    BY <1>1, <1>2, PiecesLeave

LEMMA RowsJoin ==
  ASSUME NEW L \in SUBSET Lines, NEW before, NEW from, NEW s, NEW new,
         \A l \in L : before[l] # new
  PROVE  Cardinality(PiecesIn(Moved(before, L, new), from, new, s))
           = Cardinality(PiecesIn(before, from, new, s)) + Cardinality(PiecesAt(L, from, s))
  <1>1. /\ PiecesIn(Moved(before, L, new), from, new, s)
             = PiecesIn(before, from, new, s) \cup PiecesAt(L, from, s)
        /\ PiecesIn(before, from, new, s) \cap PiecesAt(L, from, s) = {}
    BY PieceIsOfLine DEF PiecesIn, PiecesAt, Moved
  <1>2. IsFiniteSet(PiecesIn(before, from, new, s)) /\ IsFiniteSet(PiecesAt(L, from, s))
    BY PiecesAreFinite, FS_Subset DEF PiecesIn, PiecesAt
  <1>3. QED
    BY <1>1, <1>2, PiecesArrive

LEMMA RowsStay ==
  ASSUME NEW L \in SUBSET Lines, NEW before, NEW from, NEW s, NEW new, NEW x, x # new,
         \A l \in L : before[l] # x
  PROVE  PiecesIn(Moved(before, L, new), from, x, s) = PiecesIn(before, from, x, s)
  BY PieceIsOfLine DEF PiecesIn, Moved

\* What a counter has covers each of the rows it counts.
LEMMA CountedIsCovered ==
  ASSUME NEW st, NEW l \in Lines, line[l] = st
  PROVE  Cardinality(Pieces(st, source[l])) >= Quantity[l]
  <1>1. {l} \X (1..Quantity[l]) \subseteq Pieces(st, source[l])
    BY DEF Pieces
  <1>2. IsFiniteSet(Pieces(st, source[l]))
    BY PiecesAtFinite, PiecesOfStatus
  <1>3. /\ Cardinality({l} \X (1..Quantity[l])) <= Cardinality(Pieces(st, source[l]))
        /\ Cardinality({l} \X (1..Quantity[l])) = Quantity[l]
    BY <1>1, <1>2, FS_Subset, RowPieces
  <1>4. Cardinality(Pieces(st, source[l])) \in Nat /\ Quantity[l] \in Nat
    BY <1>2, FS_CardinalityType, LinesAssumption
  <1>5. QED
    BY <1>3, <1>4

LEMMA CountersCoverRows ==
  ASSUME BooksIInv, NEW l \in Lines
  PROVE  /\ line[l] = "reserved" => reserved[source[l]] >= Quantity[l]
         /\ line[l] = "consumed" => sold[source[l]] >= Quantity[l]
  <1>1. source[l] \in Stocks
    BY DEF BooksIInv, InventoryIInv, InventoryTypeOK
  <1>2. QED
    BY <1>1, CountedIsCovered DEF BooksIInv, CountersMatchRows

LEMMA ReserveOrderBooks ==
  ASSUME BooksIInv, NEW o \in Customers, ReserveOrder(o)
  PROVE  RowsFit' /\ CountersMatchRows'
  <1> DEFINE L == LinesOf(o)
  <1>1. PICK from \in [L -> Stocks] :
          /\ \A l \in L : Eligible(l, from[l])
          /\ reserved' = [s \in Stocks |-> reserved[s] + QuantityAt(L, from, s)]
          /\ source' = [l \in Lines |-> IF l \in L THEN from[l] ELSE source[l]]
    BY DEF ReserveOrder
  <1>2. L \in SUBSET Lines /\ L \in SUBSET LinesOf(o)
    BY DEF LinesOf
  <1>3. /\ \A l \in Lines : line'[l] = IF l \in L THEN "reserved" ELSE line[l]
        /\ \A l \in L : line[l] = "none"
    BY DEF ReserveOrder, Unreserved, SetStatus
  <1>4. \A l \in L : StockSku[from[l]] = LineSku[l]
    BY <1>1 DEF Eligible
  <1>5. RowsFit'
    BY <1>1, <1>2, <1>3, <1>4 DEF BooksIInv, RowsFit
  <1>6. ASSUME NEW s \in Stocks
        PROVE  /\ reserved'[s] = Cardinality(Pieces("reserved", s)')
               /\ sold'[s] = Cardinality(Pieces("consumed", s)')
    <2> DEFINE B == PiecesAt(L, from, s)
    <2>1. \A l, m \in L : from[l] = s /\ from[m] = s => l = m
      BY <1>2, <1>4, LinesAssumption DEF LinesOf
    <2>2. Cardinality(B) = QuantityAt(L, from, s)
      BY <1>2, <2>1, QuantityIsPieces
    <2>3. Pieces("reserved", s)' = Pieces("reserved", s) \cup B
      BY <1>1, <1>2, <1>3, PieceIsOfLine DEF Pieces, PiecesAt, AllPieces
    <2>4. Pieces("reserved", s) \cap B = {}
      BY <1>3 DEF Pieces, PiecesAt
    <2>5. Pieces("consumed", s)' = Pieces("consumed", s)
      BY <1>1, <1>2, <1>3, PieceIsOfLine DEF Pieces, AllPieces
    <2>6. IsFiniteSet(B) /\ IsFiniteSet(Pieces("reserved", s))
      BY PiecesAtFinite, PiecesOfStatus
    <2>7. Cardinality(Pieces("reserved", s)') =
            Cardinality(Pieces("reserved", s)) + QuantityAt(L, from, s)
      BY <2>2, <2>3, <2>4, <2>6, PiecesArrive
    <2>8. QED
      BY <1>1, <2>5, <2>7 DEF BooksIInv, CountersMatchRows, ReserveOrder
  <1>7. QED
    BY <1>5, <1>6 DEF CountersMatchRows

LEMMA ConsumeOrderBooks ==
  ASSUME BooksIInv, NEW o \in Customers, ConsumeOrder(o)
  PROVE  RowsFit' /\ CountersMatchRows'
  <1> DEFINE L == InStatus(o, "reserved")
  <1>1. /\ L \in SUBSET LinesOf(o)
        /\ \A l \in L : line[l] = "reserved" /\ StockSku[source[l]] = LineSku[l]
        /\ line' = Moved(line, L, "consumed")
        /\ source' = source
    BY DEF ConsumeOrder, InStatus, SetStatus, Moved, LinesOf, BooksIInv, RowsFit
  <1>2. RowsFit'
    BY <1>1 DEF BooksIInv, RowsFit, Moved
  <1>3. ASSUME NEW s \in Stocks
        PROVE  /\ reserved'[s] = Cardinality(Pieces("reserved", s)')
               /\ sold'[s] = Cardinality(Pieces("consumed", s)')
    <2>1. /\ Cardinality(PiecesIn(line', source', "reserved", s))
               = Cardinality(PiecesIn(line, source, "reserved", s)) - QuantityAt(L, source, s)
          /\ Cardinality(PiecesIn(line', source', "consumed", s))
               = Cardinality(PiecesIn(line, source, "consumed", s)) + QuantityAt(L, source, s)
      <3>1. Cardinality(PiecesAt(L, source, s)) = QuantityAt(L, source, s)
        BY <1>1, OrderPieces
      <3>2. L \in SUBSET Lines
        BY <1>1 DEF LinesOf
      <3>3. QED
        BY <1>1, <3>1, <3>2, RowsLeave, RowsJoin, RowsStay
    <2>2. QED
      BY <2>1, PiecesInRows DEF BooksIInv, CountersMatchRows, ConsumeOrder, Take, Add
  <1>4. QED
    BY <1>2, <1>3 DEF CountersMatchRows

LEMMA ReleaseOrderBooks ==
  ASSUME BooksIInv, NEW o \in Customers, ReleaseOrder(o)
  PROVE  RowsFit' /\ CountersMatchRows'
  <1> DEFINE L == InStatus(o, "reserved")
  <1>1. /\ L \in SUBSET LinesOf(o)
        /\ \A l \in L : line[l] = "reserved" /\ StockSku[source[l]] = LineSku[l]
        /\ line' = Moved(line, L, "released")
        /\ source' = source
    BY DEF ReleaseOrder, InStatus, SetStatus, Moved, LinesOf, BooksIInv, RowsFit
  <1>2. RowsFit'
    BY <1>1 DEF BooksIInv, RowsFit, Moved
  <1>3. ASSUME NEW s \in Stocks
        PROVE  /\ reserved'[s] = Cardinality(Pieces("reserved", s)')
               /\ sold'[s] = Cardinality(Pieces("consumed", s)')
    <2>1. /\ Cardinality(PiecesIn(line', source', "reserved", s))
               = Cardinality(PiecesIn(line, source, "reserved", s)) - QuantityAt(L, source, s)
          /\ PiecesIn(line', source', "consumed", s) = PiecesIn(line, source, "consumed", s)
      <3>1. Cardinality(PiecesAt(L, source, s)) = QuantityAt(L, source, s)
        BY <1>1, OrderPieces
      <3>2. L \in SUBSET Lines
        BY <1>1 DEF LinesOf
      <3>3. QED
        BY <1>1, <3>1, <3>2, RowsLeave, RowsJoin, RowsStay
    <2>2. QED
      BY <2>1, PiecesInRows DEF BooksIInv, CountersMatchRows, ReleaseOrder, Take
  <1>4. QED
    BY <1>2, <1>3 DEF CountersMatchRows

\* A returned row is always booked: restock_stock does not look whether it was.
LEMMA RestockBooksAll ==
  ASSUME BooksIInv, NEW o \in Customers
  PROVE  {l \in InStatus(o, "consumed") : sold[source[l]] >= Quantity[l]}
           = InStatus(o, "consumed")
  BY CountersCoverRows DEF InStatus, LinesOf

LEMMA RestockOrderBooks ==
  ASSUME BooksIInv, NEW o \in Customers, RestockOrder(o)
  PROVE  RowsFit' /\ CountersMatchRows'
  <1> DEFINE L == InStatus(o, "consumed")
  <1>1. /\ L \in SUBSET LinesOf(o)
        /\ \A l \in L : line[l] = "consumed" /\ StockSku[source[l]] = LineSku[l]
        /\ line' = Moved(line, L, "restocked")
        /\ source' = source
    BY DEF RestockOrder, InStatus, SetStatus, Moved, LinesOf, BooksIInv, RowsFit
  <1>2. sold' = [s \in Stocks |-> Take(sold, L, s)] /\ UNCHANGED reserved
    BY RestockBooksAll DEF RestockOrder
  <1>3. RowsFit'
    BY <1>1 DEF BooksIInv, RowsFit, Moved
  <1>4. ASSUME NEW s \in Stocks
        PROVE  /\ reserved'[s] = Cardinality(Pieces("reserved", s)')
               /\ sold'[s] = Cardinality(Pieces("consumed", s)')
    <2>1. /\ Cardinality(PiecesIn(line', source', "consumed", s))
               = Cardinality(PiecesIn(line, source, "consumed", s)) - QuantityAt(L, source, s)
          /\ PiecesIn(line', source', "reserved", s) = PiecesIn(line, source, "reserved", s)
      <3>1. Cardinality(PiecesAt(L, source, s)) = QuantityAt(L, source, s)
        BY <1>1, OrderPieces
      <3>2. L \in SUBSET Lines
        BY <1>1 DEF LinesOf
      <3>3. QED
        BY <1>1, <3>1, <3>2, RowsLeave, RowsJoin, RowsStay
    <2>2. QED
      BY <1>2, <2>1, PiecesInRows DEF BooksIInv, CountersMatchRows, Take
  <1>5. QED
    BY <1>3, <1>4 DEF CountersMatchRows

LEMMA BooksInitIInv == InventoryInit => BooksIInv
  <1> SUFFICES ASSUME InventoryInit PROVE BooksIInv
    OBVIOUS
  <1>1. \A s \in Stocks : Pieces("reserved", s) = {} /\ Pieces("consumed", s) = {}
    BY PieceIsOfLine DEF InventoryInit, Pieces, AllPieces
  <1>2. QED
    BY <1>1, InventoryInitIInv, FS_EmptySet
    DEF BooksIInv, RowsFit, CountersMatchRows, InventoryInit

LEMMA BooksNextIInv == BooksIInv /\ [InventoryNext]_inventoryVars => BooksIInv'
  <1> SUFFICES ASSUME BooksIInv, [InventoryNext]_inventoryVars PROVE BooksIInv'
    OBVIOUS
  <1>1. InventoryIInv'
    BY InventoryNextIInv DEF BooksIInv
  <1>2. CASE UNCHANGED <<stockVars, line, source>>
    <2>1. RowsFit' /\ CountersMatchRows'
      BY <1>2 DEF BooksIInv, RowsFit, CountersMatchRows, Pieces, stockVars
    <2>2. QED
      BY <1>1, <2>1 DEF BooksIInv
  <1>3. QED
    BY <1>1, <1>2, ReserveOrderBooks, ConsumeOrderBooks, ReleaseOrderBooks,
       RestockOrderBooks
    DEF InventoryNext, Lapse, SweepRelease, SweepList, SweepCrash, inventoryVars, BooksIInv

\* The rows, the counters and the records they were taken from agree.
THEOREM BooksInvariant == InventorySpec => []BooksIInv
  BY BooksInitIInv, BooksNextIInv, PTL DEF InventorySpec

\* The counters of every stock record are what its reservation rows say.
THEOREM CountersAgree == InventorySpec => []CountersMatchRows
  BY BooksInvariant, PTL DEF BooksIInv

\* mutate_stock never refuses a row of the state it asks for, and a return, which
\* does not look whether the stock moved, always moves it.
CountersCover ==
  \A l \in Lines : /\ line[l] = "reserved" => reserved[source[l]] >= Quantity[l]
                   /\ line[l] = "consumed" => sold[source[l]] >= Quantity[l]

\* No mutation of a reserved or sold row is ever refused for want of stock.
THEOREM StockAlwaysCovers == InventorySpec => []CountersCover
  <1>1. BooksIInv => CountersCover
    BY CountersCoverRows DEF CountersCover
  <1>2. QED
    BY <1>1, BooksInvariant, PTL
=============================================================================

CONSTANTS
  o1 = o1
  a1 = a1
  k1 = k1
  s1 = s1
  c1 = c1
  c2 = c2
  w1 = w1
  w2 = w2
  NoAttempt = NoAttempt
  NoOrder = NoOrder
  Orders = {o1}
  Physical = {o1}
  Points = {}
  Attempts = {a1}
  OrderOf <- MCOrderOf
  Workers = {w1}
  MaxAborts = 1
  Callers = {c1, c2}
  LongWindow = FALSE
  Lines <- MCLines
  LineOrder <- MCLineOrder
  LineSku <- MCLineSku
  Quantity <- MCQuantity
  Stocks = {s1}
  StockSku <- MCStockSku
  InitialStock <- MCInitialStock
  SafetyStock <- MCSafetyStock
SPECIFICATION PhysicalSpec
SYMMETRY CallerSymmetry
INVARIANTS
  FulfilledStockIsSold
  SoldStockIsPaid
  PayableOrderHasStock
PROPERTIES
  ImplementsSettlement
CHECK_DEADLOCK FALSE

CONSTANTS
  o1 = o1
  o2 = o2
  o3 = o3
  k1 = k1
  k2 = k2
  s1 = s1
  s2 = s2
  s3 = s3
  Orders = {o1, o2}
  Physical = {o1}
  Points = {o2}
  Stocks = {s1, s2, s3}
  Lines <- MCLines
  LineOrder <- MCLineOrder
  LineSku <- MCLineSku
  Quantity <- MCQuantity
  StockSku <- MCStockSku
  InitialStock <- MCInitialStock
  SafetyStock <- MCSafetyStock
SPECIFICATION BooksSpec
INVARIANTS
  LatePaymentIsNeverFulfilled
  LatePaymentIsAudited
  CountersMatchRows
  OrderMovesAsOne
PROPERTIES
  CollectedMoneyIsNeverForgotten
  DeadOrderStaysDead
  LapsedStockReturns
CHECK_DEADLOCK FALSE

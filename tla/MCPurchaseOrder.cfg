SPECIFICATION PurchaseSpec
CONSTANTS
  c1 = c1
  c2 = c2
  Orders <- OrdersValue
  Physical <- NoOrders
  Points <- NoOrders
  Calls <- CallsValue
  Kind <- KindValue
  Prices <- PricesValue
  Requests <- RequestsValue
  MaxNow = 1
INVARIANTS
  OneOpenOrderPerIntent
  AnswersFitTheRequest
  InstallsCountFulfilled
SYMMETRY CallSymmetry
CHECK_DEADLOCK FALSE

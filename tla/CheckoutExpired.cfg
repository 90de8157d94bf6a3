SPECIFICATION CheckoutSpec
CONSTANTS
  k1 = k1
  k2 = k2
  c1 = c1
  c2 = c2
  Orders <- OrdersValue
  Physical <- OrdersValue
  Points <- NoPoints
  Calls <- CallsValue
  QuoteKeys = {q}
  Prices <- PriceBound
  Wanted <- MCWanted
  MaxCrashes = 1
INVARIANTS
  ExpiredSessionIsNotOrdered
CHECK_DEADLOCK FALSE

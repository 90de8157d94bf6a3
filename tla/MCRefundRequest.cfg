CONSTANTS
  r1 = r1
  c1 = c1
  c2 = c2
  w1 = w1
  k1 = k1
  k2 = k2
  Requests = {r1}
  Amount <- MCAmount
  PaidAmount = 1
  Reviews = {c1, c2}
  Notices = {w1}
  RetryKeys = {k1, k2}
  FirstKey = FirstKey
  NoRequest = NoRequest
  NoHold = NoHold
SPECIFICATION RefundSpec
INVARIANTS
  SettledIsRefunded
  RefundedIsBacked
  OrderRefundedIsReal
SYMMETRY CallSymmetry
CHECK_DEADLOCK FALSE

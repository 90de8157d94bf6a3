CONSTANTS
  points = points
  value = value
  goods = goods
  a1 = a1
  a2 = a2
  a3 = a3
  a4 = a4
  w1 = w1
  w2 = w2
  NoAttempt = NoAttempt
  Orders = {points, value, goods}
  Physical = {goods}
  Points = {points}
  Attempts = {a1, a2, a3, a4}
  Workers = {w1, w2}
  MaxAborts = 1
  OrderOf <- MCOrderOf
SPECIFICATION SubjectSpec
INVARIANTS
  RedeliveryCompletesSettlement
CHECK_DEADLOCK FALSE

SPECIFICATION DeskSpec
CONSTANTS
  Keys = {k1, k2}
  Bodies = {b1}
  Creators = {w1}
  Reviews = {v1, v2}
  ReviewKeys = {r1}
  FirstKey = first
  Nothing = nothing
  m1 = m1
  m2 = m2
  m3 = m3
  p1 = p1
  p2 = p2
  PackageIds = {p1, p2}
  Codes = {"a", "b"}
  Commands = {m1, m2, m3}
  Workloads <- MCWorkloads
  Operators = {o1, o2}
  NoId = noId
  noPack = noPack
  OrderKeys = {q1, q2}
  Asks <- MCAsks
  Methods = {"alipay"}
  PackNames = {"small"}
  PackRows <- MCPackRows
  RuleRows <- MCRuleRows
  Products = {"CNY"}
  Scale = 10
  NoPack = noPack
  NoRule = noRule
  MaxWrites = 2
  MaxAttempts = 2
  MaxDrops = 1
SYMMETRY DeskSymmetry
INVARIANTS PaidOutIsBacked OneRequestPerKey RowObeysItsKey CreditIsTheGrant ShownIsGranted
CHECK_DEADLOCK FALSE

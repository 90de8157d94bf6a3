SPECIFICATION FairRechargeSpec
CONSTANTS
  c1 = c1
  c2 = c2
  Calls <- CallsValue
  Orders <- OrdersValue
  Physical <- NoOrders
  Points <- PointsValue
  Codes = {"x"}
  Benefits <- BenefitsValue
  Subscriptions <- PlanBenefit
  Scenarios <- ScenariosValue
  MaxNow = 1
  MaxFaults = 1
INVARIANTS
  GrantedByTheRedeemer
PROPERTIES
  RedeemedIsFulfilled
CHECK_DEADLOCK FALSE

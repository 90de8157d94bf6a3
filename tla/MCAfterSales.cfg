CONSTANTS
  o1 = o1
  s1 = s1
  p1 = p1
  p2 = p2
  r1 = r1
  Orders = {o1}
  Physical = {o1}
  Points = {}
  Shipments = {s1}
  Packages = {p1, p2}
  ReturnRequests = {r1}
  OrderOf <- MCOrderOf
  ShipmentOf <- MCShipmentOf
  About <- MCAbout
  MaxEdits = 1
SYMMETRY PackageSymmetry
SPECIFICATION AfterSalesSpec
INVARIANTS
  CompletedWasReviewed
  RestockedWasReturned
  ShippedTogether
CHECK_DEADLOCK FALSE

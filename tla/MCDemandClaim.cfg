CONSTANTS
  b1 = b1
  b2 = b2
  b3 = b3
  c1 = c1
  c2 = c2
  NoCall = NoCall
  NoBidder = NoBidder
  Bidders = {b1, b2, b3}
  Calls = {c1, c2}
SPECIFICATION FairDemandSpec
INVARIANTS
  OneAward
PROPERTIES
  TimelineRecordsEveryChange
  AcceptEnds
CHECK_DEADLOCK FALSE

\* The order may be paid, cancelled or completed for good: no deadlock check.
SPECIFICATION FairSpec
CONSTANTS
  o1 = o1
  r1 = r1
  r2 = r2
  h1 = h1
  h2 = h2
  Orders = {o1}
  PayAfter = {}
  Refs = {r1, r2}
  OrderOf <- OneOrder
  MaybeOld = {r1}
  Handlers = {h1}
  Outages = TRUE
PROPERTIES
  PaidSettles
  RepairedInTheEnd
CHECK_DEADLOCK FALSE

\* The order may be paid, cancelled or completed for good: no deadlock check.
SPECIFICATION Spec
CONSTANTS
  o1 = o1
  r1 = r1
  r2 = r2
  h1 = h1
  h2 = h2
  Orders = {o1}
  PayAfter = {}
  Refs = {r1, r2}
  OrderOf <- OneOrder
  MaybeOld = {r1, r2}
  Handlers = {h1, h2}
  Outages = TRUE
INVARIANTS
  TypeOK
  AppliedOnce
  PaidMeansTaken
  SettledMeansPaid
  OneOpenAttempt
  ProcessedMeansSettled
  GoodsAfterMoney
PROPERTIES
  CardNeverMovesBack
  PromiseKept
SYMMETRY Symmetry
CHECK_DEADLOCK FALSE

\* All the money may have been withdrawn for good: no deadlock check.
SPECIFICATION FairSpec
CONSTANTS
  b = b
  s = s
  levro = levro
  t1 = t1
  k1 = k1
  o1 = o1
  o2 = o2
  w1 = w1
  People = {b, s}
  Levromart = levro
  Topups = {t1}
  TopUp <- MCTopUp
  Taps = {k1}
  Sending <- MCSending
  Bills = {o1, o2}
  Bill <- MCBill
  Withdrawals = {w1}
  Amounts = {20000}
  FreePayments = 1
  MaxBalance = 30000000
  Outages = TRUE
INVARIANTS
  TypeOK
  Conserved
  ReturnedStayed
  IInv
PROPERTIES
  HoldHolds
  TopupArrives
  WithdrawalEnds
CHECK_DEADLOCK FALSE

\* All the money may be given back for good: no deadlock check.
SPECIFICATION Spec
CONSTANTS
  r1 = r1
  r2 = r2
  Payments = {1, 2}
  Units = {1, 2, 3}
  PaymentOf <- MCPaymentOf
  ByWallet = {2}
  Runs = {r1, r2}
  MaxBatches = 2
  MaxSends = 2
  SentBehind5xx = FALSE
  Retried = FALSE
  Overlap = FALSE
  LateCancel = FALSE
INVARIANTS
  TypeOK
  SameMoneyOnce
  RefundSentOnce
  IdIsOwn
  ShownIsTrue
  IInv
PROPERTIES
  FinalStays
  PromiseKept
SYMMETRY Symmetry
CHECK_DEADLOCK FALSE

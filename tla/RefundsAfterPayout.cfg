\* One of the violations: see the README.
SPECIFICATION Spec
CONSTANTS
  r1 = r1
  r2 = r2
  Payments = {1, 2}
  Units = {1, 2, 3}
  PaymentOf <- MCPaymentOf
  ByWallet = {2}
  Runs = {r1}
  MaxBatches = 2
  MaxSends = 2
  SentBehind5xx = FALSE
  Retried = FALSE
  Overlap = FALSE
  LateCancel = TRUE
INVARIANTS
  SameMoneyOnce
CHECK_DEADLOCK FALSE

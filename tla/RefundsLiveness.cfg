\* All the money may be given back for good: no deadlock check.
SPECIFICATION FairSpec
CONSTANTS
  r1 = r1
  r2 = r2
  Payments = {1, 2}
  Units = {1, 2}
  PaymentOf <- OnePerPayment
  ByWallet = {2}
  Runs = {r1}
  MaxBatches = 1
  MaxSends = 1
  SentBehind5xx = TRUE
  Retried = TRUE
  Overlap = FALSE
  LateCancel = FALSE
PROPERTIES
  RefundEnded
CHECK_DEADLOCK FALSE

\* A payout may be settled for good: no deadlock check.
SPECIFICATION Spec
CONSTANTS
  p1 = p1
  w1 = w1
  w2 = w2
  Payouts = {p1}
  Workers = {w1}
  MaxAttempts = 3
  MaxReleases = 1
  WriteFails = TRUE
  SentBehind5xx = FALSE
  Overlap = FALSE
PROPERTIES
  NewReferenceAfterNo
CHECK_DEADLOCK FALSE

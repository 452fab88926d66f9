\* A payout may be settled for good: no deadlock check.
SPECIFICATION FairSpec
CONSTANTS
  p1 = p1
  w1 = w1
  w2 = w2
  Payouts = {p1}
  Workers = {w1}
  MaxAttempts = 2
  MaxReleases = 0
  WriteFails = FALSE
  SentBehind5xx = FALSE
  Overlap = FALSE
PROPERTIES
  QueueIsServed
  PromiseKept
CHECK_DEADLOCK FALSE

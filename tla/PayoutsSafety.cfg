\* A payout may be settled for good: no deadlock check.
SPECIFICATION Spec
CONSTANTS
  p1 = p1
  w1 = w1
  w2 = w2
  Payouts = {p1}
  Workers = {w1, w2}
  MaxAttempts = 2
  MaxReleases = 1
  WriteFails = FALSE
  SentBehind5xx = FALSE
  Overlap = FALSE
INVARIANTS
  TypeOK
  PaidOutOnce
  SuccessMeansSent
PROPERTIES
  NewReferenceAfterNo
  SettledStays
  DisputeHolds
  StatusMoves
SYMMETRY Symmetry
CHECK_DEADLOCK FALSE

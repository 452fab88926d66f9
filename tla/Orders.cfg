SPECIFICATION FairSpec
CONSTANTS
  Outcomes = {"completed", "cancelled"}
  MaxDisputes = 3
INVARIANTS
  TypeOK
  GoodsPaid
PROPERTIES
  ClosedStays
  NobodyForgotten

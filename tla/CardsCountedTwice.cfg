\* One of the violations: see the README.
SPECIFICATION Spec
CONSTANTS
  o1 = o1
  r1 = r1
  r2 = r2
  h1 = h1
  h2 = h2
  Orders = {o1}
  PayAfter = {o1}
  Refs = {r1, r2}
  OrderOf <- OneOrder
  MaybeOld = {}
  Handlers = {h1}
  Outages = FALSE
INVARIANTS
  CountedOnce
SYMMETRY Symmetry
CHECK_DEADLOCK FALSE

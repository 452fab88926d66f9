\* One of the violations: see the README.
SPECIFICATION Spec
CONSTANTS
  Outcomes = {"completed", "cancelled"}
  MaxDisputes = 3
INVARIANTS
  DisputedMeansOpen

--------------------------- MODULE MCCardPayments ---------------------------
(* One order.  A reference is made for an order, so it is the order of     *)
(* every reference; nothing in the code looks at two orders at once.       *)
EXTENDS CardPayments, TLC

CONSTANTS o1, r1, r2, h1, h2

OneOrder == [r \in Refs |-> o1]

\* sound where MaybeOld is {} or all of Refs and the run has no liveness property
Symmetry == Permutations(Refs) \cup Permutations(Handlers)
=============================================================================

-------------------------- MODULE MCVendorPayouts --------------------------
(* One payout: no transaction of the code reads or writes two of them.     *)
EXTENDS VendorPayouts, TLC

CONSTANTS p1, w1, w2

\* sound without liveness properties
Symmetry == Permutations(Workers)
=============================================================================

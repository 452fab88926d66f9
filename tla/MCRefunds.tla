----------------------------- MODULE MCRefunds -----------------------------
EXTENDS Refunds, TLC

CONSTANTS r1, r2

\* payment 2, the newer, has the unit 3
MCPaymentOf == 1 :> 1 @@ 2 :> 1 @@ 3 :> 2
OnePerPayment == 1 :> 1 @@ 2 :> 2

Symmetry == Permutations(Runs)
=============================================================================

-------------------------------- MODULE Fees --------------------------------
(***************************************************************************)
(* What a payment, a transfer and the wallet cost, in kobo.                *)
(*                                                                         *)
(* The code multiplies by 0.015, 0.05 and 1 / 0.985 and rounds; written    *)
(* here with whole numbers.  Its loops, which step by one kobo until a     *)
(* condition holds, are written as the number they end with.               *)
(***************************************************************************)
EXTENDS Integers

\* PAYSTACK_LOCAL_FEES: 3 in 200 is its 1.5%, 200 in 197 undoes it
FlatKobo        == 10000
FlatWaivedBelow == 250000
CapKobo         == 200000

Least(a, b) == IF a <= b THEN a ELSE b
Most(a, b) == IF a >= b THEN a ELSE b
CeilDiv(a, b) == (a + b - 1) \div b

\* what Paystack keeps of a payment of g
FlatPart(g) == IF g >= FlatWaivedBelow THEN FlatKobo ELSE 0
PaystackFeeOn(g) == Least(CapKobo, CeilDiv(3 * g, 200) + FlatPart(g))

-----------------------------------------------------------------------------
(* The total a buyer is charged so that net is left.                       *)

Covers(g, net) == g - PaystackFeeOn(g) >= net

WithoutFee(net) == CeilDiv(200 * net, 197)
Estimate(net) ==
    IF WithoutFee(net) >= FlatWaivedBelow THEN WithoutFee(net + FlatKobo) ELSE WithoutFee(net)
FirstGuess(net) == IF Estimate(net) - net > CapKobo THEN net + CapKobo ELSE Estimate(net)

\* up while it does not cover net
MovedUp(g, net) ==
    CHOOSE h \in g..(net + g + CapKobo) : Covers(h, net) /\ \A i \in g..(h - 1) : ~Covers(i, net)

\* down while one less covers it, too
MovedDown(g, net) ==
    CHOOSE h \in net..g :
        /\ h = net \/ ~Covers(h - 1, net)
        /\ \A i \in (h + 1)..g : Covers(i - 1, net)

GrossUp(net) == MovedDown(MovedUp(FirstGuess(net), net), net)

-----------------------------------------------------------------------------
(* The wallet.                                                             *)

\* what Levromart takes of a wallet transfer or withdrawal: Paystack's fee, at most 5%
WalletFee(a) == IF a > 0 THEN Least(PaystackFeeOn(a), a \div 20) ELSE 0

Fits(a, balance) == a + WalletFee(a) <= balance

\* down while it does not fit, then up while one more fits
SteppedDown(a, balance) ==
    a - CHOOSE d \in 0..Most(a, 0) :
            /\ a - d <= 0 \/ Fits(a - d, balance)
            /\ \A e \in 0..(d - 1) : ~Fits(a - e, balance)
SteppedUp(a, balance) ==
    CHOOSE h \in a..(a + balance) :
        /\ h <= 0 \/ ~Fits(h + 1, balance)
        /\ \A i \in (a + 1)..h : Fits(i, balance)
Withdrawable(balance) ==
    Most(0, SteppedUp(SteppedDown(balance - WalletFee(balance), balance), balance))

\* what Paystack takes for a transfer to a bank
TransferFee(a) ==
    IF a <= 0 THEN 0 ELSE IF a <= 500000 THEN 1000 ELSE IF a <= 5000000 THEN 2500 ELSE 5000
=============================================================================

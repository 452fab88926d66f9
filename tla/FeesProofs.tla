----------------------------- MODULE FeesProofs -----------------------------
(***************************************************************************)
(* For every amount: the buyer is charged the least that covers the order, *)
(* and "withdraw everything" is the most that fits.                        *)
(***************************************************************************)
EXTENDS Fees, WellFoundedInduction, TLAPS

LEMMA LeastNatural ==
    ASSUME NEW S, S \subseteq Nat, S # {}
    PROVE  \E n \in S : \A m \in S : n <= m
<1>1. PICK n \in S : \A m \in S : ~(<<m, n>> \in OpToRel(<, Nat))
    BY NatLessThanWellFounded, WFMin
<1>2. ASSUME NEW m \in S PROVE n <= m
    <2>1. <<m, n>> \in Nat \X Nat
        BY <1>1
    <2>2. ~(m < n)
        BY <1>1, <2>1 DEF OpToRel
    <2> QED
        BY <2>2
<1> QED
    BY <1>1, <1>2

LEMMA Ceil200 ==
    ASSUME NEW g \in Nat
    PROVE  /\ CeilDiv(3 * g, 200) \in Nat
           /\ 3 * g <= 200 * CeilDiv(3 * g, 200)
           /\ 200 * CeilDiv(3 * g, 200) < 3 * g + 200
BY DEF CeilDiv

LEMMA WithoutFeeShape ==
    ASSUME NEW n \in Nat
    PROVE  /\ WithoutFee(n) \in Nat
           /\ 200 * n <= 197 * WithoutFee(n)
           /\ 197 * WithoutFee(n) < 200 * n + 197
BY DEF WithoutFee, CeilDiv

LEMMA FeeShape ==
    ASSUME NEW g \in Nat
    PROVE  /\ PaystackFeeOn(g) \in Nat
           /\ PaystackFeeOn(g) <= CapKobo
           /\ PaystackFeeOn(g) < CapKobo => 3 * g + 200 * FlatPart(g) <= 200 * PaystackFeeOn(g)
           /\ 200 * PaystackFeeOn(g) < 3 * g + 200 * FlatPart(g) + 200
BY Ceil200 DEF PaystackFeeOn, Least, FlatPart, CapKobo, FlatKobo

\* A larger payment never costs less (fees.ts).
THEOREM FeeGrows == \A g, h \in Nat : g <= h => PaystackFeeOn(g) <= PaystackFeeOn(h)
<1> SUFFICES ASSUME NEW g \in Nat, NEW h \in Nat, g <= h
             PROVE  PaystackFeeOn(g) <= PaystackFeeOn(h)
    OBVIOUS
<1>1. CeilDiv(3 * g, 200) <= CeilDiv(3 * h, 200)
    BY Ceil200
<1>2. FlatPart(g) <= FlatPart(h) /\ FlatPart(g) \in Nat /\ FlatPart(h) \in Nat
    BY DEF FlatPart, FlatKobo, FlatWaivedBelow
<1> QED
    BY <1>1, <1>2, Ceil200 DEF PaystackFeeOn, Least, CapKobo

-----------------------------------------------------------------------------
LEMMA FirstGuessCovers ==
    ASSUME NEW net \in Nat, net > 0
    PROVE  /\ FirstGuess(net) \in Nat
           /\ net <= FirstGuess(net)
           /\ Covers(FirstGuess(net), net)
<1> DEFINE w == WithoutFee(net)
           v == WithoutFee(net + FlatKobo)
           g == FirstGuess(net)
<1>1. /\ w \in Nat /\ 200 * net <= 197 * w
      /\ v \in Nat /\ 200 * (net + 10000) <= 197 * v
    <2> DEFINE n == net + FlatKobo
    <2>1. n \in Nat /\ n = net + 10000
        BY DEF FlatKobo
    <2>2. v = WithoutFee(n)
        OBVIOUS
    <2> HIDE DEF n, v, w
    <2>3. v \in Nat /\ 200 * n <= 197 * v /\ 197 * v < 200 * n + 197
        BY <2>1, <2>2, WithoutFeeShape
    <2>4. w \in Nat /\ 200 * net <= 197 * w /\ 197 * w < 200 * net + 197
        BY WithoutFeeShape DEF w
    <2> QED
        BY <2>1, <2>3, <2>4
<1>2. g \in Nat /\ net <= g
    BY <1>1 DEF FirstGuess, Estimate, CapKobo
<1>3. CASE g = net + CapKobo
    BY <1>2, <1>3, FeeShape DEF Covers, CapKobo
<1>4. CASE g = w /\ w < FlatWaivedBelow
    <2>1. FlatPart(g) = 0
        BY <1>4, <1>1 DEF FlatPart, FlatWaivedBelow
    <2>2. 200 * PaystackFeeOn(g) < 3 * g + 200
        BY <2>1, <1>2, FeeShape
    <2> QED
        BY <2>2, <1>1, <1>2, <1>4, FeeShape DEF Covers
<1>5. CASE g = v
    <2>1. FlatPart(g) <= 10000 /\ FlatPart(g) \in Nat
        BY <1>2 DEF FlatPart, FlatKobo
    <2>2. 200 * PaystackFeeOn(g) < 3 * g + 2000000 + 200
        BY <2>1, <1>2, FeeShape
    <2> QED
        BY <2>2, <1>1, <1>2, <1>5, FeeShape DEF Covers
<1> QED
    BY <1>1, <1>2, <1>3, <1>4, <1>5 DEF FirstGuess, Estimate, FlatWaivedBelow

LEMMA LessDoesNotCover ==
    ASSUME NEW net \in Nat, net > 0, NEW h \in Nat, h < FirstGuess(net)
    PROVE  ~Covers(h, net)
<1> DEFINE w == WithoutFee(net)
           v == WithoutFee(net + FlatKobo)
           fee == PaystackFeeOn(h)
<1>1. /\ w \in Nat /\ 197 * w < 200 * net + 197
      /\ v \in Nat /\ 197 * v < 200 * (net + 10000) + 197
    <2> DEFINE n == net + FlatKobo
    <2>1. n \in Nat /\ n = net + 10000
        BY DEF FlatKobo
    <2>2. v = WithoutFee(n)
        OBVIOUS
    <2> HIDE DEF n, v, w
    <2>3. v \in Nat /\ 200 * n <= 197 * v /\ 197 * v < 200 * n + 197
        BY <2>1, <2>2, WithoutFeeShape
    <2>4. w \in Nat /\ 200 * net <= 197 * w /\ 197 * w < 200 * net + 197
        BY WithoutFeeShape DEF w
    <2> QED
        BY <2>1, <2>3, <2>4
<1>2. /\ fee \in Nat /\ fee <= 200000
      /\ fee < 200000 => 3 * h + 200 * FlatPart(h) <= 200 * fee
    BY FeeShape DEF CapKobo
<1>3. CASE h < FlatWaivedBelow
    <2>1. fee < 200000 /\ FlatPart(h) = 0
        <3>1. FlatPart(h) = 0
            BY <1>3 DEF FlatPart, FlatWaivedBelow
        <3>2. 200 * fee < 3 * h + 200
            BY <3>1, FeeShape
        <3> QED
            BY <3>1, <3>2, <1>2, <1>3 DEF FlatWaivedBelow
    <2>2. 197 * h < 200 * net
        <3>1. CASE w >= FlatWaivedBelow
            BY <3>1, <1>1, <1>3 DEF FlatWaivedBelow
        <3>2. CASE w < FlatWaivedBelow
            <4>1. h < w
                BY <3>2, <1>1 DEF FirstGuess, Estimate, CapKobo, FlatWaivedBelow
            <4> QED
                BY <4>1, <1>1
        <3> QED
            BY <3>1, <3>2, <1>1 DEF FlatWaivedBelow
    <2> QED
        BY <1>2, <2>1, <2>2 DEF Covers
<1>4. CASE h >= FlatWaivedBelow
    <2>1. FlatPart(h) = 10000
        BY <1>4 DEF FlatPart, FlatWaivedBelow, FlatKobo
    <2>2. w >= FlatWaivedBelow
        BY <1>1, <1>4 DEF FirstGuess, Estimate, CapKobo, FlatWaivedBelow
    <2>3. h < v /\ h < net + 200000
        BY <1>1, <2>2 DEF FirstGuess, Estimate, CapKobo
    <2>4. CASE fee = 200000
        BY <2>3, <2>4 DEF Covers
    <2>5. CASE fee < 200000
        BY <1>1, <1>2, <2>1, <2>3, <2>5 DEF Covers
    <2> QED
        BY <1>2, <2>4, <2>5
<1> QED
    BY <1>3, <1>4 DEF FlatWaivedBelow

\* fees.ts:24, "the smallest total whose payment leaves netKobo": the buyer's total
\* leaves the amount asked for, and one kobo less would not.  Neither loop of the
\* code ever has to move.
THEOREM GrossUpIsLeast ==
    \A net \in Nat \ {0} :
        /\ Covers(GrossUp(net), net)
        /\ \A h \in 0..(GrossUp(net) - 1) : ~Covers(h, net)
        /\ GrossUp(net) = FirstGuess(net)
<1> SUFFICES ASSUME NEW net \in Nat, net > 0
             PROVE  /\ Covers(GrossUp(net), net)
                    /\ \A h \in 0..(GrossUp(net) - 1) : ~Covers(h, net)
                    /\ GrossUp(net) = FirstGuess(net)
    OBVIOUS
<1> DEFINE g == FirstGuess(net)
<1>1. g \in Nat /\ net <= g /\ Covers(g, net)
    BY FirstGuessCovers
<1>2. \A h \in Nat : h < g => ~Covers(h, net)
    BY LessDoesNotCover
<1> HIDE DEF g
<1>3. MovedUp(g, net) = g
    <2>1. g \in g..(net + g + CapKobo) /\ \A i \in g..(g - 1) : ~Covers(i, net)
        BY <1>1 DEF CapKobo
    <2>2. /\ MovedUp(g, net) \in g..(net + g + CapKobo)
          /\ \A i \in g..(MovedUp(g, net) - 1) : ~Covers(i, net)
        BY <1>1, <2>1 DEF MovedUp
    <2> QED
        BY <1>1, <2>2 DEF CapKobo
<1>4. MovedDown(g, net) = g
    <2>1. /\ g \in net..g
          /\ ~Covers(g - 1, net)
          /\ \A i \in (g + 1)..g : Covers(i - 1, net)
        BY <1>1, <1>2
    <2>2. /\ MovedDown(g, net) \in net..g
          /\ \A i \in (MovedDown(g, net) + 1)..g : Covers(i - 1, net)
        BY <2>1 DEF MovedDown
    <2>3. MovedDown(g, net) < g => Covers(g - 1, net)
        BY <1>1, <2>2
    <2> QED
        BY <1>1, <2>1, <2>2, <2>3
<1>5. GrossUp(net) = g
    BY <1>3, <1>4 DEF GrossUp, g
<1> QED
    BY <1>1, <1>2, <1>5 DEF g

-----------------------------------------------------------------------------
LEMMA WalletFeeNat ==
    ASSUME NEW a \in Nat
    PROVE  WalletFee(a) \in Nat /\ 20 * WalletFee(a) <= a
BY FeeShape DEF WalletFee, Least

LEMMA WalletFeeGrows ==
    ASSUME NEW a \in Nat, NEW b \in Nat, a <= b
    PROVE  WalletFee(a) <= WalletFee(b)
<1>1. PaystackFeeOn(a) <= PaystackFeeOn(b)
    BY FeeGrows
<1>2. a \div 20 <= b \div 20 /\ a \div 20 \in Nat /\ b \div 20 \in Nat
    OBVIOUS
<1> QED
    BY <1>1, <1>2, FeeShape DEF WalletFee, Least

\* wallet.service.ts:40, "the most that can be sent to a bank when the fee comes out
\* of the same balance": withdrawing everything never takes more than there is, and
\* any amount that fits is at most that.
THEOREM WithdrawableIsMost ==
    \A balance \in Nat :
        /\ Withdrawable(balance) \in 0..balance
        /\ Fits(Withdrawable(balance), balance)
        /\ \A a \in Nat : Fits(a, balance) => a <= Withdrawable(balance)
<1> SUFFICES ASSUME NEW b \in Nat
             PROVE  /\ Withdrawable(b) \in 0..b
                    /\ Fits(Withdrawable(b), b)
                    /\ \A a \in Nat : Fits(a, b) => a <= Withdrawable(b)
    OBVIOUS
<1> DEFINE s == b - WalletFee(b)
           up == SteppedUp(s, b)
<1>1. s \in Nat /\ s <= b /\ Fits(s, b)
    BY WalletFeeNat, WalletFeeGrows DEF Fits
<1> HIDE DEF s
<1>2. SteppedDown(s, b) = s
    <2> DEFINE Stop(d) == /\ s - d <= 0 \/ Fits(s - d, b)
                          /\ \A e \in 0..(d - 1) : ~Fits(s - e, b)
    <2>1. 0 \in 0..Most(s, 0) /\ Stop(0)
        BY <1>1 DEF Most
    <2>2. PICK d \in 0..Most(s, 0) : Stop(d) /\ SteppedDown(s, b) = s - d
        BY <2>1 DEF SteppedDown
    <2>3. d = 0
        <3>1. SUFFICES ASSUME 0 \in 0..(d - 1) PROVE FALSE
            BY <1>1, <2>2 DEF Most
        <3>2. ~Fits(s - 0, b)
            BY <2>2, <3>1
        <3> QED
            BY <1>1, <3>2
    <2> QED
        BY <1>1, <2>2, <2>3
<1>3. /\ up \in s..(s + b)
      /\ up <= 0 \/ ~Fits(up + 1, b)
      /\ \A i \in (s + 1)..up : Fits(i, b)
    <2> DEFINE S == {h \in Nat : s <= h /\ ~Fits(h + 1, b)}
    <2>1. b \in S
        <3>1. WalletFee(b + 1) \in Nat
            BY WalletFeeNat
        <3> QED
            BY <1>1, <3>1 DEF Fits
    <2>2. PICK m \in S : \A h \in S : m <= h
        <3>1. S \subseteq Nat /\ S # {}
            BY <2>1
        <3> QED
            BY <3>1, LeastNatural
    <2>3. m \in s..(s + b) /\ ~Fits(m + 1, b)
        BY <1>1, <2>1, <2>2
    <2>4. ASSUME NEW i \in (s + 1)..m PROVE Fits(i, b)
        <3>1. i - 1 \in Nat /\ s <= i - 1 /\ i - 1 < m /\ (i - 1) + 1 = i
            BY <1>1, <2>2
        <3>2. i - 1 \notin S
            BY <2>2, <3>1
        <3> QED
            BY <3>1, <3>2
    <2> QED
        BY <2>3, <2>4 DEF SteppedUp
<1>4. up \in Nat /\ Fits(up, b)
    BY <1>1, <1>3
<1>5. up <= b
    BY <1>4, WalletFeeNat DEF Fits
<1>6. ASSUME NEW a \in Nat, Fits(a, b), up < a PROVE FALSE
    <2>1. WalletFee(up + 1) <= WalletFee(a) /\ WalletFee(up + 1) \in Nat /\ WalletFee(a) \in Nat
        BY <1>4, <1>6, WalletFeeGrows, WalletFeeNat
    <2>2. Fits(up + 1, b)
        BY <1>4, <1>6, <2>1 DEF Fits
    <2>3. up = 0
        BY <1>3, <1>4, <2>2
    <2>4. s = 0
        BY <1>1, <1>3, <2>3
    <2>5. b = 0
        BY <2>4, WalletFeeNat DEF s
    <2> QED
        BY <1>4, <1>6, <2>1, <2>5 DEF Fits
<1>7. Withdrawable(b) = up
    BY <1>2, <1>4 DEF Withdrawable, Most, s
<1> QED
    BY <1>4, <1>5, <1>6, <1>7

\* What the wallet keeps of a withdrawal pays for Paystack's transfer exactly when more
\* than N666 are sent (fees.ts:42, wallet.service.ts:36); for less Levromart bears the
\* difference.
THEOREM WithdrawalPaysItsTransfer ==
    \A a \in Nat \ {0} : TransferFee(a) <= WalletFee(a) <=> a > 66600
<1> SUFFICES ASSUME NEW a \in Nat \ {0}
             PROVE  TransferFee(a) <= WalletFee(a) <=> a > 66600
    OBVIOUS
<1> DEFINE fee == PaystackFeeOn(a)
<1>1. /\ fee \in Nat
      /\ fee < 200000 => 3 * a + 200 * FlatPart(a) <= 200 * fee
      /\ 200 * fee < 3 * a + 200 * FlatPart(a) + 200
      /\ FlatPart(a) \in Nat
    BY FeeShape DEF CapKobo, FlatPart, FlatKobo
<1>2. FlatPart(a) = IF a >= 250000 THEN 10000 ELSE 0
    BY DEF FlatPart, FlatWaivedBelow, FlatKobo
<1> HIDE DEF fee
<1>3. CASE a > 66600
    <2>1. TransferFee(a) <= fee
        BY <1>1, <1>2, <1>3 DEF TransferFee
    <2>2. TransferFee(a) <= a \div 20
        BY <1>3 DEF TransferFee
    <2> QED
        BY <1>3, <2>1, <2>2 DEF WalletFee, Least, fee
<1>4. CASE ~(a > 66600)
    <2>1. fee < 1000 /\ TransferFee(a) = 1000
        BY <1>1, <1>2, <1>4 DEF TransferFee
    <2>2. WalletFee(a) <= fee
        BY <1>1 DEF WalletFee, Least, fee
    <2>3. WalletFee(a) \in Int
        BY <1>1 DEF WalletFee, Least, fee
    <2> QED
        BY <1>1, <1>4, <2>1, <2>2, <2>3
<1> QED
    BY <1>3, <1>4
=============================================================================

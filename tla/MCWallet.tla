------------------------------ MODULE MCWallet ------------------------------
(* A buyer and a shop, a top-up, a tap and two orders.  The amounts are    *)
(* such that the fees, their limit, the commission and the smallest        *)
(* withdrawal all play a part, and that not everything can be paid for.    *)
EXTENDS Wallet, TLC

CONSTANTS b, s, levro, t1, k1, o1, o2, w1

MCTopUp == t1 :> [by |-> b, net |-> 1000000]
MCSending == k1 :> [from |-> b, to |-> s, amount |-> 300000]
MCBill ==
    o1 :> [buyer |-> b, shop |-> s, price |-> 350000]
    @@ o2 :> [buyer |-> b, shop |-> s, price |-> 200000]
=============================================================================

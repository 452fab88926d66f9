------------------------------ MODULE PaidOnce ------------------------------
(***************************************************************************)
(* What paying a shop promises, said without queues, workers or events:    *)
(* the earnings of an order leave in one way at a time (one transfer, or   *)
(* by hand, or into the shop's wallet), and in a second way only after the *)
(* first came back.                                                        *)
(***************************************************************************)
CONSTANTS Payouts, Ways

VARIABLE out        \* the ways in which the money of each payout is out

Init == out = [p \in Payouts |-> {}]

Pay(p) == out[p] = {} /\ \E w \in Ways : out' = [out EXCEPT ![p] = {w}]

ComesBack(p) == out[p] # {} /\ out' = [out EXCEPT ![p] = {}]

Next == \E p \in Payouts : Pay(p) \/ ComesBack(p)

Spec == Init /\ [][Next]_out
=============================================================================

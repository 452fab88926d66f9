----------------------------- MODULE MoneyOnce -----------------------------
(***************************************************************************)
(* What refunds and payouts promise together, said without rows, runs or   *)
(* events: every kobo of an order is held by Levromart, or the shop has    *)
(* it, or the buyer has it back.  It goes from one side to the other only  *)
(* through Levromart's hands, and one party at a time is served.           *)
(***************************************************************************)
CONSTANT Units

VARIABLE place

Init == place = [u \in Units |-> "held"]

Move(S, from, to) ==
    /\ \A u \in S : place[u] = from
    /\ place' = [u \in Units |-> IF u \in S THEN to ELSE place[u]]

Next == \E S \in SUBSET Units, side \in {"shop", "buyer"} :
            Move(S, "held", side) \/ Move(S, side, "held")

Spec == Init /\ [][Next]_place
=============================================================================

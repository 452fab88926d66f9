----------------------------- MODULE PayoutMoves -----------------------------
(***************************************************************************)
(* How the status of a payout moves, seen from outside: what the part of   *)
(* the system that refunds buyers has to expect of the part that pays      *)
(* shops.  VendorPayouts is shown to move no other way, Refunds is checked *)
(* against all of them.                                                    *)
(***************************************************************************)

\* "held" is on_hold, whoever waits for whom
Shown(s) == IF s \in {"waiting", "on_hold"} THEN "held" ELSE s

\* transfer events come late and repeated, so they end a payout wherever it stands
Ended == {"success", "failed", "reversed"}
Moves ==
    {<<"none", "held">>, <<"pending", "processing">>, <<"held", "to_wallet">>}
    \cup ({"held", "failed", "reversed", "processing", "success"} \X {"pending"})
    \cup ({"pending", "failed"} \X {"held"})
    \cup ({"held", "pending", "processing", "success", "failed", "reversed"} \X Ended)
    \cup ({"held", "pending", "failed", "reversed"} \X {"paid_manually"})

\* the money of the order is with the shop, or on its way there
Leaving == {"processing", "to_wallet", "paid_manually"}
Left == Leaving \cup {"success"}
=============================================================================

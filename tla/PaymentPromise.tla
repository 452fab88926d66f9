--------------------------- MODULE PaymentPromise ---------------------------
(***************************************************************************)
(* What taking card payments promises, said without attempts, events,      *)
(* retries or orders: a payment is settled after Paystack took the money,  *)
(* settled payments stay settled, and each is settled by a step of its own.*)
(***************************************************************************)
EXTENDS Naturals

CONSTANT Refs

VARIABLES
    taken,      \* the payments whose money Paystack took in full
    settled     \* the payments that count towards their order

Init == taken \subseteq Refs /\ settled = {}

Take == \E r \in Refs \ taken : taken' = taken \cup {r} /\ settled' = settled

Settle == \E r \in taken \ settled : settled' = settled \cup {r} /\ taken' = taken

Next == Take \/ Settle

Spec == Init /\ [][Next]_<<taken, settled>>
=============================================================================

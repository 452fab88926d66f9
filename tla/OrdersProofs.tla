---------------------------- MODULE OrdersProofs ----------------------------
(***************************************************************************)
(* Proofs about Orders, for any bound on the disputes and any outcomes.    *)
(*                                                                         *)
(* GoodsPaid is inductive together with the types: payments are never      *)
(* taken back, every step that hands goods over, starts the clock or       *)
(* completes the order looks at them first, and the clock of goods that    *)
(* are out stops only in a step that takes the order elsewhere.            *)
(***************************************************************************)
EXTENDS Orders, TLAPS

Inv == TypeOK /\ GoodsPaid

\* The disputes stay within their bound, and none is forgotten.
LEMMA DisputeTypes ==
    ASSUME TypeOK, NewDispute \/ VendorDisputeRow \/ ResolveOne \/ UNCHANGED disputeVars
    PROVE  /\ open' \in Nat /\ resolved' \in Nat /\ open' + resolved' <= MaxDisputes
           /\ open' + resolved' >= open + resolved
<1>1. ASSUME NewDispute
      PROVE  /\ open' \in Nat /\ resolved' \in Nat /\ open' + resolved' <= MaxDisputes
             /\ open' + resolved' >= open + resolved
    BY <1>1, OrderAssumption DEF TypeOK, NewDispute
<1>2. ASSUME UNCHANGED disputeVars
      PROVE  /\ open' \in Nat /\ resolved' \in Nat /\ open' + resolved' <= MaxDisputes
             /\ open' + resolved' >= open + resolved
    BY <1>2 DEF TypeOK, disputeVars
<1>3. CASE ResolveOne
    BY <1>2, <1>3, OrderAssumption DEF TypeOK, ResolveOne
<1> QED
    BY <1>1, <1>2, <1>3 DEF VendorDisputeRow

\* A payment starts the clock only when it is the last one, and stops it only where no
\* goods are out.
LEMMA ClockKeeps ==
    ASSUME TypeOK, NEW p \in Parts, Confirmed(p), NEW waits \in BOOLEAN, ClockAfter(p, waits),
           waits \/ status' \in {"confirmed", "payment_unresolved"}
    PROVE  /\ clock' \in BOOLEAN
           /\ clock' => clock \/ LastOne(p)
           /\ clock /\ ~LastOne(p) => clock'
           /\ LastOne(p) => clock' \/ status' \notin {"handed_over", "returned"}
<1>1. LastOne(p) /\ terms.rental => status' \in {"completed", "cancelled"}
    BY DEF Confirmed, MovedOn, LastOne
<1>2. clock' \in BOOLEAN
    BY DEF ClockAfter, TypeOK
<1> QED
    BY <1>1, <1>2 DEF ClockAfter

\* A payment that is paid moves the order on, and out of its hands only when all is paid.
LEMMA ConfirmedKeeps ==
    ASSUME Inv, NEW p \in Parts, Confirmed(p),
           terms' = terms, clock' \in BOOLEAN,
           clock' => clock \/ LastOne(p),
           clock /\ ~LastOne(p) => clock',
           LastOne(p) => clock' \/ status' \notin {"handed_over", "returned"}
    PROVE  /\ status' \in Statuses /\ escalated' \in BOOLEAN /\ paid' \subseteq Parts
           /\ GoodsPaid'
<1>1. AllPaid \/ LastOne(p) => AllPaid'
    BY DEF Confirmed, LastOne, AllPaid, FeeIn, DepositIn, DepositFirst
<1>2. /\ status' = MovedOn(p, LastOne(p))
      /\ escalated' \in BOOLEAN /\ paid' \subseteq Parts
    BY DEF Confirmed, Inv, TypeOK
<1>3. \/ status' = status
      \/ status' = "confirmed" /\ status \in {"pending", "payment_unresolved"}
      \/ status' \in {"handed_over", "completed"} /\ LastOne(p)
    BY <1>2 DEF MovedOn
<1>4. status' \in Statuses
    BY <1>3 DEF Inv, TypeOK, Statuses
<1>5. status' \in {"handed_over", "returned", "completed"} \/ clock' => AllPaid'
    BY <1>1, <1>3 DEF Inv, GoodsPaid
<1>6. status' \in {"handed_over", "returned"} => clock'
    BY <1>3 DEF Inv, GoodsPaid
<1> QED
    BY <1>2, <1>4, <1>5, <1>6 DEF GoodsPaid

LEMMA InitInv == Init => Inv
<1> SUFFICES ASSUME Init PROVE Inv
    OBVIOUS
<1>1. TypeOK
    <2>1. clock \in BOOLEAN /\ escalated \in BOOLEAN
        BY Zenon DEF Init
    <2>2. open \in Nat /\ resolved \in Nat /\ open + resolved <= MaxDisputes
        BY OrderAssumption DEF Init
    <2> QED
        BY <2>1, <2>2 DEF Init, TypeOK, Statuses
<1>2. GoodsPaid
    BY DEF Init, GoodsPaid
<1> QED
    BY <1>1, <1>2 DEF Inv

\* What the disputes do keeps types and goods.
LEMMA DisputesKeep == ASSUME Inv, Disputes PROVE Inv'
<1> USE DEF Inv, GoodsPaid, TypeOK, Statuses
<1>1. CASE Raise
    <2>1. open' \in Nat /\ resolved' \in Nat /\ open' + resolved' <= MaxDisputes
        BY <1>1, DisputeTypes DEF Raise
    <2> QED
        BY <1>1, <2>1 DEF Raise, moneyVars, AllPaid, FeeIn, DepositIn, DepositFirst
<1>2. CASE Resolve
    <2>1. open' \in Nat /\ resolved' \in Nat /\ open' + resolved' <= MaxDisputes
        BY <1>2, DisputeTypes DEF Resolve
    <2>2. AllPaid' <=> AllPaid
        BY <1>2 DEF Resolve, moneyVars, AllPaid, FeeIn, DepositIn, DepositFirst
    <2>3. /\ \/ status' \in {status, Completion, "cancelled", "confirmed"}
             \/ status' = "handed_over" /\ clock
          /\ escalated' \in BOOLEAN
        BY <1>2 DEF Resolve
    <2>4. status' \in Statuses /\ (status' = "completed" => AllPaid)
          /\ (status' \in {"handed_over", "returned"} => clock)
        BY <2>3 DEF Completion
    <2> QED
        BY <1>2, <2>1, <2>2, <2>3, <2>4 DEF Resolve, moneyVars
<1>3. CASE Reopen
    BY <1>3 DEF Reopen, moneyVars, AllPaid, FeeIn, DepositIn, DepositFirst
<1> QED
    BY <1>1, <1>2, <1>3 DEF Disputes

\* What payments, reports and their answers do keeps types and goods.
LEMMA ClaimsKeep == ASSUME Inv, Claims PROVE Inv'
<1>1. ASSUME NEW p \in Parts, CardPaid(p) PROVE Inv'
    <2>1. Confirmed(p) /\ terms' = terms /\ clock' \in BOOLEAN
        BY <1>1, ClockKeeps DEF CardPaid, Inv
    <2>2. /\ clock' => clock \/ LastOne(p)
          /\ clock /\ ~LastOne(p) => clock'
          /\ LastOne(p) => clock' \/ status' \notin {"handed_over", "returned"}
        BY <1>1, ClockKeeps DEF CardPaid, Inv
    <2>3. status' \in Statuses /\ escalated' \in BOOLEAN /\ paid' \subseteq Parts /\ GoodsPaid'
        BY <2>1, <2>2, ConfirmedKeeps
    <2> QED
        BY <1>1, <2>1, <2>3 DEF CardPaid, disputeVars, Inv, TypeOK
<1>2. ASSUME ConfirmClaim PROVE Inv'
    <2>1. PICK p \in claims : /\ claims' = claims \ {p}
                              /\ Confirmed(p)
                              /\ ClockAfter(p, TRUE)
        BY <1>2 DEF ConfirmClaim
    <2>2. p \in Parts /\ claims' \subseteq Parts /\ terms' = terms /\ request' = request
        BY <1>2, <2>1 DEF ConfirmClaim, Inv, TypeOK
    <2>3. /\ clock' \in BOOLEAN
          /\ clock' => clock \/ LastOne(p)
          /\ clock /\ ~LastOne(p) => clock'
          /\ LastOne(p) => clock' \/ status' \notin {"handed_over", "returned"}
        BY <2>1, <2>2, ClockKeeps DEF Inv
    <2>4. status' \in Statuses /\ escalated' \in BOOLEAN /\ paid' \subseteq Parts /\ GoodsPaid'
        BY <2>1, <2>2, <2>3, ConfirmedKeeps
    <2>5. open' \in Nat /\ resolved' \in Nat /\ open' + resolved' <= MaxDisputes
        BY <1>2, DisputeTypes DEF ConfirmClaim, Inv
    <2> QED
        BY <2>2, <2>3, <2>4, <2>5 DEF Inv, TypeOK
<1> USE DEF Inv, GoodsPaid, TypeOK, Statuses, AllPaid, FeeIn, DepositIn, DepositFirst
<1>3. ASSUME NEW p \in Parts, Report(p) PROVE Inv'
    BY <1>3 DEF Report, disputeVars
<1>4. CASE PaymentIntent
    BY <1>4 DEF PaymentIntent, disputeVars
<1>5. CASE VendorDispute
    <2>1. open' \in Nat /\ resolved' \in Nat /\ open' + resolved' <= MaxDisputes
        BY <1>5, DisputeTypes DEF VendorDispute
    <2> QED
        BY <1>5, <2>1 DEF VendorDispute, moneyVars
<1>6. CASE AdminReject
    <2>1. open' \in Nat /\ resolved' \in Nat /\ open' + resolved' <= MaxDisputes
        BY <1>6, DisputeTypes DEF AdminReject
    <2> QED
        BY <1>6, <2>1 DEF AdminReject
<1>7. CASE RecordOffline
    BY <1>7 DEF RecordOffline, disputeVars
<1>8. CASE VendorConfirmUnreported
    BY <1>8 DEF VendorConfirmUnreported, disputeVars, Parts, Rank
<1>9. CASE VendorDisputeUnreported
    <2>1. open' \in Nat /\ resolved' \in Nat /\ open' + resolved' <= MaxDisputes
        BY <1>9, DisputeTypes DEF VendorDisputeUnreported
    <2> QED
        BY <1>9, <2>1 DEF VendorDisputeUnreported, moneyVars
<1>10. CASE CancelOverdue
    BY <1>10 DEF CancelOverdue, moneyVars, disputeVars
<1> QED
    BY <1>1, <1>2, <1>3, <1>4, <1>5, <1>6, <1>7, <1>8, <1>9, <1>10
    DEF Claims, VendorConfirm, AdminConfirm

\* Moves of the shop, the buyer and the jobs keep types and goods, and so do cancellations.
LEMMA OthersKeep == ASSUME Inv, Moves \/ Cancellations \/ Jobs PROVE Inv'
<1>1. ASSUME UNCHANGED <<terms, moneyVars, disputeVars>>,
             escalated' \in BOOLEAN, request' \in {"none", "buyer", "vendor", "declined"},
             clock' \in BOOLEAN, status' \in Statuses,
             status' \in {"handed_over", "returned", "completed"} \/ clock' => AllPaid,
             status' \in {"handed_over", "returned"} => clock'
      PROVE  Inv'
    BY <1>1 DEF Inv, TypeOK, GoodsPaid, moneyVars, disputeVars, AllPaid, FeeIn, DepositIn, DepositFirst
<1>2. Completion \in {"completed", "payment_unresolved"} /\ (Completion = "completed" => AllPaid)
    BY DEF Completion
<1> USE DEF Inv, GoodsPaid, TypeOK, Statuses
<1>3. ASSUME NEW from, Cancels(from) PROVE Inv'
    BY <1>1, <1>3 DEF Cancels, MovesTo
<1>4. CASE Moves
    <2>1. CASE VendorAccepts
        BY <1>1, <2>1 DEF VendorAccepts, MovesTo
    <2>2. CASE HandOver
        BY <1>1, <2>2 DEF HandOver, MovesTo
    <2>3. CASE VendorCompletes
        BY <1>1, <1>2, <2>3 DEF VendorCompletes, MovesTo
    <2>4. CASE BuyerReceives
        BY <1>1, <1>2, <2>4 DEF BuyerReceives, MovesTo
    <2>5. CASE ReturnRental
        BY <1>1, <2>5 DEF ReturnRental, MovesTo
    <2> QED
        BY <1>3, <1>4, <2>1, <2>2, <2>3, <2>4, <2>5 DEF Moves, TransitionCancel, Decline
<1>5. CASE Cancellations
    <2>1. ASSUME NEW who \in {"buyer", "vendor"}, NEW from, Asks(who, from) PROVE Inv'
        BY <1>1, <2>1 DEF Asks
    <2>2. ASSUME NEW from, CancelsAsAsked(from) PROVE Inv'
        BY <1>1, <2>2 DEF CancelsAsAsked
    <2>3. CASE VendorDeclines
        BY <1>1, <2>3 DEF VendorDeclines
    <2>4. CASE AdminDenies
        BY <1>1, <2>4 DEF AdminDenies
    <2> QED
        BY <1>3, <1>5, <2>1, <2>2, <2>3, <2>4
        DEF Cancellations, BuyerCancel, BuyerAsks, VendorAsks, VendorRefunds, AdminApproves
<1>6. CASE Jobs
    <2>1. CASE AutoComplete
        BY <1>1, <1>2, <2>1 DEF AutoComplete, MovesTo
    <2>2. CASE Escalate
        BY <1>1, <2>2 DEF Escalate
    <2> QED
        BY <1>3, <1>6, <2>1, <2>2 DEF Jobs, AutoCancel
<1> QED
    BY <1>4, <1>5, <1>6

\* Types and paid goods hold together, whatever comes between.
THEOREM Inductive == Spec => []Inv
<1>1. Inv /\ [Next]_vars => Inv'
    <2> SUFFICES ASSUME Inv, [Next]_vars PROVE Inv'
        OBVIOUS
    <2>1. CASE UNCHANGED vars
        BY <2>1 DEF vars, moneyVars, disputeVars, Inv, TypeOK, GoodsPaid,
            AllPaid, FeeIn, DepositIn, DepositFirst
    <2> QED
        BY <2>1, DisputesKeep, ClaimsKeep, OthersKeep DEF Next
<1> QED
    BY <1>1, InitInv, PTL DEF Spec

\* Every reachable state is well typed, and the disputes stay within their bound
\* (every handler of payment-claims, order-actions, cancellations, scheduled-jobs).
THEOREM TypeCorrect == Spec => []TypeOK
<1>1. Inv => TypeOK
    BY DEF Inv
<1> QED
    BY <1>1, Inductive, PTL

\* Goods are out, the order complete and its clock running only when all that is
\* due is paid (transition, afterConfirmedClaim, the triggers on completion).
THEOREM GoodsPaidAlways == Spec => []GoodsPaid
<1>1. Inv => GoodsPaid
    BY DEF Inv
<1> QED
    BY <1>1, Inductive, PTL

\* An order that is over comes back only after a dispute, or by an admin who grants
\* its cancellation; no late payment, report or job does it (the guards of every handler).
THEOREM ClosedStaysAlways == Spec => ClosedStays
<1>1. Inv /\ [Next]_vars => [ClosedMove]_vars
    <2> SUFFICES ASSUME Inv, Next, status \in Closed, status' # status
                 PROVE  \/ open' + resolved' > 0
                        \/ status = "completed" /\ status' = "cancelled" /\ request # "none"
        BY DEF ClosedMove
    <2> USE DEF Closed
    <2>1. TypeOK
        BY DEF Inv
    <2>2. CASE Disputes
        <3>1. CASE Raise
            BY <2>1, <3>1 DEF Raise, NewDispute, TypeOK
        <3>2. CASE Resolve
            BY <2>1, <3>2 DEF Resolve, ResolveOne, disputeVars, TypeOK
        <3>3. CASE Reopen
            BY <2>1, <3>3 DEF Reopen, TypeOK
        <3> QED
            BY <2>2, <3>1, <3>2, <3>3 DEF Disputes
    <2>3. CASE Claims
        <3>1. ASSUME NEW p \in Parts, Confirmed(p) PROVE FALSE
            BY <3>1 DEF Confirmed, MovedOn
        <3>2. ~ConfirmClaim
            BY <2>1, <3>1 DEF ConfirmClaim, TypeOK
        <3>3. CASE VendorDispute
            BY <2>1, <3>3 DEF VendorDispute, VendorDisputeRow, NewDispute, disputeVars, TypeOK
        <3>4. ~AdminReject
            BY DEF AdminReject
        <3> QED
            BY <2>3, <3>1, <3>2, <3>3, <3>4
            DEF Claims, CardPaid, Report, PaymentIntent, VendorConfirm, AdminConfirm,
                RecordOffline, VendorConfirmUnreported, VendorDisputeUnreported, CancelOverdue
    <2>4. ~Moves
        BY DEF Moves, VendorAccepts, HandOver, ReturnRental, VendorCompletes, BuyerReceives,
            TransitionCancel, Decline, Cancels
    <2>5. CASE Cancellations
        BY <2>5 DEF Cancellations, BuyerCancel, Cancels, BuyerAsks, VendorAsks, Asks,
            VendorRefunds, VendorDeclines, AdminApproves, AdminDenies, CancelsAsAsked
    <2>6. ~Jobs
        BY DEF Jobs, AutoCancel, Cancels, AutoComplete, Escalate
    <2> QED
        BY <2>2, <2>3, <2>4, <2>5, <2>6 DEF Next
<1> QED
    BY <1>1, Inductive, PTL DEF Spec, ClosedStays

=============================================================================

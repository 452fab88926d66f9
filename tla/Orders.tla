------------------------------- MODULE Orders -------------------------------
(***************************************************************************)
(* The life of one order of products, sold or rented, without escrow.      *)
(*                                                                         *)
(* The shop and the buyer move it on (order-actions); the buyer reports    *)
(* bank transfers, the shop and admins confirm, dispute or reject them     *)
(* (payment-claims); both may ask for a cancellation (cancellations);      *)
(* jobs cancel, complete and escalate it (scheduled-jobs).  How a card     *)
(* payment comes to be settled is CardPayments; here it simply arrives.    *)
(*                                                                         *)
(* Every request locks the order's row, so a request is one step.  Ages    *)
(* (30 minutes, 24 hours) are nondeterministic: a job may find the order   *)
(* old enough at any time.                                                 *)
(***************************************************************************)
EXTENDS Naturals

CONSTANTS
    Outcomes,       \* the outcomes of a dispute the admin's screen offers
    MaxDisputes     \* bound: the disputes raised about the order

ASSUME OrderAssumption ==
    /\ Outcomes \subseteq {"completed", "cancelled"}
    /\ MaxDisputes \in Nat

VARIABLES
    terms,      \* delivery_method is delivery, payment_timing pay_after, order_type rental
    status,     \* orders.status
    clock,      \* awaiting_confirmation_since is set
    escalated,  \* payment_escalated_at is set
    paid,       \* the types of the payments that are paid
    claims,     \* the types of the buyer's reports that are pending
    open,       \* how many disputes are open ...
    resolved,   \* ... and how many resolved
    request     \* the open cancellation request: whose it is, or that the shop declined it

moneyVars == <<paid, claims>>
disputeVars == <<open, resolved>>
vars == <<terms, status, clock, escalated, moneyVars, disputeVars, request>>

Statuses == {"pending", "confirmed", "payment_unresolved", "handed_over",
             "returned", "disputed", "completed", "cancelled"}

Terms == [delivery : BOOLEAN, payAfter : BOOLEAN, rental : BOOLEAN]

\* delivery_deposit_20, sale_price or rental_fee, and deposit, in the order they can be
\* reported; the last is the whole price once more, see Outstanding
Rank == [deposit |-> 1, fee |-> 2, again |-> 3]
Parts == DOMAIN Rank

TypeOK ==
    /\ terms \in Terms
    /\ status \in Statuses
    /\ clock \in BOOLEAN
    /\ escalated \in BOOLEAN
    /\ paid \subseteq Parts
    /\ claims \subseteq Parts
    /\ open \in Nat /\ resolved \in Nat /\ open + resolved <= MaxDisputes
    /\ request \in {"none", "buyer", "vendor", "declined"}

-----------------------------------------------------------------------------
(* What is paid and what is owed.                                          *)

DepositFirst == terms.delivery /\ terms.payAfter
DepositIn == DepositFirst => "deposit" \in paid
FeeIn == "fee" \in paid
AllPaid == FeeIn /\ DepositIn
AnyPaid == paid \cap {"deposit", "fee"} # {}
\* payments_one_paid_fee_per_order_idx: recording a second paid fee raises an error,
\* and its request changes nothing.  Deposits are not in that index
MayBePaid(p) == p = "fee" => ~FeeIn

\* what outstanding() names: the balance also after it was paid, or else, once
\* the price is paid, the refundable deposit: a trigger set it, to the price itself
\* where all is due before
Outstanding ==
    IF DepositFirst THEN IF "deposit" \in paid THEN {"fee"} ELSE {"deposit"}
    ELSE IF FeeIn THEN {"again"} \ paid ELSE {"fee"}

\* the newest pending report
LatestClaim(p) == p \in claims /\ \A q \in claims : Rank[q] <= Rank[p]

\* the trigger is missing
CompletionUnguarded == "completed"
\* a completion the payments do not bear out becomes payment_unresolved (a trigger)
Completion == IF AllPaid THEN "completed" ELSE "payment_unresolved"

\* whatever the status was, as if only open orders were ever paid
MovedAnyhow(p, last) ==
    CASE p = "again" -> status
      [] last /\ terms.rental -> "completed"
      [] last /\ ~terms.rental /\ terms.payAfter /\ status = "payment_unresolved" -> "handed_over"
      [] OTHER -> "confirmed"
\* afterConfirmedClaim: the status after a payment of type p, which is the last one or
\* not; the last one ends a rental
MovedOn(p, last) ==
    CASE p = "again" -> status
      [] last /\ terms.rental -> IF status = "cancelled" THEN status ELSE "completed"
      [] last /\ ~terms.rental /\ status = "payment_unresolved" ->
            IF terms.payAfter THEN "handed_over" ELSE "confirmed"
      [] p # "again" /\ ~last /\ status \in {"pending", "payment_unresolved"} -> "confirmed"
      [] OTHER -> status

LastOne(p) == p = "fee" /\ DepositIn
\* nothing is written to it
CancelledRental(p) == terms.rental /\ LastOne(p) /\ status = "cancelled"

-----------------------------------------------------------------------------
Init ==
    /\ terms \in Terms
    /\ status = "pending"
    /\ clock = FALSE
    /\ escalated = FALSE
    /\ paid = {} /\ claims = {}
    /\ open = 0 /\ resolved = 0
    /\ request = "none"

-----------------------------------------------------------------------------
(* Disputes.                                                               *)

NewDispute == open + resolved < MaxDisputes /\ open' = open + 1 /\ resolved' = resolved
\* the shop's dispute takes over one that is open
VendorDisputeRow == IF open > 0 THEN UNCHANGED disputeVars ELSE NewDispute
\* also when none is open
ResolveAnyway == open' = open - 1 /\ resolved' = resolved + 1
\* confirming or rejecting a claim resolves the newest open dispute
ResolveOne == IF open > 0 THEN open' = open - 1 /\ resolved' = resolved + 1
              ELSE UNCHANGED disputeVars

\* in any status
Raise ==
    /\ NewDispute
    /\ status' = "disputed"
    /\ UNCHANGED <<terms, clock, escalated, moneyVars, request>>

\* with an outcome or without; the dispute may have been resolved before
Resolve ==
    /\ \/ ResolveOne /\ open > 0
       \/ resolved > 0 /\ UNCHANGED disputeVars
    /\ \/ /\ "completed" \in Outcomes
          /\ status' = IF status = "completed" THEN status ELSE Completion
          /\ escalated' = (escalated /\ (status = "completed" \/ AllPaid))
       \/ /\ "cancelled" \in Outcomes
          /\ status' = "cancelled"
          /\ UNCHANGED escalated
       \/ /\ status' = IF status # "disputed" THEN status
                       ELSE IF clock THEN "handed_over" ELSE "confirmed"
          /\ UNCHANGED escalated
    /\ UNCHANGED <<terms, clock, moneyVars, request>>

\* refused when the payout was sent, which may be the case or not; what it does to
\* one that waits is in VendorPayouts
Reopen ==
    /\ resolved > 0
    /\ resolved' = resolved - 1 /\ open' = open + 1
    /\ status' = IF status \in {"completed", "confirmed", "handed_over"}
                 THEN "disputed" ELSE status
    /\ UNCHANGED <<terms, clock, escalated, moneyVars, request>>

-----------------------------------------------------------------------------
(* Payments.                                                               *)

\* a payment of type p is paid: the order moves on
Confirmed(p) ==
    /\ paid' = paid \cup {p}
    /\ status' = MovedOn(p, LastOne(p))
    /\ escalated' = (escalated /\ (p = "again" \/ CancelledRental(p)))

\* the clock after the last payment: it waits for the buyer, or not
ClockAfter(p, waits) ==
    clock' = IF ~LastOne(p) THEN clock
             ELSE IF terms.rental THEN clock /\ status = "cancelled"
             ELSE waits

\* a card or wallet payment: also late, and of a link that was replaced; only a
\* rental's refundable deposit can be paid so.  It starts no clock in two statuses,
\* and stops one there
CardPaid(p) ==
    /\ \/ p = "deposit" /\ DepositFirst
       \/ p = "fee" /\ DepositIn
       \/ p = "again" /\ terms.rental /\ ~DepositFirst /\ FeeIn
    /\ MayBePaid(p)
    /\ Confirmed(p)
    /\ ClockAfter(p, status' \notin {"confirmed", "payment_unresolved"})
    /\ UNCHANGED <<terms, claims, disputeVars, request>>

\* the buyer says "I have paid the vendor"; refused while a card attempt is
\* active, which may be the case or not
Report(p) ==
    /\ status \in {"pending", "confirmed", "handed_over", "returned", "payment_unresolved"}
    /\ p \in Outstanding
    /\ claims' = claims \cup {p}
    /\ status' = "payment_unresolved"
    /\ escalated' = FALSE
    /\ clock' = FALSE
    /\ UNCHANGED <<terms, paid, disputeVars, request>>

\* the card payment of an earlier version forgets the pending reports
PaymentIntent ==
    /\ status \in {"pending", "confirmed"}
    /\ claims' = {}
    /\ UNCHANGED <<terms, status, clock, escalated, paid, disputeVars, request>>

ConfirmClaim ==
    /\ \E p \in claims :
        /\ LatestClaim(p)
        /\ MayBePaid(p)
        /\ claims' = claims \ {p}
        /\ Confirmed(p)
        /\ ClockAfter(p, TRUE)
    /\ ResolveOne
    /\ UNCHANGED <<terms, request>>

VendorConfirm == ConfirmClaim
AdminConfirm == ConfirmClaim

VendorDispute ==
    /\ claims # {}
    /\ VendorDisputeRow
    /\ status' = IF status = "completed" THEN status ELSE "payment_unresolved"
    /\ UNCHANGED <<terms, clock, escalated, moneyVars, request>>

AdminReject ==
    /\ \E p \in claims : LatestClaim(p) /\ claims' = claims \ {p}
    /\ ResolveOne
    /\ status' = IF status = "completed" THEN status ELSE "cancelled"
    /\ UNCHANGED <<terms, clock, escalated, paid, request>>

\* the payment alone is recorded; the order does not move
RecordOffline ==
    /\ \E p \in claims :
        /\ MayBePaid(p)
        /\ claims' = claims \ {p} /\ paid' = paid \cup {p}
    /\ escalated' = FALSE
    /\ UNCHANGED <<terms, status, clock, disputeVars, request>>

\* at the follow-up stage the shop records money that was not reported
VendorConfirmUnreported ==
    /\ status = "confirmed" /\ escalated
    /\ DepositIn => MayBePaid("fee")
    /\ paid' = paid \cup {IF DepositIn THEN "fee" ELSE "deposit"}
    /\ status' = IF DepositIn /\ terms.rental THEN "completed" ELSE status
    /\ clock' = IF DepositIn THEN ~terms.rental ELSE clock
    /\ escalated' = FALSE
    /\ UNCHANGED <<terms, claims, disputeVars, request>>

VendorDisputeUnreported ==
    /\ status = "confirmed"
    /\ VendorDisputeRow
    /\ status' = "payment_unresolved"
    /\ escalated' = FALSE
    /\ UNCHANGED <<terms, clock, moneyVars, request>>

CancelOverdue ==
    /\ status = "confirmed" /\ escalated
    /\ ~FeeIn
    /\ status' = "cancelled"
    /\ escalated' = FALSE
    /\ UNCHANGED <<terms, clock, moneyVars, disputeVars, request>>

-----------------------------------------------------------------------------
(* The shop and the buyer move the order on.                               *)

MovesTo(s) ==
    /\ status' = s
    /\ UNCHANGED <<terms, escalated, moneyVars, disputeVars, request>>

VendorAccepts == status = "pending" /\ MovesTo("confirmed") /\ UNCHANGED clock

HandOver ==
    /\ status = "confirmed"
    /\ AllPaid
    /\ MovesTo("handed_over")
    /\ clock' = TRUE

\* either of them
ReturnRental ==
    /\ terms.rental
    /\ status = "handed_over"
    /\ MovesTo("returned")
    /\ clock' = TRUE

\* a delivery asks for the deposit, also when everything was due before
VendorCompletes ==
    /\ status = "confirmed" \/ (status = "handed_over" /\ terms.delivery)
    /\ FeeIn
    /\ terms.delivery => "deposit" \in paid
    /\ MovesTo(Completion)
    /\ UNCHANGED clock

BuyerReceives ==
    /\ status = "confirmed" \/ (status = "handed_over" /\ clock)
    /\ AllPaid
    /\ MovesTo(Completion)
    /\ clock' = FALSE

Cancels(from) == status \in from /\ MovesTo("cancelled") /\ UNCHANGED clock

\* by either of them, or declined by the shop: whether anything is paid is not asked
TransitionCancel == Cancels({"pending", "confirmed"})
Decline == Cancels({"pending", "confirmed"})

-----------------------------------------------------------------------------
(* Cancelling a paid order.                                                *)

BuyerCancel == ~AnyPaid /\ Cancels({"pending", "confirmed"})

Asks(who, from) ==
    /\ AnyPaid
    /\ status \in from
    /\ request = "none"
    /\ request' = who
    /\ UNCHANGED <<terms, status, clock, escalated, moneyVars, disputeVars>>

BuyerAsks == Asks("buyer", {"pending", "confirmed"})
VendorAsks == Asks("vendor", {"confirmed"})

CancelsAsAsked(from) ==
    /\ status \in from
    /\ status' = "cancelled"
    /\ request' = "none"
    /\ UNCHANGED <<terms, clock, escalated, moneyVars, disputeVars>>

VendorRefunds ==
    /\ request \in {"buyer", "declined"}
    /\ CancelsAsAsked({"pending", "confirmed"})

VendorDeclines ==
    /\ request = "buyer"
    /\ request' = "declined"
    /\ UNCHANGED <<terms, status, clock, escalated, moneyVars, disputeVars>>

AdminApproves == request # "none" /\ CancelsAsAsked(Statuses \ {"cancelled"})

AdminDenies ==
    /\ request # "none"
    /\ request' = "none"
    /\ UNCHANGED <<terms, status, clock, escalated, moneyVars, disputeVars>>

-----------------------------------------------------------------------------
(* The jobs.                                                               *)

AutoCancel == Cancels({"pending"})

AutoComplete ==
    /\ ~terms.rental
    /\ status \in {"confirmed", "handed_over"}
    /\ clock
    /\ AllPaid
    /\ open = 0
    /\ MovesTo(Completion)
    /\ clock' = FALSE

\* only reports of the price
UnansweredFee == status = "payment_unresolved" /\ "fee" \in claims
\* a report the shop did not answer for a day ...
Unanswered == status = "payment_unresolved" /\ claims # {}
\* ... or a confirmed order nothing was paid for
Unpaid == status = "confirmed" /\ ~FeeIn /\ ~(DepositFirst /\ "deposit" \in paid)

Escalate ==
    /\ ~escalated
    /\ Unanswered \/ Unpaid
    /\ escalated' = TRUE
    /\ UNCHANGED <<terms, status, clock, moneyVars, disputeVars, request>>

-----------------------------------------------------------------------------
Claims ==
    \/ \E p \in Parts : CardPaid(p) \/ Report(p)
    \/ PaymentIntent \/ VendorConfirm \/ AdminConfirm \/ VendorDispute \/ AdminReject
    \/ RecordOffline \/ VendorConfirmUnreported \/ VendorDisputeUnreported \/ CancelOverdue
Disputes == Raise \/ Resolve \/ Reopen
Moves ==
    \/ VendorAccepts \/ HandOver \/ ReturnRental \/ VendorCompletes \/ BuyerReceives
    \/ TransitionCancel \/ Decline
Cancellations ==
    \/ BuyerCancel \/ BuyerAsks \/ VendorAsks
    \/ VendorRefunds \/ VendorDeclines \/ AdminApproves \/ AdminDenies
Jobs == AutoCancel \/ AutoComplete \/ Escalate

Next == Claims \/ Disputes \/ Moves \/ Cancellations \/ Jobs

Spec == Init /\ [][Next]_vars

\* the jobs run every few minutes; nobody else has to do anything
Fairness == WF_vars(AutoCancel) /\ WF_vars(AutoComplete) /\ WF_vars(Escalate)
FairSpec == Spec /\ Fairness

-----------------------------------------------------------------------------
(* Properties.                                                             *)

Closed == {"completed", "cancelled"}

\* Goods are out, the order is complete or its confirmation clock runs only
\* when everything due is paid, whatever reports, disputes and their outcomes
\* came between; and goods that are out have a clock
\* (transition, afterConfirmedClaim, the triggers on completion).
GoodsPaid ==
    /\ status \in {"handed_over", "returned", "completed"} \/ clock => AllPaid
    /\ status \in {"handed_over", "returned"} => clock

\* An order that is over does not come back by late payments, reports or jobs:
\* only when somebody disputed it, or an admin granted its cancellation.
ClosedMove ==
    status \in Closed /\ status' # status =>
        \/ open' + resolved' > 0
        \/ status = "completed" /\ status' = "cancelled" /\ request # "none"
ClosedStays == [][ClosedMove]_vars

\* No job watches these orders: paid, they wait for the shop to hand over (or
\* for the balance); a paid rental is out or back; a payment was disputed or recorded
\* and no report is left; or a dispute was resolved by a confirmation and its order
\* left disputed.
Unwatched ==
    \/ status = "confirmed" /\ AnyPaid /\ ~clock
    \/ status \in {"confirmed", "handed_over", "returned"} /\ terms.rental /\ clock
    \/ status = "payment_unresolved" /\ claims = {}
    \/ status = "disputed" /\ open = 0

\* Once the shop and the buyer leave an order alone, the jobs of scheduled-jobs
\* end it or lay it before an admin (a dispute, an escalation), unless it is one
\* of the unwatched ones.
NobodyForgotten ==
    <>[][Jobs]_vars => <>[](status \in Closed \/ open > 0 \/ escalated \/ Unwatched)

\* A disputed order has a dispute that is open: the admin's screen says that
\* resolving one "has to always move the order out of disputed".
DisputedMeansOpen == status = "disputed" => open > 0

=============================================================================

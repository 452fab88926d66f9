---------------------------- MODULE CardPayments ----------------------------
(***************************************************************************)
(* Paying for an order with a card through Paystack.                       *)
(*                                                                         *)
(* The buyer starts an attempt (paystack-checkout), pays on Paystack's own *)
(* page, and the money is settled by whichever of four callers comes       *)
(* first: Paystack's webhook, the buyer's "check my payment", the          *)
(* reconciliation job, or the repair of a payment that was recorded and    *)
(* never applied (paystack-webhook).  All of them first ask Paystack and   *)
(* only then open a database transaction, so anything may happen between   *)
(* the two.  A bank transfer reported by the buyer and confirmed by the    *)
(* vendor (payment-claims) is the other way to pay the same order.  The    *)
(* database refuses a second paid fee of an order, whoever records it.     *)
(*                                                                         *)
(* A database transaction is one step.  Ages (25 minutes, 90 seconds, 15   *)
(* minutes, 24 hours) are nondeterministic, except the hour after which an *)
(* open attempt no longer blocks a bank transfer, which is `aged'.         *)
(***************************************************************************)
EXTENDS Naturals, FiniteSets

CONSTANTS
    Orders,     \* product orders without escrow
    PayAfter,   \* the ones delivered and paid after delivery (a deposit first); the
                \* others are picked up
    Refs,       \* the Paystack references the orders can ever use
    OrderOf,    \* the order each reference was made for
    MaybeOld,   \* references that may stem from a version that did not apply payments
    Handlers,   \* requests and jobs that can be at work at the same time
    Outages     \* whether Paystack may be unable to answer a verify call

ASSUME CardAssumption ==
    /\ PayAfter \subseteq Orders
    /\ OrderOf \in [Refs -> Orders]
    /\ MaybeOld \subseteq Refs
    /\ Outages \in BOOLEAN

VARIABLES
    order,      \* orders.status
    clock,      \* orders.awaiting_confirmation_since is set
    disputed,   \* orders with an open dispute
    tx,         \* paystack_transactions.status ("none": not started yet)
    due,        \* what the attempt pays for: payments.payment_type
    row,        \* the attempt's row in payments
    link,       \* the Paystack link: none, being asked for, or stored
    aged,       \* the order's newest attempt was started more than an hour ago
    claims,     \* pending buyer_report rows: <<order, type>>
    banked,     \* bank transfers confirmed as received: <<order, type>>
    event,      \* paystack_events row of the reference's charge.success
    paystack,   \* the truth at Paystack
    calls,      \* the requests and jobs at work
    old,        \* references recorded as settled whose row was never marked paid
    applied     \* history: how often the reference moved its order on

orderVars   == <<order, clock, disputed>>
attemptVars == <<tx, due, link, aged>>
bankVars    == <<claims, banked>>
vars == <<orderVars, attemptVars, row, bankVars, event, paystack, calls, old, applied>>

Statuses   == {"pending", "confirmed", "payment_unresolved", "handed_over",
               "completed", "cancelled"}
DueTypes   == {"deposit", "fee"}
Settleable == {"initialized", "failed", "abandoned"}
Payable    == {"pending", "confirmed", "handed_over"}
Repairable == {"pending", "confirmed", "payment_unresolved", "handed_over"}

Idle == [kind |-> "idle"]
Call == [kind : {"webhook", "confirm", "reconcile", "repair"}, ref : Refs,
         verified : {"success", "short", "failed", "abandoned", "unavailable"}]

TypeOK ==
    /\ order \in [Orders -> Statuses]
    /\ clock \in [Orders -> BOOLEAN]
    /\ disputed \subseteq Orders
    /\ tx \in [Refs -> {"none", "success"} \cup Settleable]
    /\ due \in [Refs -> DueTypes]
    /\ row \in [Refs -> {"absent", "pending", "paid"}]
    /\ link \in [Refs -> {"none", "asked", "stored"}]
    /\ aged \in [Orders -> BOOLEAN]
    /\ claims \subseteq Orders \X DueTypes
    /\ banked \subseteq Orders \X DueTypes
    /\ event \in [Refs -> {"none", "error", "verify_unavailable", "amount_mismatch", "done"}]
    /\ paystack \in [Refs -> {"open", "success", "short", "failed", "abandoned"}]
    /\ calls \in [Handlers -> Call \cup {Idle}]
    /\ old \subseteq Refs
    /\ applied \in [Refs -> Nat]

-----------------------------------------------------------------------------
(* What has been paid and what is owed next.                               *)

RefsOf(o) == {r \in Refs : OrderOf[r] = o}
CardPaid(o, t) == \E r \in RefsOf(o) : due[r] = t /\ row[r] = "paid"
Paid(o, t) == CardPaid(o, t) \/ <<o, t>> \in banked
DepositIn(o) == o \notin PayAfter \/ Paid(o, "deposit")
PaymentKnown(o) == \E r \in RefsOf(o) : due[r] = "fee" /\ row[r] # "absent"
AllPaid(o) == Paid(o, "fee") /\ DepositIn(o)

\* The database keeps one paid fee per order (payments_one_paid_fee_per_order_idx):
\* recording a second one raises an error and rolls its whole transaction back,
\* which is CallFails.  A payment's own row may be marked again, and the deposit is
\* not in that index.
MayBePaid(o, t, own) ==
    \/ t = "deposit"
    \/ /\ <<o, t>> \notin banked
       /\ \A s \in RefsOf(o) \ own : due[s] = t => row[s] # "paid"

\* outstanding(): the deposit first; it keeps naming the balance of a
\* pay-after order after the balance has been paid.  Of another paid order it
\* names the refundable deposit, the price once more: that report is in Orders
Outstanding(o) == IF ~DepositIn(o) THEN {"deposit"}
                  ELSE IF o \in PayAfter \/ ~Paid(o, "fee") THEN {"fee"}
                  ELSE {}

\* the order after a payment of type t was put through without looking at it
AlwaysConfirmed(o, t) == "confirmed"
\* the order after a payment of type t was confirmed (afterConfirmedClaim)
MovedOn(o, t) ==
    CASE t = "fee" /\ DepositIn(o) /\ order[o] = "payment_unresolved" ->
            IF o \in PayAfter THEN "handed_over" ELSE "confirmed"
      [] ~(t = "fee" /\ DepositIn(o)) /\ order[o] \in {"pending", "payment_unresolved"} ->
            "confirmed"
      [] OTHER -> order[o]

\* the last payment starts the buyer's clock ...
ClockAfterTransfer(o, t) == clock[o] \/ (t = "fee" /\ DepositIn(o))
\* ... and a card payment stops it again, while the order is in two of its statuses
ClockAfterCard(o, t) ==
    IF t = "fee" /\ DepositIn(o)
    THEN MovedOn(o, t) \notin {"confirmed", "payment_unresolved"}
    ELSE clock[o]

-----------------------------------------------------------------------------
Init ==
    /\ old \in SUBSET MaybeOld
    /\ order = [o \in Orders |-> IF \E r \in old : OrderOf[r] = o
                                 THEN "confirmed" ELSE "pending"]
    /\ clock = [o \in Orders |-> FALSE]
    /\ disputed = {}
    /\ tx = [r \in Refs |-> IF r \in old THEN "success" ELSE "none"]
    /\ due = [r \in Refs |-> IF OrderOf[r] \in PayAfter THEN "deposit" ELSE "fee"]
    /\ row \in [Refs -> {"absent", "pending"}]
    /\ \A r \in Refs \ old : row[r] = "absent"
    /\ link = [r \in Refs |-> IF r \in old THEN "stored" ELSE "none"]
    /\ aged = [o \in Orders |-> FALSE]
    /\ claims = {}
    /\ banked = {}
    /\ event = [r \in Refs |-> IF r \in old THEN "done" ELSE "none"]
    /\ paystack = [r \in Refs |-> IF r \in old THEN "success" ELSE "open"]
    /\ calls = [h \in Handlers |-> Idle]
    /\ applied = [r \in Refs |-> 0]

-----------------------------------------------------------------------------
(* Starting a payment (PaystackCheckoutService.startPayment).              *)

LinkedAttempts(o) == {r \in RefsOf(o) : tx[r] = "initialized" /\ link[r] = "stored"}
OpenAttempts(o) == {r \in RefsOf(o) : tx[r] = "initialized"}

\* The first transaction: every open attempt is set aside with its row, and a
\* new one is recorded.  An attempt that is handed out again, or still being
\* set up, changes nothing here.
StartPayment(r) ==
    LET o == OrderOf[r] IN
    /\ tx[r] = "none"
    /\ order[o] \in Payable
    /\ \E t \in Outstanding(o) :
        /\ ~Paid(o, t)
        /\ due' = [due EXCEPT ![r] = t]
    /\ tx' = [s \in Refs |-> IF s = r THEN "initialized"
                             ELSE IF s \in OpenAttempts(o) THEN "abandoned" ELSE tx[s]]
    /\ row' = [s \in Refs |-> IF s = r THEN "pending"
                              ELSE IF s \in OpenAttempts(o) /\ row[s] = "pending"
                              THEN "absent" ELSE row[s]]
    /\ link' = [link EXCEPT ![r] = "asked"]
    /\ aged' = [aged EXCEPT ![o] = FALSE]
    /\ UNCHANGED <<orderVars, bankVars, event, paystack, calls, applied, old>>

\* Paystack made the link; it is stored whatever became of the attempt since
LinkStored(r) ==
    /\ link[r] = "asked"
    /\ link' = [link EXCEPT ![r] = "stored"]
    /\ UNCHANGED <<orderVars, tx, due, aged, row, bankVars, event, paystack, calls, applied, old>>

\* the call failed or its answer was lost: no link was handed out (dropAttempt)
DropAttempt(r) ==
    /\ link[r] = "asked"
    /\ link' = [link EXCEPT ![r] = "none"]
    /\ tx' = [tx EXCEPT ![r] = IF @ = "initialized" THEN "abandoned" ELSE @]
    /\ row' = [row EXCEPT ![r] = IF @ = "pending" THEN "absent" ELSE @]
    /\ UNCHANGED <<orderVars, due, aged, bankVars, event, paystack, calls, applied, old>>

\* the server stopped in between, or dropAttempt itself failed: the attempt
\* stays open without a link
StartCrashes(r) ==
    /\ link[r] = "asked"
    /\ link' = [link EXCEPT ![r] = "none"]
    /\ UNCHANGED <<orderVars, tx, due, aged, row, bankVars, event, paystack, calls, applied, old>>

HourPasses(o) ==
    /\ OpenAttempts(o) # {}
    /\ ~aged[o]
    /\ aged' = [aged EXCEPT ![o] = TRUE]
    /\ UNCHANGED <<orderVars, tx, due, link, row, bankVars, event, paystack, calls, applied, old>>

-----------------------------------------------------------------------------
(* The buyer on Paystack's page.  A link stays payable after the attempt   *)
(* was set aside here, and after a payment on it failed there.             *)

PaidAtPaystack(r) ==
    /\ link[r] = "stored"
    /\ paystack[r] \in {"open", "failed", "abandoned"}
    /\ \E took \in {"success", "short"} : paystack' = [paystack EXCEPT ![r] = took]
    /\ UNCHANGED <<orderVars, attemptVars, row, bankVars, event, calls, applied, old>>

NotPaidAtPaystack(r) ==
    /\ link[r] = "stored"
    /\ paystack[r] = "open"
    /\ \E why \in {"failed", "abandoned"} : paystack' = [paystack EXCEPT ![r] = why]
    /\ UNCHANGED <<orderVars, attemptVars, row, bankVars, event, calls, applied, old>>

-----------------------------------------------------------------------------
(* Someone asks Paystack about a reference.                                *)

Ask(h, kind, r, answers) ==
    /\ calls[h] = Idle
    /\ \E v \in answers :
        calls' = [calls EXCEPT ![h] = [kind |-> kind, ref |-> r, verified |-> v]]
    /\ UNCHANGED <<orderVars, attemptVars, row, bankVars, event, paystack, applied, old>>

AnyAnswer(r) == {paystack[r]}
Answer(r) == {paystack[r]} \ {"open"}

\* charge.success, sent again until it is answered 200 and sometimes after
WebhookArrives(h, r) ==
    /\ paystack[r] \in {"success", "short"}
    /\ Ask(h, "webhook", r, Answer(r) \cup (IF Outages THEN {"unavailable"} ELSE {}))

\* "check my payment", the return from Paystack, or a link about to be handed
\* out again; one Paystack cannot answer changes nothing
StatusChecked(h, r) ==
    /\ \/ tx[r] \in {"initialized", "abandoned"}
       \/ tx[r] = "success" /\ row[r] # "paid"
    /\ Ask(h, "confirm", r, Answer(r))

\* the reconciliation job: attempts left open ...
ReconcileOpen(h, r) ==
    /\ tx[r] = "initialized"
    /\ Ask(h, "reconcile", r, Answer(r))

\* ... and settled ones whose row is not paid, on an order still waiting
ReconcileNotApplied(h, r) ==
    /\ tx[r] = "success"
    /\ row[r] # "paid"
    /\ order[OrderOf[r]] \in Repairable
    /\ Ask(h, "repair", r, Answer(r) \cap {"success"})

-----------------------------------------------------------------------------
(* The transaction that follows the answer.                                *)

Finish(h) == calls' = [calls EXCEPT ![h] = Idle]

IsCharge(c) == c.kind \in {"webhook", "confirm", "reconcile"}

\* an event is looked at again unless it was processed; "amount_mismatch" is
\* processed and retryable
ProcessedWithError(r) == event[r] \in {"error", "done"}
Processed(r) == event[r] = "done"

HeldForGood(v) == IF v = "short" THEN "amount_mismatch" ELSE "done"
HeldResult(v) == IF v = "short" THEN "amount_mismatch" ELSE "verify_unavailable"

\* the amounts that settle a payment
AnyAmount == {"success", "short"}
FullAmount == {"success"}

\* the row of s after r's payment: a removed one is not put back
NotPutBack(r, s) == IF s = r /\ row[s] = "pending" THEN "paid" ELSE row[s]
\* not put back, and the row that replaced it taken for it
NewestPaid(r, s) ==
    IF /\ row[s] = "pending"
       /\ s = r \/ (row[r] = "absent" /\ OrderOf[s] = OrderOf[r] /\ due[s] = due[r])
    THEN "paid" ELSE row[s]
\* r's own row is put back when it was removed, and then the pending rows for the
\* same thing are removed
RowAfterPayment(r, s) ==
    IF s = r THEN "paid"
    ELSE IF /\ row[r] = "absent" /\ row[s] = "pending"
            /\ OrderOf[s] = OrderOf[r] /\ due[s] = due[r]
    THEN "absent" ELSE row[s]

ApplyPayment(r) ==
    LET o == OrderOf[r] IN
    /\ row' = [s \in Refs |-> RowAfterPayment(r, s)]
    /\ order' = [order EXCEPT ![o] = MovedOn(o, due[r])]
    /\ clock' = [clock EXCEPT ![o] = ClockAfterCard(o, due[r])]
    /\ applied' = [applied EXCEPT ![r] = @ + 1]

SettleCharge(h) ==
    LET c == calls[h] IN
    /\ IsCharge(c)
    /\ c.verified \in FullAmount
    /\ ~Processed(c.ref)
    /\ tx[c.ref] \in Settleable
    /\ MayBePaid(OrderOf[c.ref], due[c.ref], {c.ref})
    /\ tx' = [tx EXCEPT ![c.ref] = "success"]
    /\ event' = [event EXCEPT ![c.ref] = "done"]
    /\ ApplyPayment(c.ref)
    /\ Finish(h)
    /\ UNCHANGED <<disputed, due, link, aged, bankVars, paystack, old>>

\* the event, or the payment, was handled before; the buyer's own check goes on
\* to see whether the order was ever moved
DuplicateCharge(h) ==
    LET c == calls[h] IN
    /\ IsCharge(c)
    /\ c.verified \in {"success", "short", "unavailable"}
    /\ \/ Processed(c.ref)
       \/ c.verified \in FullAmount /\ tx[c.ref] \notin Settleable
    /\ event' = [event EXCEPT ![c.ref] = "done"]
    /\ IF c.kind = "confirm"
       THEN calls' = [calls EXCEPT ![h].kind = "repair"]
       ELSE Finish(h)
    /\ UNCHANGED <<orderVars, attemptVars, row, bankVars, paystack, applied, old>>

\* Paystack took less than the order needs, or could not be asked (the webhook
\* only; it is answered 200 all the same)
HoldBack(h) ==
    LET c == calls[h] IN
    /\ IsCharge(c)
    /\ c.verified \in {"short", "unavailable"}
    /\ ~Processed(c.ref)
    /\ event' = [event EXCEPT ![c.ref] = HeldResult(c.verified)]
    /\ Finish(h)
    /\ UNCHANGED <<orderVars, attemptVars, row, bankVars, paystack, applied, old>>

\* Paystack says the attempt failed or was abandoned
RecordNotPaid(h) ==
    LET c == calls[h] IN
    /\ IsCharge(c)
    /\ c.verified \in {"failed", "abandoned"}
    /\ tx' = [tx EXCEPT ![c.ref] = IF @ \in {"initialized", "abandoned"}
                                   THEN c.verified ELSE @]
    /\ Finish(h)
    /\ UNCHANGED <<orderVars, due, link, aged, row, bankVars, event, paystack, applied, old>>

RepairedAgain(r) == tx[r] = "success" /\ order[OrderOf[r]] \in Repairable
RepairedWithRow(r) == RepairedAgain(r) /\ row[r] = "pending"
NeedsRepair(r) ==
    /\ tx[r] = "success"
    /\ order[OrderOf[r]] \in Repairable
    /\ row[r] # "paid"

RepairOrderPayment(h) ==
    LET c == calls[h] IN
    /\ c.kind = "repair"
    /\ NeedsRepair(c.ref)
    /\ MayBePaid(OrderOf[c.ref], due[c.ref], {c.ref})
    /\ ApplyPayment(c.ref)
    /\ Finish(h)
    /\ UNCHANGED <<disputed, attemptVars, bankVars, event, paystack, old>>

NothingToRepair(h) ==
    LET c == calls[h] IN
    /\ c.kind = "repair"
    /\ ~NeedsRepair(c.ref)
    /\ Finish(h)
    /\ UNCHANGED <<orderVars, attemptVars, row, bankVars, event, paystack, applied, old>>

\* the transaction is rolled back, or the server stops: no 200.  A webhook's
\* error may be kept on the event, unless the event was processed before.
CallFails(h) ==
    LET c == calls[h] IN
    /\ c # Idle
    /\ Finish(h)
    /\ \/ event' = event
       \/ /\ c.kind = "webhook"
          /\ event[c.ref] \in {"none", "verify_unavailable"}
          /\ event' = [event EXCEPT ![c.ref] = "error"]
    /\ UNCHANGED <<orderVars, attemptVars, row, bankVars, paystack, applied, old>>

-----------------------------------------------------------------------------
(* Paying by bank transfer (PaymentClaimsService).                         *)

HasActiveAttempt(o) ==
    \E r \in RefsOf(o) : tx[r] = "success" \/ (tx[r] = "initialized" /\ ~aged[o])

ReportTransfer(o) ==
    /\ order[o] \in Payable \cup {"payment_unresolved"}
    /\ ~HasActiveAttempt(o)
    /\ \E t \in Outstanding(o) : claims' = claims \cup {<<o, t>>}
    /\ order' = [order EXCEPT ![o] = "payment_unresolved"]
    /\ clock' = [clock EXCEPT ![o] = FALSE]
    /\ UNCHANGED <<disputed, attemptVars, row, banked, event, paystack, calls, applied, old>>

\* the newest pending report: the fee is never reported before the deposit
LatestClaim(o) == IF <<o, "fee">> \in claims THEN {"fee"}
                  ELSE IF <<o, "deposit">> \in claims THEN {"deposit"} ELSE {}

\* the vendor, or an admin, says the money arrived; refused for a fee that was
\* paid otherwise since the report
ConfirmTransfer(o) ==
    \E t \in LatestClaim(o) :
        /\ MayBePaid(o, t, {})
        /\ claims' = claims \ {<<o, t>>}
        /\ banked' = banked \cup {<<o, t>>}
        /\ order' = [order EXCEPT ![o] = MovedOn(o, t)]
        /\ clock' = [clock EXCEPT ![o] = ClockAfterTransfer(o, t)]
        /\ disputed' = disputed \ {o}
        /\ UNCHANGED <<attemptVars, row, event, paystack, calls, applied, old>>

\* the vendor says it did not: a dispute is opened, and an admin will look
DisputeTransfer(o) ==
    /\ LatestClaim(o) # {}
    /\ disputed' = disputed \cup {o}
    /\ order' = [order EXCEPT ![o] = IF @ = "completed" THEN @ ELSE "payment_unresolved"]
    /\ UNCHANGED <<clock, attemptVars, row, bankVars, event, paystack, calls, applied, old>>

\* the admin could not verify the claim: the order is cancelled, unless complete
RejectTransfer(o) ==
    \E t \in LatestClaim(o) :
        /\ claims' = claims \ {<<o, t>>}
        /\ order' = [order EXCEPT ![o] = IF @ = "completed" THEN @ ELSE "cancelled"]
        /\ disputed' = disputed \ {o}
        /\ UNCHANGED <<clock, attemptVars, row, banked, event, paystack, calls, applied, old>>

-----------------------------------------------------------------------------
(* The order itself moves on.                                              *)

OrderStep(o, status, running) ==
    /\ order' = [order EXCEPT ![o] = status]
    /\ clock' = [clock EXCEPT ![o] = running]
    /\ UNCHANGED <<disputed, attemptVars, row, bankVars, event, paystack, calls, applied, old>>

VendorConfirms(o) == order[o] = "pending" /\ OrderStep(o, "confirmed", clock[o])

HandOver(o) == order[o] = "confirmed" /\ AllPaid(o) /\ OrderStep(o, "handed_over", TRUE)

VendorCompletes(o) ==
    /\ AllPaid(o)
    /\ order[o] = "confirmed" \/ (order[o] = "handed_over" /\ o \in PayAfter)
    /\ OrderStep(o, "completed", clock[o])

BuyerReceives(o) ==
    /\ AllPaid(o)
    /\ order[o] = "confirmed" \/ (order[o] = "handed_over" /\ clock[o])
    /\ OrderStep(o, "completed", FALSE)

\* 24 hours after the clock was started
AutoComplete(o) ==
    /\ AllPaid(o)
    /\ order[o] \in {"confirmed", "handed_over"}
    /\ clock[o]
    /\ o \notin disputed
    /\ OrderStep(o, "completed", FALSE)

\* by the vendor, by the buyer, or because nobody confirmed it in time
Cancel(o) == order[o] \in {"pending", "confirmed"} /\ OrderStep(o, "cancelled", clock[o])

-----------------------------------------------------------------------------
CheckoutStep(r) ==
    \/ StartPayment(r) \/ LinkStored(r) \/ DropAttempt(r) \/ StartCrashes(r)

PaystackStep(r) == PaidAtPaystack(r) \/ NotPaidAtPaystack(r)

AskStep(h, r) ==
    \/ WebhookArrives(h, r) \/ StatusChecked(h, r)
    \/ ReconcileOpen(h, r) \/ ReconcileNotApplied(h, r)

Process(h) ==
    \/ SettleCharge(h) \/ DuplicateCharge(h) \/ HoldBack(h)
    \/ RecordNotPaid(h) \/ RepairOrderPayment(h) \/ NothingToRepair(h)

TransferStep(o) ==
    \/ ReportTransfer(o) \/ ConfirmTransfer(o) \/ DisputeTransfer(o) \/ RejectTransfer(o)

FulfilStep(o) ==
    \/ VendorConfirms(o) \/ HandOver(o) \/ VendorCompletes(o)
    \/ BuyerReceives(o) \/ AutoComplete(o) \/ Cancel(o)

Next ==
    \/ \E r \in Refs : CheckoutStep(r) \/ PaystackStep(r) \/ (\E h \in Handlers : AskStep(h, r))
    \/ \E h \in Handlers : Process(h) \/ CallFails(h)
    \/ \E o \in Orders : HourPasses(o) \/ TransferStep(o) \/ FulfilStep(o)

Spec == Init /\ [][Next]_vars

(***************************************************************************)
(* Fairness.  Paystack sends a charge.success again until it is answered   *)
(* 200; the reconciliation job runs every ten minutes and looks at every   *)
(* open attempt and every settled payment that was not applied; not every  *)
(* try meets an outage; a call that is tried again and again is not rolled *)
(* back for ever, unless the index refuses it every time.  Nothing is      *)
(* assumed of buyers, vendors and admins.  Fairness is strong because a    *)
(* step competes for the bounded set of Handlers, and because a call that  *)
(* fails disables it until the next try.  An event kept as                *)
(* verify_unavailable was answered 200: Paystack does not send it again.   *)
(***************************************************************************)
Asked(r) ==
    \E h \in Handlers :
        \/ /\ event[r] \in {"none", "error"}
           /\ WebhookArrives(h, r)
           /\ calls'[h].verified # "unavailable"
        \/ ReconcileOpen(h, r)
        \/ ReconcileNotApplied(h, r)
Applies(r) ==
    \E h \in Handlers : /\ calls[h] # Idle /\ calls[h].ref = r
                        /\ SettleCharge(h) \/ RepairOrderPayment(h)

Fairness ==
    /\ \A h \in Handlers : WF_vars(Process(h) \/ CallFails(h))
    /\ \A r \in Refs : SF_vars(Asked(r)) /\ SF_vars(Applies(r))

FairSpec == Spec /\ Fairness

-----------------------------------------------------------------------------
(* Safety.                                                                 *)

\* A payment moves its order on at most once, whichever of the webhook, the
\* buyer's check, the reconciliation job and the repair come, in any order.
AppliedOnce == \A r \in Refs : applied[r] <= 1

\* A payment row is marked paid only for money Paystack took in full, and that
\* the ledger shows as settled.
PaidMeansTaken ==
    \A r \in Refs : row[r] = "paid" => paystack[r] = "success" /\ tx[r] = "success"

\* A payment the ledger shows as settled has its row marked paid, even when the
\* attempt was set aside, or dropped, while the buyer was paying.
SettledMeansPaid ==
    \A r \in Refs \ old : tx[r] = "success" => row[r] = "paid" /\ applied[r] = 1

\* However often the buyer taps "Pay", an order has one open attempt at most.
OneOpenAttempt ==
    \A r, s \in Refs :
        (OrderOf[r] = OrderOf[s] /\ tx[r] = "initialized" /\ tx[s] = "initialized") => r = s

\* An event that is answered "duplicate" from now on has settled its payment.
ProcessedMeansSettled == \A r \in Refs : event[r] = "done" => tx[r] = "success"

\* Goods are handed over, and orders completed, only when everything due on the
\* order was paid by card or confirmed as received by bank transfer.
GoodsAfterMoney ==
    \A o \in Orders : order[o] \in {"handed_over", "completed"} =>
        \A t \in (IF o \in PayAfter THEN DueTypes ELSE {"fee"}) : Paid(o, t)

\* A card payment, however late, never moves an order back: it moves on an order
\* that was pending or unresolved, and leaves every other as it is.
CardNeverMovesBack ==
    [][\A r \in Refs : applied'[r] # applied[r] =>
        LET o == OrderOf[r] IN
        \/ order[o] \in {"pending", "payment_unresolved"}
        \/ order'[o] = order[o]]_vars

\* The invariant the proofs rest on.  Records only ever say what Paystack said:
\* a paid row is settled, a settled payment was taken and applied exactly once
\* (an old one once at most); and only attempts that were started are ever
\* linked, paid at Paystack, or asked about.
Ledger ==
    \A r \in Refs :
        /\ row[r] = "paid" => tx[r] = "success"
        /\ tx[r] = "success" => paystack[r] = "success"
        /\ tx[r] = "success" /\ r \notin old => row[r] = "paid"
        /\ applied[r] = IF row[r] = "paid" THEN 1 ELSE 0
Started ==
    \A r \in Refs : link[r] # "none" \/ paystack[r] # "open" => tx[r] # "none"
Informed ==
    \A h \in Handlers : calls[h] # Idle =>
        /\ tx[calls[h].ref] # "none"
        /\ calls[h].verified = "success" => paystack[calls[h].ref] = "success"
IInv ==
    /\ TypeOK
    /\ Ledger
    /\ Started
    /\ Informed
    /\ ProcessedMeansSettled
    /\ OneOpenAttempt

\* The promise of PaymentPromise.tla: the paid rows only grow, one by one, and
\* by payments that Paystack took.
Promise == INSTANCE PaymentPromise WITH
    taken <- {r \in Refs : paystack[r] = "success"},
    settled <- {r \in Refs : row[r] = "paid"}
PromiseKept == Promise!Spec

-----------------------------------------------------------------------------
(* Liveness.                                                               *)

\* The two ways in which money Paystack took is left unsettled for good.  What it
\* was for was paid otherwise, so that every settlement is rolled back ...
Superseded(r) == ~MayBePaid(OrderOf[r], due[r], {r})
\* ... or its event was answered 200 while Paystack could not be asked, and no
\* open attempt brings the reconciliation job back to it
Swallowed(r) == event[r] = "verify_unavailable" /\ tx[r] # "initialized"

\* Money Paystack took in full is settled in the end, over lost calls, outages
\* and attempts set aside while the buyer was paying, unless what it was for was
\* paid otherwise, or its event was swallowed by an outage.
PaidSettles ==
    \A r \in Refs : paystack[r] = "success" ~>
                    (tx[r] = "success" \/ Superseded(r) \/ Swallowed(r))

\* A settled payment that was never applied does not stay so while its order
\* waits for the money, unless another payment of the same fee came first.
RepairedInTheEnd ==
    \A r \in MaybeOld : (tx[r] = "success" /\ row[r] # "paid") ~>
        \/ row[r] = "paid"
        \/ Superseded(r)
        \/ order[OrderOf[r]] \in {"completed", "cancelled"}

-----------------------------------------------------------------------------
(* What the documents say and the code does not do.                        *)

\* payment-claims.service.ts:38: an order paid with Paystack must not also be
\* reported as a bank transfer (it would be counted twice).  The index protects the
\* fee; the deposit of a pay-after order is counted twice.
CountedOnce == \A o \in Orders, t \in DueTypes : ~(CardPaid(o, t) /\ <<o, t>> \in banked)
=============================================================================

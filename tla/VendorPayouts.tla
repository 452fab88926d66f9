---------------------------- MODULE VendorPayouts ----------------------------
(***************************************************************************)
(* Paying a shop for a completed order.                                    *)
(*                                                                         *)
(* A trigger queues one payout per order, waiting until the shop withdraws *)
(* it (withdrawals).  Once released, a worker (vendor-payouts) claims it   *)
(* in one transaction, asks Paystack to transfer the money outside of any, *)
(* and records the answer in another; it may stop in between.  What became *)
(* of the transfer is told by Paystack's transfer events, in any order and *)
(* more than once, or found by the reconciliation job (paystack-webhook).  *)
(* Meanwhile admins release, hold and settle payouts by hand, disputes are *)
(* opened, and chargebacks hold what is queued.                            *)
(*                                                                         *)
(* A database transaction is one step.  Waiting times (10 minutes, 1 hour, *)
(* 6 hours) and amounts are nondeterministic.                              *)
(***************************************************************************)
EXTENDS Naturals

CONSTANTS
    Payouts,        \* one for each order
    Workers,        \* runs of the payout job that overlap
    MaxAttempts,    \* failed transfers of a payout before an admin decides: 3 in the code
    MaxReleases,    \* bound: releases of one payout that draw a new random reference
    WriteFails,     \* a database write that follows Paystack's answer may fail
    SentBehind5xx,  \* a transfer may have been made although Paystack answered 5xx
    Overlap         \* people, the retry timer and banks may act on a payout while a worker
                    \* is still busy with it (a worker is done within a minute)

ASSUME PayoutAssumption ==
    /\ MaxAttempts \in Nat \ {0}
    /\ MaxReleases \in Nat
    /\ WriteFails \in BOOLEAN
    /\ SentBehind5xx \in BOOLEAN
    /\ Overlap \in BOOLEAN

VARIABLES
    status,     \* vendor_payouts.status; "waiting" is on_hold until the shop withdraws
    attempts,   \* vendor_payouts.attempts
    ref,        \* vendor_payouts.transfer_reference, numbered (see Refs)
    releases,   \* how often a random reference was drawn for the payout
    asked,      \* the undecided withdrawal request the payout belongs to
    disputed,   \* the payouts of orders with an open dispute
    transfer,   \* the truth at Paystack about every reference
    handled,    \* the transfer events that were processed, by their key
    worker      \* the runs of the job between two transactions

payoutVars == <<status, attempts, ref, releases>>
vars == <<payoutVars, asked, disputed, transfer, handled, worker>>

\* 0: lvm_po_<order>; up to MaxAttempts: that with the number of the attempt; the
\* rest: that with six random characters
Refs == 0..(MaxAttempts + MaxReleases)
RetryRef(n) == n + 1
RandomRef(n) == MaxAttempts + 1 + n

Queued == {"waiting", "on_hold", "pending"}
Statuses == Queued \cup {"none", "processing", "success", "failed", "reversed",
                         "paid_manually", "to_wallet"}
Final == {"success", "failed", "reversed"}
Answers == {"success", "underway", "unknown", "unavailable", "balance", "refused",
            "missing", "silence"}

Idle == [at |-> "idle"]
Job == [at : {"call", "answer"}, payout : Payouts, ref : Refs, answer : Answers]

\* the webhook's key holds Paystack's id of the transfer, the reconciliation's the
\* reference: the same event has two keys
Keys == {"webhook", "reconcile"}
Events == [payout : Payouts, ref : Refs, to : Final, key : Keys]

TypeOK ==
    /\ status \in [Payouts -> Statuses]
    /\ attempts \in [Payouts -> 0..(MaxAttempts + 1)]
    /\ ref \in [Payouts -> Refs]
    /\ releases \in [Payouts -> 0..MaxReleases]
    /\ asked \in [Payouts -> {"none", "bank", "wallet"}]
    /\ disputed \subseteq Payouts
    /\ transfer \in [Payouts -> [Refs -> Final \cup {"none", "pending"}]]
    /\ handled \subseteq Events
    /\ worker \in [Workers -> Job \cup {Idle}]

Working(p) == \E w \in Workers : worker[w] # Idle /\ worker[w].payout = p

\* what takes minutes or hours does not happen while a worker is busy with p
Later(p) == Working(p) => Overlap

-----------------------------------------------------------------------------
Init ==
    /\ status = [p \in Payouts |-> "none"]
    /\ attempts = [p \in Payouts |-> 0]
    /\ ref = [p \in Payouts |-> 0]
    /\ releases = [p \in Payouts |-> 0]
    /\ asked = [p \in Payouts |-> "none"]
    /\ disputed = {}
    /\ transfer = [p \in Payouts |-> [r \in Refs |-> "none"]]
    /\ handled = {}
    /\ worker = [w \in Workers |-> Idle]

Becomes(p, s) == status' = [status EXCEPT ![p] = s]

\* only the status, or the status and the request, of a payout changes
Moves(p, s) ==
    /\ Becomes(p, s)
    /\ UNCHANGED <<attempts, ref, releases, asked, disputed, transfer, handled, worker>>

-----------------------------------------------------------------------------
(* The order, and the shop's withdrawal.                                   *)

\* the order is completed
Queue(p) == status[p] = "none" /\ Moves(p, "waiting")

\* money paid a day ago goes at once: to the sending queue, or into the wallet
WithdrawNow(p) ==
    /\ status[p] = "waiting"
    /\ asked[p] = "none"
    /\ p \notin disputed
    /\ \E s \in {"pending", "to_wallet"} : Moves(p, s)

\* newer money is asked of an admin
AskWithdrawal(p) ==
    /\ status[p] = "waiting"
    /\ asked[p] = "none"
    /\ p \notin disputed
    /\ \E d \in {"bank", "wallet"} : asked' = [asked EXCEPT ![p] = d]
    /\ UNCHANGED <<payoutVars, disputed, transfer, handled, worker>>

\* the admin approves: what is still held and not disputed goes; attempts and
\* reference stay as they are
ApproveWithdrawal(p) ==
    /\ asked[p] # "none"
    /\ asked' = [asked EXCEPT ![p] = "none"]
    /\ status' = [status EXCEPT ![p] =
            IF @ \notin {"waiting", "on_hold"} \/ p \in disputed THEN @
            ELSE IF asked[p] = "bank" THEN "pending" ELSE "to_wallet"]
    /\ UNCHANGED <<attempts, ref, releases, disputed, transfer, handled, worker>>

\* the admin rejects it, or the shop takes it back
EndWithdrawal(p) ==
    /\ asked[p] # "none"
    /\ asked' = [asked EXCEPT ![p] = "none"]
    /\ UNCHANGED <<payoutVars, disputed, transfer, handled, worker>>

RaiseDispute(p) ==
    /\ disputed' = disputed \cup {p}
    /\ UNCHANGED <<payoutVars, asked, transfer, handled, worker>>

ResolveDispute(p) ==
    /\ disputed' = disputed \ {p}
    /\ UNCHANGED <<payoutVars, asked, transfer, handled, worker>>

Sent == {"processing", "success", "paid_manually"}

\* an earlier dispute; refused once the money has left; a queued payout waits for
\* the shop again
ReopenDispute(p) ==
    /\ status[p] \notin Sent
    /\ disputed' = disputed \cup {p}
    /\ status' = [status EXCEPT ![p] = IF @ = "pending" THEN "waiting" ELSE @]
    /\ asked' = [asked EXCEPT ![p] = IF status[p] = "pending" THEN "none" ELSE @]
    /\ UNCHANGED <<attempts, ref, releases, transfer, handled, worker>>

\* a Paystack chargeback, or a refund of the whole order
HoldPending(p) == status[p] = "pending" /\ Moves(p, "on_hold")

-----------------------------------------------------------------------------
(* The admin's buttons.                                                    *)

\* a reference Paystack failed is not sent again; a held payout keeps its own
ReleasedRef(p) ==
    IF status[p] \in {"failed", "reversed"}
    THEN /\ releases[p] < MaxReleases
         /\ ref' = [ref EXCEPT ![p] = RandomRef(releases[p])]
         /\ releases' = [releases EXCEPT ![p] = @ + 1]
    ELSE UNCHANGED <<ref, releases>>

ReleasableStuck == {"waiting", "on_hold", "failed", "reversed", "processing"}
Releasable == {"waiting", "on_hold", "failed", "reversed"}
Release(p) ==
    /\ Later(p)
    /\ status[p] \in Releasable
    /\ ReleasedRef(p)
    /\ Becomes(p, "pending")
    /\ attempts' = [attempts EXCEPT ![p] = 0]
    /\ UNCHANGED <<asked, disputed, transfer, handled, worker>>

Hold(p) == Later(p) /\ status[p] \in {"pending", "failed"} /\ Moves(p, "on_hold")

Unsettled == Statuses \ {"none", "paid_manually"}
Unpaid == {"pending", "waiting", "on_hold", "failed", "reversed"}
\* the admin paid the shop outside Paystack
MarkManual(p) == Later(p) /\ status[p] \in Unpaid /\ Moves(p, "paid_manually")

-----------------------------------------------------------------------------
(* The worker's transactions before the call (run).                        *)

ExhaustedLate(p) == attempts[p] > MaxAttempts
Exhausted(p) == attempts[p] >= MaxAttempts

\* a failed transfer, after a wait: back in the queue under the number of the next
\* attempt, or on hold for an admin
RequeueFailed(p) ==
    /\ Later(p)
    /\ status[p] = "failed"
    /\ IF Exhausted(p)
       THEN Becomes(p, "on_hold") /\ ref' = ref
       ELSE Becomes(p, "pending") /\ ref' = [ref EXCEPT ![p] = RetryRef(attempts[p])]
    /\ UNCHANGED <<attempts, releases, asked, disputed, transfer, handled, worker>>

\* an open disputed, no verified bank account, or nothing left to pay
HoldAtClaim(p) == status[p] = "pending" /\ Moves(p, "on_hold")

ClaimableDisputed(p) == status[p] = "pending"
Claimable(p) == status[p] = "pending" /\ p \notin disputed

\* One step, at the moment the transaction looks at the disputes.  It holds the lock
\* on the payout's row from its choice to its commit, and a dispute raised or reopened
\* in the meantime reads and changes no row the transaction touches (the update of
\* a reopening waits for the lock and then finds no pending payout): it is a
\* dispute raised just after the claim.
Claim(w, p) ==
    /\ worker[w] = Idle
    /\ Claimable(p)
    /\ Becomes(p, "processing")
    /\ attempts' = [attempts EXCEPT ![p] = @ + 1]
    /\ worker' = [worker EXCEPT ![w] =
            [at |-> "call", payout |-> p, ref |-> ref[p], answer |-> "silence"]]
    /\ UNCHANGED <<ref, releases, asked, disputed, transfer, handled>>

-----------------------------------------------------------------------------
(* The call, what is learnt from it, and the transaction that records it.  *)

\* what may become of a transfer that is asked for, and what the worker makes of
\* it: Paystack refuses a reference it knows.  After a write that failed (of a
\* success, or of the alert that a transfer waits for its one-time code) the worker
\* goes on as after a refusal ("Unexpected error").
NewTransfer ==
    {<<"success", "success">>, <<"pending", "underway">>, <<"pending", "unknown">>,
     <<"none", "unknown">>, <<"none", "unavailable">>, <<"none", "balance">>,
     <<"none", "refused">>}
    \cup (IF WriteFails THEN {<<"success", "refused">>, <<"pending", "refused">>} ELSE {})
    \cup (IF SentBehind5xx THEN {<<"pending", "unavailable">>} ELSE {})
KnownReference(t) == {<<t, "refused">>, <<t, "unknown">>, <<t, "unavailable">>}
Outcomes(t) == IF t = "none" THEN NewTransfer ELSE KnownReference(t)

InitiateTransfer(w) ==
    LET j == worker[w] IN
    /\ j # Idle /\ j.at = "call"
    /\ \E o \in Outcomes(transfer[j.payout][j.ref]) :
        /\ transfer' = [transfer EXCEPT ![j.payout][j.ref] = o[1]]
        /\ worker' = [worker EXCEPT ![w] = [j EXCEPT !.at = "answer", !.answer = o[2]]]
    /\ UNCHANGED <<payoutVars, asked, disputed, handled>>

Answered(w, answers) ==
    worker[w] # Idle /\ worker[w].at = "answer" /\ worker[w].answer \in answers

FoundOrNot(t) == {"missing", "silence"}
Found(t) ==
    CASE t = "none"    -> {"missing", "silence"}
      [] t = "pending" -> {"underway", "silence"}
      [] t = "success" -> {"success", "silence"}
      [] OTHER         -> {"refused", "silence"}

\* no answer: Paystack is asked what became of the transfer
LookUp(w) ==
    LET j == worker[w] IN
    /\ Answered(w, {"unknown"})
    /\ \E a \in Found(transfer[j.payout][j.ref]) :
        worker' = [worker EXCEPT ![w].answer = a]
    /\ UNCHANGED <<payoutVars, asked, disputed, transfer, handled>>

Done(w) == worker' = [worker EXCEPT ![w] = Idle]

Accepted == {"success", "underway"}
SentAnswer == {"success"}
Succeed(w) ==
    /\ Answered(w, SentAnswer)
    /\ Becomes(worker[w].payout, "success")
    /\ Done(w)
    /\ UNCHANGED <<attempts, ref, releases, asked, disputed, transfer, handled>>

Fail(w) ==
    /\ Answered(w, {"refused"})
    /\ Becomes(worker[w].payout, "failed")
    /\ Done(w)
    /\ UNCHANGED <<attempts, ref, releases, asked, disputed, transfer, handled>>

\* not sent: back in the queue as it was
NotSent == {"unavailable", "balance", "missing", "refused"}
TryLater == {"unavailable", "balance", "missing"}
Requeue(w) ==
    /\ Answered(w, TryLater)
    /\ Becomes(worker[w].payout, "pending")
    /\ attempts' = [attempts EXCEPT ![worker[w].payout] = IF @ = 0 THEN 0 ELSE @ - 1]
    /\ Done(w)
    /\ UNCHANGED <<ref, releases, asked, disputed, transfer, handled>>

\* on its way, or still not known: left as it is for the events and the reconciliation
Leave(w) ==
    /\ Answered(w, {"underway", "silence"})
    /\ Done(w)
    /\ UNCHANGED <<payoutVars, asked, disputed, transfer, handled>>

WorkerStops(w) ==
    /\ worker[w] # Idle
    /\ Done(w)
    /\ UNCHANGED <<payoutVars, asked, disputed, transfer, handled>>

-----------------------------------------------------------------------------
(* Paystack, its events, and the reconciliation.                           *)

TransferEnds(p, r) ==
    /\ transfer[p][r] = "pending"
    /\ \E t \in {"success", "failed"} : transfer' = [transfer EXCEPT ![p][r] = t]
    /\ UNCHANGED <<payoutVars, asked, disputed, handled, worker>>

\* the bank takes the money back, days later
TransferReversed(p, r) ==
    /\ Later(p)
    /\ transfer[p][r] = "success"
    /\ transfer' = [transfer EXCEPT ![p][r] = "reversed"]
    /\ UNCHANGED <<payoutVars, asked, disputed, handled, worker>>

\* canMovePayout
MovesAnyhow(from, to) == from # to
MovesTo(from, to) ==
    \/ from \in Queued \cup {"processing"} /\ to \in Final
    \/ from = "success" /\ to = "reversed"

\* an event changes the payout that carries its reference now, if any
HandleEvent(p, r, to, key) ==
    LET e == [payout |-> p, ref |-> r, to |-> to, key |-> key] IN
    /\ e \notin handled
    /\ handled' = handled \cup {e}
    /\ status' = [status EXCEPT ![p] = IF ref[p] = r /\ MovesTo(@, to) THEN to ELSE @]
    /\ UNCHANGED <<attempts, ref, releases, asked, disputed, transfer, worker>>

Happened(p, r) ==
    IF transfer[p][r] = "reversed" THEN {"success", "reversed"} ELSE {transfer[p][r]} \cap Final

TransferEvent(p, r) == \E to \in Happened(p, r) : HandleEvent(p, r, to, "webhook")

\* processing for half an hour: Paystack is asked
ReconcilePayout(p) ==
    /\ Later(p)
    /\ status[p] = "processing"
    /\ transfer[p][ref[p]] \in Final
    /\ HandleEvent(p, ref[p], transfer[p][ref[p]], "reconcile")

-----------------------------------------------------------------------------
ShopStep(p) ==
    \/ Queue(p) \/ WithdrawNow(p) \/ AskWithdrawal(p) \/ ApproveWithdrawal(p)
    \/ EndWithdrawal(p) \/ RaiseDispute(p) \/ ResolveDispute(p) \/ ReopenDispute(p)
    \/ HoldPending(p)

AdminStep(p) == Release(p) \/ Hold(p) \/ MarkManual(p)

CallStep(w) ==
    \/ InitiateTransfer(w) \/ LookUp(w)
    \/ Succeed(w) \/ Fail(w) \/ Requeue(w) \/ Leave(w) \/ WorkerStops(w)

PaystackStep(p) ==
    \/ ReconcilePayout(p)
    \/ \E r \in Refs : TransferEnds(p, r) \/ TransferReversed(p, r) \/ TransferEvent(p, r)

Next ==
    \/ \E p \in Payouts : \/ ShopStep(p) \/ AdminStep(p) \/ PaystackStep(p)
                          \/ RequeueFailed(p) \/ HoldAtClaim(p)
    \/ \E w \in Workers : CallStep(w) \/ \E p \in Payouts : Claim(w, p)

Spec == Init /\ [][Next]_vars

(***************************************************************************)
(* Fairness.  The job runs every minute, the reconciliation every ten;     *)
(* Paystack sends an event again until it is answered 200 and settles its  *)
(* transfers; a payout that is tried again and again reaches Paystack in   *)
(* the end (Reaches).  Nothing is assumed of shops and admins, and a run   *)
(* of the job may stop anywhere.                                           *)
(***************************************************************************)
Reaches(p) ==
    \E w \in Workers :
        /\ worker[w] # Idle /\ worker[w].payout = p
        /\ InitiateTransfer(w)
        /\ worker'[w].answer \in {"success", "underway", "refused"}

Fairness ==
    /\ \A w \in Workers : WF_vars(CallStep(w))
    /\ \A p \in Payouts :
        /\ SF_vars(HoldAtClaim(p) \/ \E w \in Workers : Claim(w, p))
        /\ SF_vars(Reaches(p))
        /\ SF_vars(RequeueFailed(p))
        /\ SF_vars(ReconcilePayout(p))
        /\ \A r \in Refs : WF_vars(TransferEnds(p, r)) /\ WF_vars(TransferEvent(p, r))

FairSpec == Spec /\ Fairness

-----------------------------------------------------------------------------
(* Safety.                                                                 *)

Live(p) == {r \in Refs : transfer[p][r] \in {"pending", "success"}}
Out(p) ==
    {<<"transfer", r>> : r \in Live(p)}
    \cup (IF status[p] = "paid_manually" THEN {<<"by_hand", 0>>} ELSE {})
    \cup (IF status[p] = "to_wallet" THEN {<<"wallet", 0>>} ELSE {})

\* The earnings of an order are out at most once: in one transfer, by hand, or in
\* the shop's wallet, whatever stops, is lost, repeated or comes late.
PaidOutOnce == \A p \in Payouts : \A a, b \in Out(p) : a = b

\* A payout shown as sent was: its own transfer did arrive, though the bank may
\* have taken it back since.
SuccessMeansSent ==
    \A p \in Payouts : status[p] = "success" => transfer[p][ref[p]] \in {"success", "reversed"}

\* PAYSTACK.md:232: a failed or reversed payout gets a new reference only after
\* Paystack has said the old one did not go through.
NewReferenceAfterNo ==
    [][\A p \in Payouts : ref'[p] # ref[p] => ref[p] \notin Live(p)]_vars

\* While a transfer stands no late event, worker or admin takes the payout back
\* from "success", and a payout settled by hand or into the wallet stays so.
SettledStays ==
    [][\A p \in Payouts :
        /\ status[p] = "success" /\ ref[p] \in Live(p) => status'[p] = "success"
        /\ status[p] \in {"paid_manually", "to_wallet"} => status'[p] = status[p]]_vars

\* No money starts to leave while a dispute is open, whoever put the payout into
\* the queue; only an admin may still pay by hand.  A claim happens at its look at
\* the disputes: one raised between that look and the commit came after it.
DisputeHolds ==
    [][\A p \in Payouts :
        p \in disputed /\ status'[p] \in {"processing", "to_wallet"}
            => status'[p] = status[p]]_vars

\* The invariant the proofs rest on.  Money is live at Paystack only under the
\* reference its payout carries now, and only while the payout is processing or
\* sent; a busy worker works for the reference its payout still carries, alone, and
\* what it was told is still so.
LiveIsCurrent ==
    \A p \in Payouts :
        /\ Live(p) \subseteq {ref[p]}
        /\ Live(p) # {} => status[p] \in {"processing", "success"}
ToldTrue(j) ==
    LET t == transfer[j.payout][j.ref] IN
    /\ t = "none" => status[j.payout] = "processing"
    /\ j.at = "call" \/ j.answer \in TryLater \cup {"refused"} => t \notin {"pending", "success"}
    /\ j.at = "answer" /\ j.answer = "success" => t = "success"
BusyIsCurrent ==
    \A w \in Workers : worker[w] # Idle =>
        /\ worker[w].ref = ref[worker[w].payout]
        /\ status[worker[w].payout] \in Final \cup {"processing"}
        /\ ToldTrue(worker[w])
OneWorker ==
    \A w, v \in Workers :
        worker[w] # Idle /\ worker[v] # Idle /\ worker[w].payout = worker[v].payout => w = v
Tries ==
    \A p \in Payouts :
        /\ status[p] \in {"none", "waiting", "pending"} \/ asked[p] # "none"
              => attempts[p] <= MaxAttempts
        /\ status[p] = "pending" /\ asked[p] # "none" => attempts[p] < MaxAttempts
IInv ==
    /\ TypeOK
    /\ LiveIsCurrent
    /\ SuccessMeansSent
    /\ BusyIsCurrent
    /\ OneWorker
    /\ Tries

\* The promise of PaidOnce.tla.
Promise == INSTANCE PaidOnce WITH
    Ways <- ({"transfer"} \X Refs) \cup {<<"by_hand", 0>>, <<"wallet", 0>>},
    out <- [p \in Payouts |-> Out(p)]
PromiseKept == Promise!Spec

PM == INSTANCE PayoutMoves

\* Whatever interleaves, a payout moves in the ways Refunds is checked against: what the one
\* module takes for granted of the other is what the other does (paystack-state.ts:6).
StatusMoves ==
    [][\A p \in Payouts :
        LET a == PM!Shown(status[p])
            b == PM!Shown(status'[p]) IN
        a # b => <<a, b>> \in PM!Moves]_vars

-----------------------------------------------------------------------------
(* Liveness.                                                               *)

\* Left processing for good: no worker is busy with it, and neither an event nor
\* the reconciliation has anything new to say of it.
Stranded(p) ==
    /\ status[p] = "processing"
    /\ ~Working(p)
    /\ \/ transfer[p][ref[p]] = "none"
       \/ [payout |-> p, ref |-> ref[p], to |-> transfer[p][ref[p]], key |-> "reconcile"] \in handled

\* A payout in the queue is paid, or put before an admin or the shop again, unless
\* it is stranded.
QueueIsServed ==
    \A p \in Payouts : status[p] = "pending" ~>
        (status[p] \in {"success", "reversed", "on_hold", "waiting", "paid_manually"} \/ Stranded(p))
=============================================================================

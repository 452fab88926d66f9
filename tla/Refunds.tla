------------------------------ MODULE Refunds ------------------------------
(***************************************************************************)
(* Giving the money of one order back to the buyer.                        *)
(*                                                                         *)
(* An admin refunds (refunds), or the order is cancelled and a trigger     *)
(* queues the refunds (migration 0039).  A run of the refund job takes a   *)
(* queued refund: into the buyer's wallet, or, when the wallet cannot be   *)
(* used, it marks the row, asks Paystack outside of any transaction and    *)
(* records the answer in another.  A refund whose answer was lost is       *)
(* looked up at Paystack later.  Paystack tells by events how a refund     *)
(* ended (paystack-webhook).  Meanwhile the order's payout moves as        *)
(* PayoutMoves allows, and takes what no refund has reserved.              *)
(*                                                                         *)
(* A database transaction is one step.  Money is a set of units: the shop's *)
(* share of a payment is the set of its units, a sum is a set, and two     *)
(* sums of one payment exceed it when their sets overlap.                  *)
(***************************************************************************)
EXTENDS Integers, FiniteSets, PayoutMoves

CONSTANTS
    Payments,       \* the order's payments through Paystack or a wallet; a higher number is newer
    Units,          \* numbered: of one payment the lowest are given back first
    PaymentOf,      \* the payment every unit belongs to
    ByWallet,       \* the payments made from a Levromart wallet: Paystack does not know them
    Runs,           \* runs of the refund job that overlap
    MaxBatches,     \* bound: calls of refundOrder, and the cancellation
    MaxSends,       \* bound: refunds that Paystack makes for one row
    SentBehind5xx,  \* a refund may have been made although Paystack answered 5xx
    Retried,        \* Paystack may retry a refund it had given up, and it goes through
    Overlap,        \* a run may act on a look-up another run has overtaken
    LateCancel      \* an admin may cancel an order whose payout has left

ASSUME RefundAssumption ==
    /\ Payments \subseteq Nat
    /\ Units \subseteq Nat
    /\ IsFiniteSet(Units)
    /\ PaymentOf \in [Units -> Payments]
    /\ ByWallet \subseteq Payments
    /\ MaxBatches \in Nat
    /\ MaxSends \in Nat
    /\ {SentBehind5xx, Retried, Overlap, LateCancel} \subseteq BOOLEAN

VARIABLES
    order,      \* orders.status: cancelled, completed, or before either ("open")
    paid,       \* the payments that settled
    payout,     \* vendor_payouts.status as PayoutMoves shows it
    took,       \* the units the payout took when it left
    givenBack,  \* the units the shop's wallet gave back for refunds
    batches,    \* how many batches of refund rows were written
    rows,       \* paystack_refunds, by batch and payment
    credited,   \* the rows paid into the buyer's wallet (wallet_entries)
    made,       \* the truth at Paystack about the refunds made for a row
    handled,    \* the refund events that were processed, by their key
    run         \* the runs of the job between two transactions

orderVars == <<order, paid>>
payoutVars == <<payout, took, givenBack>>
rowVars == <<batches, rows, credited>>
vars == <<orderVars, payoutVars, rowVars, made, handled, run>>

Keys == (1..MaxBatches) \X Payments     \* a row: its batch and its payment
Ids == Keys \X (1..MaxSends)            \* a refund at Paystack: its row and its number

\* id: empty until Paystack's id of the refund is known
NoRow == [status |-> "none", part |-> {}, id |-> {}]
NewRow(part) == [NoRow EXCEPT !.status = "pending", !.part = part]
Idle == [at |-> "idle"]

Row == [status : {"none", "pending", "processing", "processed", "failed"},
        part : SUBSET Units, id : SUBSET Ids]
Job == [at : {"listed"}, row : Keys, found : SUBSET Ids]
    \cup [at : {"call"}, row : Keys]
    \cup [at : {"answer"}, row : Keys,
          answer : {"ok", "refused", "unavailable", "unknown"}, id : SUBSET Ids]
PayoutStatuses == {"none", "held", "pending", "failed", "reversed"} \cup Left

TypeOK ==
    /\ order \in {"open", "completed", "cancelled"}
    /\ paid \subseteq Payments
    /\ payout \in PayoutStatuses
    /\ order = "open" => payout = "none"
    /\ took \subseteq Units /\ givenBack \subseteq Units
    /\ batches \in 0..MaxBatches
    /\ rows \in [Keys -> Row]
    /\ credited \subseteq Keys
    /\ made \in [Keys -> [1..MaxSends -> {"none", "pending", "processed", "failed", "retried"}]]
    /\ handled \subseteq Ids \X {"processed", "failed"}
    /\ run \in [Runs -> Job \cup {Idle}]

UnitsOf(p) == {u \in Units : PaymentOf[u] = p}
Reserved == UNION {rows[x].part : x \in {y \in Keys : rows[y].status \notin {"none", "failed"}}}
\* what was paid for the order, less the refunds made or under way
AllPaid == {u \in Units : PaymentOf[u] \in paid}
Free == AllPaid \ Reserved

Open(x) == rows[x].status \in {"pending", "processing"}

-----------------------------------------------------------------------------
Init ==
    /\ order = "open"
    /\ paid = {}
    /\ payout = "none" /\ took = {} /\ givenBack = {}
    /\ batches = 0
    /\ rows = [x \in Keys |-> NoRow]
    /\ credited = {}
    /\ made = [x \in Keys |-> [n \in 1..MaxSends |-> "none"]]
    /\ handled = {}
    /\ run = [r \in Runs |-> Idle]

-----------------------------------------------------------------------------
(* The order and its payout.                                               *)

\* the money counts, whatever became of the order meanwhile
Pay(p) ==
    /\ p \notin paid
    /\ paid' = paid \cup {p}
    /\ UNCHANGED <<order, payoutVars, rowVars, made, handled, run>>

\* a payout is queued, to be held until the shop withdraws it, if Paystack or a wallet paid
Complete ==
    /\ order = "open"
    /\ order' = "completed"
    /\ payout' = IF paid = {} THEN "none" ELSE "held"
    /\ UNCHANGED <<paid, took, givenBack, rowVars, made, handled, run>>

\* a payout that leaves takes what is free, and does not leave for nothing
PayoutMove(to) ==
    /\ payout # "none"
    /\ <<payout, to>> \in Moves
    /\ to = "processing" => Free # {}
    /\ payout' = to
    /\ took' = IF to \in Leaving THEN Free ELSE IF to \in Left THEN took ELSE {}
    /\ UNCHANGED <<orderVars, givenBack, rowVars, made, handled, run>>

-----------------------------------------------------------------------------
(* Refunds are queued.                                                     *)

\* the rows of the next batch: on each payment, the part that parts gives it
Queue(parts) ==
    /\ batches < MaxBatches
    /\ batches' = batches + 1
    /\ rows' = [x \in Keys |->
            IF x[1] = batches' /\ parts[x[2]] # {} THEN NewRow(parts[x[2]]) ELSE rows[x]]

\* the newest payment first
NewestFirst(W) ==
    \A u \in W, v \in Free \ W :
        PaymentOf[v] < PaymentOf[u] \/ (PaymentOf[v] = PaymentOf[u] /\ u < v)

PaidOutSettled == {"success", "paid_manually"}
PaidOut == {"processing", "success", "paid_manually"}

HoldsAny(W) == W = Free
HoldsPayout(W) == payout = "pending" /\ W = Free

\* an admin refunds W; from a shop that moved the money into its wallet it is taken
\* first; a payout still queued is held when all goes back
RefundOrder(W) ==
    /\ payout \notin PaidOut
    /\ \A x \in Keys : ~Open(x)
    /\ W # {} /\ W \subseteq Free /\ NewestFirst(W)
    /\ Queue([p \in Payments |-> W \cap UnitsOf(p)])
    /\ givenBack' = IF payout = "to_wallet" THEN givenBack \cup W ELSE givenBack
    /\ payout' = IF HoldsPayout(W) THEN "held" ELSE payout
    /\ UNCHANGED <<orderVars, took, credited, made, handled, run>>

\* cancelled by the shop, or by an admin at any time: every settled payment that has
\* no refund yet, or only failed ones, goes back whole
RefundableAnyway(p) == p \in paid
Refundable(p) == p \in paid /\ \A x \in Keys : x[2] = p => rows[x].status \in {"none", "failed"}
Cancel ==
    /\ order # "cancelled"
    /\ order = "open" \/ LateCancel \/ payout \notin Left
    /\ order' = "cancelled"
    /\ Queue([p \in Payments |-> IF Refundable(p) THEN UnitsOf(p) ELSE {}])
    /\ UNCHANGED <<paid, payoutVars, credited, made, handled, run>>

-----------------------------------------------------------------------------
(* A run of the job (run, recoverUnconfirmed).                             *)

Busy(r, x) == run[r] # Idle /\ run[r].row = x
InCall(r, x) == Busy(r, x) /\ run[r].at \in {"call", "answer"}
\* no other run works with an earlier look-up of the row
Alone(x) == (\E r \in Runs : Busy(r, x)) => Overlap

SetStatus(x, s) == rows' = [rows EXCEPT ![x].status = s]
Becomes(r, s) == run' = [run EXCEPT ![r] = s]

\* a queued refund goes into the buyer's wallet and is done
CreditWallet(r, x) ==
    /\ run[r] = Idle
    /\ rows[x].status = "pending" /\ Alone(x)
    /\ credited' = credited \cup {x}
    /\ SetStatus(x, "processed")
    /\ UNCHANGED <<orderVars, payoutVars, batches, made, handled, run>>

\* the wallet is frozen or cannot be used: it goes to the card
TakeNext(r, x) ==
    /\ run[r] = Idle
    /\ rows[x].status = "pending" /\ Alone(x)
    /\ SetStatus(x, "processing")
    /\ Becomes(r, [at |-> "call", row |-> x])
    /\ UNCHANGED <<orderVars, payoutVars, batches, credited, made, handled>>

\* Paystack makes the refund or does not, and answers or does not
CreateRefund(r) ==
    /\ run[r].at = "call"
    /\ LET x == run[r].row
           answer(a, id) == Becomes(r, [at |-> "answer", row |-> x, answer |-> a, id |-> id]) IN
        \/ /\ \E a \in {"refused", "unavailable", "unknown"} : answer(a, {})
           /\ UNCHANGED made
        \/ \E n \in 1..MaxSends :
            /\ x[2] \notin ByWallet
            /\ made[x][n] = "none" /\ \A k \in 1..(n - 1) : made[x][k] # "none"
            /\ made' = [made EXCEPT ![x][n] = "pending"]
            /\ \/ answer("ok", {<<x, n>>})
               \/ answer("unknown", {})
               \/ SentBehind5xx /\ answer("unavailable", {})
    /\ UNCHANGED <<orderVars, payoutVars, rowVars, handled>>

Answered(r, answers) == run[r].at = "answer" /\ run[r].answer \in answers

MarkSent(r) ==
    /\ Answered(r, {"ok"})
    /\ rows' = [rows EXCEPT ![run[r].row].id = run[r].id]
    /\ Becomes(r, Idle)
    /\ UNCHANGED <<orderVars, payoutVars, batches, credited, made, handled>>

NotOk == {"refused", "unavailable", "unknown"}
SaidNo == {"refused", "unavailable"}
MarkFailed(r) ==
    /\ Answered(r, SaidNo)
    /\ SetStatus(run[r].row, "failed")
    /\ Becomes(r, Idle)
    /\ UNCHANGED <<orderVars, payoutVars, batches, credited, made, handled>>

\* no answer, or the write that follows it fails: the row stays as it is
Note(r) ==
    /\ Answered(r, {"unknown", "ok"})
    /\ Becomes(r, Idle)
    /\ UNCHANGED <<orderVars, payoutVars, rowVars, made, handled>>

RunStops(r) ==
    /\ run[r] # Idle
    /\ Becomes(r, Idle)
    /\ UNCHANGED <<orderVars, payoutVars, rowVars, made, handled>>

\* processing for half an hour without an id: Paystack is asked for the refunds of
\* the payment, whatever became of them
Unconfirmed(x) == rows[x].status = "processing" /\ rows[x].id = {}
MadeOf(p) == {i \in Ids : i[1][2] = p /\ made[i[1]][i[2]] # "none"}
ListRefunds(r, x) ==
    /\ run[r] = Idle
    /\ Unconfirmed(x) /\ x[2] \notin ByWallet
    /\ \A q \in Runs : ~InCall(q, x)
    /\ Alone(x)
    /\ Becomes(r, [at |-> "listed", row |-> x, found |-> MadeOf(x[2])])
    /\ UNCHANGED <<orderVars, payoutVars, rowVars, made, handled>>

\* one of the same amount that no row has is the row's; none: it was never sent
Amount(x) == Cardinality(rows[x].part)
MatchesTaken(r) == {i \in run[r].found : Amount(i[1]) = Amount(run[r].row)}
MatchesProcessed(r) == {i \in run[r].found :
    /\ Amount(i[1]) = Amount(run[r].row) /\ \A y \in Keys : i \notin rows[y].id
    /\ made[i[1]][i[2]] = "processed"}
Matches(r) == {i \in run[r].found :
    Amount(i[1]) = Amount(run[r].row) /\ \A y \in Keys : i \notin rows[y].id}
RecoverBlindly(r) ==
    /\ run[r].at = "listed"
    /\ LET x == run[r].row IN
        IF Matches(r) = {} THEN SetStatus(x, "pending")
        ELSE \E i \in Matches(r) : rows' = [rows EXCEPT ![x].id = {i}]
    /\ Becomes(r, Idle)
    /\ UNCHANGED <<orderVars, payoutVars, batches, credited, made, handled>>

Recover(r) ==
    /\ run[r].at = "listed"
    /\ LET x == run[r].row IN
        IF ~Unconfirmed(x) THEN rows' = rows
        ELSE IF Matches(r) = {} THEN SetStatus(x, "pending")
        ELSE \E i \in Matches(r) : rows' = [rows EXCEPT ![x].id = {i}]
    /\ Becomes(r, Idle)
    /\ UNCHANGED <<orderVars, payoutVars, batches, credited, made, handled>>

-----------------------------------------------------------------------------
(* Paystack and its events.                                                *)

RefundEnds(x, n) ==
    /\ made[x][n] = "pending"
    /\ \E t \in {"processed", "failed"} : made' = [made EXCEPT ![x][n] = t]
    /\ UNCHANGED <<orderVars, payoutVars, rowVars, handled, run>>

RefundRetried(x, n) ==
    /\ Retried
    /\ made[x][n] = "failed"
    /\ made' = [made EXCEPT ![x][n] = "retried"]
    /\ UNCHANGED <<orderVars, payoutVars, rowVars, handled, run>>

\* the newest row of its payment
Newest(x) ==
    /\ rows[x].status # "none"
    /\ \A y \in Keys : y[2] = x[2] /\ rows[y].status # "none" => y[1] <= x[1]

\* canMoveRefund
MovesToDone(from, to) == from \in {"pending", "processing", "failed"} /\ to = "processed"
MovesTo(from, to) ==
    \/ from \in {"pending", "processing"} /\ to \in {"processed", "failed"}
    \/ from = "failed" /\ to = "processed"

\* an event names the payment, and changes its newest row
HandleEvent(i, to) ==
    /\ <<i, to>> \notin handled
    /\ handled' = handled \cup {<<i, to>>}
    /\ \E x \in Keys :
        /\ x[2] = i[1][2] /\ Newest(x)
        /\ rows' = IF MovesTo(rows[x].status, to)
                   THEN [rows EXCEPT ![x].status = to, ![x].id = {i}] ELSE rows
    /\ UNCHANGED <<orderVars, payoutVars, batches, credited, made, run>>

Happened(i) ==
    LET t == made[i[1]][i[2]] IN
    IF t = "retried" THEN {"failed", "processed"} ELSE {t} \cap {"processed", "failed"}
RefundEvent(x, n) == \E to \in Happened(<<x, n>>) : HandleEvent(<<x, n>>, to)

-----------------------------------------------------------------------------
OrderStep ==
    \/ Complete \/ Cancel
    \/ \E p \in Payments : Pay(p)
    \/ \E to \in PayoutStatuses : PayoutMove(to)
    \/ \E W \in SUBSET Units : RefundOrder(W)

AnswerStep(r) ==
    CreateRefund(r) \/ MarkSent(r) \/ MarkFailed(r) \/ Note(r) \/ Recover(r)
RunStep(r) ==
    \/ AnswerStep(r) \/ RunStops(r)
    \/ \E x \in Keys : CreditWallet(r, x) \/ TakeNext(r, x) \/ ListRefunds(r, x)

PaystackStep ==
    \E x \in Keys, n \in 1..MaxSends :
        RefundEnds(x, n) \/ RefundRetried(x, n) \/ RefundEvent(x, n)

Next == OrderStep \/ PaystackStep \/ \E r \in Runs : RunStep(r)

Spec == Init /\ [][Next]_vars

(***************************************************************************)
(* Fairness.  The job runs every minute; Paystack settles its refunds and  *)
(* sends an event until it is answered 200; a refund that is sent again    *)
(* and again gets through in the end (Reaches).  A run may stop anywhere,  *)
(* though not before every refusal is written down; nothing is assumed of  *)
(* people.                                                                 *)
(***************************************************************************)
Reaches(x) ==
    \E r \in Runs :
        /\ Busy(r, x) /\ CreateRefund(r)
        /\ made' # made \/ run'[r].answer = "refused"

Fairness ==
    /\ \A r \in Runs : WF_vars(AnswerStep(r) \/ RunStops(r))
    /\ \A x \in Keys :
        /\ SF_vars(\E r \in Runs : CreditWallet(r, x) \/ TakeNext(r, x))
        /\ SF_vars(\E r \in Runs : ListRefunds(r, x))
        /\ SF_vars(\E r \in Runs : Recover(r) /\ Busy(r, x))
        /\ SF_vars(\E r \in Runs : MarkFailed(r) /\ Busy(r, x))
        /\ SF_vars(Reaches(x))
        /\ \A n \in 1..MaxSends : WF_vars(RefundEnds(x, n)) /\ WF_vars(RefundEvent(x, n))

FairSpec == Spec /\ Fairness

-----------------------------------------------------------------------------
(* Safety.                                                                 *)

OutAtPaystack(x) == \E n \in 1..MaxSends : made[x][n] \in {"pending", "processed", "retried"}
WithShop == IF payout \in Left THEN took \ givenBack ELSE {}
PaidBack == {x \in Keys : x \in credited \/ OutAtPaystack(x)}
WithBuyer == UNION {rows[x].part : x \in PaidBack}

\* No two refunds that went out gave back the same money.
RefundsApart == \A x, y \in PaidBack : x # y => rows[x].part \cap rows[y].part = {}
\* refunds.service.ts:18: a refund and a payout, or two refunds, never take the same
\* money, whatever stops, is lost or repeated.
SameMoneyOnce == WithShop \cap WithBuyer = {} /\ RefundsApart

SentOnce(x) ==
    /\ x \in credited => \A n \in 1..MaxSends : made[x][n] = "none"
    /\ \A n, k \in 1..MaxSends : made[x][n] # "none" /\ made[x][k] # "none" => n = k
\* refunds.service.ts:86: one row is refunded once, at Paystack or into the wallet,
\* although its answer may be lost and it is then looked up and queued again.
RefundSentOnce == \A x \in Keys : SentOnce(x)

\* An event names only the payment, a look-up is matched by its amount, and still no
\* row ever carries the refund of another row.
IdIsOwn == \A x \in Keys : \A i \in rows[x].id : i[1] = x

\* A refund shown as done was done, one shown as failed left nothing at Paystack.
ShownIsTrue ==
    \A x \in Keys :
        /\ rows[x].status = "processed" =>
                x \in credited \/ \E n \in 1..MaxSends : made[x][n] = "processed"
        /\ rows[x].status = "failed" => x \notin PaidBack

\* Once a refund is done or failed no late answer, look-up or event changes it.
FinalStays ==
    [][\A x \in Keys : rows[x].status \in {"processed", "failed"} => rows'[x] = rows[x]]_vars

\* The invariant the proofs rest on.  Only the newest row of a payment may be open, and
\* only one run works with a row.
NewestOpen ==
    /\ \A x \in Keys :
        /\ x[1] > batches => rows[x].status = "none"
        /\ rows[x].status = "none" => rows[x] = NoRow
    /\ \A x, y \in Keys : Open(x) /\ y[2] = x[2] /\ y # x =>
        ~Open(y) /\ (y[1] > x[1] => rows[y].status = "none")
OneRun ==
    \A r, q \in Runs : run[r] # Idle /\ run[q] # Idle /\ run[r].row = run[q].row => r = q
\* A row is refunded only after a run has taken it, and carries no refund of a newer row.
Taken(x) == rows[x].status \notin {"none", "pending"}
RowOnce(x) ==
    /\ SentOnce(x)
    /\ rows[x].id # {} \/ x \in credited => Taken(x)
    /\ x \in credited => rows[x].status # "processing"
    /\ \A n \in 1..MaxSends : made[x][n] # "none" => Taken(x)
    /\ \A y \in Keys, n \in 1..MaxSends :
        <<y, n>> \in rows[x].id => y[2] = x[2] /\ y[1] <= x[1] /\ made[y][n] # "none"
\* Before its call a run has no refund of the row, after a look-up it knows them all.
RunOnce(r) ==
    LET x == run[r].row IN
    /\ Taken(x) /\ x \notin credited
    /\ run[r].at = "call" => \A n \in 1..MaxSends : made[x][n] = "none"
    /\ run[r].at = "answer" =>
        \A i \in run[r].id : \E n \in 1..MaxSends : i = <<x, n>> /\ made[x][n] # "none"
    /\ run[r].at = "listed" =>
        /\ \A n \in 1..MaxSends : made[x][n] # "none" => <<x, n>> \in run[r].found
        /\ \A y \in Keys, n \in 1..MaxSends :
            <<y, n>> \in run[r].found => made[y][n] # "none" /\ y[2] = x[2]
Once ==
    /\ NewestOpen
    /\ OneRun
    /\ \A x \in Keys : RowOnce(x)
    /\ \A r \in Runs : run[r] # Idle => RunOnce(r)
\* The parts of rows that stand do not overlap, nor does what the shop has.
RowsApart ==
    /\ \A x \in Keys : rows[x].part \subseteq UnitsOf(x[2])
    /\ \A x, y \in Keys : x # y /\ {rows[x].status, rows[y].status} \cap {"none", "failed"} = {}
        => rows[x].part \cap rows[y].part = {}
ShopApart ==
    /\ (took \ givenBack) \cap Reserved = {}
    /\ payout \notin Left => took = {}
\* The truth about a row: a refund is made for it while it is processing, and it stays
\* so until the event is handled, and then is what the event said.
RowTrue(x) ==
    /\ x \in credited => rows[x].status = "processed" /\ rows[x].id = {}
    /\ rows[x].status = "processed" => x \in credited \/ rows[x].id # {}
    /\ rows[x].id # {} => \E n \in 1..MaxSends : rows[x].id = {<<x, n>>} /\ made[x][n] # "none"
    /\ \A n \in 1..MaxSends :
        /\ \A to \in {"processed", "failed"} : <<<<x, n>>, to>> \in handled => made[x][n] = to
        /\ made[x][n] # "none" =>
            /\ made[x][n] # "retried"
            /\ rows[x].status # "processing" => rows[x].id = {<<x, n>>}
            /\ IF <<<<x, n>>, made[x][n]>> \in handled THEN rows[x].status = made[x][n]
               ELSE rows[x].status = "processing"
\* What a run knows of its row is still so.
RunTrue(r) ==
    LET x == run[r].row IN
    /\ run[r].at = "call" \/ Answered(r, SaidNo) =>
        /\ rows[x].status = "processing" /\ rows[x].id = {}
        /\ \A n \in 1..MaxSends : made[x][n] = "none"
    /\ Answered(r, {"ok"}) =>
        \E n \in 1..MaxSends : run[r].id = {<<x, n>>} /\ made[x][n] # "none"
IInv ==
    /\ TypeOK
    /\ Once
    /\ RowsApart
    /\ ShopApart
    /\ \A x \in Keys : RowTrue(x)
    /\ \A r \in Runs : run[r] # Idle => RunTrue(r)

\* The promise of MoneyOnce.tla.
Promise == INSTANCE MoneyOnce WITH place <-
    [u \in Units |-> IF u \in WithShop THEN "shop" ELSE IF u \in WithBuyer THEN "buyer" ELSE "held"]
PromiseKept == Promise!Spec

-----------------------------------------------------------------------------
(* Liveness.                                                               *)

\* Left processing for good: the payment was made from a wallet, so Paystack does not
\* know it, and nobody looks the refund up.
Stuck(x) == rows[x].status = "processing" /\ x[2] \in ByWallet /\ \A r \in Runs : ~Busy(r, x)

\* A queued refund is done or failed in the end, unless it is stuck.
RefundEnded ==
    \A x \in Keys : rows[x].status = "pending" ~>
        (rows[x].status \in {"processed", "failed"} \/ Stuck(x))
=============================================================================

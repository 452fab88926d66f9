# Medris in TLA+: how the money moves

Medris (Levromart) is a marketplace for a campus: buyers order from shops, pay by card
through Paystack or by bank transfer, and shops are paid after the order is completed.
The backend is a TypeScript server on PostgreSQL (`src/medris-backend`); Paystack is a
service outside it that may be slow, silent, repeat itself or answer late.

This project models the part in which a mistake costs money: **taking** a payment
(`CardPayments`), **paying out** the shop (`VendorPayouts`), **giving money back**
(`Refunds`), **keeping it** for people and for Levromart (`Wallet`, with the arithmetic
of `Fees`), and the **order** all of it is about (`Orders`). TLC checks them on small instances, and TLAPS proves their main results for
every size. Paths below are relative
to `src/medris-backend/src/` unless they start with `src/`.

| Module | What it is |
| --- | --- |
| `CardPayments.tla` | card attempts, the ledger, events, reconciliation and repair, with bank transfers as the other way to pay the same order |
| `PaymentPromise.tla` | what `CardPayments` promises, without attempts or events |
| `CardPaymentsProofs.tla` | theorems about `CardPayments` |
| `VendorPayouts.tla` | a payout from the completed order to the bank: withdrawal, worker, transfer events, admins, disputes |
| `PaidOnce.tla` | what `VendorPayouts` promises, without queues or workers |
| `VendorPayoutsProofs.tla` | theorems about `VendorPayouts` |
| `PayoutMoves.tla` | how the status of a payout moves: what `VendorPayouts` guarantees and `Refunds` assumes |
| `Refunds.tla` | refunds of one order, from an admin's or a cancellation's to Paystack's event, beside its payout |
| `MoneyOnce.tla` | what refunds and payouts promise together |
| `RefundsProofs.tla` | theorems about `Refunds` |
| `Fees.tla`, `FeesProofs.tla` | the fees to the kobo, and what is true of them for every amount |
| `Wallet.tla` | everybody's wallets and Levromart's: top-ups, sends, orders, earnings, refunds, withdrawals |
| `SumsProofs.tla` | what a sum over a finite table does when one entry changes |
| `WalletProofs.tla` | theorems about `Wallet` |
| `Orders.tla` | an order from checkout to its end: shop and buyer, reports of bank transfers, disputes, cancellations, jobs |
| `OrdersProofs.tla` | theorems about `Orders` |
| `MC*.tla`, `*.cfg` | the instances TLC checks |

To check a run: `tlc -workers 2 -config CardsSafety.cfg MCCardPayments`; to check the
proofs: `tlapm CardPaymentsProofs.tla`.

## 1. Inventory of the system

For each part: its state, its operations, whom it talks to, what is hard, and what would
make it correct. `PROJECT.json` lists the files of each part.

**Card checkout** (`modules/paystack-checkout`). State: an attempt in
`paystack_transactions` and its row in `payments`. Operations: start or hand out again,
check, drop. The link is asked of Paystack *between* two transactions, and a link stays
payable there after the attempt was set aside here. Correct when: one open attempt for an
order, and whatever the buyer pays is found again.

**Paystack webhook, reconciliation, repair** (`modules/paystack-webhook`,
`repositories/paystack-ledger`). State: the ledger and `paystack_events`. Four callers
(webhook, the buyer's check, the ten-minute job, the repair) ask Paystack first and open a
transaction afterwards. Hard: duplicates, late and lost events, answers that are stale
when they are used. Correct when: every payment is applied once, and only if it was taken.

**Bank transfer claims** (`modules/payment-claims`). State:
`buyer_report` rows, disputes, `orders.awaiting_confirmation_since`. The buyer reports,
the vendor or an admin confirms, disputes or rejects; either side raises disputes, which
an admin resolves with an outcome. Hard: it races with the card for the same fee, and a
dispute, a report and a job may each hold a different view of the order. Correct when: a
fee is counted once, goods move after all the money, and what is disputed can be resolved.

**Order lifecycle** (`modules/order-actions`, `scheduled-jobs`). State:
`orders.status`, the confirmation clock and the escalation mark. Jobs cancel, complete and
escalate by them. Hard: payments that arrive after the order moved on, orders in no job's
set. Correct when: a payment never moves an order back, an order that is over stays so,
and none is forgotten.

**Cancellations** (`modules/cancellations`). State: `cancellation_requests`, one open for
an order. The buyer or the shop asks, the shop answers the buyer's, an admin decides. Hard:
a decision on an order that moved on, or whose payout is under way.

**Payments administration** (`payments-admin`, `payout-accounts`). Lists, a daily
comparison with Paystack that alerts, verified accounts.

**Vendor payouts** (`modules/vendor-payouts`, migration 0007). State: `vendor_payouts`
(status, attempts, reference, hold reason). A trigger queues one row for an order; a job
claims it in one transaction, calls Paystack outside of any, and records the answer in
another. Hard: a worker that stops or is answered after a timeout, transfer events in any
order, references that are used again, admins. Correct when: the money leaves once.

**Withdrawals** (`modules/withdrawals`, migration 0017). State: `withdrawal_requests`, and
which payouts belong to one. A payout waits until its shop asks for it; money of the last
day is approved by an admin. Correct when: a disputed order's money stays.

**Levromart wallet and PIN** (`modules/wallet`, migrations 0033, 0037). State: a guarded
balance and its ledger for every person, withdrawals by transfer, the PIN's wrong tries.
Hard: money given back although its transfer was made, events in any order, rounding.
Correct when: the wallets together are the money at Paystack and nothing is sent twice.

**Buyer refund wallet** (`modules/buyer-wallet`). The wallet before migration 0033, which
now only pays out what is left in it. Its withdrawals have the same shape.

**Refunds** (`modules/refunds`, migrations 0008, 0039). State: `paystack_refunds`. Paystack
has no idempotency key for refunds, its events name only the payment, and lost ones are
found again by their amount. Hard: refund and payout compete for the same money. Correct
when: no money goes to two, and no refund is made twice.

**Commission, vendor fees, platform wallet** (`modules/commission`, `vendor-fees`,
`platform-wallet`, migrations 0035, 0039). State: Levromart's own ledger, filled when
orders are paid and by fees, emptied by withdrawals; monthly charges. Correct when: each
is taken once and to the kobo.

**Paystack client** (`integrations/paystack`). No state. It sorts outcomes into rejected,
unavailable (5xx) and unknown (no answer in 15 s), which everything above relies on.

**The rest** (catalogue and checkout, accounts and sessions, points, shops and
administration, messaging, social features, data gateway, frontend, old SQL and scripts)
keeps its state in single rows changed by one transaction for a request, or is
best-effort delivery. Nothing of the money depends on it. It is not modelled.

How they interact: the checkout writes the ledger rows the webhook settles; settling marks
the `payments` row and moves the order (`afterConfirmedClaim`, shared with bank
transfers); an order that becomes completed queues its payout by a trigger; a withdrawal
releases it; the webhook's transfer events and the reconciliation finish it; disputes and
refunds hold it. Earnings and refunds go into wallets, whose money pays orders again.
`Refunds` and `VendorPayouts` meet in `PayoutMoves`: the one is checked against every
payout that moves so, the other is proved to move so.

## 2. Card payments (`CardPayments.tla`)

| Model | Code |
| --- | --- |
| `order`, `clock` | `orders.status`, `awaiting_confirmation_since` set |
| `disputed` | an open row in `disputes` |
| `tx`, `due`, `link`, `aged` | `paystack_transactions.status`, what the attempt pays for (`payments.payment_type`), its link, its age over an hour |
| `row` | the attempt's row in `payments`: absent, pending or paid |
| `claims`, `banked` | pending and confirmed `buyer_report` rows |
| `event` | `paystack_events` for the reference's `charge.success`, and whether it was processed |
| `paystack` | what really happened at Paystack |
| `calls` | the requests and jobs that have Paystack's answer and not yet their transaction |
| `old` | references settled by an earlier version that did not apply them |
| `applied` | history: how often a reference moved its order on |

`StartPayment`, `LinkStored`, `DropAttempt`, `StartCrashes` are the stages of
`startPayment`. `WebhookArrives`, `StatusChecked`, `ReconcileOpen`, `ReconcileNotApplied`
are the four callers up to Paystack's answer; `SettleCharge`, `DuplicateCharge`,
`HoldBack`, `RecordNotPaid`, `RepairOrderPayment`, `NothingToRepair` are the outcomes of
the transaction that follows, and `CallFails` its rollback or the end of the server.
`ReportTransfer` to `RejectTransfer` are the bank transfer, `VendorConfirms` to `Cancel`
the order. Each transaction is one step; PostgreSQL's locks make it one. `MayBePaid` is
the unique index `payments_one_paid_fee_per_order_idx` (`database/baseline/01-public-schema.sql:12031`):
an order has one paid fee. Whoever would record a second one, a settlement, a repair or
the confirmation of a transfer, is rolled back, which is `CallFails`. Deposits are not in it.

Abstracted: amounts are "in full" or "short" of what the recorded attempt says; ages are
nondeterministic; metadata is assumed present; `verify` is assumed not to contradict a
`charge.success`. Pickup stands for every order paid before delivery. Lock-order deadlocks
end in a request PostgreSQL aborts, which is `CallFails`.

Left out: rental deposits, service offers, escrow orders, references of the old checkout,
and editing a pending order. Disputes, their resolution and the requests around an order
are in `Orders`, the refund a cancellation queues is in `Refunds`.

### Runs

One order (no transaction looks at two), two references (the second replaces the first,
which is what set-aside and late payments need), up to two requests at work (the least
that interleaves). A third reference or request adds no new pair of interacting steps:
every action reads and writes one reference, and those of the same order.

- `cards_safety`: both references may be old, two requests, Paystack may be unreachable.
  `AppliedOnce` (a payment moves its order once), `PaidMeansTaken`, `SettledMeansPaid` (a
  settled payment has its row paid, even if the attempt was set aside or dropped),
  `OneOpenAttempt`, `ProcessedMeansSettled`, `GoodsAfterMoney`, `CardNeverMovesBack`, and
  the refinement `PromiseKept`. About a million states. The order is paid at once; with a
  deposit (`PayAfter = {o1}`) the same run also passes (3.6 million states), but takes more
  than four minutes, so deposits rest on the theorems, which hold for any `PayAfter`, and on
  `Orders`.
- `cards_liveness`: one request at a time, one reference that may be old, Paystack may be
  unreachable. Calls may fail at any point and nobody has to tap anything. `PaidSettles`:
  money Paystack took is settled in the end, with two exceptions. `Superseded`: the fee was
  paid otherwise, and the index refuses every settlement. `Swallowed`: its event was
  answered 200 while Paystack could not be asked, and its attempt had been set aside, so
  that the reconciliation does not look at it. `RepairedInTheEnd` has the first exception.
  About 207,000 states; both exceptions are in section 8.
- `cards_counted_twice`: a disagreement between a comment and the code (section 8).

Fairness: Paystack sends a `charge.success` again until it is answered 200; the
reconciliation runs every ten minutes over every open or unapplied reference; not every
try meets an outage; a call that is tried again and again is not rolled back for ever,
unless the index refuses it every time. It is strong fairness because the
requests share a bounded number of slots and a failing call disables the step until the
next try. Nothing is assumed of buyers, vendors and admins.

### Proved

For any orders, references, old references and number of requests:
`Spec => []TypeOK`, `[]IInv`, `[]AppliedOnce`, `[]PaidMeansTaken`, `[]SettledMeansPaid`,
`[]OneOpenAttempt`, `[]ProcessedMeansSettled`, `[]GoodsAfterMoney`, `CardNeverMovesBack`,
and `PromiseKept`: `CardPayments` implements `PaymentPromise`. The only assumption is
`CardAssumption` (the constants have their types).

The safety properties are not inductive alone. `IInv` adds what an answer that is still in
a request's hands may rely on (`Informed`: the reference was started, and "success" was
true when it was asked, which it then stays), what was started (`Started`) and the
agreement of row, ledger and history (`Ledger`). With it a settled payment cannot be
settled again because `tx` left `Settleable` in the step that applied it, and cannot be
repaired because its row is paid. `GoodsAfterMoney` follows because paid rows and
confirmed transfers never go away, so an order that moved on stays paid for.

## 3. Vendor payouts (`VendorPayouts.tla`)

| Model | Code |
| --- | --- |
| `status` | `vendor_payouts.status`; `waiting` is `on_hold` with the reason "Waiting for the vendor to withdraw" |
| `attempts`, `ref` | `attempts`, `transfer_reference` (0 is `lvm_po_<order>`, then the numbered retries, then the random ones of a release) |
| `releases` | how many random references were drawn (a bound, not in the code) |
| `asked` | the undecided `withdrawal_requests` row the payout belongs to |
| `disputed` | the order has an open dispute |
| `transfer` | what really became of each reference at Paystack |
| `handled` | `paystack_events` of transfers: the webhook's key holds Paystack's id, the reconciliation's the reference |
| `worker` | a run of the job between its transactions: before the call, or with an answer |

`Queue` is the trigger; `WithdrawNow`, `AskWithdrawal`, `ApproveWithdrawal`,
`EndWithdrawal`, `RaiseDispute`, `ResolveDispute`, `ReopenDispute`, `HoldPending` are the
shop, the disputes and chargebacks; `Release`, `Hold`, `MarkManual` the admin's buttons.
`RequeueFailed`, `HoldAtClaim`, `Claim` are the job's first transaction. `Claim` happens
when that transaction looks at the disputes. It holds the lock on the payout's row until it
commits, and raising a dispute neither takes that lock nor reads the payout, so a dispute
raised between the look and the commit leaves the same state as one raised just after
(a reopened one too: its update waits for the lock and finds no pending payout). The
model has that order of steps. `InitiateTransfer` and `LookUp` are the job's calls;
`Succeed`, `Fail`, `Requeue`, `Leave` the
transaction after the answer; `WorkerStops` a crash at any of these points.
`TransferEnds` and `TransferReversed` are Paystack and the banks, `TransferEvent` and
`ReconcilePayout` what is heard of them.

Three faults are constants, so that what depends on them is visible:

- `WriteFails`: the database write after Paystack's answer may fail: of a success, or of
  the alert that a transfer waits for its one-time code.
- `SentBehind5xx`: Paystack may have made a transfer it answered with 5xx.
- `Overlap`: a person, the retry timer, the reconciliation or a bank's reversal may act on
  a payout while a worker is still busy with it. A worker gives up after two calls of 15
  seconds; a retry waits ten minutes, the reconciliation half an hour, a reversal takes
  days. An admin could be that fast only by chance.

The passing runs have all three FALSE; each theorem names those it excludes. With
`SentBehind5xx` or `Overlap` TRUE, `PaidOutOnce` or `SettledStays` fail within ten steps: the worker's
writes are unconditional, and a 5xx is taken to mean that nothing was sent although
`integrations/paystack/errors.ts` says to look it up. These are limits of the design a
maintainer should know of.

Abstracted: amounts and the commission taken from them; hold reasons other than the wait
for the shop (a payout may be held at its claim at any time); a request over several
payouts is its effect on each; the answer `otp` counts as underway; the retry of payouts
that wait for the Paystack balance only changes when they go. Left out: a request that
reaches Paystack after it said 404 to the look-up, and an order cancelled after its completion, which is in `Refunds`.

### Runs

One payout (no transaction compares two), two overlapping workers where safety is checked,
two attempts before an admin decides (three in the code; two already give a first
failure, a retry and the limit), one release with a random reference.

- `payouts_safety`: `PaidOutOnce`, `SuccessMeansSent`, `NewReferenceAfterNo` (no new
  reference while the old transfer may stand), `SettledStays` (no late event, worker or
  admin takes back a payout whose transfer stands), `DisputeHolds`, `StatusMoves` (the status
  moves as `PayoutMoves` says, which `Refunds` relies on). `TypeOK`
  bounds the attempts: an approval after the last failure lets the counter pass the limit
  by one, never by two. About 1.3 million states.
- `payouts_liveness`: `QueueIsServed` (a queued payout is paid or comes back before a
  person, unless it is stranded as processing) and the refinement `PromiseKept`. One
  worker and no random release: a second worker only adds progress.
- `payouts_write_fails`: a disagreement (section 8).

Fairness: the job runs every minute, so a payout that stays in the queue, or comes back to
it, is taken in the end (strong, as it leaves and returns); a payout that is tried again
and again reaches Paystack (`Reaches`); Paystack finishes its transfers and sends an event
until it is answered; the reconciliation looks at what is processing. Weak fairness of
`CallStep` says that a busy worker does something, and stopping counts. Nothing is assumed
of shops and admins.

### Proved

For any payouts, workers, attempts and releases, from `PayoutAssumption`:

- whatever fails: `Spec => []TypeOK` and `Spec => DisputeHolds`;
- with `~Overlap` alone, so also when writes fail and a 5xx hides a transfer
  (`WorkersApart`): `[]SuccessMeansSent`, `StatusMoves`, and `SettledByHandStays` (what an
  admin settled, or the shop has in its wallet, is left alone for good);
- with the three faults excluded (`Undisturbed`): `[]IInv`, `[]PaidOutOnce`,
  `NewReferenceAfterNo`, `SettledStays`, and `PromiseKept`: `VendorPayouts` implements
  `PaidOnce`.

`TypeOK` needs `Tries` beside it: a payout that waits, or is asked for, has not passed the
limit. On top of them stand two layers. `Alone` is what every worker may rely on: it is the
only one with its payout (`OneWorker`), the payout still carries the reference it works
for, has not left `processing` but by an event, and a success it was told of is one
(`BusyHere`), and a payout shown as sent was sent. It is inductive without a word on which transfers are live, which is why it
outlives two of the faults. `Core` is about the money: it is live only under the reference
the payout carries now, and only while it is processing or sent (`LiveHere`, which is
`LiveIsCurrent`), and what a worker was told is still so (`Told`). Then every step that
draws a new reference, requeues, or pays in another way starts from a status in which
nothing is live. Together the layers are `IInv` (`CoreMeans`), which TLC checked first.
`AloneMoved` and `CoreMoved` are the arguments said once for all of the people's steps; the
lemmas on calls and events are the worker's and Paystack's. The refinement follows because each step concerns one payout
(`OnePayout`) and never exchanges one way of being out for another (`OutStep`).

## 4. Refunds (`Refunds.tla`)

| Model | Code |
| --- | --- |
| `order`, `paid` | `orders.status` as far as refunds look at it, the payments whose ledger row is `success` |
| `payout`, `took` | `vendor_payouts.status` as `PayoutMoves` shows it, and what it took when it left |
| `givenBack` | `refund_out` entries of the shop's wallet |
| `rows`, `batches` | `paystack_refunds`: status, amount, `paystack_refund_id`; an attempt number is a batch and a payment |
| `credited` | `refund_in` entries of the buyer's wallet |
| `made` | what really became of each refund at Paystack |
| `handled` | `paystack_events` of refunds |
| `run` | a run of the job between its transactions: before the call, with an answer, or with Paystack's list |

`RefundOrder` is the admin's refund, `Cancel` the trigger of migration 0039 that a
cancellation fires. `CreditWallet` or `TakeNext` is the job's first transaction,
`CreateRefund` its call, `MarkSent`, `MarkFailed` and `Note` what follows an answer,
`ListRefunds` and `Recover` the look-up of refunds whose answer was lost, `RunStops` a
crash anywhere. `RefundEnds` and `RefundRetried` are Paystack, `RefundEvent` its webhook.
`PayoutMove` is the other side: any move of `PayoutMoves`, where leaving takes the units
no refund has reserved (`claim`, `buckets`).

A sum of money is a set of units of a payment. Two sums of one payment exceed it exactly
when their sets cannot be kept apart, so "no unit twice" says what the code's subtraction
is there for. Units go to refunds in a fixed order (lowest first), as amounts do.

Four faults are constants. The passing safety run has all four FALSE; each theorem names
those it excludes:

- `SentBehind5xx`: Paystack made a refund it answered with 5xx. `onError` records it as
  failed, its money is free again: `SameMoneyOnce`, `IdIsOwn`, `ShownIsTrue` fail.
- `Retried`: Paystack retries a refund it had given up (`paystack-state.ts:37`). Between
  the two its money may have been paid out: the same three fail.
- `Overlap`: a run acts on a list that another run has overtaken; `requeueUnsent` then
  sends a refund twice. A run would have to hang for the length of two others.
- `LateCancel`: an admin cancels an order whose payout has left (section 8).

Abstracted: amounts other than by units; the share that is refunded is a payment without
its commission, which `Wallet` has to the kobo. Left out: rental deposits.

What the model shows beside its properties, without a run of its own: a refund that
failed after it was taken from the shop's wallet is not given back to the shop, and a
second try takes it again; a payment that settles after the cancellation is not refunded;
cancelling an order of which a payment was refunded in part refunds nothing more of that
payment; a partial refund that was pending when the payout left and failed afterwards
leaves its money with nobody.

### Runs

- `refunds_safety`: two payments, one of them by wallet and one of two units (so that it
  can be refunded in part), two batches, two runs of the job. `SameMoneyOnce`,
  `RefundSentOnce`, `IdIsOwn`, `ShownIsTrue`, `FinalStays`, `IInv`, and the refinement
  `PromiseKept` of `MoneyOnce`. About 370,000 states. A third batch or run adds nothing
  new: only the newest row of a payment may be open, and a row has one run.
- `refunds_liveness`: one batch, with 5xx and retries. `RefundEnded`: a queued refund is
  done or failed in the end, unless it is `Stuck`: its payment was made from a wallet, and
  Paystack does not know it.
- `refunds_after_payout`: a disagreement (section 8).

Fairness: the job runs every minute, so a row that is queued, or found unconfirmed, again
and again is taken up (strong, as runs are few and stop); one that is sent again and again
reaches Paystack; Paystack ends its refunds and sends events until they are answered.
A run may stop anywhere, though not before every refusal is written down.

### Proved

For any payments, units, batches and runs, from `RefundAssumption`, in layers that each
exclude no more faults than they must:

| Assumed | Proved |
| --- | --- |
| nothing | `Spec => []TypeOK`, `[]NewestOpen` |
| `~Overlap` | `[]Once`, and with it `[]RefundSentOnce` |
| `Calm`: nor `SentBehind5xx` nor `Retried` | `[]Core`, and with it `[]IdIsOwn`, `[]ShownIsTrue`, `[]RefundsApart`, `FinalStays` |
| `Ordinary`: nor `LateCancel` | `[]IInv`, `[]SameMoneyOnce`, and `PromiseKept`: `Refunds` implements `MoneyOnce` |

So a late cancellation, which is the disagreement of section 8, costs Levromart what the
shop has, but never gives a buyer the same money by two refunds; and neither a hidden
refund nor one that Paystack retries makes a row go out twice.

Of a payment only the newest row may be open (`NewestOpen`), as a batch leaves a payment
with an open row alone and no run or event opens a row again; that a run's row is in use
is all it needs besides (`Opened`). `IInv` is the conjunction of the layers above it.
`Once`: `NewestOpen`, one run works on a row (`OneRun`), nothing was refunded for a row no
run has taken, and before its call a run knows of no refund, after a look-up of all of
them (`RowOnce`, `RunOnce`). The step that matters is the look-up that finds nothing: a
refund made for the row would be on the list, and if another row carried it, that row
would be a newer one, while the row at hand is open. `Core`: the units of rows that stand
are disjoint (`RowsApart`); Paystack has made a refund for a row only while the row is
processing or carries its id (`RowTrue`), so that equal amounts do no harm, as whatever
the list of a payment holds and no row carries is the open row's; and what a run was
answered still holds (`RunTrue`). `ShopApart`: what the shop took is disjoint from what is
reserved. A step that is not a new batch reserves nothing more (`RowsGoOn`), and a new
batch takes what is free. TLC checks `IInv` as a whole in `refunds_safety`.

## 5. Wallets and fees (`Wallet.tla`, `Fees.tla`)

| Model | Code |
| --- | --- |
| `balance`, `frozen` | `wallet_accounts.balance_kobo`, `frozen` |
| `platform` | the sum of `platform_wallet_entries` |
| `topup`, `charge`, `told` | `paystack_transactions` of `lvm_top_` references, the truth at Paystack, the events answered with 200 |
| `sent` | `wallet_transfers` by their key |
| `bill` | an order paid from a wallet: due; held by Levromart; earned by the shop; being refunded; refunded |
| `wd` | `wallet_withdrawals` and `platform_withdrawals` |
| `call`, `transfer` | the request between its transactions, and the truth at Paystack |
| `misread` | history: withdrawals taken for refused although Paystack made the transfer |

`Send`, `StartTopup`, `PayOrder`, `Withdraw`, `WithdrawFees`, `Freeze` are the requests,
with the code's guards and its own fees; `CreditTopup`, `Earn`, `QueueRefund`,
`CreditRefund` what other services do to a wallet; `AskTransfer`, `RecordAnswer`,
`CallStops` the transfer and what becomes of its answer; `TopupEvent`, `ConfirmTopup`,
`TransferEvent` what Paystack tells. A request that changes balances locks the wallets it
touches, so it is one step.

`Fees` translates `fees.ts` and the wallet's two fee functions: 1.5% is 3 in 200, and a
loop that steps by a kobo is the number it stops at.

Abstracted: limits of a day, smallest and largest amounts of sends and top-ups (they only
refuse more); the amount of a top-up is what the ledger recorded. Left out: the PIN and
its lock, tags, `decideWithdrawal` (it decides withdrawals that are `requested`, and no code
makes them any more), monthly fees.

### Run

`wallet`: one buyer, one shop, a top-up, a transfer, two orders (one free of the wallet's
fee, one after that), a withdrawal by any of the three owners; amounts on either side of
the fee's steps, so that not everything can be paid for; Paystack may be unreachable,
silent or wrong. About 236,000 states.

- `Conserved`: the money at Paystack is, to the kobo, what the wallets show and what is on
  its way to one; but for withdrawals given back although they left (`GivenTwice`).
- `ReturnedStayed`: those are only the misread ones.
- `HoldHolds`: nothing leaves a wallet on hold, but a refund its shop owes.
- `TopupArrives`, `WithdrawalEnds`: with the exceptions `Swallowed` and `Unasked`, which
  are the two ways money waits for a person (section 8).

One withdrawal is enough: it meets others only in the balance it took from. One top-up
and one transfer for the same reason; two orders, because the fee counts earlier ones.

Fairness: Paystack sends events until they are answered and decides about its transfers;
the reconciliation asks about top-ups that are still `initialized`; a request answers or
stops. Nothing is assumed of people.

### Proved

For any people, top-ups, orders, withdrawals and amounts, with no fault excluded:
`Spec => []TypeOK` (no balance is ever negative), `[]IInv`, `[]ReturnedStayed`,
`[]Conserved` and `HoldHolds`. `WalletAssumption` has the people, top-ups, orders and
withdrawals finite, as tables are. And for every amount: a larger payment never carries a smaller fee
(`FeeGrows`); what a buyer is charged is the least total that leaves the price
(`GrossUpIsLeast`); withdrawing everything takes the most that fits
(`WithdrawableIsMost`); a withdrawal's fee pays Paystack's transfer exactly when more than
666 naira are sent (`WithdrawalPaysItsTransfer`).

`IInv` is `Agree`: of each withdrawal, what the request, the row and Paystack may be at
the same time. A refusal in a request's hands means that there is no transfer, and a
transfer that stands means that the row is not given back. Each event or answer moves
the three to another agreeing triple, whatever came before it.

`Conserved` is proved as the equation `Books` between seven sums. A step moves one entry
of each sum it touches, or two balances, and what the entries move by adds up to nothing;
that the sums move by as much is `SumMoves` of `SumsProofs`. The library's fold over a
function can only be reasoned about through its defining equation, and induction takes an
operator as a parameter, so `SumsProofs` proves the induction it needs itself, over the
set of subsets for which the claim fails (`SubsetInduction`): by the well-foundedness of
strict inclusion it would have a least element. `IInv` is needed for the steps that
credit a top-up or give a withdrawal back.

## 6. Orders (`Orders.tla`)

| Model | Code |
| --- | --- |
| `terms` | `orders.delivery_method`, `payment_timing`, `order_type` |
| `status`, `clock`, `escalated` | `orders.status`, `awaiting_confirmation_since`, `payment_escalated_at` |
| `paid`, `claims` | the types of the `payments` rows that are `paid`, and of the buyer's pending reports |
| `open`, `resolved` | how many rows of `disputes` are open and resolved |
| `request` | the open row of `cancellation_requests`: whose it is, or that the shop declined it |

Each handler locks the order and is one action under its own name: `Report` to
`CancelOverdue` are `payment-claims`, `VendorAccepts` to `Decline` are `order-actions`,
`BuyerCancel` to `AdminDenies` are `cancellations`, `AutoCancel`, `AutoComplete` and
`Escalate` the jobs, `Reopen` the admin's of `withdrawals`. `Completion` is what the
database's triggers make of a completion the payments do not bear out. `CardPaid` is
`applyConfirmedCardPayment`: any card or wallet payment, at any time; how it comes about is
`CardPayments` and `Wallet`. A deposit may be recorded twice; a second fee is refused by the
index of section 2, whoever records it (`MayBePaid`).

Abstracted: ages (a day, half an hour, the buyer's window for a refund) are
nondeterministic, and so is whether a card attempt is active when a report comes, or the
payout was sent when a dispute is reopened. Amounts are whole parts. An admin resolves
with one of `Outcomes`, those the screens offer, or none. Left out: service offers,
orders with escrow; and that the escalation's scan may mark an order that is paid
in the same moment.

### Runs

- `orders`: one order, sold or rented, under each of its terms, three disputes. `GoodsPaid` (goods
  out, a completed order and a running clock are paid for; goods that are out have a
  clock), `ClosedStays` (a completed or cancelled order moves only after a dispute, or when an
  admin grants its cancellation), and `NobodyForgotten`. About 35,000 states. Two disputes
  can be open at once or one after the other; the third lets one be reopened meanwhile.
- `orders_disputed`: a disagreement (section 8).

`NobodyForgotten`: once people leave an order alone, the jobs end it, or it lies before an
admin, or it is `Unwatched`. The exceptions are what the code really leaves to people: a
paid order that waits for the shop, a paid rental that is out or back, a payment that was disputed or recorded with no report
left, and the order of section 8. Fairness: the jobs run every few minutes, and what they
look for stays until they come (weak). Nothing is assumed of people.

### Proved

For any bound on disputes and any outcomes: `Spec => []TypeOK`, `[]GoodsPaid` and
`ClosedStays`. `TypeOK /\ GoodsPaid` is inductive as it stands, because payments are never
taken back, and because the clock of goods that are out stops only in a step that takes the
order elsewhere: a report makes it `payment_unresolved`, a rental's last payment `completed`
(`ClockKeeps`). Every path to goods is a case of it: the
shop's hand-over, `MovedOn` after a payment, and the outcome of a dispute (`Completion`).

## 7. What is only model-checked

Liveness under fairness (`PaidSettles`, `RepairedInTheEnd`, `QueueIsServed`,
`RefundEnded`, `TopupArrives`, `WithdrawalEnds`, `NobodyForgotten`) and everything with
ENABLED stays with TLC: the provers at hand do not do it. Every other property of a
passing run is stated by a theorem.

What the theorems exclude is not proved to fail either: that a property does not survive a
fault is known from the runs of section 8 and from single runs of TLC with that constant
TRUE, as sections 3 and 4 say.

## 8. Where the code and its documents disagree

Each of these has a run that shows it:

1. `cards_counted_twice`: the deposit of a pay-after order can be confirmed as a bank
   transfer *and* settled by card, because an open link older than an hour, or one set
   aside, no longer blocks the report and can still be paid
   (`payment-claims.service.ts:38`). For the fee the unique index prevents the second
   record, and leaves the money of item 16.
2. `payouts_write_fails`: if the write after a successful transfer fails, the catch-all
   records a failure and the payout is sent again under a new reference
   (`src/docs/PAYSTACK.md:232`). The wallets' withdrawals have the same catch-all
   (`wallet.service.ts:390`, `misread`).
3. `refunds_after_payout`: an admin may cancel an order whose payout has left, and the
   buyer is refunded with money the shop has (`refunds.service.ts:17`).
4. `orders_disputed`: confirming a report resolves the dispute that was raised meanwhile,
   and the order stays `disputed` for good, which the admin's screen calls "the whole bug"
   (`src/medris-frontend/src/legacy/assets/js/01-app/83-admin-manage-admins.js:848`).

These were read in the code while modelling it; no run is spent on them:

5. A card payment that reaches a pending order leaves the buyer's confirmation clock
   running (`payment-claims.service.ts:101` says it starts at the hand-over).
6. A payout held after its last failure keeps the reference Paystack failed, so its
   release can only be refused (`vendor-payouts.repository.ts:219`).
7. A payout, or a wallet's withdrawal, whose request stopped before its call stays
   processing for good: for the one the reconciliation only hears 404
   (`vendor-payouts.service.ts:178`), the other no job looks up.
8. `src/docs/PAYSTACK.md:238` says that a refund without an answer is never retried by
   itself; `recoverUnconfirmed` puts it back into the queue when Paystack's list does not
   show it.
9. `platform-wallet.repository.ts:29` says that every change of Levromart's balance takes
   its lock; `addFee` does not. A fee that is given back after Levromart withdrew
   everything leaves the balance negative.
10. A wallet on hold "receives nothing" (`wallet.service.ts:475`): a refund goes to the
    card, but earnings, top-ups and returned withdrawals are credited.
11. `platform-wallet.service.ts:34` speaks of 24 hours before a new bank account is paid;
    `bankChangeWaitHours` is 0.
12. An attempt that was set aside and then paid is not looked at again if Paystack could
    not be asked when its webhook came, although "the reconciliation job (below) settles it
    later" (`paystack-webhook.service.ts:43`): that job asks about open attempts.
    `PaidSettles` excepts it, and `TopupArrives` the same gap of a wallet's top-up, both
    under the name `Swallowed`.
13. A buyer must "never be asked for a second time" (`paystack-checkout.service.ts:106`),
    but a sale that is paid can be reported once more as a bank transfer: `outstanding`
    then names the refundable deposit, which a trigger set to the whole price. Its
    confirmation leaves the paid order in `payment_unresolved` (`again` in `Orders`). Of a
    pay-after order it goes on naming the paid balance: the report makes the order
    `payment_unresolved`, the index refuses its confirmation, and only a rejection, which
    cancels the order, or the outcome of a dispute takes it out again.
14. "A shop cannot cancel a paid order itself" (`cancellations.service.ts:12`): `transition`
    and `decline` do not ask whether it is paid; only the screen does.
15. Resolving a dispute without an outcome puts the order "back to where it was"
    (`payment-claims.service.ts:380`): one that was pending, completed or cancelled becomes
    confirmed, and one in `payment_unresolved` stays there though no report is left.
16. A card payment of a fee that another link or a confirmed transfer has paid is never
    settled, though the reconciliation "settles them the way the webhook would have"
    (`src/docs/PAYSTACK.md:210`): the unique index rolls every try back, the webhook answers
    500 until Paystack gives up, the reconciliation counts a problem each time. Nothing gives
    the money back; the daily check tells admins of it. So it is with an old payment that was
    never applied. `PaidSettles` and `RepairedInTheEnd` except it (`Superseded`).
17. A delivery that is paid before it leaves cannot be completed by the shop:
    `order-actions.service.ts:62` asks for the deposit of every delivery.
18. Goods leave "only once the money is in" (`order-actions.service.ts:55`), but the check
    asks for a payment of the type, not for its sum: an order paid by card stays pending,
    and the buyer may still make it larger (`editPending`, line 149).

## 9. Not modelled

By far most of the repository is the frontend, the older functions under `src/api` it
replaced, SQL of earlier states and vendored libraries. They show the system and call it;
none of them holds state the money depends on, and what they may ask for is the
environment of the modules here. In the backend, what is left out is, by part:

- PIN, sessions, one-time codes: counters and rows of one person, changed by one
  transaction; what time does to them would be most of the model.
- Payout accounts, monthly fees, shops, support, administration: forms over a single row
  with one decision.
- Catalogue, carts, checkout: one transaction for a request, stock by one guarded
  statement.
- Messages, calls, notifications, live updates, assistant, search: delivered as well as it
  goes, nothing depends on them.
- Service offers (they complete when they are paid), editing a pending order, withdrawal
  requests over several payouts: they would follow the modules here, and are
  the plan.

## 10. Plan

Done: `CardPayments`, `VendorPayouts`, `Refunds` composed with payouts through
`PayoutMoves`, `Wallet` and `Fees`, and `Orders`, each with its abstract specification where it has one,
runs and proofs. What would come next:

1. **Edits** in `Orders`: the buyer's change of a pending order under an open payment,
   with amounts, so that a payment can be too small for what the order has become.
2. **Withdrawal requests** over several payouts, with one open request for a shop, limits
   and destinations, composed with `VendorPayouts` and `Wallet`.
3. **Charges**: monthly charges, and from which payout or wallet each is taken, once.
4. Proofs: what survives `Overlap` in payouts and refunds beside types and disputes, and
   what `Refunds` guarantees of the buyer's side when an order is cancelled late.

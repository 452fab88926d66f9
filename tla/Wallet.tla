------------------------------- MODULE Wallet -------------------------------
(***************************************************************************)
(* The Levromart wallets: what every person owns of the money in           *)
(* Levromart's Paystack balance, and Levromart's own wallet of fees and    *)
(* commission (wallet, platform-wallet, migrations 0033, 0035, 0037,       *)
(* 0039).                                                                  *)
(*                                                                         *)
(* People add money through Paystack, send it, pay orders with it, receive *)
(* earnings and refunds, and withdraw it to a bank.  A change of balances  *)
(* is one transaction that holds the wallets it touches, so it is one      *)
(* step.  What is not one step is everything that Paystack takes part in:  *)
(* a withdrawal is written down before the transfer is asked for, its      *)
(* answer is recorded after it, and events tell the rest, late, repeated   *)
(* and in any order.  Amounts are kobo, and the fees are those of the      *)
(* code.                                                                   *)
(***************************************************************************)
EXTENDS Fees, FiniteSets, Functions

CONSTANTS
    People,
    Levromart,      \* the owner of the platform wallet
    Topups,         \* references of top-ups, and who adds how much: TopUp[t].by, .net
    TopUp,
    Taps,           \* transfers between people, by their key: Sending[k].from, .to, .amount
    Sending,
    Bills,          \* orders paid from a wallet: Bill[b].buyer, .shop, .price
    Bill,
    Withdrawals,
    Amounts,        \* what people withdraw, besides all they have
    FreePayments,   \* a person's first payments of orders carry no fee
    MaxBalance,     \* a top-up that would lead above it is not started
    Outages         \* Paystack may be unreachable when it is asked about a payment

\* tables have finitely many rows
ASSUME WalletAssumption ==
    /\ IsFiniteSet(People) /\ IsFiniteSet(Topups) /\ IsFiniteSet(Bills)
    /\ IsFiniteSet(Withdrawals)
    /\ Levromart \notin People
    /\ TopUp \in [Topups -> [by : People, net : Nat]]
    /\ Sending \in [Taps -> [from : People, to : People, amount : Nat]]
    /\ Bill \in [Bills -> [buyer : People, shop : People, price : Nat]]
    /\ Amounts \subseteq Nat
    /\ FreePayments \in Nat /\ MaxBalance \in Nat
    /\ Outages \in BOOLEAN

VARIABLES
    balance,    \* wallet_accounts.balance_kobo
    frozen,     \* the wallets on hold
    platform,   \* the sum of platform_wallet_entries
    topup,      \* the status of a top-up in the ledger
    charge,     \* the truth at Paystack about it
    told,       \* the top-ups whose event was answered with 200
    sent,       \* wallet_transfers, by key
    bill,       \* where the shop's part of an order's money is
    wd,         \* wallet_withdrawals and platform_withdrawals
    call,       \* the request that waits for Paystack's answer about a withdrawal
    transfer,   \* the truth at Paystack about the transfer
    misread     \* the withdrawals taken for refused although Paystack made the transfer: it
                \* said 5xx, or its success could not be written (not part of the system)

purses == <<balance, platform>>
topupVars == <<topup, charge, told>>
wdVars == <<wd, call, transfer, misread>>
vars == <<purses, frozen, topupVars, sent, bill, wdVars>>

Owners == People \cup {Levromart}
NoWithdrawal == [status |-> "none", by |-> Levromart, amount |-> 0, fee |-> 0]

TypeOK ==
    /\ balance \in [People -> Nat]
    /\ frozen \subseteq People
    /\ platform \in Int
    /\ topup \in [Topups -> {"none", "initialized", "abandoned", "success"}]
    /\ charge \in [Topups -> {"none", "open", "paid"}]
    /\ told \subseteq Topups
    /\ sent \subseteq Taps
    /\ bill \in [Bills -> {"due", "held", "earned", "refunding", "refunded"}]
    /\ wd \in [Withdrawals ->
            [status : {"none", "processing", "success", "failed", "reversed"},
             by : Owners, amount : Nat, fee : Nat]]
    /\ call \in [Withdrawals -> {"idle", "asking", "success", "no", "done"}]
    /\ transfer \in [Withdrawals -> {"none", "live", "success", "failed", "reversed"}]
    /\ misread \subseteq Withdrawals

Init ==
    /\ balance = [p \in People |-> 0] /\ platform = 0
    /\ frozen = {}
    /\ topup = [t \in Topups |-> "none"]
    /\ charge = [t \in Topups |-> "none"]
    /\ told = {}
    /\ sent = {}
    /\ bill = [b \in Bills |-> "due"]
    /\ wd = [w \in Withdrawals |-> NoWithdrawal]
    /\ call = [w \in Withdrawals |-> "idle"]
    /\ transfer = [w \in Withdrawals |-> "none"]
    /\ misread = {}

-----------------------------------------------------------------------------
(* Moving money.                                                           *)

HasSome(p, a) == balance[p] > 0
Has(p, a) == balance[p] >= a
Credit(p, a) == balance' = [balance EXCEPT ![p] = @ + a]
Debit(p, a) == Has(p, a) /\ balance' = [balance EXCEPT ![p] = @ - a]

ActiveAlways(p) == p \in People
Active(p) == p \notin frozen

\* an admin puts a wallet on hold, or lifts the hold
Freeze(p) ==
    /\ frozen' = IF p \in frozen THEN frozen \ {p} ELSE frozen \cup {p}
    /\ UNCHANGED <<purses, topupVars, sent, bill, wdVars>>

\* a repeated tap gets the first answer back; the limits of a day only refuse more
Send(k) ==
    LET from == Sending[k].from
        to == Sending[k].to
        a == Sending[k].amount IN
    /\ k \notin sent
    /\ from # to /\ Active(from) /\ Active(to)
    /\ Has(from, a + WalletFee(a))
    /\ sent' = sent \cup {k}
    /\ balance' = [balance EXCEPT ![from] = @ - a - WalletFee(a), ![to] = @ + a]
    /\ platform' = platform + WalletFee(a)
    /\ UNCHANGED <<frozen, topupVars, bill, wdVars>>

-----------------------------------------------------------------------------
(* Top-ups.                                                                *)

SetTopup(t, s) == topup' = [topup EXCEPT ![t] = s]

StartTopup(t) ==
    /\ topup[t] = "none"
    /\ Active(TopUp[t].by)
    /\ balance[TopUp[t].by] + TopUp[t].net <= MaxBalance
    /\ SetTopup(t, "initialized")
    /\ UNCHANGED <<purses, frozen, charge, told, sent, bill, wdVars>>

\* Paystack gives a link; without one the attempt is set aside
LinkTopup(t) ==
    /\ topup[t] = "initialized" /\ charge[t] = "none"
    /\ \/ charge' = [charge EXCEPT ![t] = "open"] /\ UNCHANGED topup
       \/ SetTopup(t, "abandoned") /\ UNCHANGED charge
    /\ UNCHANGED <<purses, frozen, told, sent, bill, wdVars>>

PayTopup(t) ==
    /\ charge[t] = "open"
    /\ charge' = [charge EXCEPT ![t] = "paid"]
    /\ UNCHANGED <<purses, frozen, topup, told, sent, bill, wdVars>>

\* whoever marks it success first credits what was recorded when it started
CreditUnlessTold(t) ==
    /\ charge[t] = "paid"
    /\ IF topup[t] = "success" \/ t \in told THEN UNCHANGED <<topup, balance>>
       ELSE SetTopup(t, "success") /\ Credit(TopUp[t].by, TopUp[t].net)
CreditTopup(t) ==
    /\ charge[t] = "paid"
    /\ IF topup[t] = "success" THEN UNCHANGED <<topup, balance>>
       ELSE SetTopup(t, "success") /\ Credit(TopUp[t].by, TopUp[t].net)

\* the event is answered with 200 also when Paystack could not be asked
TopupEvent(t) ==
    /\ charge[t] = "paid" /\ t \notin told
    /\ told' = told \cup {t}
    /\ \/ CreditTopup(t)
       \/ Outages /\ UNCHANGED <<topup, balance>>
    /\ UNCHANGED <<platform, frozen, charge, sent, bill, wdVars>>

\* the reconciliation, or the person who comes back, asks Paystack
ConfirmTopup(t) ==
    /\ charge[t] # "none" /\ topup[t] \in {"initialized", "abandoned"}
    /\ IF charge[t] = "paid" THEN CreditTopup(t)
       ELSE SetTopup(t, "abandoned") /\ UNCHANGED balance
    /\ UNCHANGED <<platform, frozen, charge, told, sent, bill, wdVars>>

-----------------------------------------------------------------------------
(* Orders.                                                                 *)

\* 3% is Levromart's the moment an order is paid, the rest is the shop's
Commission(price) == (3 * price + 50) \div 100
Share(b) == Bill[b].price - Commission(Bill[b].price)

PaidBefore(p) == Cardinality({c \in Bills : Bill[c].buyer = p /\ bill[c] # "due"})
OrderFee(b) ==
    IF PaidBefore(Bill[b].buyer) < FreePayments THEN 0 ELSE WalletFee(Bill[b].price)

SetBill(b, s) == bill' = [bill EXCEPT ![b] = s]

PayOrder(b) ==
    /\ bill[b] = "due"
    /\ Active(Bill[b].buyer)
    /\ Debit(Bill[b].buyer, Bill[b].price + OrderFee(b))
    /\ platform' = platform + OrderFee(b) + Commission(Bill[b].price)
    /\ SetBill(b, "held")
    /\ UNCHANGED <<frozen, topupVars, sent, wdVars>>

\* once: the payout was on hold, and says to_wallet from then on
Earn(b) ==
    /\ bill[b] = "held"
    /\ Credit(Bill[b].shop, Share(b))
    /\ SetBill(b, "earned")
    /\ UNCHANGED <<platform, frozen, topupVars, sent, wdVars>>

\* earnings that are in the shop's wallet are taken from it first, on hold or not
QueueRefund(b) ==
    /\ \/ bill[b] = "held" /\ UNCHANGED balance
       \/ bill[b] = "earned" /\ Debit(Bill[b].shop, Share(b))
    /\ SetBill(b, "refunding")
    /\ UNCHANGED <<platform, frozen, topupVars, sent, wdVars>>

CreditRefund(b) ==
    /\ bill[b] = "refunding"
    /\ Active(Bill[b].buyer)
    /\ Credit(Bill[b].buyer, Share(b))
    /\ SetBill(b, "refunded")
    /\ UNCHANGED <<platform, frozen, topupVars, sent, wdVars>>

-----------------------------------------------------------------------------
(* Withdrawals.                                                            *)

MinWithdrawal == 10000

SetCall(w, s) == call' = [call EXCEPT ![w] = s]
Misread(w) == misread' = misread \cup {w}
Insert(w, p, a, fee) ==
    /\ wd' = [wd EXCEPT ![w] = [status |-> "processing", by |-> p, amount |-> a, fee |-> fee]]
    /\ SetCall(w, "asking")

\* asking for no amount is asking for everything
Withdraw(w, p) ==
    /\ wd[w].status = "none"
    /\ Active(p)
    /\ \E a \in Amounts \cup {Withdrawable(balance[p])} :
        /\ a >= MinWithdrawal
        /\ Fits(a, balance[p])
        /\ Insert(w, p, a, WalletFee(a))
        /\ Debit(p, a + WalletFee(a))
        /\ platform' = platform + WalletFee(a)
    /\ UNCHANGED <<frozen, topupVars, sent, bill, transfer, misread>>

\* Levromart withdraws its own money
WithdrawFees(w) ==
    /\ wd[w].status = "none"
    /\ \E a \in Amounts \cup {platform} :
        /\ a >= MinWithdrawal
        /\ a <= platform
        /\ Insert(w, Levromart, a, 0)
        /\ platform' = platform - a
    /\ UNCHANGED <<balance, frozen, topupVars, sent, bill, transfer, misread>>

\* The transfer is asked for outside of any transaction.  An answer that does not decide,
\* or none, leaves the withdrawal processing.
UnclearIsNo == "no"
Unclear == "done"

AskTransfer(w) ==
    /\ call[w] = "asking"
    /\ \/ UNCHANGED <<transfer, misread>> /\ \E a \in {"no", Unclear} : SetCall(w, a)
       \/ \E t \in {"live", "success"} :
            /\ transfer' = [transfer EXCEPT ![w] = t]
            /\ \/ SetCall(w, Unclear) /\ UNCHANGED misread
               \/ t = "success" /\ SetCall(w, "success") /\ UNCHANGED misread
               \/ SetCall(w, "no") /\ Misread(w)
    /\ UNCHANGED <<purses, frozen, topupVars, sent, bill, wd>>

\* a withdrawal moves on once, and back only from success to reversed
MovesToSuccessFirst(s, to) ==
    (s = "processing" /\ to = "success") \/ (s = "success" /\ to = "reversed")
MovesTo(s, to) == s = "processing" \/ (s = "success" /\ to = "reversed")

\* what was taken goes back, and the fee with it
GivesBackKept(w) ==
    IF wd[w].by = Levromart THEN platform' = platform + wd[w].amount /\ UNCHANGED balance
    ELSE Credit(wd[w].by, wd[w].amount + wd[w].fee) /\ UNCHANGED platform
GivesBack(w) ==
    IF wd[w].by = Levromart THEN platform' = platform + wd[w].amount /\ UNCHANGED balance
    ELSE /\ Credit(wd[w].by, wd[w].amount + wd[w].fee)
         /\ platform' = platform - wd[w].fee

\* applyWalletTransferEvent, applyPlatformTransferEvent
ApplyTransfer(w, to) ==
    IF ~MovesTo(wd[w].status, to) THEN UNCHANGED <<wd, purses>>
    ELSE /\ wd' = [wd EXCEPT ![w].status = to]
         /\ IF to = "success" THEN UNCHANGED purses ELSE GivesBack(w)

RecordAnswer(w) ==
    /\ \/ call[w] = "success" /\ ApplyTransfer(w, "success") /\ UNCHANGED misread
       \/ call[w] = "success" /\ ApplyTransfer(w, "failed") /\ Misread(w)
       \/ call[w] = "no" /\ ApplyTransfer(w, "failed") /\ UNCHANGED misread
    /\ SetCall(w, "done")
    /\ UNCHANGED <<frozen, topupVars, sent, bill, transfer>>

\* the process stops, or the write of a refusal fails
CallStops(w) ==
    /\ call[w] \in {"asking", "success", "no"}
    /\ SetCall(w, "done")
    /\ UNCHANGED <<purses, frozen, topupVars, sent, bill, wd, transfer, misread>>

TransferEnds(w) ==
    /\ \/ transfer[w] = "live" /\ \E t \in {"success", "failed"} : transfer' = [transfer EXCEPT ![w] = t]
       \/ transfer[w] = "success" /\ transfer' = [transfer EXCEPT ![w] = "reversed"]
    /\ UNCHANGED <<purses, frozen, topupVars, sent, bill, wd, call, misread>>

\* events come repeated, and that of success also after that of the reversal
Happened(w) ==
    IF transfer[w] = "reversed" THEN {"success", "reversed"}
    ELSE {transfer[w]} \cap {"success", "failed"}
TransferEvent(w) ==
    /\ \E to \in Happened(w) : ApplyTransfer(w, to)
    /\ UNCHANGED <<frozen, topupVars, sent, bill, call, transfer, misread>>

-----------------------------------------------------------------------------
PersonStep ==
    \/ \E p \in People : Freeze(p)
    \/ \E k \in Taps : Send(k)
    \/ \E t \in Topups : StartTopup(t) \/ PayTopup(t) \/ ConfirmTopup(t)
    \/ \E b \in Bills : PayOrder(b) \/ Earn(b) \/ QueueRefund(b) \/ CreditRefund(b)
    \/ \E w \in Withdrawals : WithdrawFees(w) \/ \E p \in People : Withdraw(w, p)

ServerStep ==
    \/ \E t \in Topups : LinkTopup(t) \/ TopupEvent(t)
    \/ \E w \in Withdrawals :
        AskTransfer(w) \/ RecordAnswer(w) \/ CallStops(w) \/ TransferEnds(w) \/ TransferEvent(w)

Next == PersonStep \/ ServerStep

Spec == Init /\ [][Next]_vars

(***************************************************************************)
(* Fairness.  Paystack sends an event until it is answered with 200 and    *)
(* decides about its transfers; the reconciliation asks about top-ups that *)
(* are still initialized.  A request may stop anywhere.                    *)
(***************************************************************************)
Fairness ==
    /\ \A t \in Topups :
        WF_vars(TopupEvent(t)) /\ WF_vars(topup[t] = "initialized" /\ ConfirmTopup(t))
    /\ \A w \in Withdrawals :
        /\ WF_vars(AskTransfer(w) \/ RecordAnswer(w) \/ CallStops(w))
        /\ WF_vars(transfer[w] = "live" /\ TransferEnds(w))
        /\ WF_vars(TransferEvent(w))

FairSpec == Spec /\ Fairness

-----------------------------------------------------------------------------
(* Safety.                                                                 *)

OutAtPaystack(w) == transfer[w] \in {"live", "success"}
Back(w) == wd[w].status \in {"failed", "reversed"}
Counts(P, amount) == IF P THEN amount ELSE 0

\* the money at Paystack: what was paid in, and what left
PaidIn == [t \in Topups |-> Counts(charge[t] = "paid", TopUp[t].net)]
Out == [w \in Withdrawals |-> Counts(OutAtPaystack(w), wd[w].amount)]
AtPaystack == SumFunction(PaidIn) - SumFunction(Out)

\* the parts of it that nobody's wallet shows
Uncredited ==
    [t \in Topups |-> Counts(charge[t] = "paid" /\ topup[t] # "success", TopUp[t].net)]
InBetween == [b \in Bills |-> Counts(bill[b] \in {"held", "refunding"}, Share(b))]
Taken ==
    [w \in Withdrawals |->
        Counts(wd[w].status # "none" /\ ~Back(w) /\ ~OutAtPaystack(w), wd[w].amount)]
OnTheWay == SumFunction(Uncredited) + SumFunction(InBetween) + SumFunction(Taken)

\* given back although it left: ReturnedStayed is that there is none of it
Twice == [w \in Withdrawals |-> Counts(Back(w) /\ OutAtPaystack(w), wd[w].amount)]
GivenTwice == SumFunction(Twice)

\* wallet.service.ts:59: money is never created, lost or spent twice.  What the wallets show
\* and what is on its way to one of them is, to the kobo, the money at Paystack, but for a
\* withdrawal that was given back although it left.
Conserved == AtPaystack + GivenTwice = SumFunction(balance) + platform + OnTheWay

\* A withdrawal whose money is back in the wallet did not leave, whatever was lost, repeated or
\* told late, unless Paystack's answer was misread.
ReturnedStayed ==
    \A w \in Withdrawals \ misread : Back(w) => ~OutAtPaystack(w)

\* wallet.service.ts:428: while a wallet is on hold nothing leaves it, but a refund that a shop
\* owes; also a withdrawal that had begun ends without taking more.
HoldHolds ==
    [][\A p \in frozen : balance'[p] < balance[p] =>
        \E b \in Bills : Bill[b].shop = p /\ bill[b] = "earned" /\ bill'[b] = "refunding"]_vars

\* The invariant the proofs rest on: what a request, a withdrawal and Paystack know of each other.
Agree(w) ==
    /\ wd[w].status = "none" => call[w] = "idle"
    /\ call[w] \in {"idle", "asking", "no"} => transfer[w] = "none"
    /\ call[w] = "asking" => wd[w].status = "processing"
    /\ call[w] = "success" => transfer[w] \in {"success", "reversed"}
    /\ transfer[w] = "none" => wd[w].status \in {"none", "processing", "failed"}
    /\ transfer[w] = "live" => wd[w].status = "processing"
    /\ transfer[w] = "success" => wd[w].status \in {"processing", "success"}
    /\ transfer[w] = "failed" => wd[w].status \in {"processing", "failed"}
    /\ transfer[w] = "reversed" => wd[w].status \in {"processing", "success", "reversed"}
IInv ==
    /\ TypeOK
    /\ \A w \in Withdrawals \ misread : Agree(w)
    /\ \A t \in Topups : topup[t] = "success" => charge[t] = "paid"
    /\ \A w \in Withdrawals : wd[w].status = "none" => wd[w] = NoWithdrawal

-----------------------------------------------------------------------------
(* Liveness.                                                               *)

\* Paid, set aside before, and its event was answered while Paystack could not be asked:
\* nothing looks at it again unless the person comes back.
Swallowed(t) == topup[t] = "abandoned" /\ t \in told

\* Money that was added is in the wallet in the end.
TopupArrives ==
    \A t \in Topups : charge[t] = "paid" ~> topup[t] = "success" \/ Swallowed(t)

\* The transfer never reached Paystack and its answer was lost: no job asks about it.
Unasked(w) == call[w] = "done" /\ transfer[w] = "none"

\* A withdrawal is sent or its money is back in the end.
WithdrawalEnds ==
    \A w \in Withdrawals :
        wd[w].status = "processing" ~> wd[w].status # "processing" \/ Unasked(w)
=============================================================================

---------------------------- MODULE WalletProofs ----------------------------
(***************************************************************************)
(* Proofs about Wallet, for any people, amounts and withdrawals.           *)
(*                                                                         *)
(* Balances are never negative because every debit is checked, and the     *)
(* fees are whole and not negative.  That money given back did not leave   *)
(* rests on Agree, which says for one withdrawal what its row, the request *)
(* that waits and Paystack's transfer can be together.                     *)
(***************************************************************************)
EXTENDS Wallet, FeesProofs, SumsProofs, TLAPS

LEMMA ShareNat ==
    ASSUME NEW b \in Bills
    PROVE  /\ Bill[b].price \in Nat /\ Bill[b].buyer \in People /\ Bill[b].shop \in People
           /\ Commission(Bill[b].price) \in Nat
           /\ Share(b) \in Nat
<1>1. Bill[b].price \in Nat /\ Bill[b].buyer \in People /\ Bill[b].shop \in People
    BY WalletAssumption
<1>2. ASSUME NEW n \in Nat
      PROVE  Commission(n) \in Nat /\ n - Commission(n) \in Nat
    BY DEF Commission
<1> QED
    BY <1>1, <1>2 DEF Share

LEMMA OrderFeeNat == ASSUME NEW b \in Bills PROVE OrderFee(b) \in Nat
    BY ShareNat, WalletFeeNat DEF OrderFee

LEMMA CreditType ==
    ASSUME TypeOK, NEW p \in People, NEW a \in Nat, Credit(p, a)
    PROVE  balance' \in [People -> Nat] /\ \A q \in People : balance'[q] >= balance[q]
BY DEF TypeOK, Credit

LEMMA DebitType ==
    ASSUME TypeOK, NEW p \in People, NEW a \in Nat, Debit(p, a)
    PROVE  /\ balance' \in [People -> Nat]
           /\ \A q \in People \ {p} : balance'[q] = balance[q]
BY DEF TypeOK, Debit, Has

LEMMA CreditTopupType ==
    ASSUME TypeOK, NEW t \in Topups, CreditTopup(t)
    PROVE  /\ balance' \in [People -> Nat] /\ \A q \in People : balance'[q] >= balance[q]
           /\ topup' \in [Topups -> {"none", "initialized", "abandoned", "success"}]
<1>1. TopUp[t].by \in People /\ TopUp[t].net \in Nat
    BY WalletAssumption
<1>2. CASE topup[t] = "success"
    BY <1>2 DEF TypeOK, CreditTopup
<1>3. CASE topup[t] # "success"
    <2>1. Credit(TopUp[t].by, TopUp[t].net) /\ SetTopup(t, "success")
        BY <1>3 DEF CreditTopup
    <2> QED
        BY <1>1, <2>1, CreditType DEF TypeOK, SetTopup
<1> QED
    BY <1>2, <1>3

\* What an event of a transfer does: the row moves on where it may, nobody loses, and the
\* other withdrawals stay as they are.
LEMMA ApplyShape ==
    ASSUME TypeOK, NEW w \in Withdrawals, NEW to \in {"success", "failed", "reversed"},
           ApplyTransfer(w, to)
    PROVE  /\ wd' \in [Withdrawals ->
                        [status : {"none", "processing", "success", "failed", "reversed"},
                         by : Owners, amount : Nat, fee : Nat]]
           /\ \A v \in Withdrawals \ {w} : wd'[v] = wd[v]
           /\ wd'[w].status = IF MovesTo(wd[w].status, to) THEN to ELSE wd[w].status
           /\ balance' \in [People -> Nat] /\ platform' \in Int
           /\ \A q \in People : balance'[q] >= balance[q]
<1>1. CASE ~MovesTo(wd[w].status, to)
    BY <1>1 DEF ApplyTransfer, TypeOK, purses
<1>2. CASE MovesTo(wd[w].status, to)
    <2>1. wd' = [wd EXCEPT ![w].status = to]
        BY <1>2 DEF ApplyTransfer
    <2>2. /\ wd' \in [Withdrawals ->
                        [status : {"none", "processing", "success", "failed", "reversed"},
                         by : Owners, amount : Nat, fee : Nat]]
          /\ \A v \in Withdrawals \ {w} : wd'[v] = wd[v]
          /\ wd'[w].status = to
        BY <2>1 DEF TypeOK
    <2>3. /\ balance' \in [People -> Nat] /\ platform' \in Int
          /\ \A q \in People : balance'[q] >= balance[q]
        <3>1. CASE to = "success"
            BY <1>2, <3>1 DEF ApplyTransfer, TypeOK, purses
        <3>2. CASE to # "success"
            <4>1. GivesBack(w)
                BY <1>2, <3>2 DEF ApplyTransfer
            <4>2. wd[w].by \in Owners /\ wd[w].amount \in Nat /\ wd[w].fee \in Nat
                BY DEF TypeOK
            <4>3. CASE wd[w].by = Levromart
                BY <4>1, <4>2, <4>3 DEF GivesBack, TypeOK
            <4>4. CASE wd[w].by # Levromart
                <5>1. wd[w].by \in People /\ wd[w].amount + wd[w].fee \in Nat
                    BY <4>2, <4>4 DEF Owners
                <5>2. Credit(wd[w].by, wd[w].amount + wd[w].fee)
                    BY <4>1, <4>4 DEF GivesBack
                <5>3. platform' \in Int
                    BY <4>1, <4>2, <4>4 DEF GivesBack, TypeOK
                <5> QED
                    BY <5>1, <5>2, <5>3, CreditType
            <4> QED
                BY <4>3, <4>4
        <3> QED
            BY <3>1, <3>2
    <2> QED
        BY <1>2, <2>2, <2>3
<1> QED
    BY <1>1, <1>2

-----------------------------------------------------------------------------
(* Types, and wallets on hold.                                             *)

\* what HoldHolds says of a step
Held ==
    \A p \in frozen : balance'[p] < balance[p] =>
        \E b \in Bills : Bill[b].shop = p /\ bill[b] = "earned" /\ bill'[b] = "refunding"

LEMMA HeldWhenNobodyLoses ==
    ASSUME TypeOK, \A q \in People : balance'[q] >= balance[q], balance' \in [People -> Nat]
    PROVE  Held
BY DEF TypeOK, Held

LEMMA HeldWhenActivePays ==
    ASSUME TypeOK, NEW p \in People, Active(p), balance' \in [People -> Nat],
           \A q \in People \ {p} : balance'[q] >= balance[q]
    PROVE  Held
BY DEF TypeOK, Held, Active

LEMMA FreezeStep ==
    ASSUME TypeOK, NEW p \in People, Freeze(p)
    PROVE  TypeOK' /\ Held
BY DEF TypeOK, Held, Freeze, purses, topupVars, wdVars

LEMMA SendStep ==
    ASSUME TypeOK, NEW k \in Taps, Send(k)
    PROVE  TypeOK' /\ Held
<1> DEFINE from == Sending[k].from
           to == Sending[k].to
           a == Sending[k].amount
<1>1. from \in People /\ to \in People /\ a \in Nat /\ WalletFee(a) \in Nat
    BY WalletAssumption, WalletFeeNat
<1>2. /\ from # to /\ Active(from) /\ Has(from, a + WalletFee(a))
      /\ sent' = sent \cup {k}
      /\ balance' = [balance EXCEPT ![from] = @ - a - WalletFee(a), ![to] = @ + a]
      /\ platform' = platform + WalletFee(a)
      /\ UNCHANGED <<frozen, topupVars, bill, wdVars>>
    BY DEF Send
<1> HIDE DEF from, to, a
<1>3. balance' \in [People -> Nat] /\ \A q \in People \ {from} : balance'[q] >= balance[q]
    BY <1>1, <1>2 DEF TypeOK, Has
<1>4. Held
    BY <1>1, <1>2, <1>3, HeldWhenActivePays
<1> QED
    BY <1>1, <1>2, <1>3, <1>4 DEF TypeOK, topupVars, wdVars

LEMMA TopupStep ==
    ASSUME TypeOK, NEW t \in Topups,
           StartTopup(t) \/ LinkTopup(t) \/ PayTopup(t) \/ TopupEvent(t) \/ ConfirmTopup(t)
    PROVE  TypeOK' /\ Held
<1>1. CASE StartTopup(t)
    BY <1>1 DEF TypeOK, Held, StartTopup, SetTopup, purses, wdVars
<1>2. CASE LinkTopup(t)
    BY <1>2 DEF TypeOK, Held, LinkTopup, SetTopup, purses, wdVars
<1>3. CASE PayTopup(t)
    BY <1>3 DEF TypeOK, Held, PayTopup, purses, wdVars
<1>4. CASE TopupEvent(t)
    <2>1. /\ balance' \in [People -> Nat] /\ \A q \in People : balance'[q] >= balance[q]
          /\ topup' \in [Topups -> {"none", "initialized", "abandoned", "success"}]
        BY <1>4, CreditTopupType DEF TopupEvent, TypeOK
    <2>2. told' = told \cup {t} /\ UNCHANGED <<platform, frozen, charge, sent, bill, wdVars>>
        BY <1>4 DEF TopupEvent
    <2> QED
        BY <2>1, <2>2, HeldWhenNobodyLoses DEF TypeOK, wdVars
<1>5. CASE ConfirmTopup(t)
    <2>1. /\ balance' \in [People -> Nat] /\ \A q \in People : balance'[q] >= balance[q]
          /\ topup' \in [Topups -> {"none", "initialized", "abandoned", "success"}]
        BY <1>5, CreditTopupType DEF ConfirmTopup, SetTopup, TypeOK
    <2>2. UNCHANGED <<platform, frozen, charge, told, sent, bill, wdVars>>
        BY <1>5 DEF ConfirmTopup
    <2> QED
        BY <2>1, <2>2, HeldWhenNobodyLoses DEF TypeOK, wdVars
<1> QED
    BY <1>1, <1>2, <1>3, <1>4, <1>5

LEMMA BillType ==
    ASSUME TypeOK, NEW b \in Bills, NEW s \in {"held", "earned", "refunding", "refunded"},
           SetBill(b, s)
    PROVE  bill' \in [Bills -> {"due", "held", "earned", "refunding", "refunded"}] /\ bill'[b] = s
BY DEF TypeOK, SetBill

LEMMA OrderStep ==
    ASSUME TypeOK, NEW b \in Bills,
           PayOrder(b) \/ Earn(b) \/ QueueRefund(b) \/ CreditRefund(b)
    PROVE  TypeOK' /\ Held
<1>1. CASE PayOrder(b)
    <2>1. Bill[b].buyer \in People /\ Bill[b].price + OrderFee(b) \in Nat
        BY ShareNat, OrderFeeNat
    <2>2. Debit(Bill[b].buyer, Bill[b].price + OrderFee(b)) /\ Active(Bill[b].buyer)
        BY <1>1 DEF PayOrder
    <2>3. balance' \in [People -> Nat] /\ Held
        BY <2>1, <2>2, DebitType, HeldWhenActivePays DEF TypeOK
    <2>4. platform' \in Int
        BY <1>1, ShareNat, OrderFeeNat DEF PayOrder, TypeOK
    <2>5. bill' \in [Bills -> {"due", "held", "earned", "refunding", "refunded"}]
        BY <1>1, BillType DEF PayOrder
    <2>6. UNCHANGED <<frozen, topupVars, sent, wdVars>>
        BY <1>1 DEF PayOrder
    <2> QED
        BY <2>3, <2>4, <2>5, <2>6 DEF TypeOK, topupVars, wdVars
<1>2. CASE Earn(b)
    <2>1. Bill[b].shop \in People /\ Share(b) \in Nat /\ Credit(Bill[b].shop, Share(b))
        BY <1>2, ShareNat DEF Earn
    <2>2. bill' \in [Bills -> {"due", "held", "earned", "refunding", "refunded"}]
        BY <1>2, BillType DEF Earn
    <2>3. UNCHANGED <<platform, frozen, topupVars, sent, wdVars>>
        BY <1>2 DEF Earn
    <2> QED
        BY <2>1, <2>2, <2>3, CreditType, HeldWhenNobodyLoses DEF TypeOK, topupVars, wdVars
<1>3. CASE QueueRefund(b)
    <2>1. Bill[b].shop \in People /\ Share(b) \in Nat
        BY ShareNat
    <2>2. bill' \in [Bills -> {"due", "held", "earned", "refunding", "refunded"}]
          /\ bill'[b] = "refunding"
        BY <1>3, BillType DEF QueueRefund
    <2>3. UNCHANGED <<platform, frozen, topupVars, sent, wdVars>>
        BY <1>3 DEF QueueRefund
    <2>4. balance' \in [People -> Nat] /\ Held
        <3>1. CASE bill[b] = "held" /\ UNCHANGED balance
            BY <3>1, HeldWhenNobodyLoses DEF TypeOK
        <3>2. CASE bill[b] = "earned" /\ Debit(Bill[b].shop, Share(b))
            BY <2>1, <2>2, <3>2, DebitType DEF TypeOK, Held
        <3> QED
            BY <1>3, <3>1, <3>2 DEF QueueRefund
    <2> QED
        BY <2>2, <2>3, <2>4 DEF TypeOK, topupVars, wdVars
<1>4. CASE CreditRefund(b)
    <2>1. Bill[b].buyer \in People /\ Share(b) \in Nat /\ Credit(Bill[b].buyer, Share(b))
        BY <1>4, ShareNat DEF CreditRefund
    <2>2. bill' \in [Bills -> {"due", "held", "earned", "refunding", "refunded"}]
        BY <1>4, BillType DEF CreditRefund
    <2>3. UNCHANGED <<platform, frozen, topupVars, sent, wdVars>>
        BY <1>4 DEF CreditRefund
    <2> QED
        BY <2>1, <2>2, <2>3, CreditType, HeldWhenNobodyLoses DEF TypeOK, topupVars, wdVars
<1> QED
    BY <1>1, <1>2, <1>3, <1>4

\* a withdrawal is written down, with what it takes and the request that asks for it
LEMMA InsertType ==
    ASSUME TypeOK, NEW w \in Withdrawals, NEW p \in Owners, NEW a \in Nat, NEW fee \in Nat,
           Insert(w, p, a, fee)
    PROVE  /\ wd' \in [Withdrawals ->
                        [status : {"none", "processing", "success", "failed", "reversed"},
                         by : Owners, amount : Nat, fee : Nat]]
           /\ call' \in [Withdrawals -> {"idle", "asking", "success", "no", "done"}]
           /\ wd'[w].status = "processing" /\ call'[w] = "asking"
           /\ \A v \in Withdrawals \ {w} : wd'[v] = wd[v] /\ call'[v] = call[v]
BY DEF TypeOK, Insert, SetCall

\* What each step of a withdrawal does to the withdrawals.
Others(w) ==
    /\ \A v \in Withdrawals \ {w} :
        wd'[v] = wd[v] /\ call'[v] = call[v] /\ transfer'[v] = transfer[v]
    /\ misread \subseteq misread'

LEMMA WithdrawStep ==
    ASSUME TypeOK, NEW w \in Withdrawals, NEW p \in People, Withdraw(w, p)
    PROVE  /\ TypeOK' /\ Held
           /\ Others(w) /\ wd[w].status = "none" /\ UNCHANGED transfer
           /\ wd'[w].status = "processing" /\ call'[w] = "asking"
<1>1. Withdrawable(balance[p]) \in Nat
    BY WithdrawableIsMost DEF TypeOK
<1>2. PICK a \in Amounts \cup {Withdrawable(balance[p])} :
        /\ Insert(w, p, a, WalletFee(a))
        /\ Debit(p, a + WalletFee(a))
        /\ platform' = platform + WalletFee(a)
    BY DEF Withdraw
<1>3. a \in Nat /\ WalletFee(a) \in Nat /\ a + WalletFee(a) \in Nat /\ p \in Owners
    BY <1>1, WalletAssumption, WalletFeeNat DEF Owners
<1>4. /\ Active(p) /\ wd[w].status = "none"
      /\ UNCHANGED <<frozen, topupVars, sent, bill, transfer, misread>>
    BY DEF Withdraw
<1>5. balance' \in [People -> Nat] /\ Held
    BY <1>2, <1>3, <1>4, DebitType, HeldWhenActivePays DEF TypeOK
<1>6. platform' \in Int
    BY <1>2, <1>3 DEF TypeOK
<1>7. /\ wd' \in [Withdrawals ->
                    [status : {"none", "processing", "success", "failed", "reversed"},
                     by : Owners, amount : Nat, fee : Nat]]
      /\ call' \in [Withdrawals -> {"idle", "asking", "success", "no", "done"}]
      /\ wd'[w].status = "processing" /\ call'[w] = "asking"
      /\ \A v \in Withdrawals \ {w} : wd'[v] = wd[v] /\ call'[v] = call[v]
    BY <1>2, <1>3, InsertType
<1>8. TypeOK'
    BY <1>4, <1>5, <1>6, <1>7 DEF TypeOK, topupVars
<1> QED
    BY <1>4, <1>5, <1>7, <1>8 DEF Others

LEMMA WithdrawFeesStep ==
    ASSUME TypeOK, NEW w \in Withdrawals, WithdrawFees(w)
    PROVE  /\ TypeOK' /\ Held
           /\ Others(w) /\ wd[w].status = "none" /\ UNCHANGED transfer
           /\ wd'[w].status = "processing" /\ call'[w] = "asking"
<1>1. PICK a \in Amounts \cup {platform} :
        /\ a >= MinWithdrawal
        /\ Insert(w, Levromart, a, 0)
        /\ platform' = platform - a
    BY DEF WithdrawFees
<1>2. a \in Nat /\ Levromart \in Owners
    BY <1>1, WalletAssumption DEF Owners, MinWithdrawal, TypeOK
<1>3. /\ wd[w].status = "none"
      /\ UNCHANGED <<balance, frozen, topupVars, sent, bill, transfer, misread>>
    BY DEF WithdrawFees
<1>4. Held
    BY <1>3, HeldWhenNobodyLoses DEF TypeOK
<1>5. platform' \in Int
    BY <1>1, <1>2 DEF TypeOK
<1>6. /\ wd' \in [Withdrawals ->
                    [status : {"none", "processing", "success", "failed", "reversed"},
                     by : Owners, amount : Nat, fee : Nat]]
      /\ call' \in [Withdrawals -> {"idle", "asking", "success", "no", "done"}]
      /\ wd'[w].status = "processing" /\ call'[w] = "asking"
      /\ \A v \in Withdrawals \ {w} : wd'[v] = wd[v] /\ call'[v] = call[v]
    BY <1>1, <1>2, InsertType
<1>7. TypeOK'
    BY <1>3, <1>5, <1>6 DEF TypeOK, topupVars
<1> QED
    BY <1>3, <1>4, <1>6, <1>7 DEF Others

LEMMA AskStep ==
    ASSUME TypeOK, NEW w \in Withdrawals, AskTransfer(w)
    PROVE  /\ TypeOK' /\ Held /\ Others(w) /\ UNCHANGED wd /\ call[w] = "asking"
           /\ \/ transfer'[w] = transfer[w] /\ call'[w] \in {"no", "done"}
              \/ transfer'[w] \in {"live", "success"} /\ call'[w] = "done"
              \/ transfer'[w] = "success" /\ call'[w] = "success"
              \/ w \in misread'
<1>1. call[w] = "asking" /\ UNCHANGED <<purses, frozen, topupVars, sent, bill, wd>>
    BY DEF AskTransfer
<1>2. CASE UNCHANGED <<transfer, misread>> /\ \E a \in {"no", Unclear} : SetCall(w, a)
    BY <1>1, <1>2 DEF TypeOK, Held, Others, SetCall, Unclear, purses, topupVars
<1>3. CASE \E t \in {"live", "success"} :
            /\ transfer' = [transfer EXCEPT ![w] = t]
            /\ \/ SetCall(w, Unclear) /\ UNCHANGED misread
               \/ t = "success" /\ SetCall(w, "success") /\ UNCHANGED misread
               \/ SetCall(w, "no") /\ Misread(w)
    BY <1>1, <1>3 DEF TypeOK, Held, Others, SetCall, Misread, Unclear, purses, topupVars
<1> QED
    BY <1>2, <1>3 DEF AskTransfer

LEMMA RecordStep ==
    ASSUME TypeOK, NEW w \in Withdrawals, RecordAnswer(w)
    PROVE  /\ TypeOK' /\ Held /\ Others(w) /\ UNCHANGED transfer /\ call'[w] = "done"
           /\ \/ /\ call[w] = "success"
                 /\ wd'[w].status = IF MovesTo(wd[w].status, "success") THEN "success"
                                    ELSE wd[w].status
              \/ /\ call[w] = "no"
                 /\ wd'[w].status = IF MovesTo(wd[w].status, "failed") THEN "failed"
                                    ELSE wd[w].status
              \/ w \in misread'
<1>1. /\ SetCall(w, "done") /\ UNCHANGED <<frozen, topupVars, sent, bill, transfer>>
      /\ misread' \in {misread, misread \cup {w}}
    BY DEF RecordAnswer, Misread
<1>2. /\ wd' \in [Withdrawals ->
                    [status : {"none", "processing", "success", "failed", "reversed"},
                     by : Owners, amount : Nat, fee : Nat]]
      /\ \A v \in Withdrawals \ {w} : wd'[v] = wd[v]
      /\ balance' \in [People -> Nat] /\ platform' \in Int
      /\ \A q \in People : balance'[q] >= balance[q]
    BY ApplyShape DEF RecordAnswer
<1>3. \/ /\ call[w] = "success"
         /\ wd'[w].status = IF MovesTo(wd[w].status, "success") THEN "success" ELSE wd[w].status
      \/ /\ call[w] = "no"
         /\ wd'[w].status = IF MovesTo(wd[w].status, "failed") THEN "failed" ELSE wd[w].status
      \/ w \in misread'
    BY ApplyShape DEF RecordAnswer, Misread
<1>4. Held
    BY <1>2, HeldWhenNobodyLoses
<1>5. /\ call' \in [Withdrawals -> {"idle", "asking", "success", "no", "done"}]
      /\ call'[w] = "done" /\ \A v \in Withdrawals \ {w} : call'[v] = call[v]
    BY <1>1 DEF TypeOK, SetCall
<1>6. TypeOK'
    BY <1>1, <1>2, <1>5 DEF TypeOK, topupVars
<1> QED
    BY <1>1, <1>2, <1>3, <1>4, <1>5, <1>6 DEF Others

LEMMA CallStopsStep ==
    ASSUME TypeOK, NEW w \in Withdrawals, CallStops(w)
    PROVE  /\ TypeOK' /\ Held /\ Others(w) /\ UNCHANGED <<wd, transfer>>
           /\ call[w] \in {"asking", "success", "no"} /\ call'[w] = "done"
BY DEF TypeOK, Held, Others, CallStops, SetCall, purses, topupVars

LEMMA TransferEndsStep ==
    ASSUME TypeOK, NEW w \in Withdrawals, TransferEnds(w)
    PROVE  /\ TypeOK' /\ Held /\ Others(w) /\ UNCHANGED <<wd, call>>
           /\ \/ transfer[w] = "live" /\ transfer'[w] \in {"success", "failed"}
              \/ transfer[w] = "success" /\ transfer'[w] = "reversed"
<1>1. PICK s \in {"success", "failed", "reversed"} :
          /\ transfer' = [transfer EXCEPT ![w] = s]
          /\ \/ transfer[w] = "live" /\ s \in {"success", "failed"}
             \/ transfer[w] = "success" /\ s = "reversed"
    BY DEF TransferEnds
<1>2. TypeOK'
    BY <1>1 DEF TypeOK, TransferEnds, purses, topupVars
<1> QED
    BY <1>1, <1>2 DEF TypeOK, Held, Others, TransferEnds, purses, topupVars

LEMMA EventStep ==
    ASSUME TypeOK, NEW w \in Withdrawals, TransferEvent(w)
    PROVE  /\ TypeOK' /\ Held /\ Others(w) /\ UNCHANGED <<call, transfer>>
           /\ \E to \in Happened(w) :
                wd'[w].status = IF MovesTo(wd[w].status, to) THEN to ELSE wd[w].status
<1>1. UNCHANGED <<frozen, topupVars, sent, bill, call, transfer, misread>>
    BY DEF TransferEvent
<1>2. PICK to \in Happened(w) : ApplyTransfer(w, to)
    BY DEF TransferEvent
<1>3. to \in {"success", "failed", "reversed"}
    BY <1>2 DEF Happened
<1>4. /\ wd' \in [Withdrawals ->
                    [status : {"none", "processing", "success", "failed", "reversed"},
                     by : Owners, amount : Nat, fee : Nat]]
      /\ \A v \in Withdrawals \ {w} : wd'[v] = wd[v]
      /\ wd'[w].status = IF MovesTo(wd[w].status, to) THEN to ELSE wd[w].status
      /\ balance' \in [People -> Nat] /\ platform' \in Int
      /\ \A q \in People : balance'[q] >= balance[q]
    BY <1>2, <1>3, ApplyShape
<1>5. Held
    BY <1>4, HeldWhenNobodyLoses
<1>6. TypeOK'
    BY <1>1, <1>4 DEF TypeOK, topupVars
<1> QED
    BY <1>1, <1>2, <1>4, <1>5, <1>6 DEF Others

\* every step of the system is one of these
LEMMA StepCases ==
    ASSUME Next
    PROVE  \/ \E p \in People : Freeze(p)
           \/ \E k \in Taps : Send(k)
           \/ \E t \in Topups :
                StartTopup(t) \/ LinkTopup(t) \/ PayTopup(t) \/ TopupEvent(t) \/ ConfirmTopup(t)
           \/ \E b \in Bills : PayOrder(b) \/ Earn(b) \/ QueueRefund(b) \/ CreditRefund(b)
           \/ \E w \in Withdrawals :
                \/ \E p \in People : Withdraw(w, p)
                \/ WithdrawFees(w) \/ AskTransfer(w) \/ RecordAnswer(w) \/ CallStops(w)
                \/ TransferEnds(w) \/ TransferEvent(w)
BY DEF Next, PersonStep, ServerStep

LEMMA TypeStep == TypeOK /\ [Next]_vars => TypeOK' /\ (Held \/ UNCHANGED vars)
<1> SUFFICES ASSUME TypeOK, [Next]_vars
             PROVE  TypeOK' /\ (Held \/ UNCHANGED vars)
    OBVIOUS
<1>1. CASE UNCHANGED vars
    BY <1>1 DEF TypeOK, vars, purses, topupVars, wdVars
<1>2. CASE Next
    BY <1>2, StepCases, FreezeStep, SendStep, TopupStep, OrderStep, WithdrawStep,
       WithdrawFeesStep, AskStep, RecordStep, CallStopsStep, TransferEndsStep, EventStep
<1> QED
    BY <1>1, <1>2

LEMMA InitType == Init => TypeOK
BY DEF Init, TypeOK, NoWithdrawal, Owners

\* No balance of a person is ever negative, and every row is of its shape.
THEOREM TypeCorrect == Spec => []TypeOK
<1>1. TypeOK /\ [Next]_vars => TypeOK'
    BY TypeStep
<1> QED
    BY <1>1, InitType, PTL DEF Spec

\* While a wallet is on hold nothing leaves it, but what it owes for a refund.
THEOREM HoldHoldsAlways == Spec => HoldHolds
<1>1. TypeOK /\ [Next]_vars => [Held]_vars
    BY TypeStep
<1>2. Spec => [][Held]_vars
    BY <1>1, TypeCorrect, PTL DEF Spec
<1> QED
    BY <1>2 DEF HoldHolds, Held

-----------------------------------------------------------------------------
(* What is given back stayed.                                              *)

AllAgree == \A w \in Withdrawals \ misread : Agree(w)
PaidFirst == \A t \in Topups : topup[t] = "success" => charge[t] = "paid"

LEMMA OthersAgree ==
    ASSUME AllAgree, NEW w \in Withdrawals, Others(w), w \notin misread' => Agree(w)'
    PROVE  AllAgree'
<1> SUFFICES ASSUME NEW v \in Withdrawals \ misread', v # w
             PROVE  Agree(v)'
    BY DEF AllAgree
<1>1. v \notin misread /\ Agree(v)
    BY DEF AllAgree, Others
<1>2. wd'[v] = wd[v] /\ call'[v] = call[v] /\ transfer'[v] = transfer[v]
    BY DEF Others
<1> QED
    BY <1>1, <1>2 DEF Agree

LEMMA NothingAgree ==
    ASSUME AllAgree, UNCHANGED wdVars
    PROVE  AllAgree'
BY DEF AllAgree, Agree, wdVars

LEMMA WithdrawalAgree ==
    ASSUME TypeOK, AllAgree, NEW w \in Withdrawals,
           \/ \E p \in People : Withdraw(w, p)
           \/ WithdrawFees(w) \/ AskTransfer(w) \/ RecordAnswer(w) \/ CallStops(w)
           \/ TransferEnds(w) \/ TransferEvent(w)
    PROVE  AllAgree'
<1>1. Others(w)
    BY WithdrawStep, WithdrawFeesStep, AskStep, RecordStep, CallStopsStep, TransferEndsStep,
       EventStep
<1> SUFFICES ASSUME w \notin misread' PROVE Agree(w)'
    BY <1>1, OthersAgree
<1>2. Agree(w)
    BY <1>1 DEF AllAgree, Others
<1>3. /\ wd[w].status \in {"none", "processing", "success", "failed", "reversed"}
      /\ call[w] \in {"idle", "asking", "success", "no", "done"}
      /\ transfer[w] \in {"none", "live", "success", "failed", "reversed"}
    BY DEF TypeOK
<1>4. CASE WithdrawFees(w) \/ \E p \in People : Withdraw(w, p)
    <2>1. /\ wd[w].status = "none" /\ transfer'[w] = transfer[w]
          /\ wd'[w].status = "processing" /\ call'[w] = "asking"
        BY <1>4, WithdrawStep, WithdrawFeesStep
    <2> QED
        BY <1>2, <1>3, <2>1 DEF Agree
<1>5. CASE AskTransfer(w)
    <2>1. /\ wd'[w] = wd[w] /\ call[w] = "asking"
          /\ \/ transfer'[w] = transfer[w] /\ call'[w] \in {"no", "done"}
             \/ transfer'[w] \in {"live", "success"} /\ call'[w] = "done"
             \/ transfer'[w] = "success" /\ call'[w] = "success"
        BY <1>5, AskStep
    <2> QED
        BY <1>2, <1>3, <2>1 DEF Agree
<1>6. CASE RecordAnswer(w)
    <2>1. /\ transfer'[w] = transfer[w] /\ call'[w] = "done"
          /\ \/ /\ call[w] = "success"
                /\ wd'[w].status = IF MovesTo(wd[w].status, "success") THEN "success"
                                   ELSE wd[w].status
             \/ /\ call[w] = "no"
                /\ wd'[w].status = IF MovesTo(wd[w].status, "failed") THEN "failed"
                                   ELSE wd[w].status
        BY <1>6, RecordStep
    <2> QED
        BY <1>2, <1>3, <2>1 DEF Agree, MovesTo
<1>7. CASE CallStops(w)
    <2>1. /\ wd'[w] = wd[w] /\ transfer'[w] = transfer[w]
          /\ call[w] \in {"asking", "success", "no"} /\ call'[w] = "done"
        BY <1>7, CallStopsStep
    <2> QED
        BY <1>2, <1>3, <2>1 DEF Agree
<1>8. CASE TransferEnds(w)
    <2>1. /\ wd'[w] = wd[w] /\ call'[w] = call[w]
          /\ \/ transfer[w] = "live" /\ transfer'[w] \in {"success", "failed"}
             \/ transfer[w] = "success" /\ transfer'[w] = "reversed"
        BY <1>8, TransferEndsStep
    <2> QED
        BY <1>2, <1>3, <2>1 DEF Agree
<1>9. CASE TransferEvent(w)
    <2>1. call'[w] = call[w] /\ transfer'[w] = transfer[w]
        BY <1>9, EventStep
    <2>2. PICK to \in Happened(w) :
            wd'[w].status = IF MovesTo(wd[w].status, to) THEN to ELSE wd[w].status
        BY <1>9, EventStep
    <2>3. \/ transfer[w] = "reversed" /\ to \in {"success", "reversed"}
          \/ transfer[w] = to /\ to \in {"success", "failed"}
        BY <2>2 DEF Happened
    <2> QED
        BY <1>2, <1>3, <2>1, <2>2, <2>3 DEF Agree, MovesTo
<1> QED
    BY <1>4, <1>5, <1>6, <1>7, <1>8, <1>9

LEMMA AgreeStep == TypeOK /\ AllAgree /\ [Next]_vars => AllAgree'
<1> SUFFICES ASSUME TypeOK, AllAgree, [Next]_vars PROVE AllAgree'
    OBVIOUS
<1>1. CASE UNCHANGED vars
    BY <1>1, NothingAgree DEF vars
<1>2. ASSUME NEW p \in People, Freeze(p) PROVE AllAgree'
    BY <1>2, NothingAgree DEF Freeze
<1>3. ASSUME NEW k \in Taps, Send(k) PROVE AllAgree'
    BY <1>3, NothingAgree DEF Send
<1>4. ASSUME NEW t \in Topups,
             StartTopup(t) \/ LinkTopup(t) \/ PayTopup(t) \/ TopupEvent(t) \/ ConfirmTopup(t)
      PROVE  AllAgree'
    BY <1>4, NothingAgree DEF StartTopup, LinkTopup, PayTopup, TopupEvent, ConfirmTopup
<1>5. ASSUME NEW b \in Bills, PayOrder(b) \/ Earn(b) \/ QueueRefund(b) \/ CreditRefund(b)
      PROVE  AllAgree'
    BY <1>5, NothingAgree DEF PayOrder, Earn, QueueRefund, CreditRefund
<1>6. CASE Next
    BY <1>2, <1>3, <1>4, <1>5, <1>6, StepCases, WithdrawalAgree
<1> QED
    BY <1>1, <1>6

\* a top-up in a wallet was paid, and a charge that was paid stays paid
LEMMA PaidFirstStep == TypeOK /\ PaidFirst /\ [Next]_vars => PaidFirst'
<1> SUFFICES ASSUME TypeOK, PaidFirst, [Next]_vars PROVE PaidFirst'
    OBVIOUS
<1>1. CASE UNCHANGED topupVars
    BY <1>1 DEF PaidFirst, topupVars
<1>2. ASSUME NEW t \in Topups,
             StartTopup(t) \/ LinkTopup(t) \/ PayTopup(t) \/ TopupEvent(t) \/ ConfirmTopup(t)
      PROVE  PaidFirst'
    <2>1. CASE StartTopup(t) \/ LinkTopup(t) \/ PayTopup(t)
        BY <2>1 DEF PaidFirst, TypeOK, StartTopup, LinkTopup, PayTopup, SetTopup
    <2>2. CASE TopupEvent(t)
        BY <2>2 DEF PaidFirst, TypeOK, TopupEvent, CreditTopup, SetTopup
    <2>3. CASE ConfirmTopup(t)
        BY <2>3 DEF PaidFirst, TypeOK, ConfirmTopup, CreditTopup, SetTopup
    <2> QED
        BY <1>2, <2>1, <2>2, <2>3
<1>3. CASE Next
    <2>1. ASSUME NEW p \in People, Freeze(p) PROVE UNCHANGED topupVars
        BY <2>1 DEF Freeze
    <2>2. ASSUME NEW k \in Taps, Send(k) PROVE UNCHANGED topupVars
        BY <2>2 DEF Send
    <2>3. ASSUME NEW b \in Bills, PayOrder(b) \/ Earn(b) \/ QueueRefund(b) \/ CreditRefund(b)
          PROVE  UNCHANGED topupVars
        BY <2>3 DEF PayOrder, Earn, QueueRefund, CreditRefund
    <2>4. ASSUME NEW w \in Withdrawals,
                 \/ \E p \in People : Withdraw(w, p)
                 \/ WithdrawFees(w) \/ AskTransfer(w) \/ RecordAnswer(w) \/ CallStops(w)
                 \/ TransferEnds(w) \/ TransferEvent(w)
          PROVE  UNCHANGED topupVars
        BY <2>4 DEF Withdraw, WithdrawFees, AskTransfer, RecordAnswer, CallStops, TransferEnds,
                    TransferEvent
    <2> QED
        BY <1>1, <1>2, <1>3, <2>1, <2>2, <2>3, <2>4, StepCases
<1>4. CASE UNCHANGED vars
    BY <1>1, <1>4 DEF vars
<1> QED
    BY <1>3, <1>4

\* a withdrawal that was not asked for has no amount yet
Unwritten == \A w \in Withdrawals : wd[w].status = "none" => wd[w] = NoWithdrawal

LEMMA UnwrittenStep == TypeOK /\ Unwritten /\ [Next]_vars => Unwritten'
<1> SUFFICES ASSUME TypeOK, Unwritten, [Next]_vars PROVE Unwritten'
    OBVIOUS
<1>1. CASE UNCHANGED wd
    BY <1>1 DEF Unwritten
<1>2. ASSUME NEW w \in Withdrawals, WithdrawFees(w) \/ \E p \in People : Withdraw(w, p)
      PROVE  Unwritten'
    <2>1. Others(w) /\ wd'[w].status = "processing"
        BY <1>2, WithdrawStep, WithdrawFeesStep
    <2> QED
        BY <2>1 DEF Unwritten, Others
<1>3. ASSUME NEW w \in Withdrawals, RecordAnswer(w) \/ TransferEvent(w) PROVE Unwritten'
    <2>1. PICK to \in {"success", "failed", "reversed"} : ApplyTransfer(w, to)
        BY <1>3 DEF RecordAnswer, TransferEvent, Happened
    <2>2. CASE ~MovesTo(wd[w].status, to)
        BY <1>1, <2>1, <2>2 DEF ApplyTransfer
    <2>3. CASE MovesTo(wd[w].status, to)
        BY <2>1, <2>3, ApplyShape DEF Unwritten
    <2> QED
        BY <2>2, <2>3
<1>4. CASE Next
    <2>1. ASSUME NEW p \in People, Freeze(p) PROVE UNCHANGED wd
        BY <2>1 DEF Freeze, wdVars
    <2>2. ASSUME NEW k \in Taps, Send(k) PROVE UNCHANGED wd
        BY <2>2 DEF Send, wdVars
    <2>3. ASSUME NEW t \in Topups,
                 StartTopup(t) \/ LinkTopup(t) \/ PayTopup(t) \/ TopupEvent(t)
                 \/ ConfirmTopup(t)
          PROVE  UNCHANGED wd
        BY <2>3 DEF StartTopup, LinkTopup, PayTopup, TopupEvent, ConfirmTopup, wdVars
    <2>4. ASSUME NEW b \in Bills, PayOrder(b) \/ Earn(b) \/ QueueRefund(b) \/ CreditRefund(b)
          PROVE  UNCHANGED wd
        BY <2>4 DEF PayOrder, Earn, QueueRefund, CreditRefund, wdVars
    <2>5. ASSUME NEW w \in Withdrawals, AskTransfer(w) \/ CallStops(w) \/ TransferEnds(w)
          PROVE  UNCHANGED wd
        BY <2>5 DEF AskTransfer, CallStops, TransferEnds
    <2> QED
        BY <1>1, <1>2, <1>3, <1>4, <2>1, <2>2, <2>3, <2>4, <2>5, StepCases
<1>5. CASE UNCHANGED vars
    BY <1>1, <1>5 DEF vars, wdVars
<1> QED
    BY <1>4, <1>5

\* The inductive invariant.
THEOREM Inductive == Spec => []IInv
<1>1. Init => TypeOK /\ AllAgree /\ PaidFirst /\ Unwritten
    BY InitType DEF Init, AllAgree, Agree, PaidFirst, Unwritten, NoWithdrawal
<1>2. TypeOK /\ AllAgree /\ PaidFirst /\ Unwritten /\ [Next]_vars
      => (TypeOK /\ AllAgree /\ PaidFirst /\ Unwritten)'
    BY TypeStep, AgreeStep, PaidFirstStep, UnwrittenStep
<1>3. TypeOK /\ AllAgree /\ PaidFirst /\ Unwritten => IInv
    BY DEF IInv, AllAgree, PaidFirst, Unwritten
<1> QED
    BY <1>1, <1>2, <1>3, PTL DEF Spec

\* Money that is back in a wallet did not leave, unless an answer of Paystack was misread.
THEOREM ReturnedStayedAlways == Spec => []ReturnedStayed
<1>1. IInv => ReturnedStayed
    <2> SUFFICES ASSUME IInv, NEW w \in Withdrawals \ misread,
                        Back(w)
                 PROVE  ~OutAtPaystack(w)
        BY DEF ReturnedStayed
    <2>1. Agree(w)
        BY DEF IInv
    <2> QED
        BY <2>1 DEF Agree, OutAtPaystack, Back
<1> QED
    BY <1>1, Inductive, PTL

-----------------------------------------------------------------------------
(* Money is conserved.  A step moves one entry of each sum, or two of the  *)
(* balances, and what the entries move by adds up to nothing.              *)

\* the sums are of whole numbers
Whole ==
    /\ PaidIn \in [Topups -> Int] /\ Uncredited \in [Topups -> Int]
    /\ InBetween \in [Bills -> Int]
    /\ Out \in [Withdrawals -> Int] /\ Taken \in [Withdrawals -> Int]
    /\ Twice \in [Withdrawals -> Int]
    /\ balance \in [People -> Int]

LEMMA MoneyTypes == TypeOK => Whole
<1> SUFFICES ASSUME TypeOK PROVE Whole
    OBVIOUS
<1>1. \A t \in Topups : TopUp[t].net \in Int
    BY WalletAssumption
<1>2. PaidIn \in [Topups -> Int] /\ Uncredited \in [Topups -> Int]
    BY <1>1 DEF PaidIn, Uncredited, Counts
<1>3. InBetween \in [Bills -> Int]
    BY ShareNat DEF InBetween, Counts
<1>4. \A w \in Withdrawals : wd[w].amount \in Int
    BY DEF TypeOK
<1>5. /\ Out \in [Withdrawals -> Int] /\ Taken \in [Withdrawals -> Int]
      /\ Twice \in [Withdrawals -> Int]
    BY <1>4 DEF Out, Taken, Twice, Counts
<1>6. balance \in [People -> Int]
    BY DEF TypeOK
<1> QED
    BY <1>2, <1>3, <1>5, <1>6 DEF Whole

LEMMA SumsAreWhole ==
    ASSUME TypeOK
    PROVE  /\ SumFunction(PaidIn) \in Int /\ SumFunction(Uncredited) \in Int
           /\ SumFunction(InBetween) \in Int
           /\ SumFunction(Out) \in Int /\ SumFunction(Taken) \in Int
           /\ SumFunction(Twice) \in Int
           /\ SumFunction(balance) \in Int
           /\ platform \in Int
BY MoneyTypes, SumInt, WalletAssumption DEF TypeOK, Whole

\* the sums of the top-ups when one of them moves
LEMMA TopupSums ==
    ASSUME TypeOK, TypeOK', NEW t \in Topups,
           \A u \in Topups \ {t} : charge'[u] = charge[u] /\ topup'[u] = topup[u]
    PROVE  /\ SumFunction(PaidIn)' = SumFunction(PaidIn) + (PaidIn'[t] - PaidIn[t])
           /\ SumFunction(Uncredited)' =
                SumFunction(Uncredited) + (Uncredited'[t] - Uncredited[t])
<1>1. IsFiniteSet(Topups) /\ Whole /\ Whole'
    BY MoneyTypes, WalletAssumption, PTL
<1>2. SumFunction(PaidIn)' = SumFunction(PaidIn) + (PaidIn'[t] - PaidIn[t])
    <2>1. PaidIn \in [Topups -> Int] /\ PaidIn' \in [Topups -> Int]
        BY <1>1 DEF Whole
    <2>2. \A u \in Topups \ {t} : PaidIn'[u] = PaidIn[u]
        BY DEF PaidIn
    <2> QED
        BY <1>1, <2>1, <2>2, SumMoves
<1>3. SumFunction(Uncredited)' = SumFunction(Uncredited) + (Uncredited'[t] - Uncredited[t])
    <2>1. Uncredited \in [Topups -> Int] /\ Uncredited' \in [Topups -> Int]
        BY <1>1 DEF Whole
    <2>2. \A u \in Topups \ {t} : Uncredited'[u] = Uncredited[u]
        BY DEF Uncredited
    <2> QED
        BY <1>1, <2>1, <2>2, SumMoves
<1> QED
    BY <1>2, <1>3

LEMMA BillSum ==
    ASSUME TypeOK, TypeOK', NEW b \in Bills, \A c \in Bills \ {b} : bill'[c] = bill[c]
    PROVE  SumFunction(InBetween)' = SumFunction(InBetween) + (InBetween'[b] - InBetween[b])
<1>1. IsFiniteSet(Bills) /\ Whole /\ Whole'
    BY MoneyTypes, WalletAssumption, PTL
<1>2. InBetween \in [Bills -> Int] /\ InBetween' \in [Bills -> Int]
    BY <1>1 DEF Whole
<1>3. \A c \in Bills \ {b} : InBetween'[c] = InBetween[c]
    BY DEF InBetween
<1> QED
    BY <1>1, <1>2, <1>3, SumMoves

LEMMA WithdrawalSums ==
    ASSUME TypeOK, TypeOK', NEW w \in Withdrawals, Others(w)
    PROVE  /\ SumFunction(Out)' = SumFunction(Out) + (Out'[w] - Out[w])
           /\ SumFunction(Taken)' = SumFunction(Taken) + (Taken'[w] - Taken[w])
           /\ SumFunction(Twice)' = SumFunction(Twice) + (Twice'[w] - Twice[w])
<1>1. IsFiniteSet(Withdrawals) /\ Whole /\ Whole'
    BY MoneyTypes, WalletAssumption, PTL
<1>2. \A v \in Withdrawals \ {w} : wd'[v] = wd[v] /\ transfer'[v] = transfer[v]
    BY DEF Others
<1>3. SumFunction(Out)' = SumFunction(Out) + (Out'[w] - Out[w])
    <2>1. Out \in [Withdrawals -> Int] /\ Out' \in [Withdrawals -> Int]
        BY <1>1 DEF Whole
    <2>2. \A v \in Withdrawals \ {w} : Out'[v] = Out[v]
        BY <1>2 DEF Out, OutAtPaystack
    <2> QED
        BY <1>1, <2>1, <2>2, SumMoves
<1>4. SumFunction(Taken)' = SumFunction(Taken) + (Taken'[w] - Taken[w])
    <2>1. Taken \in [Withdrawals -> Int] /\ Taken' \in [Withdrawals -> Int]
        BY <1>1 DEF Whole
    <2>2. \A v \in Withdrawals \ {w} : Taken'[v] = Taken[v]
        BY <1>2 DEF Taken, OutAtPaystack, Back
    <2> QED
        BY <1>1, <2>1, <2>2, SumMoves
<1>5. SumFunction(Twice)' = SumFunction(Twice) + (Twice'[w] - Twice[w])
    <2>1. Twice \in [Withdrawals -> Int] /\ Twice' \in [Withdrawals -> Int]
        BY <1>1 DEF Whole
    <2>2. \A v \in Withdrawals \ {w} : Twice'[v] = Twice[v]
        BY <1>2 DEF Twice, OutAtPaystack, Back
    <2> QED
        BY <1>1, <2>1, <2>2, SumMoves
<1> QED
    BY <1>3, <1>4, <1>5

LEMMA CreditSum ==
    ASSUME TypeOK, NEW p \in People, NEW a \in Nat, Credit(p, a)
    PROVE  SumFunction(balance)' = SumFunction(balance) + a
<1>1. /\ balance \in [People -> Int] /\ balance' \in [People -> Int]
      /\ \A q \in People \ {p} : balance'[q] = balance[q]
      /\ balance'[p] - balance[p] = a
    BY DEF TypeOK, Credit
<1> QED
    BY <1>1, SumMoves, WalletAssumption

LEMMA DebitSum ==
    ASSUME TypeOK, NEW p \in People, NEW a \in Nat, Debit(p, a)
    PROVE  SumFunction(balance)' = SumFunction(balance) - a
<1>1. /\ balance \in [People -> Int] /\ balance' \in [People -> Int]
      /\ \A q \in People \ {p} : balance'[q] = balance[q]
      /\ balance'[p] - balance[p] = 0 - a
    BY DEF TypeOK, Debit, Has
<1>2. SumFunction(balance)' = SumFunction(balance) + (0 - a)
    BY <1>1, SumMoves, WalletAssumption
<1> QED
    BY <1>2, SumsAreWhole

\* money that is only sent on stays in the wallets, but for the fee
LEMMA SendSum ==
    ASSUME TypeOK, NEW k \in Taps, Send(k)
    PROVE  SumFunction(balance)' + platform' = SumFunction(balance) + platform
<1> DEFINE from == Sending[k].from
           to == Sending[k].to
           a == Sending[k].amount
           taken == [balance EXCEPT ![from] = @ - a - WalletFee(a)]
<1>1. from \in People /\ to \in People /\ a \in Nat /\ WalletFee(a) \in Nat
    BY WalletAssumption, WalletFeeNat
<1>2. /\ from # to
      /\ balance' = [balance EXCEPT ![from] = @ - a - WalletFee(a), ![to] = @ + a]
      /\ platform' = platform + WalletFee(a)
    BY DEF Send
<1>3. balance \in [People -> Nat]
    BY DEF TypeOK
<1> HIDE DEF from, to, a
<1>4. /\ taken \in [People -> Int]
      /\ \A q \in People \ {from} : taken[q] = balance[q]
      /\ taken[from] - balance[from] = 0 - a - WalletFee(a)
    BY <1>1, <1>3
<1>5. /\ balance' \in [People -> Int]
      /\ \A q \in People \ {to} : balance'[q] = taken[q]
      /\ balance'[to] - taken[to] = a
    BY <1>1, <1>2, <1>3
<1> HIDE DEF taken
<1>6. SumFunction(taken) = SumFunction(balance) + (0 - a - WalletFee(a))
    <2>1. IsFiniteSet(People) /\ balance \in [People -> Int]
        BY <1>3, WalletAssumption
    <2> QED
        BY <1>1, <1>4, <2>1, SumMoves
<1>7. SumFunction(balance)' = SumFunction(taken) + a
    BY <1>1, <1>4, <1>5, SumMoves, WalletAssumption
<1> QED
    BY <1>1, <1>2, <1>6, <1>7, SumsAreWhole

\* what Conserved says, as one equation between the sums
Books ==
    SumFunction(PaidIn) - SumFunction(Out) + SumFunction(Twice) =
        SumFunction(balance) + platform
        + (SumFunction(Uncredited) + SumFunction(InBetween) + SumFunction(Taken))

LEMMA BooksAreConserved == Conserved <=> Books
BY DEF Conserved, Books, AtPaystack, OnTheWay, GivenTwice

\* a step of a top-up moves as much as it credits
LEMMA TopupBooks ==
    ASSUME TypeOK, TypeOK', Books, PaidFirst, NEW t \in Topups,
           StartTopup(t) \/ LinkTopup(t) \/ PayTopup(t) \/ TopupEvent(t) \/ ConfirmTopup(t)
    PROVE  Books'
<1>1. TopUp[t].by \in People /\ TopUp[t].net \in Nat
    BY WalletAssumption
<1>2. UNCHANGED <<platform, bill, wdVars>>
    BY DEF StartTopup, LinkTopup, PayTopup, TopupEvent, ConfirmTopup, purses
<1>3. UNCHANGED <<InBetween, Out, Taken, Twice>>
    BY <1>2 DEF InBetween, Out, Taken, Twice, OutAtPaystack, Back, wdVars
<1>4. \A u \in Topups \ {t} : charge'[u] = charge[u] /\ topup'[u] = topup[u]
    BY DEF StartTopup, LinkTopup, PayTopup, TopupEvent, ConfirmTopup, CreditTopup, SetTopup,
           TypeOK
<1>5. PICK d \in Int :
        /\ SumFunction(balance)' = SumFunction(balance) + d
        /\ PaidIn'[t] - PaidIn[t] = d + (Uncredited'[t] - Uncredited[t])
    <2>1. /\ PaidIn[t] = Counts(charge[t] = "paid", TopUp[t].net)
          /\ PaidIn'[t] = Counts(charge'[t] = "paid", TopUp[t].net)
          /\ Uncredited[t] = Counts(charge[t] = "paid" /\ topup[t] # "success", TopUp[t].net)
          /\ Uncredited'[t] =
                Counts(charge'[t] = "paid" /\ topup'[t] # "success", TopUp[t].net)
        BY DEF PaidIn, Uncredited
    <2>2. CASE UNCHANGED balance /\ PaidIn'[t] - PaidIn[t] = Uncredited'[t] - Uncredited[t]
        <3>1. /\ SumFunction(balance)' = SumFunction(balance) + 0
              /\ PaidIn'[t] - PaidIn[t] = 0 + (Uncredited'[t] - Uncredited[t])
            BY <1>1, <2>1, <2>2, SumsAreWhole DEF Counts
        <3> QED
            BY <3>1
    <2>3. CASE UNCHANGED <<balance, charge, topup>>
        <3>1. PaidIn'[t] - PaidIn[t] = Uncredited'[t] - Uncredited[t]
            BY <1>1, <2>1, <2>3 DEF Counts
        <3> QED
            BY <2>2, <2>3, <3>1
    <2>4. ASSUME CreditTopup(t), UNCHANGED charge
          PROVE  \E d \in Int : /\ SumFunction(balance)' = SumFunction(balance) + d
                                /\ PaidIn'[t] - PaidIn[t] = d + (Uncredited'[t] - Uncredited[t])
        <3>1. CASE topup[t] = "success"
            BY <2>3, <2>4, <3>1 DEF CreditTopup
        <3>2. CASE topup[t] # "success"
            <4>1. SumFunction(balance)' = SumFunction(balance) + TopUp[t].net
                BY <1>1, <2>4, <3>2, CreditSum DEF CreditTopup
            <4>2. charge[t] = "paid" /\ topup'[t] = "success"
                BY <2>4, <3>2 DEF CreditTopup, SetTopup, TypeOK
            <4>3. PaidIn'[t] - PaidIn[t] = TopUp[t].net + (Uncredited'[t] - Uncredited[t])
                BY <1>1, <2>1, <2>4, <3>2, <4>2 DEF Counts
            <4> QED
                BY <1>1, <4>1, <4>3
        <3> QED
            BY <3>1, <3>2
    <2>5. CASE StartTopup(t)
        BY <2>1, <2>2, <2>5 DEF StartTopup, SetTopup, TypeOK, purses, Counts
    <2>6. CASE LinkTopup(t)
        BY <2>1, <2>2, <2>6 DEF LinkTopup, SetTopup, TypeOK, purses, Counts
    <2>7. CASE PayTopup(t)
        <3>1. topup[t] # "success" /\ UNCHANGED <<topup, balance>>
            BY <2>7 DEF PayTopup, PaidFirst, purses
        <3>2. charge[t] # "paid" /\ charge'[t] = "paid"
            BY <2>7 DEF PayTopup, TypeOK
        <3> QED
            BY <1>1, <2>1, <2>2, <3>1, <3>2 DEF Counts
    <2>8. CASE TopupEvent(t)
        BY <2>3, <2>4, <2>8 DEF TopupEvent, wdVars
    <2>9. CASE ConfirmTopup(t)
        <3>1. CASE charge[t] = "paid"
            BY <2>4, <2>9, <3>1 DEF ConfirmTopup
        <3>2. CASE charge[t] # "paid"
            BY <1>1, <2>1, <2>2, <2>9, <3>2 DEF ConfirmTopup, Counts
        <3> QED
            BY <3>1, <3>2
    <2> QED
        BY <2>5, <2>6, <2>7, <2>8, <2>9
<1>6. /\ SumFunction(PaidIn)' = SumFunction(PaidIn) + (PaidIn'[t] - PaidIn[t])
      /\ SumFunction(Uncredited)' = SumFunction(Uncredited) + (Uncredited'[t] - Uncredited[t])
    BY <1>4, TopupSums
<1>7. PaidIn'[t] - PaidIn[t] \in Int /\ Uncredited'[t] - Uncredited[t] \in Int
    <2>1. Whole /\ Whole'
        BY MoneyTypes, PTL
    <2> QED
        BY <2>1 DEF Whole
<1> HIDE DEF Books
<1> QED
    <2> DEFINE x == PaidIn'[t] - PaidIn[t]
               y == Uncredited'[t] - Uncredited[t]
    <2>1. x \in Int /\ y \in Int /\ x = d + y
        BY <1>5, <1>7
    <2>2. /\ SumFunction(PaidIn)' = SumFunction(PaidIn) + x
          /\ SumFunction(Uncredited)' = SumFunction(Uncredited) + y
        BY <1>6
    <2> HIDE DEF x, y
    <2> QED
        BY <1>2, <1>3, <1>5, <2>1, <2>2, SumsAreWhole DEF Books

\* a step of an order moves between a purse and what is on its way
LEMMA OrderBooks ==
    ASSUME TypeOK, TypeOK', Books, NEW b \in Bills,
           PayOrder(b) \/ Earn(b) \/ QueueRefund(b) \/ CreditRefund(b)
    PROVE  Books'
<1>1. /\ Bill[b].buyer \in People /\ Bill[b].shop \in People
      /\ Bill[b].price \in Nat /\ Share(b) \in Nat /\ Commission(Bill[b].price) \in Nat
      /\ OrderFee(b) \in Nat /\ Bill[b].price + OrderFee(b) \in Nat
      /\ Share(b) = Bill[b].price - Commission(Bill[b].price)
    BY ShareNat, OrderFeeNat DEF Share
<1>2. UNCHANGED <<topupVars, wdVars>>
    BY DEF PayOrder, Earn, QueueRefund, CreditRefund
<1>3. UNCHANGED <<PaidIn, Uncredited, Out, Taken, Twice>>
    BY <1>2 DEF PaidIn, Uncredited, Out, Taken, Twice, OutAtPaystack, Back, topupVars, wdVars
<1>4. \A c \in Bills \ {b} : bill'[c] = bill[c]
    BY DEF PayOrder, Earn, QueueRefund, CreditRefund, SetBill, TypeOK
<1>5. SumFunction(InBetween)' = SumFunction(InBetween) + (InBetween'[b] - InBetween[b])
    BY <1>4, BillSum
<1>6. /\ InBetween[b] = Counts(bill[b] \in {"held", "refunding"}, Share(b))
      /\ InBetween'[b] = Counts(bill'[b] \in {"held", "refunding"}, Share(b))
    BY DEF InBetween
<1>7. PICK d \in Int :
        /\ SumFunction(balance)' + platform' = SumFunction(balance) + platform + d
        /\ d + (InBetween'[b] - InBetween[b]) = 0
    <2>1. CASE PayOrder(b)
        <3>1. /\ SumFunction(balance)' = SumFunction(balance) - (Bill[b].price + OrderFee(b))
              /\ platform' = platform + OrderFee(b) + Commission(Bill[b].price)
            BY <1>1, <2>1, DebitSum DEF PayOrder
        <3>2. bill[b] = "due" /\ bill'[b] = "held"
            BY <2>1 DEF PayOrder, SetBill, TypeOK
        <3>3. SumFunction(balance)' + platform' = SumFunction(balance) + platform + (0 - Share(b))
            BY <1>1, <3>1, SumsAreWhole
        <3>4. InBetween'[b] - InBetween[b] = Share(b)
            BY <1>1, <1>6, <3>2 DEF Counts
        <3>5. 0 - Share(b) \in Int /\ (0 - Share(b)) + (InBetween'[b] - InBetween[b]) = 0
            BY <1>1, <3>4
        <3> QED
            BY <3>3, <3>5
    <2>2. CASE (Earn(b) \/ CreditRefund(b)) /\ \E p \in People : Credit(p, Share(b))
        <3>1. SumFunction(balance)' = SumFunction(balance) + Share(b) /\ platform' = platform
            BY <1>1, <2>2, CreditSum DEF Earn, CreditRefund
        <3>2. bill[b] \in {"held", "refunding"} /\ bill'[b] \in {"earned", "refunded"}
            BY <2>2 DEF Earn, CreditRefund, SetBill, TypeOK
        <3>3. SumFunction(balance)' + platform' = SumFunction(balance) + platform + Share(b)
            BY <1>1, <3>1, SumsAreWhole
        <3>4. Share(b) + (InBetween'[b] - InBetween[b]) = 0
            BY <1>1, <1>6, <3>2 DEF Counts
        <3> QED
            BY <1>1, <3>3, <3>4
    <2>3. CASE QueueRefund(b) /\ bill[b] = "held"
        <3>1. UNCHANGED <<balance, platform>> /\ bill'[b] = "refunding"
            BY <2>3 DEF QueueRefund, SetBill, TypeOK
        <3>2. SumFunction(balance)' + platform' = SumFunction(balance) + platform + 0
            BY <3>1, SumsAreWhole
        <3>3. 0 + (InBetween'[b] - InBetween[b]) = 0
            BY <1>1, <1>6, <2>3, <3>1 DEF Counts
        <3> QED
            BY <3>2, <3>3
    <2>4. CASE QueueRefund(b) /\ bill[b] # "held"
        <3>1. /\ bill[b] = "earned" /\ bill'[b] = "refunding" /\ platform' = platform
              /\ Debit(Bill[b].shop, Share(b))
            BY <2>4 DEF QueueRefund, SetBill, TypeOK
        <3>2. SumFunction(balance)' = SumFunction(balance) - Share(b)
            BY <1>1, <3>1, DebitSum
        <3>3. SumFunction(balance)' + platform' = SumFunction(balance) + platform + (0 - Share(b))
            BY <1>1, <3>1, <3>2, SumsAreWhole
        <3>4. InBetween'[b] - InBetween[b] = Share(b)
            BY <1>1, <1>6, <3>1 DEF Counts
        <3>5. 0 - Share(b) \in Int /\ (0 - Share(b)) + (InBetween'[b] - InBetween[b]) = 0
            BY <1>1, <3>4
        <3> QED
            BY <3>3, <3>5
    <2>5. Earn(b) \/ CreditRefund(b) => \E p \in People : Credit(p, Share(b))
        BY <1>1 DEF Earn, CreditRefund
    <2> QED
        BY <2>1, <2>2, <2>3, <2>4, <2>5
<1>8. InBetween[b] \in Int /\ InBetween'[b] \in Int
    BY <1>1, <1>6 DEF Counts
<1>9. SumFunction(balance)' \in Int /\ platform' \in Int
    BY SumsAreWhole, MoneyTypes, SumInt, WalletAssumption DEF TypeOK
<1> QED
    BY <1>3, <1>5, <1>7, <1>8, <1>9, SumsAreWhole DEF Books

\* What a step of a withdrawal does to its three entries, taken together: they are what left
\* the purses and did not come back.
Owed(w) == Counts(wd[w].status # "none" /\ ~Back(w), wd[w].amount)

OwedAdds ==
    \A w \in Withdrawals :
        /\ Out[w] \in Int /\ Taken[w] \in Int /\ Twice[w] \in Int /\ Owed(w) \in Int
        /\ Owed(w) = Out[w] + Taken[w] - Twice[w]

LEMMA OwedIs == TypeOK /\ Unwritten => OwedAdds
<1> SUFFICES ASSUME TypeOK, Unwritten, NEW w \in Withdrawals
             PROVE  /\ Out[w] \in Int /\ Taken[w] \in Int /\ Twice[w] \in Int
                    /\ Owed(w) \in Int
                    /\ Owed(w) = Out[w] + Taken[w] - Twice[w]
    BY DEF OwedAdds
<1>1. wd[w].amount \in Nat
    BY DEF TypeOK
<1>2. wd[w].status = "none" => wd[w].amount = 0
    BY DEF Unwritten, NoWithdrawal
<1>3. /\ Out[w] = Counts(OutAtPaystack(w), wd[w].amount)
      /\ Taken[w] =
            Counts(wd[w].status # "none" /\ ~Back(w) /\ ~OutAtPaystack(w), wd[w].amount)
      /\ Twice[w] = Counts(Back(w) /\ OutAtPaystack(w), wd[w].amount)
    BY DEF Out, Taken, Twice
<1> QED
    BY <1>1, <1>2, <1>3 DEF Owed, Counts, Back

\* the end of a withdrawal gives back what it owes, or nothing
LEMMA ApplyOwed ==
    ASSUME TypeOK, NEW w \in Withdrawals, NEW to \in {"success", "failed", "reversed"},
           ApplyTransfer(w, to)
    PROVE  SumFunction(balance)' + platform' =
             SumFunction(balance) + platform + (Owed(w) - Owed(w)')
<1>1. wd[w].by \in Owners /\ wd[w].amount \in Nat /\ wd[w].fee \in Nat
    BY DEF TypeOK
<1>2. CASE wd' = wd /\ UNCHANGED purses
    <2>1. Owed(w)' = Owed(w) /\ Owed(w) \in Int
        BY <1>1, <1>2 DEF Owed, Counts, Back
    <2> QED
        BY <1>2, <2>1, SumsAreWhole DEF purses
<1>3. CASE MovesTo(wd[w].status, to) /\ to = "success"
    <2>1. wd' = [wd EXCEPT ![w].status = to] /\ UNCHANGED purses
        BY <1>3 DEF ApplyTransfer
    <2>2. wd'[w].status = "success" /\ wd'[w].amount = wd[w].amount
        BY <1>3, <2>1 DEF TypeOK
    <2>3. wd[w].status = "processing"
        BY <1>3 DEF MovesTo
    <2>4. Owed(w)' = Owed(w) /\ Owed(w) \in Int
        BY <1>1, <2>2, <2>3 DEF Owed, Counts, Back
    <2> QED
        BY <2>1, <2>4, SumsAreWhole DEF purses
<1>4. CASE MovesTo(wd[w].status, to) /\ to # "success"
    <2>1. wd' = [wd EXCEPT ![w].status = to] /\ GivesBack(w)
        BY <1>4 DEF ApplyTransfer
    <2>2. wd'[w].status \in {"failed", "reversed"}
        BY <1>4, <2>1 DEF TypeOK
    <2>3. wd[w].status \in {"processing", "success"}
        BY <1>4 DEF MovesTo
    <2>4. Owed(w) = wd[w].amount /\ Owed(w)' = 0
        BY <1>1, <2>2, <2>3 DEF Owed, Counts, Back
    <2>5. CASE wd[w].by = Levromart
        BY <1>1, <2>1, <2>4, <2>5, SumsAreWhole DEF GivesBack
    <2>6. CASE wd[w].by # Levromart
        <3>1. wd[w].by \in People /\ wd[w].amount + wd[w].fee \in Nat
            BY <1>1, <2>6 DEF Owners
        <3>2. /\ SumFunction(balance)' = SumFunction(balance) + (wd[w].amount + wd[w].fee)
              /\ platform' = platform - wd[w].fee
            BY <2>1, <2>6, <3>1, CreditSum DEF GivesBack
        <3> QED
            BY <1>1, <2>4, <3>2, SumsAreWhole
    <2> QED
        BY <2>5, <2>6
<1>5. ~MovesTo(wd[w].status, to) => wd' = wd /\ UNCHANGED purses
    BY DEF ApplyTransfer
<1> QED
    BY <1>2, <1>3, <1>4, <1>5

\* a withdrawal takes from the purses what it owes then, the fee only changes hands
LEMMA WithdrawOwed ==
    ASSUME TypeOK, NEW w \in Withdrawals, WithdrawFees(w) \/ \E p \in People : Withdraw(w, p)
    PROVE  SumFunction(balance)' + platform' =
             SumFunction(balance) + platform + (Owed(w) - Owed(w)')
<1>1. wd[w].status = "none"
    BY DEF Withdraw, WithdrawFees
<1>2. Owed(w) = 0
    BY <1>1 DEF Owed, Counts
<1>3. ASSUME NEW p \in Owners, NEW a \in Nat, NEW fee \in Nat, Insert(w, p, a, fee)
      PROVE  Owed(w)' = a
    <2>1. wd'[w].status = "processing" /\ wd'[w].amount = a
        BY <1>3 DEF Insert, TypeOK
    <2> QED
        BY <2>1 DEF Owed, Counts, Back
<1>4. ASSUME NEW p \in People, Withdraw(w, p)
      PROVE  SumFunction(balance)' + platform' =
               SumFunction(balance) + platform + (Owed(w) - Owed(w)')
    <2>1. Withdrawable(balance[p]) \in Nat
        BY WithdrawableIsMost DEF TypeOK
    <2>2. PICK a \in Amounts \cup {Withdrawable(balance[p])} :
            /\ Insert(w, p, a, WalletFee(a))
            /\ Debit(p, a + WalletFee(a))
            /\ platform' = platform + WalletFee(a)
        BY <1>4 DEF Withdraw
    <2>3. a \in Nat /\ WalletFee(a) \in Nat /\ a + WalletFee(a) \in Nat /\ p \in Owners
        BY <2>1, WalletAssumption, WalletFeeNat DEF Owners
    <2>4. SumFunction(balance)' = SumFunction(balance) - (a + WalletFee(a))
        BY <2>2, <2>3, DebitSum
    <2>5. Owed(w)' = a
        BY <1>3, <2>2, <2>3
    <2> QED
        BY <1>2, <2>2, <2>3, <2>4, <2>5, SumsAreWhole
<1>5. CASE WithdrawFees(w)
    <2>1. PICK a \in Amounts \cup {platform} :
            /\ a >= MinWithdrawal
            /\ Insert(w, Levromart, a, 0)
            /\ platform' = platform - a
        BY <1>5 DEF WithdrawFees
    <2>2. a \in Nat /\ Levromart \in Owners
        BY <2>1, WalletAssumption DEF Owners, MinWithdrawal, TypeOK
    <2>3. balance' = balance
        BY <1>5 DEF WithdrawFees
    <2>4. Owed(w)' = a
        BY <1>3, <2>1, <2>2
    <2> QED
        BY <1>2, <2>1, <2>2, <2>3, <2>4, SumsAreWhole
<1> QED
    BY <1>4, <1>5

LEMMA WithdrawalBooks ==
    ASSUME TypeOK, TypeOK', Unwritten, Unwritten', Books, NEW w \in Withdrawals,
           \/ \E p \in People : Withdraw(w, p)
           \/ WithdrawFees(w) \/ AskTransfer(w) \/ RecordAnswer(w) \/ CallStops(w)
           \/ TransferEnds(w) \/ TransferEvent(w)
    PROVE  Books'
<1>1. UNCHANGED <<topupVars, bill>>
    BY DEF Withdraw, WithdrawFees, AskTransfer, RecordAnswer, CallStops, TransferEnds,
           TransferEvent
<1>2. UNCHANGED <<PaidIn, Uncredited, InBetween>>
    BY <1>1 DEF PaidIn, Uncredited, InBetween, topupVars
<1>3. Others(w)
    BY WithdrawStep, WithdrawFeesStep, AskStep, RecordStep, CallStopsStep, TransferEndsStep,
       EventStep
<1>4. /\ SumFunction(Out)' = SumFunction(Out) + (Out'[w] - Out[w])
      /\ SumFunction(Taken)' = SumFunction(Taken) + (Taken'[w] - Taken[w])
      /\ SumFunction(Twice)' = SumFunction(Twice) + (Twice'[w] - Twice[w])
    BY <1>3, WithdrawalSums
<1>5. SumFunction(balance)' + platform' = SumFunction(balance) + platform + (Owed(w) - Owed(w)')
    <2>1. CASE WithdrawFees(w) \/ \E p \in People : Withdraw(w, p)
        BY <2>1, WithdrawOwed
    <2>2. CASE RecordAnswer(w) \/ TransferEvent(w)
        <3>1. PICK to \in {"success", "failed", "reversed"} : ApplyTransfer(w, to)
            BY <2>2 DEF RecordAnswer, TransferEvent, Happened
        <3> QED
            BY <3>1, ApplyOwed
    <2>3. CASE AskTransfer(w) \/ CallStops(w) \/ TransferEnds(w)
        <3>1. UNCHANGED <<purses, wd>>
            BY <2>3 DEF AskTransfer, CallStops, TransferEnds
        <3>2. Owed(w)' = Owed(w) /\ Owed(w) \in Int
            BY <3>1, OwedIs DEF Owed, Back, OwedAdds
        <3> QED
            BY <3>1, <3>2, SumsAreWhole DEF purses
    <2> QED
        BY <2>1, <2>2, <2>3
<1>6. /\ Out[w] \in Int /\ Taken[w] \in Int /\ Twice[w] \in Int /\ Owed(w) \in Int
      /\ Owed(w) = Out[w] + Taken[w] - Twice[w]
      /\ Out'[w] \in Int /\ Taken'[w] \in Int /\ Twice'[w] \in Int /\ Owed(w)' \in Int
      /\ Owed(w)' = Out'[w] + Taken'[w] - Twice'[w]
    <2>1. OwedAdds /\ OwedAdds'
        BY OwedIs, PTL
    <2> QED
        BY <2>1 DEF OwedAdds
<1>7. SumFunction(balance)' \in Int /\ platform' \in Int
    BY SumInt, WalletAssumption DEF TypeOK
<1> QED
    BY <1>2, <1>4, <1>5, <1>6, <1>7, SumsAreWhole DEF Books

LEMMA BooksStep ==
    TypeOK /\ TypeOK' /\ PaidFirst /\ Unwritten /\ Unwritten' /\ Books /\ [Next]_vars => Books'
<1> SUFFICES ASSUME TypeOK, TypeOK', PaidFirst, Unwritten, Unwritten', Books, [Next]_vars
             PROVE  Books'
    OBVIOUS
<1>1. CASE UNCHANGED <<purses, topupVars, bill, wdVars>>
    BY <1>1 DEF Books, PaidIn, Uncredited, InBetween, Out, Taken, Twice, OutAtPaystack, Back,
                purses, topupVars, wdVars
<1>2. ASSUME NEW p \in People, Freeze(p) PROVE Books'
    BY <1>1, <1>2 DEF Freeze
<1>3. ASSUME NEW k \in Taps, Send(k) PROVE Books'
    <2>1. SumFunction(balance)' + platform' = SumFunction(balance) + platform
        BY <1>3, SendSum
    <2>2. UNCHANGED <<topupVars, bill, wdVars>>
        BY <1>3 DEF Send
    <2>3. UNCHANGED <<PaidIn, Uncredited, InBetween, Out, Taken, Twice>>
        BY <2>2 DEF PaidIn, Uncredited, InBetween, Out, Taken, Twice, OutAtPaystack, Back,
                    topupVars, wdVars
    <2>4. SumFunction(balance)' \in Int /\ platform' \in Int
        BY SumInt, WalletAssumption DEF TypeOK
    <2> QED
        BY <2>1, <2>3, <2>4, SumsAreWhole DEF Books
<1>4. CASE Next
    BY <1>2, <1>3, <1>4, StepCases, TopupBooks, OrderBooks, WithdrawalBooks
<1>5. CASE UNCHANGED vars
    BY <1>1, <1>5 DEF vars
<1> QED
    BY <1>4, <1>5

LEMMA BooksStart == Init => Books
<1> SUFFICES ASSUME Init PROVE Books
    OBVIOUS
<1>1. /\ PaidIn = [t \in Topups |-> 0] /\ Uncredited = [t \in Topups |-> 0]
      /\ InBetween = [b \in Bills |-> 0]
      /\ Out = [w \in Withdrawals |-> 0] /\ Taken = [w \in Withdrawals |-> 0]
      /\ Twice = [w \in Withdrawals |-> 0]
      /\ balance = [p \in People |-> 0] /\ platform = 0
    BY DEF Init, PaidIn, Uncredited, InBetween, Out, Taken, Twice, OutAtPaystack, Back, Counts,
           NoWithdrawal
<1>2. /\ SumFunction([t \in Topups |-> 0]) = 0 /\ SumFunction([b \in Bills |-> 0]) = 0
      /\ SumFunction([w \in Withdrawals |-> 0]) = 0 /\ SumFunction([p \in People |-> 0]) = 0
    BY SumZero, WalletAssumption
<1> QED
    BY <1>1, <1>2 DEF Books

\* Money is never created, lost or spent twice: for any people, orders, amounts and
\* withdrawals the wallets and what is on its way make up what is at Paystack, to the kobo,
\* but for withdrawals that were given back although they left.
THEOREM ConservedAlways == Spec => []Conserved
<1>1. Init => Books
    BY BooksStart
<1>2. IInv => TypeOK /\ PaidFirst /\ Unwritten
    BY DEF IInv, PaidFirst, Unwritten
<1>3. IInv /\ IInv' /\ Books /\ [Next]_vars => Books'
    <2>1. IInv' => TypeOK' /\ Unwritten'
        BY <1>2, PTL
    <2> QED
        BY <1>2, <2>1, BooksStep
<1> QED
    BY <1>1, <1>3, Inductive, BooksAreConserved, PTL DEF Spec
=============================================================================

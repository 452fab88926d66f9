------------------------- MODULE CardPaymentsProofs -------------------------
(***************************************************************************)
(* Proofs about CardPayments: type correctness, the safety invariants of   *)
(* the ledger, that a card payment never moves an order back, and that the *)
(* whole keeps the promise of PaymentPromise, for any orders, references   *)
(* and number of requests at work.                                         *)
(***************************************************************************)
EXTENDS CardPayments, TLAPS

USE CardAssumption

-----------------------------------------------------------------------------
(* Type correctness.                                                       *)

LEMMA TypeInit == Init => TypeOK
  BY DEF Init, TypeOK, Statuses, DueTypes, Settleable, Call, Idle

\* Where a payment moves an order, it moves it to a status.
LEMMA MovedOnType ==
    ASSUME TypeOK, NEW o \in Orders, NEW t
    PROVE  MovedOn(o, t) \in Statuses
  BY DEF TypeOK, MovedOn, Statuses

LEMMA ApplyType ==
    ASSUME TypeOK, NEW r \in Refs, ApplyPayment(r)
    PROVE  /\ row' \in [Refs -> {"absent", "pending", "paid"}]
           /\ order' \in [Orders -> Statuses]
           /\ clock' \in [Orders -> BOOLEAN]
           /\ applied' \in [Refs -> Nat]
  <1>1. row' \in [Refs -> {"absent", "pending", "paid"}]
    BY DEF TypeOK, ApplyPayment, RowAfterPayment
  <1>2. order' \in [Orders -> Statuses]
    BY MovedOnType DEF TypeOK, ApplyPayment
  <1>3. ClockAfterCard(OrderOf[r], due[r]) \in BOOLEAN
    BY DEF TypeOK, ClockAfterCard
  <1>4. clock' \in [Orders -> BOOLEAN]
    BY <1>3 DEF TypeOK, ApplyPayment
  <1>5. applied' \in [Refs -> Nat]
    BY DEF TypeOK, ApplyPayment
  <1>. QED
    BY <1>1, <1>2, <1>4, <1>5

LEMMA AskType ==
    ASSUME TypeOK, NEW h \in Handlers, NEW r \in Refs, NEW kind, NEW answers,
           kind \in {"webhook", "confirm", "reconcile", "repair"},
           answers \subseteq {"success", "short", "failed", "abandoned", "unavailable"},
           Ask(h, kind, r, answers)
    PROVE  TypeOK'
  <1>1. calls' \in [Handlers -> Call \cup {Idle}]
    BY DEF TypeOK, Ask, Call
  <1>. QED
    BY <1>1 DEF TypeOK, Ask, orderVars, attemptVars, bankVars

LEMMA CheckoutType ==
    ASSUME TypeOK, NEW r \in Refs, CheckoutStep(r) \/ PaystackStep(r)
    PROVE  TypeOK'
  <1>. USE DEF TypeOK, orderVars, attemptVars, bankVars
  <1>1. CASE StartPayment(r)
    <2>1. due' \in [Refs -> DueTypes]
      BY <1>1 DEF StartPayment, Outstanding, DueTypes
    <2>2. tx' \in [Refs -> {"none", "success"} \cup Settleable]
      BY <1>1 DEF StartPayment, Settleable
    <2>3. row' \in [Refs -> {"absent", "pending", "paid"}]
      BY <1>1 DEF StartPayment
    <2>4. link' \in [Refs -> {"none", "asked", "stored"}] /\ aged' \in [Orders -> BOOLEAN]
      BY <1>1 DEF StartPayment
    <2>. QED
      BY <1>1, <2>1, <2>2, <2>3, <2>4 DEF StartPayment
  <1>2. CASE LinkStored(r)
    BY <1>2 DEF LinkStored
  <1>3. CASE DropAttempt(r)
    BY <1>3 DEF DropAttempt, Settleable
  <1>4. CASE StartCrashes(r)
    BY <1>4 DEF StartCrashes
  <1>5. CASE PaidAtPaystack(r)
    BY <1>5 DEF PaidAtPaystack
  <1>6. CASE NotPaidAtPaystack(r)
    BY <1>6 DEF NotPaidAtPaystack
  <1>. QED
    BY <1>1, <1>2, <1>3, <1>4, <1>5, <1>6 DEF CheckoutStep, PaystackStep

LEMMA AskStepType ==
    ASSUME TypeOK, NEW h \in Handlers, NEW r \in Refs, AskStep(h, r)
    PROVE  TypeOK'
  <1>1. Answer(r) \subseteq {"success", "short", "failed", "abandoned"}
    BY DEF TypeOK, Answer
  <1>2. CASE WebhookArrives(h, r)
    BY <1>1, <1>2, AskType DEF WebhookArrives
  <1>3. CASE StatusChecked(h, r)
    BY <1>1, <1>3, AskType DEF StatusChecked
  <1>4. CASE ReconcileOpen(h, r)
    BY <1>1, <1>4, AskType DEF ReconcileOpen
  <1>5. CASE ReconcileNotApplied(h, r)
    BY <1>1, <1>5, AskType DEF ReconcileNotApplied
  <1>. QED
    BY <1>2, <1>3, <1>4, <1>5 DEF AskStep

\* A request that is at work is a Call.
LEMMA AtWork ==
    ASSUME TypeOK, NEW h \in Handlers, calls[h] # Idle
    PROVE  calls[h] \in Call
  BY DEF TypeOK

LEMMA KindAtWork ==
    ASSUME TypeOK, NEW h \in Handlers, IsCharge(calls[h]) \/ calls[h].kind = "repair"
    PROVE  calls[h] # Idle /\ calls[h] \in Call
  BY AtWork DEF IsCharge, Idle

LEMMA ProcessType ==
    ASSUME TypeOK, NEW h \in Handlers, Process(h) \/ CallFails(h)
    PROVE  TypeOK'
  <1>. DEFINE c == calls[h]
  <1>0. c \in Call /\ c.ref \in Refs
    BY KindAtWork, AtWork DEF Process, CallFails, SettleCharge, DuplicateCharge, HoldBack,
       RecordNotPaid, RepairOrderPayment, NothingToRepair, Call
  <1>. HIDE DEF c
  <1>1. CASE SettleCharge(h)
    <2>1. ApplyPayment(c.ref)
      BY <1>1 DEF SettleCharge, c
    <2>2. tx' \in [Refs -> {"none", "success"} \cup Settleable]
      BY <1>1 DEF TypeOK, SettleCharge
    <2>3. event' \in [Refs -> {"none", "error", "verify_unavailable", "amount_mismatch", "done"}]
      BY <1>1 DEF TypeOK, SettleCharge
    <2>4. calls' \in [Handlers -> Call \cup {Idle}]
      BY <1>1 DEF TypeOK, SettleCharge, Finish
    <2>. QED
      BY <1>0, <1>1, <2>1, <2>2, <2>3, <2>4, ApplyType DEF TypeOK, SettleCharge, bankVars
  <1>2. CASE DuplicateCharge(h)
    <2>1. event' \in [Refs -> {"none", "error", "verify_unavailable", "amount_mismatch", "done"}]
      BY <1>2 DEF TypeOK, DuplicateCharge
    <2>2. calls' \in [Handlers -> Call \cup {Idle}]
      BY <1>0, <1>2 DEF TypeOK, DuplicateCharge, Finish, Call, c
    <2>. QED
      BY <1>2, <2>1, <2>2 DEF TypeOK, DuplicateCharge, orderVars, attemptVars, bankVars
  <1>3. CASE HoldBack(h)
    <2>1. event' \in [Refs -> {"none", "error", "verify_unavailable", "amount_mismatch", "done"}]
      BY <1>3 DEF TypeOK, HoldBack, HeldResult
    <2>2. calls' \in [Handlers -> Call \cup {Idle}]
      BY <1>3 DEF TypeOK, HoldBack, Finish
    <2>. QED
      BY <1>3, <2>1, <2>2 DEF TypeOK, HoldBack, orderVars, attemptVars, bankVars
  <1>4. CASE RecordNotPaid(h)
    <2>1. tx' \in [Refs -> {"none", "success"} \cup Settleable]
      BY <1>4 DEF TypeOK, RecordNotPaid, Settleable
    <2>2. calls' \in [Handlers -> Call \cup {Idle}]
      BY <1>4 DEF TypeOK, RecordNotPaid, Finish
    <2>. QED
      BY <1>4, <2>1, <2>2 DEF TypeOK, RecordNotPaid, orderVars, bankVars
  <1>5. CASE RepairOrderPayment(h)
    <2>1. ApplyPayment(c.ref)
      BY <1>5 DEF RepairOrderPayment, c
    <2>2. calls' \in [Handlers -> Call \cup {Idle}]
      BY <1>5 DEF TypeOK, RepairOrderPayment, Finish
    <2>. QED
      BY <1>0, <1>5, <2>1, <2>2, ApplyType DEF TypeOK, RepairOrderPayment, attemptVars, bankVars
  <1>6. CASE NothingToRepair(h)
    BY <1>6 DEF TypeOK, NothingToRepair, Finish, orderVars, attemptVars, bankVars
  <1>7. CASE CallFails(h)
    <2>1. event' \in [Refs -> {"none", "error", "verify_unavailable", "amount_mismatch", "done"}]
      BY <1>7 DEF TypeOK, CallFails
    <2>. QED
      BY <1>7, <2>1 DEF TypeOK, CallFails, Finish, orderVars, attemptVars, bankVars
  <1>. QED
    BY <1>1, <1>2, <1>3, <1>4, <1>5, <1>6, <1>7 DEF Process

LEMMA OrderType ==
    ASSUME TypeOK, NEW o \in Orders, HourPasses(o) \/ TransferStep(o) \/ FulfilStep(o)
    PROVE  TypeOK'
  <1>. USE DEF TypeOK, orderVars, attemptVars, bankVars
  <1>1. CASE HourPasses(o)
    BY <1>1 DEF HourPasses
  <1>2. CASE ReportTransfer(o)
    <2>1. claims' \subseteq Orders \X DueTypes
      BY <1>2 DEF ReportTransfer, Outstanding, DueTypes
    <2>. QED
      BY <1>2, <2>1 DEF ReportTransfer, Statuses
  <1>3. CASE ConfirmTransfer(o)
    <2>1. PICK t \in LatestClaim(o) :
            /\ claims' = claims \ {<<o, t>>}
            /\ banked' = banked \cup {<<o, t>>}
            /\ order' = [order EXCEPT ![o] = MovedOn(o, t)]
            /\ clock' = [clock EXCEPT ![o] = ClockAfterTransfer(o, t)]
      BY <1>3 DEF ConfirmTransfer
    <2>2. order' \in [Orders -> Statuses]
      BY <2>1, MovedOnType
    <2>3. banked' \subseteq Orders \X DueTypes
      BY <2>1 DEF LatestClaim, DueTypes
    <2>4. ClockAfterTransfer(o, t) \in BOOLEAN
      BY DEF ClockAfterTransfer
    <2>. QED
      BY <1>3, <2>1, <2>2, <2>3, <2>4 DEF ConfirmTransfer
  <1>4. CASE DisputeTransfer(o)
    BY <1>4 DEF DisputeTransfer, Statuses
  <1>5. CASE RejectTransfer(o)
    BY <1>5 DEF RejectTransfer, Statuses
  <1>6. CASE FulfilStep(o)
    <2>1. PICK status \in Statuses, running \in BOOLEAN : OrderStep(o, status, running)
      BY <1>6 DEF FulfilStep, VendorConfirms, HandOver, VendorCompletes, BuyerReceives,
         AutoComplete, Cancel, Statuses
    <2>. QED
      BY <2>1 DEF OrderStep
  <1>. QED
    BY <1>1, <1>2, <1>3, <1>4, <1>5, <1>6 DEF TransferStep

LEMMA TypeStep == TypeOK /\ [Next]_vars => TypeOK'
  <1>. SUFFICES ASSUME TypeOK, [Next]_vars PROVE TypeOK'
    OBVIOUS
  <1>1. CASE Next
    BY <1>1, CheckoutType, AskStepType, ProcessType, OrderType DEF Next
  <1>2. CASE UNCHANGED vars
    BY <1>2 DEF TypeOK, vars, orderVars, attemptVars, bankVars
  <1>. QED
    BY <1>1, <1>2

\* Every variable keeps its type, for any orders, references and handlers.
THEOREM TypeCorrect == Spec => []TypeOK
  BY TypeInit, TypeStep, PTL DEF Spec

-----------------------------------------------------------------------------
(* The inductive invariant: the ledger says what Paystack said.            *)

LEMMA IInvInit == Init => IInv
  <1>. SUFFICES ASSUME Init PROVE IInv
    OBVIOUS
  <1>1. Ledger
    BY DEF Init, Ledger
  <1>2. Started /\ Informed
    BY DEF Init, Started, Informed
  <1>3. ProcessedMeansSettled /\ OneOpenAttempt
    BY DEF Init, ProcessedMeansSettled, OneOpenAttempt
  <1>. QED
    BY TypeInit, <1>1, <1>2, <1>3 DEF IInv

\* What a step leaves alone keeps the invariant.
LEMMA IInvUnchanged ==
    ASSUME IInv, TypeOK',
           UNCHANGED <<tx, link, row, event, paystack, calls, applied, old>>
    PROVE  IInv'
  BY DEF IInv, Ledger, Started, Informed, ProcessedMeansSettled, OneOpenAttempt

\* A new attempt is the only open one of its order, and touches no paid row.
LEMMA IInvStart ==
    ASSUME IInv, TypeOK', NEW r \in Refs, StartPayment(r)
    PROVE  IInv'
  <1>. USE DEF IInv, TypeOK, StartPayment
  <1>0. tx' = [s \in Refs |-> IF s = r THEN "initialized"
                              ELSE IF s \in OpenAttempts(OrderOf[r]) THEN "abandoned"
                              ELSE tx[s]]
    OBVIOUS
  <1>1. \A s \in Refs : tx'[s] = IF s = r THEN "initialized"
                                 ELSE IF s \in OpenAttempts(OrderOf[r]) THEN "abandoned"
                                 ELSE tx[s]
    BY <1>0 DEF OpenAttempts
  <1>2. \A s \in Refs : tx'[s] = "success" <=> tx[s] = "success"
    BY <1>1 DEF OpenAttempts
  <1>3. \A s \in Refs : tx[s] # "none" => tx'[s] # "none"
    BY <1>1
  <1>4. \A s \in Refs : row'[s] = "paid" <=> row[s] = "paid"
    BY DEF OpenAttempts, Ledger
  <1>5. Ledger'
    BY <1>2, <1>4 DEF Ledger
  <1>6. Started'
    BY <1>1, <1>3 DEF Started
  <1>7. Informed'
    BY <1>3 DEF Informed, Call
  <1>8. ProcessedMeansSettled'
    BY <1>2 DEF ProcessedMeansSettled
  <1>9. OneOpenAttempt'
    BY <1>1 DEF OneOpenAttempt, OpenAttempts, RefsOf
  <1>. QED
    BY <1>5, <1>6, <1>7, <1>8, <1>9

\* An attempt is dropped, or its link stored or lost: what is settled stays.
LEMMA IInvLink ==
    ASSUME IInv, TypeOK', NEW r \in Refs,
           LinkStored(r) \/ DropAttempt(r) \/ StartCrashes(r)
    PROVE  IInv'
  <1>. USE DEF IInv, TypeOK, LinkStored, DropAttempt, StartCrashes, attemptVars
  <1>1. \A s \in Refs : tx'[s] = tx[s] \/ (tx[s] = "initialized" /\ tx'[s] = "abandoned")
    OBVIOUS
  <1>2. \A s \in Refs : row'[s] = "paid" <=> row[s] = "paid"
    OBVIOUS
  <1>3. \A s \in Refs : link'[s] # "none" => link[s] # "none"
    OBVIOUS
  <1>4. UNCHANGED <<event, paystack, calls, applied, old>>
    OBVIOUS
  <1>5. Ledger'
    BY <1>1, <1>2, <1>4 DEF Ledger
  <1>6. Started'
    BY <1>1, <1>3, <1>4 DEF Started
  <1>7. Informed'
    BY <1>1, <1>4 DEF Informed, Call
  <1>8. ProcessedMeansSettled' /\ OneOpenAttempt'
    BY <1>1, <1>4 DEF ProcessedMeansSettled, OneOpenAttempt
  <1>. QED
    BY <1>5, <1>6, <1>7, <1>8

\* Paystack never takes back a payment it took.
LEMMA IInvPaystack ==
    ASSUME IInv, TypeOK', NEW r \in Refs, PaystackStep(r)
    PROVE  IInv'
  <1>. USE DEF IInv, TypeOK, PaystackStep, PaidAtPaystack, NotPaidAtPaystack, attemptVars
  <1>1. UNCHANGED <<tx, link, row, event, calls, applied, old>>
    OBVIOUS
  <1>2. \A s \in Refs : paystack[s] = "success" => paystack'[s] = "success"
    OBVIOUS
  <1>3. \A s \in Refs : paystack'[s] # "open" => paystack[s] # "open" \/ link[s] # "none"
    OBVIOUS
  <1>4. Ledger'
    BY <1>1, <1>2 DEF Ledger
  <1>5. Started'
    BY <1>1, <1>3 DEF Started
  <1>6. Informed'
    BY <1>1, <1>2 DEF Informed, Call
  <1>7. ProcessedMeansSettled' /\ OneOpenAttempt'
    BY <1>1 DEF ProcessedMeansSettled, OneOpenAttempt
  <1>. QED
    BY <1>4, <1>5, <1>6, <1>7

\* Someone who asks is told the truth, and only about attempts that were started.
LEMMA IInvAsk ==
    ASSUME IInv, TypeOK', NEW h \in Handlers, NEW r \in Refs, AskStep(h, r)
    PROVE  IInv'
  <1>. USE DEF IInv, TypeOK
  <1>1. UNCHANGED <<tx, link, row, event, paystack, applied, old>>
    BY DEF AskStep, WebhookArrives, StatusChecked, ReconcileOpen, ReconcileNotApplied, Ask,
           attemptVars
  <1>2. tx[r] # "none"
    BY DEF AskStep, WebhookArrives, StatusChecked, ReconcileOpen, ReconcileNotApplied, Started
  <1>3. PICK c : /\ calls' = [calls EXCEPT ![h] = c]
                 /\ c.ref = r
                 /\ c.verified = "success" => paystack[r] = "success"
    BY DEF AskStep, WebhookArrives, StatusChecked, ReconcileOpen, ReconcileNotApplied, Ask,
           Answer
  <1>4. Informed'
    BY <1>1, <1>2, <1>3 DEF Informed
  <1>5. Ledger' /\ Started' /\ ProcessedMeansSettled' /\ OneOpenAttempt'
    BY <1>1 DEF Ledger, Started, ProcessedMeansSettled, OneOpenAttempt
  <1>. QED
    BY <1>4, <1>5

\* A call that ends, or goes on to the repair, leaves the others as informed as
\* they were, as long as nothing that was started or taken is undone.
LEMMA InformedKept ==
    ASSUME IInv, NEW h \in Handlers,
           \/ Finish(h)
           \/ calls[h] \in Call /\ calls' = [calls EXCEPT ![h].kind = "repair"],
           paystack' = paystack,
           \A r \in Refs : tx[r] # "none" => tx'[r] # "none"
    PROVE  Informed'
  <1>. USE DEF IInv, TypeOK, Informed
  <1>1. CASE Finish(h)
    BY <1>1 DEF Finish, Call
  <1>2. CASE calls[h] \in Call /\ calls' = [calls EXCEPT ![h].kind = "repair"]
    <2>1. calls[h] # Idle
      BY <1>2 DEF Call, Idle
    <2>2. calls'[h].ref = calls[h].ref /\ calls'[h].verified = calls[h].verified
      BY <1>2 DEF Call
    <2>3. \A g \in Handlers : g # h => calls'[g] = calls[g]
      BY <1>2
    <2>. QED
      BY <1>2, <2>1, <2>2, <2>3 DEF Call
  <1>. QED
    BY <1>1, <1>2

\* Applying a payment that was taken and whose row is not paid yet keeps the ledger.
LEMMA LedgerApplied ==
    ASSUME IInv, NEW r \in Refs, ApplyPayment(r),
           row[r] # "paid", paystack[r] = "success", tx'[r] = "success",
           \A s \in Refs : s # r => tx'[s] = tx[s],
           UNCHANGED <<paystack, old>>
    PROVE  Ledger'
  <1>. USE DEF IInv, TypeOK, Ledger, ApplyPayment
  <1>1. row'[r] = "paid" /\ applied'[r] = 1
    BY DEF RowAfterPayment
  <1>2. \A s \in Refs : s # r => /\ applied'[s] = applied[s]
                                 /\ row'[s] = "paid" <=> row[s] = "paid"
    BY DEF RowAfterPayment
  <1>. QED
    BY <1>1, <1>2

LEMMA IInvProcess ==
    ASSUME IInv, TypeOK', NEW h \in Handlers, Process(h) \/ CallFails(h)
    PROVE  IInv'
  <1>. DEFINE c == calls[h]
           r == calls[h].ref
  <1>. USE DEF IInv
  <1>0. c # Idle /\ c \in Call /\ r \in Refs
    BY KindAtWork, AtWork DEF Process, CallFails, SettleCharge, DuplicateCharge, HoldBack,
       RecordNotPaid, RepairOrderPayment, NothingToRepair, Call
  <1>a. tx[r] # "none" /\ (c.verified = "success" => paystack[r] = "success")
    BY <1>0 DEF Informed
  <1>1. CASE SettleCharge(h)
    <2>. USE <1>1 DEF SettleCharge, FullAmount
    <2>1. tx' = [tx EXCEPT ![r] = "success"]
      OBVIOUS
    <2>2. /\ tx'[r] = "success"
          /\ \A s \in Refs : s # r => tx'[s] = tx[s]
      BY <1>0, <2>1 DEF TypeOK
    <2>3. row[r] # "paid"
      BY <1>0 DEF Ledger, Settleable
    <2>4. Ledger'
      BY <1>0, <1>a, <2>2, <2>3, LedgerApplied
    <2>5. Started'
      BY <2>2, <1>0 DEF Started, Settleable
    <2>6. Informed'
      BY <2>2, InformedKept
    <2>7. ProcessedMeansSettled'
      BY <1>0, <2>2 DEF ProcessedMeansSettled, TypeOK
    <2>8. OneOpenAttempt'
      BY <1>0, <2>2 DEF OneOpenAttempt
    <2>. QED
      BY <2>4, <2>5, <2>6, <2>7, <2>8
  <1>2. CASE DuplicateCharge(h)
    <2>. USE <1>2 DEF DuplicateCharge, FullAmount, attemptVars
    <2>1. tx[r] = "success"
      BY <1>0, <1>a DEF Processed, ProcessedMeansSettled, TypeOK, Settleable
    <2>2. UNCHANGED <<tx, link, row, paystack, applied, old>>
      OBVIOUS
    <2>3. Informed'
      BY <1>0, <2>2, InformedKept
    <2>4. ProcessedMeansSettled'
      BY <1>0, <2>1, <2>2 DEF ProcessedMeansSettled, TypeOK
    <2>5. Ledger' /\ Started' /\ OneOpenAttempt'
      BY <2>2 DEF Ledger, Started, OneOpenAttempt
    <2>. QED
      BY <2>3, <2>4, <2>5
  <1>3. CASE HoldBack(h)
    <2>. USE <1>3 DEF HoldBack, HeldResult, attemptVars
    <2>1. UNCHANGED <<tx, link, row, paystack, applied, old>>
      OBVIOUS
    <2>2. Informed'
      BY <2>1, InformedKept
    <2>3. ProcessedMeansSettled'
      BY <1>0, <2>1 DEF ProcessedMeansSettled, TypeOK
    <2>4. Ledger' /\ Started' /\ OneOpenAttempt'
      BY <2>1 DEF Ledger, Started, OneOpenAttempt
    <2>. QED
      BY <2>2, <2>3, <2>4
  <1>4. CASE RecordNotPaid(h)
    <2>. USE <1>4 DEF RecordNotPaid
    <2>1. \A s \in Refs : \/ tx'[s] = tx[s]
                          \/ /\ tx[s] \in {"initialized", "abandoned"}
                             /\ tx'[s] \in {"failed", "abandoned"}
      BY <1>0 DEF TypeOK
    <2>2. UNCHANGED <<link, row, event, paystack, applied, old>>
      OBVIOUS
    <2>3. Ledger' /\ Started' /\ ProcessedMeansSettled' /\ OneOpenAttempt'
      BY <2>1, <2>2 DEF Ledger, Started, ProcessedMeansSettled, OneOpenAttempt
    <2>4. Informed'
      BY <2>1, <2>2, InformedKept
    <2>. QED
      BY <2>3, <2>4
  <1>5. CASE RepairOrderPayment(h)
    <2>. USE <1>5 DEF RepairOrderPayment, NeedsRepair, attemptVars
    <2>1. UNCHANGED <<tx, link, event, paystack, old>>
      OBVIOUS
    <2>2. Ledger'
      BY <1>0, <2>1, LedgerApplied DEF Ledger
    <2>3. Informed'
      BY <2>1, InformedKept
    <2>4. Started' /\ ProcessedMeansSettled' /\ OneOpenAttempt'
      BY <2>1 DEF Started, ProcessedMeansSettled, OneOpenAttempt
    <2>. QED
      BY <2>2, <2>3, <2>4
  <1>6. CASE NothingToRepair(h)
    <2>. USE <1>6 DEF NothingToRepair, attemptVars
    <2>1. UNCHANGED <<tx, link, row, event, paystack, applied, old>>
      OBVIOUS
    <2>2. Informed'
      BY <2>1, InformedKept
    <2>. QED
      BY <2>1, <2>2 DEF Ledger, Started, ProcessedMeansSettled, OneOpenAttempt
  <1>7. CASE CallFails(h)
    <2>. USE <1>7 DEF CallFails, attemptVars
    <2>1. UNCHANGED <<tx, link, row, paystack, applied, old>>
      OBVIOUS
    <2>2. Informed'
      BY <2>1, InformedKept
    <2>3. ProcessedMeansSettled'
      BY <1>0, <2>1 DEF ProcessedMeansSettled, TypeOK
    <2>. QED
      BY <2>1, <2>2, <2>3 DEF Ledger, Started, OneOpenAttempt
  <1>. QED
    BY <1>1, <1>2, <1>3, <1>4, <1>5, <1>6, <1>7 DEF Process

LEMMA IInvOrder ==
    ASSUME IInv, TypeOK', NEW o \in Orders, HourPasses(o) \/ TransferStep(o) \/ FulfilStep(o)
    PROVE  IInv'
  <1>1. UNCHANGED <<tx, link, row, event, paystack, calls, applied, old>>
    BY DEF HourPasses, TransferStep, ReportTransfer, ConfirmTransfer, DisputeTransfer,
           RejectTransfer, FulfilStep, VendorConfirms, HandOver, VendorCompletes,
           BuyerReceives, AutoComplete, Cancel, OrderStep, attemptVars
  <1>. QED
    BY <1>1, IInvUnchanged

LEMMA IInvStep == IInv /\ [Next]_vars => IInv'
  <1>. SUFFICES ASSUME IInv, [Next]_vars PROVE IInv'
    OBVIOUS
  <1>0. TypeOK'
    BY TypeStep DEF IInv
  <1>1. ASSUME NEW r \in Refs, CheckoutStep(r) \/ PaystackStep(r) PROVE IInv'
    BY <1>0, <1>1, IInvStart, IInvLink, IInvPaystack DEF CheckoutStep
  <1>2. ASSUME NEW h \in Handlers, NEW r \in Refs, AskStep(h, r) PROVE IInv'
    BY <1>0, <1>2, IInvAsk
  <1>3. ASSUME NEW h \in Handlers, Process(h) \/ CallFails(h) PROVE IInv'
    BY <1>0, <1>3, IInvProcess
  <1>4. ASSUME NEW o \in Orders, HourPasses(o) \/ TransferStep(o) \/ FulfilStep(o) PROVE IInv'
    BY <1>0, <1>4, IInvOrder
  <1>5. CASE UNCHANGED vars
    BY <1>0, <1>5, IInvUnchanged DEF vars, attemptVars
  <1>. QED
    BY <1>1, <1>2, <1>3, <1>4, <1>5 DEF Next

\* The inductive invariant holds throughout.
THEOREM Inductive == Spec => []IInv
  BY IInvInit, IInvStep, PTL DEF Spec

-----------------------------------------------------------------------------
(* The safety invariants.                                                  *)

\* Webhook, buyer's check, reconciliation and repair together move an order on
\* once for each of its payments, whatever their number and order.
THEOREM AppliedOnceAlways == Spec => []AppliedOnce
  <1>1. IInv => AppliedOnce
    BY DEF IInv, Ledger, AppliedOnce
  <1>. QED
    BY <1>1, Inductive, PTL

\* No payment row is marked paid unless Paystack took the money in full.
THEOREM PaidMeansTakenAlways == Spec => []PaidMeansTaken
  <1>1. IInv => PaidMeansTaken
    BY DEF IInv, Ledger, PaidMeansTaken
  <1>. QED
    BY <1>1, Inductive, PTL

\* Settling a payment marks its row paid, also when the row had been removed.
THEOREM SettledMeansPaidAlways == Spec => []SettledMeansPaid
  <1>1. IInv => SettledMeansPaid
    BY DEF IInv, Ledger, SettledMeansPaid
  <1>. QED
    BY <1>1, Inductive, PTL

\* An order has one open attempt at most.
THEOREM OneOpenAttemptAlways == Spec => []OneOpenAttempt
  <1>1. IInv => OneOpenAttempt
    BY DEF IInv
  <1>. QED
    BY <1>1, Inductive, PTL

\* An event counts as processed only when its payment is settled.
THEOREM ProcessedMeansSettledAlways == Spec => []ProcessedMeansSettled
  <1>1. IInv => ProcessedMeansSettled
    BY DEF IInv
  <1>. QED
    BY <1>1, Inductive, PTL

-----------------------------------------------------------------------------
(* Goods after money.                                                      *)

\* What was paid stays paid.
LEMMA PaidStays ==
    ASSUME IInv, TypeOK', [Next]_vars, NEW o \in Orders, NEW t, Paid(o, t)
    PROVE  Paid(o, t)'
  <1>. USE DEF IInv, TypeOK
  <1>1. banked \subseteq banked'
    BY ZenonT(60) DEF Next, vars, orderVars, attemptVars, bankVars, CheckoutStep, StartPayment, LinkStored,
       DropAttempt, StartCrashes, PaystackStep, PaidAtPaystack, NotPaidAtPaystack, AskStep,
       WebhookArrives, StatusChecked, ReconcileOpen, ReconcileNotApplied, Ask, Process,
       SettleCharge, DuplicateCharge, HoldBack, RecordNotPaid, RepairOrderPayment,
       NothingToRepair, CallFails, HourPasses, TransferStep, ReportTransfer, ConfirmTransfer,
       DisputeTransfer, RejectTransfer, FulfilStep, VendorConfirms, HandOver, VendorCompletes,
       BuyerReceives, AutoComplete, Cancel, OrderStep
  <1>2. \A r \in Refs : row[r] = "paid" => row'[r] = "paid" /\ due'[r] = due[r]
    <2>1. ASSUME NEW r \in Refs, StartPayment(r)
          PROVE  \A s \in Refs : row[s] = "paid" => row'[s] = "paid" /\ due'[s] = due[s]
      <3>1. row[r] # "paid"
        BY <2>1 DEF StartPayment, Ledger
      <3>2. \A s \in Refs : s # r => due'[s] = due[s]
        BY <2>1 DEF StartPayment
      <3>3. \A s \in Refs : row[s] = "paid" => row'[s] = "paid"
        BY <2>1, <3>1 DEF StartPayment
      <3>. QED
        BY <3>1, <3>2, <3>3
    <2>2. ASSUME NEW r \in Refs, ApplyPayment(r), due' = due
          PROVE  \A s \in Refs : row[s] = "paid" => row'[s] = "paid" /\ due'[s] = due[s]
      BY <2>2 DEF ApplyPayment, RowAfterPayment
    <2>3. ASSUME NEW h \in Handlers, SettleCharge(h) \/ RepairOrderPayment(h)
          PROVE  ApplyPayment(calls[h].ref) /\ calls[h].ref \in Refs /\ due' = due
      BY <2>3, KindAtWork DEF SettleCharge, RepairOrderPayment, attemptVars, Call
    <2>4. ASSUME NEW r \in Refs, DropAttempt(r)
          PROVE  \A s \in Refs : row[s] = "paid" => row'[s] = "paid" /\ due'[s] = due[s]
      BY <2>4 DEF DropAttempt
    <2>5. \/ \E r \in Refs : StartPayment(r) \/ DropAttempt(r)
          \/ \E h \in Handlers : SettleCharge(h) \/ RepairOrderPayment(h)
          \/ UNCHANGED <<row, due>>
      BY ZenonT(60) DEF Next, vars, orderVars, attemptVars, bankVars, CheckoutStep, LinkStored,
       StartCrashes, PaystackStep, PaidAtPaystack, NotPaidAtPaystack, AskStep,
       WebhookArrives, StatusChecked, ReconcileOpen, ReconcileNotApplied, Ask, Process,
       DuplicateCharge, HoldBack, RecordNotPaid, NothingToRepair, CallFails, HourPasses,
       TransferStep, ReportTransfer, ConfirmTransfer, DisputeTransfer, RejectTransfer,
       FulfilStep, VendorConfirms, HandOver, VendorCompletes, BuyerReceives, AutoComplete,
       Cancel, OrderStep
    <2>. QED
      BY <2>1, <2>2, <2>3, <2>4, <2>5
  <1>. QED
    BY <1>1, <1>2 DEF Paid, CardPaid, RefsOf

\* An order is moved to handed_over or completed only when all of it is paid.
LEMMA MovedWhenPaid ==
    ASSUME IInv, TypeOK', [Next]_vars, NEW o \in Orders,
           order'[o] # order[o], order'[o] \in {"handed_over", "completed"}
    PROVE  AllPaid(o) \/ AllPaid(o)'
  <1>. USE DEF IInv, TypeOK
  <1>1. ASSUME NEW t, order' = [order EXCEPT ![o] = MovedOn(o, t)]
        PROVE  t = "fee" /\ DepositIn(o)
    BY <1>1 DEF MovedOn
  <1>2. ASSUME NEW r \in Refs, ApplyPayment(r), due' = due
        PROVE  AllPaid(o)'
    <2>1. OrderOf[r] = o
      BY <1>2 DEF ApplyPayment
    <2>2. due[r] = "fee" /\ DepositIn(o)
      BY <1>1, <1>2, <2>1 DEF ApplyPayment
    <2>3. row'[r] = "paid"
      BY <1>2 DEF ApplyPayment, RowAfterPayment
    <2>4. Paid(o, "fee")'
      BY <1>2, <2>1, <2>2, <2>3 DEF Paid, CardPaid, RefsOf
    <2>5. DepositIn(o)'
      BY <2>2, PaidStays DEF DepositIn
    <2>. QED
      BY <2>4, <2>5 DEF AllPaid
  <1>3. ASSUME NEW h \in Handlers, SettleCharge(h) \/ RepairOrderPayment(h)
        PROVE  AllPaid(o)'
    BY <1>2, <1>3, KindAtWork DEF SettleCharge, RepairOrderPayment, attemptVars, Call
  <1>4. ASSUME NEW p \in Orders, ConfirmTransfer(p)
        PROVE  AllPaid(o)'
    <2>1. PICK t : /\ order' = [order EXCEPT ![p] = MovedOn(p, t)]
                   /\ <<p, t>> \in banked'
      BY <1>4 DEF ConfirmTransfer
    <2>2. p = o
      BY <2>1
    <2>3. t = "fee" /\ DepositIn(o)
      BY <1>1, <2>1, <2>2
    <2>4. Paid(o, "fee")'
      BY <2>1, <2>2, <2>3 DEF Paid
    <2>5. DepositIn(o)'
      BY <2>3, PaidStays DEF DepositIn
    <2>. QED
      BY <2>4, <2>5 DEF AllPaid
  <1>5. ASSUME NEW p \in Orders, FulfilStep(p)
        PROVE  AllPaid(o)
    <2>1. CASE HandOver(p) \/ VendorCompletes(p) \/ BuyerReceives(p) \/ AutoComplete(p)
      BY <2>1 DEF HandOver, VendorCompletes, BuyerReceives, AutoComplete, OrderStep
    <2>2. CASE VendorConfirms(p) \/ Cancel(p)
      BY <2>2 DEF VendorConfirms, Cancel, OrderStep
    <2>. QED
      BY <1>5, <2>1, <2>2 DEF FulfilStep
  <1>6. ASSUME NEW p \in Orders, ReportTransfer(p) \/ DisputeTransfer(p) \/ RejectTransfer(p)
        PROVE  FALSE
    BY <1>6 DEF ReportTransfer, DisputeTransfer, RejectTransfer
  <1>7. \/ \E h \in Handlers : SettleCharge(h) \/ RepairOrderPayment(h)
        \/ \E p \in Orders : TransferStep(p) \/ FulfilStep(p)
    BY DEF Next, vars, orderVars, CheckoutStep, StartPayment, LinkStored, DropAttempt,
       StartCrashes, PaystackStep, PaidAtPaystack, NotPaidAtPaystack, AskStep, WebhookArrives,
       StatusChecked, ReconcileOpen, ReconcileNotApplied, Ask, Process, DuplicateCharge,
       HoldBack, RecordNotPaid, NothingToRepair, CallFails, HourPasses
  <1>. QED
    BY <1>3, <1>4, <1>5, <1>6, <1>7 DEF TransferStep

\* GoodsAfterMoney in the words of the model, before and after a step.
LEMMA AllPaidMeans ==
    ASSUME NEW o \in Orders
    PROVE  /\ AllPaid(o) <=> \A t \in (IF o \in PayAfter THEN DueTypes ELSE {"fee"}) : Paid(o, t)
           /\ AllPaid(o)' <=> \A t \in (IF o \in PayAfter THEN DueTypes ELSE {"fee"}) : Paid(o, t)'
  <1>1. CASE o \in PayAfter
    BY <1>1 DEF AllPaid, DepositIn, DueTypes
  <1>2. CASE o \notin PayAfter
    BY <1>2 DEF AllPaid, DepositIn
  <1>. QED
    BY <1>1, <1>2

LEMMA GoodsAfterMoneyDef ==
    /\ GoodsAfterMoney <=>
        \A o \in Orders : order[o] \in {"handed_over", "completed"} => AllPaid(o)
    /\ GoodsAfterMoney' <=>
        \A o \in Orders : order'[o] \in {"handed_over", "completed"} => AllPaid(o)'
  BY AllPaidMeans DEF GoodsAfterMoney

\* Goods change hands, and orders are completed, only when all of the order was
\* paid, by card or by a confirmed bank transfer.
THEOREM GoodsAfterMoneyAlways == Spec => []GoodsAfterMoney
  <1>1. Init => GoodsAfterMoney
    BY DEF Init, GoodsAfterMoney
  <1>2. IInv /\ TypeOK' /\ GoodsAfterMoney /\ [Next]_vars => GoodsAfterMoney'
    <2>. SUFFICES ASSUME IInv, TypeOK', GoodsAfterMoney, [Next]_vars, NEW o \in Orders,
                         order'[o] \in {"handed_over", "completed"}
                  PROVE  AllPaid(o)'
      BY GoodsAfterMoneyDef
    <2>1. AllPaid(o) => AllPaid(o)'
      BY PaidStays DEF AllPaid, DepositIn
    <2>2. CASE order'[o] = order[o]
      BY <2>1, <2>2, GoodsAfterMoneyDef
    <2>3. CASE order'[o] # order[o]
      BY <2>1, <2>3, MovedWhenPaid
    <2>. QED
      BY <2>2, <2>3
  <1>3. IInv => TypeOK
    BY DEF IInv
  <1>. QED
    BY <1>1, <1>2, <1>3, Inductive, PTL DEF Spec

-----------------------------------------------------------------------------
(* What a step may never do, and the promise.                              *)

\* Only the two steps that apply a payment change the history of applied ones.
LEMMA AppliedBy ==
    ASSUME TypeOK, [Next]_vars, NEW r \in Refs, applied'[r] # applied[r]
    PROVE  ApplyPayment(r)
  <1>1. \E h \in Handlers : SettleCharge(h) \/ RepairOrderPayment(h)
    BY DEF Next, vars, CheckoutStep, StartPayment, LinkStored, DropAttempt,
       StartCrashes, PaystackStep, PaidAtPaystack, NotPaidAtPaystack, AskStep, WebhookArrives,
       StatusChecked, ReconcileOpen, ReconcileNotApplied, Ask, Process, DuplicateCharge,
       HoldBack, RecordNotPaid, NothingToRepair, CallFails, HourPasses, TransferStep,
       ReportTransfer, ConfirmTransfer, DisputeTransfer, RejectTransfer, FulfilStep,
       VendorConfirms, HandOver, VendorCompletes, BuyerReceives, AutoComplete, Cancel, OrderStep
  <1>2. PICK s \in Refs : ApplyPayment(s)
    BY <1>1, KindAtWork DEF SettleCharge, RepairOrderPayment, Call
  <1>3. s = r
    BY <1>2 DEF ApplyPayment, TypeOK
  <1>. QED
    BY <1>2, <1>3

\* A card payment, however late it is settled or repaired, never moves an order
\* that is past waiting for money.
THEOREM CardNeverMovesBackAlways == Spec => CardNeverMovesBack
  <1>1. TypeOK /\ [Next]_vars =>
            [\A r \in Refs : applied'[r] # applied[r] =>
                LET o == OrderOf[r] IN
                \/ order[o] \in {"pending", "payment_unresolved"}
                \/ order'[o] = order[o]]_vars
    <2>. SUFFICES ASSUME TypeOK, [Next]_vars, NEW r \in Refs, applied'[r] # applied[r],
                         order[OrderOf[r]] \notin {"pending", "payment_unresolved"}
                  PROVE  order'[OrderOf[r]] = order[OrderOf[r]]
      OBVIOUS
    <2>1. order' = [order EXCEPT ![OrderOf[r]] = MovedOn(OrderOf[r], due[r])]
      BY AppliedBy DEF ApplyPayment
    <2>. QED
      BY <2>1 DEF MovedOn, TypeOK
  <1>. QED
    BY <1>1, TypeCorrect, PTL DEF Spec, CardNeverMovesBack

LEMMA PromiseInit == Init => Promise!Init
  BY DEF Init, Promise!Init

\* Applying a taken payment settles it, and nothing else.
LEMMA PromiseApplied ==
    ASSUME IInv, NEW r \in Refs, ApplyPayment(r), paystack' = paystack,
           row[r] # "paid", paystack[r] = "success"
    PROVE  Promise!Settle
  <1>1. \A s \in Refs : row'[s] = "paid" <=> row[s] = "paid" \/ s = r
    BY DEF ApplyPayment, RowAfterPayment, IInv, TypeOK
  <1>. QED
    BY <1>1 DEF Promise!Settle

LEMMA PromiseStep == IInv /\ [Next]_vars =>
    [Promise!Next]_<<{r \in Refs : paystack[r] = "success"}, {r \in Refs : row[r] = "paid"}>>
  <1>. SUFFICES ASSUME IInv, [Next]_vars
                PROVE  \/ Promise!Next
                       \/ /\ {r \in Refs : paystack[r] = "success"}' =
                                {r \in Refs : paystack[r] = "success"}
                          /\ {r \in Refs : row[r] = "paid"}' = {r \in Refs : row[r] = "paid"}
    OBVIOUS
  <1>. USE DEF IInv, TypeOK
  <1>1. ASSUME NEW r \in Refs, StartPayment(r)
        PROVE  paystack' = paystack /\ \A s \in Refs : row'[s] = "paid" <=> row[s] = "paid"
    BY <1>1 DEF StartPayment, Ledger, OpenAttempts
  <1>2. ASSUME NEW r \in Refs, DropAttempt(r)
        PROVE  paystack' = paystack /\ \A s \in Refs : row'[s] = "paid" <=> row[s] = "paid"
    BY <1>2 DEF DropAttempt
  <1>3. ASSUME NEW r \in Refs, PaidAtPaystack(r)
        PROVE  \/ Promise!Take
               \/ UNCHANGED row /\ \A s \in Refs : paystack'[s] = "success" <=> paystack[s] = "success"
    <2>1. PICK took \in {"success", "short"} : paystack' = [paystack EXCEPT ![r] = took]
      BY <1>3 DEF PaidAtPaystack
    <2>2. row' = row /\ paystack[r] # "success"
      BY <1>3 DEF PaidAtPaystack
    <2>3. CASE took = "success"
      BY <2>1, <2>2, <2>3 DEF Promise!Take
    <2>4. CASE took = "short"
      BY <2>1, <2>2, <2>4
    <2>. QED
      BY <2>3, <2>4
  <1>4. ASSUME NEW r \in Refs, NotPaidAtPaystack(r)
        PROVE  UNCHANGED row /\ \A s \in Refs : paystack'[s] = "success" <=> paystack[s] = "success"
    BY <1>4 DEF NotPaidAtPaystack
  <1>5. ASSUME NEW h \in Handlers, SettleCharge(h) \/ RepairOrderPayment(h)
        PROVE  Promise!Settle
    <2>1. calls[h] # Idle /\ calls[h].ref \in Refs
      BY <1>5, KindAtWork DEF SettleCharge, RepairOrderPayment, Call
    <2>2. paystack[calls[h].ref] = "success" /\ row[calls[h].ref] # "paid"
      BY <1>5, <2>1 DEF SettleCharge, RepairOrderPayment, NeedsRepair, FullAmount, Settleable,
         Informed, Ledger
    <2>3. ApplyPayment(calls[h].ref) /\ paystack' = paystack
      BY <1>5 DEF SettleCharge, RepairOrderPayment
    <2>. QED
      BY <2>1, <2>2, <2>3, PromiseApplied
  <1>6. \/ \E r \in Refs : StartPayment(r) \/ DropAttempt(r) \/ PaystackStep(r)
        \/ \E h \in Handlers : SettleCharge(h) \/ RepairOrderPayment(h)
        \/ UNCHANGED <<row, paystack>>
    BY ZenonT(60) DEF Next, vars, orderVars, attemptVars, bankVars, CheckoutStep, LinkStored,
       StartCrashes, AskStep, WebhookArrives, StatusChecked, ReconcileOpen,
       ReconcileNotApplied, Ask, Process, DuplicateCharge, HoldBack, RecordNotPaid,
       NothingToRepair, CallFails, HourPasses, TransferStep, ReportTransfer, ConfirmTransfer,
       DisputeTransfer, RejectTransfer, FulfilStep, VendorConfirms, HandOver, VendorCompletes,
       BuyerReceives, AutoComplete, Cancel, OrderStep
  <1>. QED
    BY <1>1, <1>2, <1>3, <1>4, <1>5, <1>6 DEF Promise!Next, PaystackStep

\* The system keeps the promise of PaymentPromise: a payment is settled once, by
\* a step of its own, after Paystack took the money, and stays settled.
THEOREM PromiseKeptAlways == Spec => PromiseKept
  BY PromiseInit, PromiseStep, Inductive, PTL DEF Spec, PromiseKept, Promise!Spec
=============================================================================

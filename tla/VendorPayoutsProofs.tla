------------------------ MODULE VendorPayoutsProofs ------------------------
(***************************************************************************)
(* Proofs about VendorPayouts, for any payouts, number of overlapping runs *)
(* of the job, attempts and releases.  Type correctness, and with it the   *)
(* bound on the attempts, holds whatever fails.  That a worker is alone    *)
(* with its payout, that a payout shown as sent was sent and how its       *)
(* status moves need only that nobody else acts on a payout while a worker *)
(* is busy with it (~Overlap).  That money leaves once is proved where     *)
(* besides what Paystack answered can be recorded and a 5xx hides no       *)
(* transfer (Undisturbed): without that it is false.                       *)
(***************************************************************************)
EXTENDS VendorPayouts, TLAPS

USE PayoutAssumption

\* Paystack's answers are recorded, a 5xx means no transfer, and nobody else acts on a
\* payout while a worker is busy with it
Undisturbed == ~WriteFails /\ ~SentBehind5xx /\ ~Overlap

-----------------------------------------------------------------------------
(* Type correctness: the number of attempts passes its limit by one.       *)

Bounded == TypeOK /\ Tries

LEMMA BoundedInit == Init => Bounded
  BY DEF Init, Bounded, TypeOK, Tries, Statuses, Queued, Refs, Idle

\* A run of the job that is at work has a job.
LEMMA AtWork ==
    ASSUME TypeOK, NEW w \in Workers, worker[w] # Idle
    PROVE  /\ worker[w] \in Job
           /\ worker[w].payout \in Payouts
           /\ worker[w].ref \in Refs
           /\ worker[w].answer \in Answers
  BY DEF TypeOK, Job

LEMMA BusyWith ==
    ASSUME NEW w \in Workers, NEW answers, Answered(w, answers)
    PROVE  worker[w] # Idle
  BY DEF Answered

LEMMA BoundedShop ==
    ASSUME Bounded, NEW p \in Payouts,
           ShopStep(p) \/ Hold(p) \/ MarkManual(p) \/ HoldAtClaim(p)
    PROVE  Bounded'
  <1>. USE DEF Bounded, TypeOK, Tries, payoutVars, Statuses, Queued, Moves, Becomes
  <1>1. CASE Queue(p)
    BY <1>1 DEF Queue
  <1>2. CASE WithdrawNow(p)
    BY <1>2 DEF WithdrawNow
  <1>3. CASE AskWithdrawal(p)
    BY <1>3 DEF AskWithdrawal
  <1>4. CASE ApproveWithdrawal(p)
    BY <1>4 DEF ApproveWithdrawal
  <1>5. CASE EndWithdrawal(p)
    BY <1>5 DEF EndWithdrawal
  <1>6. CASE RaiseDispute(p) \/ ResolveDispute(p)
    BY <1>6 DEF RaiseDispute, ResolveDispute
  <1>7. CASE ReopenDispute(p)
    BY <1>7 DEF ReopenDispute
  <1>8. CASE HoldPending(p) \/ Hold(p) \/ HoldAtClaim(p)
    BY <1>8 DEF HoldPending, Hold, HoldAtClaim
  <1>9. CASE MarkManual(p)
    BY <1>9 DEF MarkManual
  <1>. QED
    BY <1>1, <1>2, <1>3, <1>4, <1>5, <1>6, <1>7, <1>8, <1>9 DEF ShopStep

LEMMA BoundedRelease ==
    ASSUME Bounded, NEW p \in Payouts, Release(p) \/ RequeueFailed(p)
    PROVE  Bounded'
  <1>. USE DEF Bounded, TypeOK, Tries, Becomes
  <1>0. status' = [status EXCEPT ![p] = "pending"] \/ status' = [status EXCEPT ![p] = "on_hold"]
    BY DEF Release, RequeueFailed
  <1>1. status' \in [Payouts -> Statuses]
    BY <1>0 DEF Statuses, Queued
  <1>2. CASE Release(p)
    <2>1. \/ RandomRef(releases[p]) \in Refs /\ releases[p] + 1 \in 0..MaxReleases
          \/ releases[p] >= MaxReleases
      BY DEF RandomRef, Refs
    <2>2. ref' \in [Payouts -> Refs]
      BY <1>2, <2>1 DEF Release, ReleasedRef
    <2>3. releases' \in [Payouts -> 0..MaxReleases]
      BY <1>2, <2>1 DEF Release, ReleasedRef
    <2>4. attempts' \in [Payouts -> 0..(MaxAttempts + 1)] /\ Tries'
      BY <1>2 DEF Release
    <2>. QED
      BY <1>1, <1>2, <2>2, <2>3, <2>4 DEF Release
  <1>3. CASE RequeueFailed(p)
    <2>1. Exhausted(p) \/ RetryRef(attempts[p]) \in Refs
      BY DEF Exhausted, RetryRef, Refs
    <2>2. ref' \in [Payouts -> Refs]
      BY <1>3, <2>1 DEF RequeueFailed
    <2>3. Tries'
      BY <1>3 DEF RequeueFailed, Exhausted
    <2>. QED
      BY <1>1, <1>3, <2>2, <2>3 DEF RequeueFailed
  <1>. QED
    BY <1>2, <1>3

LEMMA BoundedClaim ==
    ASSUME Bounded, NEW w \in Workers, NEW p \in Payouts, Claim(w, p)
    PROVE  Bounded'
  <1>1. worker' \in [Workers -> Job \cup {Idle}]
    BY DEF Bounded, TypeOK, Claim, Job, Answers
  <1>2. /\ attempts' \in [Payouts -> 0..(MaxAttempts + 1)]
        /\ Tries'
    BY DEF Bounded, TypeOK, Tries, Claim, Claimable, Becomes
  <1>. QED
    BY <1>1, <1>2 DEF Bounded, TypeOK, Claim, Becomes, Statuses

LEMMA OutcomeType ==
    ASSUME NEW t \in Final \cup {"none", "pending"}, NEW o \in Outcomes(t)
    PROVE  o[1] \in Final \cup {"none", "pending"} /\ o[2] \in Answers
  BY DEF Outcomes, NewTransfer, KnownReference, Final, Answers

LEMMA FoundType == ASSUME NEW t PROVE Found(t) \subseteq Answers
  BY DEF Found, Answers

LEMMA BoundedCall ==
    ASSUME Bounded, NEW w \in Workers, CallStep(w)
    PROVE  Bounded'
  <1>. DEFINE j == worker[w]
  <1>1. j # Idle /\ j \in Job /\ j.payout \in Payouts /\ j.ref \in Refs
    BY AtWork, BusyWith DEF Bounded, CallStep, InitiateTransfer, LookUp, Succeed, Fail, Requeue,
       Leave, WorkerStops
  <1>2. CASE InitiateTransfer(w)
    <2>1. PICK o \in Outcomes(transfer[j.payout][j.ref]) :
            /\ transfer' = [transfer EXCEPT ![j.payout][j.ref] = o[1]]
            /\ worker' = [worker EXCEPT ![w] = [j EXCEPT !.at = "answer", !.answer = o[2]]]
      BY <1>2 DEF InitiateTransfer
    <2>2. transfer[j.payout][j.ref] \in Final \cup {"none", "pending"}
      BY <1>1 DEF Bounded, TypeOK
    <2>3. o[1] \in Final \cup {"none", "pending"} /\ o[2] \in Answers
      BY <2>2, OutcomeType
    <2>4. [j EXCEPT !.at = "answer", !.answer = o[2]] \in Job
      BY <1>1, <2>3 DEF Job
    <2>. HIDE DEF j
    <2>5. worker' \in [Workers -> Job \cup {Idle}]
      BY <2>1, <2>4 DEF Bounded, TypeOK
    <2>6. transfer' \in [Payouts -> [Refs -> Final \cup {"none", "pending"}]]
      BY <1>1, <2>1, <2>3 DEF Bounded, TypeOK
    <2>. QED
      BY <1>2, <2>5, <2>6 DEF InitiateTransfer, Bounded, TypeOK, Tries, payoutVars
  <1>3. CASE LookUp(w)
    <2>1. PICK a \in Found(transfer[j.payout][j.ref]) : worker' = [worker EXCEPT ![w].answer = a]
      BY <1>3 DEF LookUp
    <2>2. worker' \in [Workers -> Job \cup {Idle}]
      BY <1>1, <2>1, FoundType DEF Bounded, TypeOK, Job
    <2>. QED
      BY <1>3, <2>2 DEF LookUp, Bounded, TypeOK, Tries, payoutVars
  <1>4. CASE Succeed(w) \/ Fail(w)
    BY <1>1, <1>4 DEF Succeed, Fail, Done, Becomes, Bounded, TypeOK, Tries, Statuses, Final
  <1>5. CASE Requeue(w)
    <2>1. /\ attempts' \in [Payouts -> 0..(MaxAttempts + 1)]
          /\ Tries'
      BY <1>1, <1>5 DEF Requeue, Becomes, Bounded, TypeOK, Tries
    <2>. QED
      BY <1>1, <1>5, <2>1 DEF Requeue, Done, Becomes, Bounded, TypeOK, Statuses, Queued
  <1>6. CASE Leave(w) \/ WorkerStops(w)
    BY <1>6 DEF Leave, WorkerStops, Done, Bounded, TypeOK, Tries, payoutVars
  <1>. QED
    BY <1>2, <1>3, <1>4, <1>5, <1>6 DEF CallStep

LEMMA HappenedType ==
    ASSUME TypeOK, NEW p \in Payouts, NEW r \in Refs
    PROVE  Happened(p, r) \subseteq Final
  BY DEF Happened, Final

LEMMA BoundedEvent ==
    ASSUME Bounded, NEW p \in Payouts, NEW r \in Refs, NEW to \in Final, NEW key \in Keys,
           HandleEvent(p, r, to, key)
    PROVE  Bounded'
  <1>1. status' \in [Payouts -> Statuses]
    BY DEF HandleEvent, Bounded, TypeOK, Statuses, Final
  <1>2. handled' \subseteq Events
    BY DEF HandleEvent, Bounded, TypeOK, Events
  <1>3. Tries'
    BY DEF HandleEvent, Bounded, TypeOK, Tries, Final
  <1>. QED
    BY <1>1, <1>2, <1>3 DEF HandleEvent, Bounded, TypeOK

LEMMA BoundedPaystack ==
    ASSUME Bounded, NEW p \in Payouts, PaystackStep(p)
    PROVE  Bounded'
  <1>1. CASE ReconcilePayout(p)
    BY <1>1, BoundedEvent DEF ReconcilePayout, Keys, Bounded, TypeOK
  <1>2. ASSUME NEW r \in Refs, TransferEnds(p, r) \/ TransferReversed(p, r)
        PROVE  Bounded'
    <2>0. PICK t \in Final : transfer' = [transfer EXCEPT ![p][r] = t]
      BY <1>2 DEF TransferEnds, TransferReversed, Final
    <2>1. transfer' \in [Payouts -> [Refs -> Final \cup {"none", "pending"}]]
      BY <2>0 DEF Bounded, TypeOK
    <2>. QED
      BY <1>2, <2>1 DEF TransferEnds, TransferReversed, Bounded, TypeOK, Tries, payoutVars
  <1>3. ASSUME NEW r \in Refs, TransferEvent(p, r)
        PROVE  Bounded'
    BY <1>3, BoundedEvent, HappenedType DEF TransferEvent, Keys, Bounded
  <1>. QED
    BY <1>1, <1>2, <1>3 DEF PaystackStep

LEMMA BoundedStep == Bounded /\ [Next]_vars => Bounded'
  <1>. SUFFICES ASSUME Bounded, [Next]_vars PROVE Bounded'
    OBVIOUS
  <1>1. CASE UNCHANGED vars
    BY <1>1 DEF vars, payoutVars, Bounded, TypeOK, Tries
  <1>. QED
    BY <1>1, BoundedShop, BoundedRelease, BoundedClaim, BoundedCall, BoundedPaystack
       DEF Next, AdminStep

\* Every reachable state is well typed: no sequence of retries, approvals and
\* releases counts more than one attempt beyond the limit or runs out of references.
THEOREM TypeCorrect == Spec => []TypeOK
  <1>1. Bounded => TypeOK
    BY DEF Bounded
  <1>. QED
    BY <1>1, BoundedInit, BoundedStep, PTL DEF Spec

-----------------------------------------------------------------------------
(* The steps of people and of the job, before a worker makes its call.     *)

\* Only p moves, and neither from nor to where a transfer puts it.
OnlyMoves(p) ==
    /\ status[p] \notin {"processing", "success"} /\ status'[p] # "success"
    /\ \A q \in Payouts \ {p} : status'[q] = status[q] /\ ref'[q] = ref[q]
    /\ UNCHANGED <<transfer, worker>>

LEMMA ShopMoves ==
    ASSUME Bounded, NEW p \in Payouts, ShopStep(p) \/ HoldAtClaim(p)
    PROVE  \/ UNCHANGED <<status, ref, transfer, worker>>
           \/ OnlyMoves(p) /\ status[p] \notin Final
  <1>. USE DEF OnlyMoves, Bounded, TypeOK, Final
  <1>1. CASE AskWithdrawal(p) \/ EndWithdrawal(p) \/ RaiseDispute(p) \/ ResolveDispute(p)
    BY <1>1 DEF AskWithdrawal, EndWithdrawal, RaiseDispute, ResolveDispute, payoutVars
  <1>2. CASE Queue(p) \/ WithdrawNow(p) \/ HoldPending(p) \/ HoldAtClaim(p)
    BY <1>2 DEF Queue, WithdrawNow, HoldPending, HoldAtClaim, Moves, Becomes
  <1>3. CASE ApproveWithdrawal(p)
    BY <1>3 DEF ApproveWithdrawal
  <1>4. CASE ReopenDispute(p)
    BY <1>4 DEF ReopenDispute
  <1>. QED
    BY <1>1, <1>2, <1>3, <1>4 DEF ShopStep

LEMMA AdminMoves ==
    ASSUME Bounded, NEW p \in Payouts, AdminStep(p) \/ RequeueFailed(p)
    PROVE  OnlyMoves(p) /\ Later(p)
  <1>. USE DEF OnlyMoves, Bounded, TypeOK, Becomes
  <1>1. CASE Release(p)
    BY <1>1 DEF Release, Releasable, ReleasedRef
  <1>2. CASE Hold(p) \/ MarkManual(p)
    BY <1>2 DEF Hold, MarkManual, Unpaid, Moves
  <1>3. CASE RequeueFailed(p)
    BY <1>3 DEF RequeueFailed
  <1>. QED
    BY <1>1, <1>2, <1>3 DEF AdminStep

-----------------------------------------------------------------------------
(* What needs no more than that nobody else acts on a payout while a       *)
(* worker is busy with it: a worker is alone with its payout, which still  *)
(* carries the reference it works for, and a transfer told to have arrived *)
(* did arrive.                                                             *)

BusyHere ==
    \A w \in Workers : worker[w] # Idle =>
        LET j == worker[w] IN
        /\ j.ref = ref[j.payout]
        /\ status[j.payout] \in Final \cup {"processing"}
        /\ j.at = "answer" /\ j.answer = "success"
              => transfer[j.payout][j.ref] \in {"success", "reversed"}
Alone == SuccessMeansSent /\ BusyHere /\ OneWorker

LEMMA AloneInit == Init => Alone
  BY DEF Init, Alone, SuccessMeansSent, BusyHere, OneWorker, Idle

LEMMA AloneKept ==
    ASSUME Alone, UNCHANGED <<status, ref, transfer, worker>>
    PROVE  Alone'
  BY DEF Alone, SuccessMeansSent, BusyHere, OneWorker

\* The payout of a busy worker, and that no other worker has it.
LEMMA Busy ==
    ASSUME Bounded, Alone, NEW w \in Workers, worker[w] # Idle
    PROVE  /\ worker[w].payout \in Payouts
           /\ worker[w].ref \in Refs
           /\ worker[w].ref = ref[worker[w].payout]
           /\ status[worker[w].payout] \in Final \cup {"processing"}
           /\ worker[w].at = "answer" /\ worker[w].answer = "success"
                 => transfer[worker[w].payout][worker[w].ref] \in {"success", "reversed"}
           /\ \A v \in Workers \ {w} :
                worker[v] # Idle => worker[v].payout \in Payouts \ {worker[w].payout}
  BY AtWork DEF Alone, BusyHere, OneWorker, Bounded

\* Nobody works on a payout that is queued.
LEMMA Unattended ==
    ASSUME Alone, NEW p \in Payouts, status[p] \notin Final \cup {"processing"}
    PROVE  ~Working(p)
  BY DEF Alone, BusyHere, Working

LEMMA AloneMoved ==
    ASSUME Bounded, Alone, NEW p \in Payouts, ~Working(p), OnlyMoves(p)
    PROVE  Alone'
  <1>1. \A w \in Workers : worker[w] # Idle => worker[w].payout \in Payouts \ {p}
    BY AtWork DEF Bounded, Working
  <1>2. SuccessMeansSent'
    BY DEF Alone, SuccessMeansSent, OnlyMoves
  <1>3. BusyHere'
    BY <1>1 DEF Alone, BusyHere, OnlyMoves
  <1>4. OneWorker'
    BY DEF Alone, OneWorker, OnlyMoves
  <1>. QED
    BY <1>2, <1>3, <1>4 DEF Alone

\* A worker takes a payout that no other worker has.
ClaimSteps(w, p) ==
    /\ status[p] = "pending" /\ status'[p] = "processing"
    /\ \A q \in Payouts \ {p} : status'[q] = status[q]
    /\ worker'[w] = [at |-> "call", payout |-> p, ref |-> ref[p], answer |-> "silence"]
    /\ \A v \in Workers \ {w} :
        /\ worker'[v] = worker[v]
        /\ worker[v] # Idle => worker[v].payout \in Payouts \ {p}
    /\ UNCHANGED <<ref, transfer>>

LEMMA ClaimAlone ==
    ASSUME Bounded, Alone, NEW w \in Workers, NEW p \in Payouts, Claim(w, p)
    PROVE  ClaimSteps(w, p)
  <1>1. status[p] = "pending"
    BY DEF Claim, Claimable
  <1>2. \A v \in Workers : worker[v] # Idle => worker[v].payout \in Payouts \ {p}
    BY <1>1, AtWork, Unattended DEF Working, Final, Bounded
  <1>. QED
    BY <1>1, <1>2 DEF ClaimSteps, Claim, Becomes, Bounded, TypeOK

LEMMA AloneClaim ==
    ASSUME Bounded, Alone, NEW w \in Workers, NEW p \in Payouts, Claim(w, p)
    PROVE  Alone'
  <1>0. ClaimSteps(w, p)
    BY ClaimAlone
  <1>1. SuccessMeansSent'
    BY <1>0 DEF ClaimSteps, Alone, SuccessMeansSent
  <1>2. BusyHere'
    BY <1>0 DEF ClaimSteps, Alone, BusyHere
  <1>3. OneWorker'
    BY <1>0 DEF ClaimSteps, Alone, OneWorker
  <1>. QED
    BY <1>1, <1>2, <1>3 DEF Alone

\* A call changes what became of the transfer, and what its worker was told.
LEMMA InitiateSteps ==
    ASSUME Bounded, NEW w \in Workers, InitiateTransfer(w)
    PROVE  LET j == worker[w] IN
           /\ j # Idle /\ j \in Job /\ j.at = "call"
           /\ \E o \in Outcomes(transfer[j.payout][j.ref]) :
                /\ transfer'[j.payout][j.ref] = o[1]
                /\ \A q \in Payouts, s \in Refs :
                        <<q, s>> # <<j.payout, j.ref>> => transfer'[q][s] = transfer[q][s]
                /\ worker'[w] = [at |-> "answer", payout |-> j.payout, ref |-> j.ref,
                                 answer |-> o[2]]
           /\ \A v \in Workers \ {w} : worker'[v] = worker[v]
           /\ UNCHANGED <<status, ref>>
  <1>. DEFINE j == worker[w]
  <1>1. j # Idle /\ j.at = "call" /\ UNCHANGED <<status, ref>>
    BY DEF InitiateTransfer, payoutVars
  <1>2. PICK o \in Outcomes(transfer[j.payout][j.ref]) :
            /\ transfer' = [transfer EXCEPT ![j.payout][j.ref] = o[1]]
            /\ worker' = [worker EXCEPT ![w] = [j EXCEPT !.at = "answer", !.answer = o[2]]]
    BY DEF InitiateTransfer
  <1>3. j \in Job /\ j.payout \in Payouts /\ j.ref \in Refs
    BY <1>1, AtWork DEF Bounded
  <1>4. /\ worker'[w] = [at |-> "answer", payout |-> j.payout, ref |-> j.ref, answer |-> o[2]]
        /\ \A v \in Workers \ {w} : worker'[v] = worker[v]
    BY <1>2, <1>3 DEF Bounded, TypeOK, Job
  <1>5. /\ transfer'[j.payout][j.ref] = o[1]
        /\ \A q \in Payouts, s \in Refs :
                <<q, s>> # <<j.payout, j.ref>> => transfer'[q][s] = transfer[q][s]
    BY <1>2, <1>3 DEF Bounded, TypeOK
  <1>. QED
    BY <1>1, <1>3, <1>4, <1>5

LEMMA OutcomeSent ==
    ASSUME NEW t, NEW o \in Outcomes(t)
    PROVE  /\ t # "none" => o[1] = t
           /\ o[2] = "success" => o[1] = "success"
  BY DEF Outcomes, NewTransfer, KnownReference

LEMMA FoundTrue ==
    ASSUME NEW t, NEW a \in Found(t)
    PROVE  /\ a \in TryLater \cup {"refused"} => t \notin {"pending", "success"}
           /\ a = "success" => t = "success"
  BY DEF Found, TryLater

LEMMA AloneInitiate ==
    ASSUME Bounded, Alone, NEW w \in Workers, InitiateTransfer(w)
    PROVE  Alone'
  <1>. DEFINE j == worker[w]
  <1>1. /\ j # Idle /\ UNCHANGED <<status, ref>>
        /\ \A v \in Workers \ {w} : worker'[v] = worker[v]
    BY InitiateSteps
  <1>2. PICK o \in Outcomes(transfer[j.payout][j.ref]) :
            /\ transfer'[j.payout][j.ref] = o[1]
            /\ \A q \in Payouts, s \in Refs :
                    <<q, s>> # <<j.payout, j.ref>> => transfer'[q][s] = transfer[q][s]
            /\ worker'[w] = [at |-> "answer", payout |-> j.payout, ref |-> j.ref,
                             answer |-> o[2]]
    BY InitiateSteps
  <1>3. /\ transfer[j.payout][j.ref] # "none" => o[1] = transfer[j.payout][j.ref]
        /\ o[2] = "success" => o[1] = "success"
    BY OutcomeSent
  <1>4. \A q \in Payouts, s \in Refs :
            transfer[q][s] \in {"success", "reversed"} => transfer'[q][s] = transfer[q][s]
    BY <1>2, <1>3
  <1>5. SuccessMeansSent'
    BY <1>1, <1>4 DEF Alone, SuccessMeansSent, Bounded, TypeOK
  <1>6. ASSUME NEW v \in Workers, worker'[v] # Idle
        PROVE  /\ worker'[v].ref = ref'[worker'[v].payout]
               /\ status'[worker'[v].payout] \in Final \cup {"processing"}
               /\ worker'[v].at = "answer" /\ worker'[v].answer = "success"
                    => transfer'[worker'[v].payout][worker'[v].ref] \in {"success", "reversed"}
    <2>1. CASE v = w
      BY <1>1, <1>2, <1>3, <2>1, Busy
    <2>2. CASE v # w
      <3>1. worker'[v] = worker[v] /\ worker[v] # Idle
        BY <1>1, <1>6, <2>2
      <3>. QED
        BY <1>1, <1>4, <3>1, Busy
    <2>. QED
      BY <2>1, <2>2
  <1>7. OneWorker'
    BY <1>1, <1>2 DEF Alone, OneWorker
  <1>. QED
    BY <1>5, <1>6, <1>7 DEF Alone, BusyHere

LEMMA LookUpSteps ==
    ASSUME Bounded, NEW w \in Workers, LookUp(w)
    PROVE  LET j == worker[w] IN
           /\ j # Idle
           /\ \E a \in Found(transfer[j.payout][j.ref]) :
                worker'[w] = [at |-> "answer", payout |-> j.payout, ref |-> j.ref, answer |-> a]
           /\ \A v \in Workers \ {w} : worker'[v] = worker[v]
           /\ UNCHANGED <<status, ref, transfer>>
  <1>1. worker[w] # Idle /\ worker[w].at = "answer" /\ UNCHANGED <<status, ref, transfer>>
    BY DEF LookUp, Answered, payoutVars
  <1>2. worker[w] \in Job
    BY <1>1, AtWork DEF Bounded
  <1>. QED
    BY <1>1, <1>2 DEF LookUp, Bounded, TypeOK, Job

LEMMA AloneLookUp ==
    ASSUME Bounded, Alone, NEW w \in Workers, LookUp(w)
    PROVE  Alone'
  <1>. DEFINE j == worker[w]
  <1>1. /\ j # Idle /\ UNCHANGED <<status, ref, transfer>>
        /\ \A v \in Workers \ {w} : worker'[v] = worker[v]
    BY LookUpSteps
  <1>2. PICK a \in Found(transfer[j.payout][j.ref]) :
            worker'[w] = [at |-> "answer", payout |-> j.payout, ref |-> j.ref, answer |-> a]
    BY LookUpSteps
  <1>3. a = "success" => transfer[j.payout][j.ref] = "success"
    BY FoundTrue
  <1>4. BusyHere'
    BY <1>1, <1>2, <1>3 DEF Alone, BusyHere
  <1>5. OneWorker'
    BY <1>1, <1>2 DEF Alone, OneWorker
  <1>. QED
    BY <1>1, <1>4, <1>5 DEF Alone, SuccessMeansSent

\* A worker that is done, whatever it recorded, leaves the others as they are.
DoneSteps(w) ==
    /\ worker[w] # Idle /\ worker'[w] = Idle
    /\ \A v \in Workers \ {w} : worker'[v] = worker[v]
    /\ \A q \in Payouts \ {worker[w].payout} : status'[q] = status[q]
    /\ UNCHANGED <<ref, transfer>>

LEMMA CallEnds ==
    ASSUME Bounded, NEW w \in Workers,
           Succeed(w) \/ Fail(w) \/ Requeue(w) \/ Leave(w) \/ WorkerStops(w)
    PROVE  /\ DoneSteps(w)
           /\ \/ status' = status
              \/ /\ worker[w].at = "answer" /\ worker[w].answer = "success"
                 /\ status'[worker[w].payout] = "success"
              \/ /\ worker[w].at = "answer" /\ worker[w].answer \in TryLater \cup {"refused"}
                 /\ status'[worker[w].payout] \in {"failed", "pending"}
  <1>. USE DEF DoneSteps, Done, Becomes, Bounded, TypeOK
  <1>1. CASE Succeed(w)
    BY <1>1, AtWork DEF Succeed, Answered, SentAnswer
  <1>2. CASE Fail(w) \/ Requeue(w)
    BY <1>2, AtWork DEF Fail, Requeue, Answered
  <1>3. CASE Leave(w) \/ WorkerStops(w)
    BY <1>3 DEF Leave, WorkerStops, Answered, payoutVars
  <1>. QED
    BY <1>1, <1>2, <1>3

LEMMA AloneEnds ==
    ASSUME Bounded, Alone, NEW w \in Workers,
           Succeed(w) \/ Fail(w) \/ Requeue(w) \/ Leave(w) \/ WorkerStops(w)
    PROVE  Alone'
  <1>1. DoneSteps(w)
    BY CallEnds
  <1>2. SuccessMeansSent'
    <2>1. status'[worker[w].payout] = "success"
             => transfer[worker[w].payout][ref[worker[w].payout]] \in {"success", "reversed"}
      BY <1>1, CallEnds, Busy DEF DoneSteps, Alone, SuccessMeansSent
    <2>. QED
      BY <1>1, <2>1 DEF DoneSteps, Alone, SuccessMeansSent
  <1>3. BusyHere'
    BY <1>1, Busy DEF DoneSteps, Alone, BusyHere
  <1>4. OneWorker'
    BY <1>1 DEF DoneSteps, Alone, OneWorker
  <1>. QED
    BY <1>2, <1>3, <1>4 DEF Alone

\* An event leaves the payout as it is, or ends it in the way that happened.
LEMMA EventSteps ==
    ASSUME Bounded, NEW p \in Payouts, NEW r \in Refs, NEW key, NEW to \in Happened(p, r),
           HandleEvent(p, r, to, key)
    PROVE  /\ UNCHANGED <<ref, transfer, worker>>
           /\ \/ status' = status
              \/ /\ status'[p] = to /\ to \in Final
                 /\ \A q \in Payouts \ {p} : status'[q] = status[q]
                 /\ to = "success" => transfer[p][ref[p]] \in {"success", "reversed"}
                 /\ to # "success" => transfer[p][ref[p]] \notin {"pending", "success"}
                 /\ transfer[p][ref[p]] # "none"
  <1>1. CASE ~(ref[p] = r /\ MovesTo(status[p], to))
    BY <1>1 DEF HandleEvent, Bounded, TypeOK
  <1>2. CASE ref[p] = r /\ MovesTo(status[p], to)
    BY <1>2 DEF HandleEvent, Happened, Final, Bounded, TypeOK
  <1>. QED
    BY <1>1, <1>2

LEMMA AloneEvent ==
    ASSUME Bounded, Alone, NEW p \in Payouts, NEW r \in Refs, NEW key,
           NEW to \in Happened(p, r), HandleEvent(p, r, to, key)
    PROVE  Alone'
  <1>1. SuccessMeansSent'
    BY EventSteps DEF Alone, SuccessMeansSent
  <1>2. BusyHere'
    <2>1. \A q \in Payouts :
            status[q] \in Final \cup {"processing"} => status'[q] \in Final \cup {"processing"}
      BY EventSteps
    <2>. QED
      BY <2>1, EventSteps, Busy DEF BusyHere
  <1>3. OneWorker'
    BY EventSteps DEF Alone, OneWorker
  <1>. QED
    BY <1>1, <1>2, <1>3 DEF Alone

LEMMA ReconcileIsEvent ==
    ASSUME Bounded, NEW p \in Payouts, ReconcilePayout(p)
    PROVE  /\ ref[p] \in Refs /\ transfer[p][ref[p]] \in Happened(p, ref[p])
           /\ HandleEvent(p, ref[p], transfer[p][ref[p]], "reconcile")
  BY DEF ReconcilePayout, Happened, Final, Bounded, TypeOK

\* A transfer that ends, or comes back.
LEMMA EndSteps ==
    ASSUME Bounded, NEW p \in Payouts, NEW r \in Refs,
           TransferEnds(p, r) \/ TransferReversed(p, r)
    PROVE  /\ UNCHANGED <<status, ref, worker>>
           /\ \/ transfer[p][r] = "pending" /\ transfer'[p][r] \in {"success", "failed"}
              \/ transfer[p][r] = "success" /\ transfer'[p][r] = "reversed" /\ Later(p)
           /\ \A q \in Payouts, s \in Refs :
                <<q, s>> # <<p, r>> => transfer'[q][s] = transfer[q][s]
  BY DEF TransferEnds, TransferReversed, Bounded, TypeOK, payoutVars

LEMMA AlonePaystack ==
    ASSUME Bounded, Alone, NEW p \in Payouts, PaystackStep(p)
    PROVE  Alone'
  <1>1. CASE ReconcilePayout(p)
    BY <1>1, ReconcileIsEvent, AloneEvent
  <1>2. ASSUME NEW r \in Refs, TransferEvent(p, r)
        PROVE  Alone'
    BY <1>2, AloneEvent DEF TransferEvent
  <1>3. ASSUME NEW r \in Refs, TransferEnds(p, r) \/ TransferReversed(p, r)
        PROVE  Alone'
    <2>1. \A q \in Payouts, s \in Refs :
            transfer[q][s] \in {"success", "reversed"} => transfer'[q][s] \in {"success", "reversed"}
      BY <1>3, EndSteps
    <2>2. SuccessMeansSent'
      BY <1>3, <2>1, EndSteps DEF Alone, SuccessMeansSent, Bounded, TypeOK
    <2>3. BusyHere'
      BY <1>3, <2>1, EndSteps, Busy DEF BusyHere
    <2>4. OneWorker'
      BY <1>3, EndSteps DEF Alone, OneWorker
    <2>. QED
      BY <2>2, <2>3, <2>4 DEF Alone
  <1>. QED
    BY <1>1, <1>2, <1>3 DEF PaystackStep

LEMMA AloneStep ==
    ASSUME ~Overlap
    PROVE  Bounded /\ Alone /\ [Next]_vars => Alone'
  <1>. SUFFICES ASSUME Bounded, Alone, [Next]_vars PROVE Alone'
    OBVIOUS
  <1>1. CASE UNCHANGED vars
    BY <1>1, AloneKept DEF vars, payoutVars
  <1>2. ASSUME NEW p \in Payouts, ShopStep(p) \/ HoldAtClaim(p)
        PROVE  Alone'
    <2>1. CASE UNCHANGED <<status, ref, transfer, worker>>
      BY <2>1, AloneKept
    <2>2. CASE OnlyMoves(p) /\ status[p] \notin Final
      <3>1. ~Working(p)
        BY <2>2, Unattended DEF OnlyMoves
      <3>. QED
        BY <2>2, <3>1, AloneMoved
    <2>. QED
      BY <1>2, <2>1, <2>2, ShopMoves
  <1>3. ASSUME NEW p \in Payouts, AdminStep(p) \/ RequeueFailed(p)
        PROVE  Alone'
    BY <1>3, AdminMoves, AloneMoved DEF Later
  <1>4. ASSUME NEW w \in Workers, CallStep(w)
        PROVE  Alone'
    BY <1>4, AloneInitiate, AloneLookUp, AloneEnds DEF CallStep
  <1>. QED
    BY <1>1, <1>2, <1>3, <1>4, AloneClaim, AlonePaystack DEF Next

\* However the answers of Paystack are recorded and whatever a 5xx hides, no two runs of
\* the job work on one payout, and a run works for the reference its payout still carries.
THEOREM WorkersApart ==
    ASSUME ~Overlap
    PROVE  Spec => [](Alone /\ Bounded)
  BY BoundedInit, BoundedStep, AloneInit, AloneStep, PTL DEF Spec

\* A payout shown as sent was sent, even when the write of an answer failed or a 5xx hid a
\* transfer.
THEOREM SuccessMeansSentAlways ==
    ASSUME ~Overlap
    PROVE  Spec => []SuccessMeansSent
  <1>1. Alone => SuccessMeansSent
    BY DEF Alone
  <1>. QED
    BY <1>1, WorkersApart, PTL

-----------------------------------------------------------------------------
(* The rest of the invariant, with the transfers that are live said one by *)
(* one.                                                                    *)

LiveHere ==
    \A p \in Payouts, r \in Refs :
        transfer[p][r] \in {"pending", "success"} =>
            r = ref[p] /\ status[p] \in {"processing", "success"}
Told == \A w \in Workers : worker[w] # Idle => ToldTrue(worker[w])

LEMMA LiveSaid == (LiveIsCurrent <=> LiveHere) /\ (LiveIsCurrent' <=> LiveHere')
  BY DEF LiveIsCurrent, LiveHere, Live

Core == LiveHere /\ Told

LEMMA CoreMeans ==
    (IInv <=> Bounded /\ Alone /\ Core) /\ (IInv' <=> Bounded' /\ Alone' /\ Core')
  BY LiveSaid DEF IInv, Core, Told, ToldTrue, Alone, BusyHere, BusyIsCurrent, Bounded

LEMMA CoreInit == Init => Core
  BY DEF Init, Core, LiveHere, Told, Refs, Idle

LEMMA CoreKept ==
    ASSUME Core, UNCHANGED <<status, ref, transfer, worker>>
    PROVE  Core'
  BY DEF Core, LiveHere, Told, ToldTrue

\* A payout that nobody works on, and that has no money out, may be given any status
\* but "success", and any reference.
LEMMA CoreMoved ==
    ASSUME Bounded, Core, NEW p \in Payouts, ~Working(p), OnlyMoves(p)
    PROVE  Core'
  <1>1. \A w \in Workers : worker[w] # Idle => worker[w].payout \in Payouts \ {p}
    BY AtWork DEF Bounded, Working
  <1>2. LiveHere'
    BY DEF Core, LiveHere, OnlyMoves
  <1>3. Told'
    BY <1>1 DEF Core, Told, ToldTrue, OnlyMoves
  <1>. QED
    BY <1>2, <1>3 DEF Core

LEMMA CoreClaim ==
    ASSUME Bounded, Alone, Core, NEW w \in Workers, NEW p \in Payouts, Claim(w, p)
    PROVE  Core'
  <1>0. ClaimSteps(w, p)
    BY ClaimAlone
  <1>1. LiveHere'
    BY <1>0 DEF ClaimSteps, Core, LiveHere
  <1>2. ASSUME NEW v \in Workers, worker'[v] # Idle
        PROVE  ToldTrue(worker[v])'
    <2>1. CASE v = w
      <3>1. ref[p] \in Refs /\ transfer[p][ref[p]] \notin {"pending", "success"}
        BY <1>0 DEF ClaimSteps, Core, LiveHere, Bounded, TypeOK
      <3>. QED
        BY <2>1, <3>1, <1>0 DEF ClaimSteps, ToldTrue, TryLater
    <2>2. CASE v # w
      BY <1>2, <2>2, <1>0 DEF ClaimSteps, Core, Told, ToldTrue
    <2>. QED
      BY <2>1, <2>2
  <1>. QED
    BY <1>1, <1>2 DEF Core, Told

\* What may be answered agrees with what became of the transfer.
LEMMA OutcomeTrue ==
    ASSUME Undisturbed, NEW t, NEW o \in Outcomes(t), t \notin {"pending", "success"}
    PROVE  /\ o[1] = "none" => t = "none"
           /\ t # "none" => o[1] = t
           /\ o[2] \in TryLater \cup {"refused"} => o[1] \notin {"pending", "success"}
           /\ o[2] = "success" => o[1] = "success"
  BY DEF Undisturbed, Outcomes, NewTransfer, KnownReference, TryLater

LEMMA CoreInitiate ==
    ASSUME Bounded, Alone, Core, Undisturbed, NEW w \in Workers, InitiateTransfer(w)
    PROVE  Core'
  <1>. DEFINE j == worker[w]
              p == j.payout
              r == j.ref
  <1>1. /\ j # Idle /\ j.at = "call" /\ UNCHANGED <<status, ref>>
        /\ \A v \in Workers \ {w} : worker'[v] = worker[v]
    BY InitiateSteps
  <1>2. PICK o \in Outcomes(transfer[p][r]) :
            /\ transfer'[p][r] = o[1]
            /\ \A q \in Payouts, s \in Refs : <<q, s>> # <<p, r>> => transfer'[q][s] = transfer[q][s]
            /\ worker'[w] = [at |-> "answer", payout |-> p, ref |-> r, answer |-> o[2]]
    BY InitiateSteps
  <1>3. /\ p \in Payouts /\ r \in Refs /\ r = ref[p]
        /\ \A v \in Workers \ {w} : worker[v] # Idle => worker[v].payout \in Payouts \ {p}
    BY <1>1, Busy
  <1>4. /\ transfer[p][r] \notin {"pending", "success"}
        /\ transfer[p][r] = "none" => status[p] = "processing"
    BY <1>1 DEF Core, Told, ToldTrue
  <1>5. /\ o[1] = "none" => transfer[p][r] = "none"
        /\ transfer[p][r] # "none" => o[1] = transfer[p][r]
        /\ o[2] \in TryLater \cup {"refused"} => o[1] \notin {"pending", "success"}
        /\ o[2] = "success" => o[1] = "success"
    BY <1>4, OutcomeTrue
  <1>. HIDE DEF j, p, r
  <1>6. LiveHere'
    BY <1>1, <1>2, <1>3, <1>4, <1>5 DEF Core, LiveHere
  <1>7. ASSUME NEW v \in Workers, worker'[v] # Idle
        PROVE  ToldTrue(worker[v])'
    <2>1. CASE v = w
      BY <1>1, <1>2, <1>3, <1>4, <1>5, <2>1 DEF ToldTrue
    <2>2. CASE v # w
      <3>1. /\ worker'[v] = worker[v] /\ worker[v] # Idle
            /\ worker[v].payout \in Payouts \ {p} /\ worker[v].ref \in Refs
        BY <1>1, <1>3, <1>7, <2>2, AtWork DEF Bounded
      <3>2. transfer'[worker[v].payout][worker[v].ref] = transfer[worker[v].payout][worker[v].ref]
        BY <1>2, <3>1
      <3>. QED
        BY <1>1, <3>1, <3>2 DEF Core, Told, ToldTrue
    <2>. QED
      BY <2>1, <2>2
  <1>. QED
    BY <1>6, <1>7 DEF Core, Told

LEMMA CoreLookUp ==
    ASSUME Bounded, Core, NEW w \in Workers, LookUp(w)
    PROVE  Core'
  <1>. DEFINE j == worker[w]
  <1>1. /\ j # Idle /\ UNCHANGED <<status, ref, transfer>>
        /\ \A v \in Workers \ {w} : worker'[v] = worker[v]
    BY LookUpSteps
  <1>2. PICK a \in Found(transfer[j.payout][j.ref]) :
            worker'[w] = [at |-> "answer", payout |-> j.payout, ref |-> j.ref, answer |-> a]
    BY LookUpSteps
  <1>3. /\ a \in TryLater \cup {"refused"} => transfer[j.payout][j.ref] \notin {"pending", "success"}
        /\ a = "success" => transfer[j.payout][j.ref] = "success"
    BY FoundTrue
  <1>4. Told'
    BY <1>1, <1>2, <1>3 DEF Core, Told, ToldTrue
  <1>. QED
    BY <1>1, <1>4 DEF Core, LiveHere

LEMMA CoreEnds ==
    ASSUME Bounded, Alone, Core, NEW w \in Workers,
           Succeed(w) \/ Fail(w) \/ Requeue(w) \/ Leave(w) \/ WorkerStops(w)
    PROVE  Core'
  <1>. DEFINE p == worker[w].payout
  <1>1. DoneSteps(w)
    BY CallEnds
  <1>2. /\ p \in Payouts /\ worker[w].ref = ref[p]
        /\ ToldTrue(worker[w])
    BY <1>1, Busy DEF DoneSteps, Core, Told
  <1>3. \/ status' = status
        \/ status'[p] = "success" /\ transfer[p][ref[p]] = "success"
        \/ status'[p] # "success" /\ transfer[p][ref[p]] \notin {"pending", "success"}
    BY <1>2, CallEnds DEF ToldTrue
  <1>4. LiveHere'
    BY <1>1, <1>2, <1>3 DEF DoneSteps, Core, LiveHere
  <1>5. Told'
    BY <1>1, Busy DEF DoneSteps, Core, Told, ToldTrue
  <1>. QED
    BY <1>4, <1>5 DEF Core

-----------------------------------------------------------------------------
(* What Paystack does, and what is heard of it.                            *)

LEMMA CoreEvent ==
    ASSUME Bounded, Alone, Core, NEW p \in Payouts, NEW r \in Refs, NEW key,
           NEW to \in Happened(p, r), HandleEvent(p, r, to, key)
    PROVE  Core'
  <1>1. LiveHere'
    BY EventSteps DEF Core, LiveHere
  <1>2. ASSUME NEW w \in Workers, worker[w] # Idle
        PROVE  ToldTrue(worker[w])'
    <2>1. CASE worker[w].payout = p
      BY <1>2, <2>1, EventSteps, Busy DEF Core, Told, ToldTrue
    <2>2. CASE worker[w].payout # p
      BY <1>2, <2>2, EventSteps, Busy DEF Core, Told, ToldTrue
    <2>. QED
      BY <2>1, <2>2
  <1>. QED
    BY <1>1, <1>2, EventSteps DEF Core, Told

LEMMA CorePaystack ==
    ASSUME Bounded, Alone, Core, Undisturbed, NEW p \in Payouts, PaystackStep(p)
    PROVE  Core'
  <1>1. CASE ReconcilePayout(p)
    BY <1>1, ReconcileIsEvent, CoreEvent
  <1>2. ASSUME NEW r \in Refs, TransferEvent(p, r)
        PROVE  Core'
    BY <1>2, CoreEvent DEF TransferEvent
  <1>3. ASSUME NEW r \in Refs, TransferEnds(p, r) \/ TransferReversed(p, r)
        PROVE  Core'
    <2>1. \/ transfer[p][r] = "pending"
          \/ transfer[p][r] = "success" /\ transfer'[p][r] = "reversed" /\ ~Working(p)
      BY <1>3, EndSteps DEF Later, Undisturbed
    <2>2. LiveHere'
      BY <1>3, <2>1, EndSteps DEF Core, LiveHere
    <2>3. ASSUME NEW w \in Workers, worker[w] # Idle
          PROVE  ToldTrue(worker[w])'
      <3>1. CASE worker[w].payout = p /\ worker[w].ref = r
        BY <1>3, <2>1, <2>3, <3>1, EndSteps DEF Core, Told, ToldTrue, Working
      <3>2. CASE <<worker[w].payout, worker[w].ref>> # <<p, r>>
        BY <1>3, <2>3, <3>2, EndSteps, Busy DEF Core, Told, ToldTrue
      <3>. QED
        BY <3>1, <3>2
    <2>. QED
      BY <1>3, <2>2, <2>3, EndSteps DEF Core, Told
  <1>. QED
    BY <1>1, <1>2, <1>3 DEF PaystackStep

LEMMA IInvInit == Init => IInv
  BY BoundedInit, AloneInit, CoreInit, CoreMeans

LEMMA CoreStep ==
    ASSUME Undisturbed, Bounded, Alone, Core, [Next]_vars
    PROVE  Core'
  <1>1. CASE UNCHANGED vars
    BY <1>1, CoreKept DEF vars, payoutVars
  <1>2. ASSUME NEW p \in Payouts, ShopStep(p) \/ HoldAtClaim(p)
        PROVE  Core'
    <2>1. CASE UNCHANGED <<status, ref, transfer, worker>>
      BY <2>1, CoreKept
    <2>2. CASE OnlyMoves(p) /\ status[p] \notin Final
      <3>1. ~Working(p)
        BY <2>2, Unattended DEF OnlyMoves
      <3>. QED
        BY <2>2, <3>1, CoreMoved
    <2>. QED
      BY <1>2, <2>1, <2>2, ShopMoves
  <1>3. ASSUME NEW p \in Payouts, AdminStep(p) \/ RequeueFailed(p)
        PROVE  Core'
    BY <1>3, AdminMoves, CoreMoved DEF Later, Undisturbed
  <1>4. ASSUME NEW w \in Workers, CallStep(w)
        PROVE  Core'
    BY <1>4, CoreInitiate, CoreLookUp, CoreEnds DEF CallStep
  <1>. QED
    BY <1>1, <1>2, <1>3, <1>4, CoreClaim, CorePaystack DEF Next

LEMMA IInvStep ==
    ASSUME Undisturbed
    PROVE  IInv /\ [Next]_vars => IInv'
  BY BoundedStep, AloneStep, CoreStep, CoreMeans DEF Undisturbed

\* The invariant the other results rest on: money is live only under the reference
\* its payout carries, and a busy worker works for that reference, alone.
THEOREM Inductive ==
    ASSUME Undisturbed
    PROVE  Spec => []IInv
  BY IInvInit, IInvStep, PTL DEF Spec

-----------------------------------------------------------------------------
(* What follows from the invariant.                                        *)

LEMMA OutOnce ==
    ASSUME IInv, NEW p \in Payouts
    PROVE  \A a, b \in Out(p) : a = b
  <1>1. CASE Live(p) = {}
    BY <1>1 DEF Out
  <1>2. CASE Live(p) # {}
    <2>1. Live(p) = {ref[p]} /\ status[p] \in {"processing", "success"}
      BY <1>2 DEF IInv, LiveIsCurrent
    <2>. QED
      BY <2>1 DEF Out
  <1>. QED
    BY <1>1, <1>2

\* The earnings of an order are never out twice.
THEOREM PaidOutOnceAlways ==
    ASSUME Undisturbed
    PROVE  Spec => []PaidOutOnce
  <1>1. IInv => PaidOutOnce
    BY OutOnce DEF PaidOutOnce
  <1>. QED
    BY <1>1, Inductive, PTL

LEMMA NewReference ==
    ASSUME IInv, NEW p \in Payouts, [Next]_vars, ref'[p] # ref[p]
    PROVE  Live(p) = {}
  <1>1. PICK q \in Payouts : Release(q) \/ RequeueFailed(q)
    BY DEF Next, vars, payoutVars, ShopStep, Queue, WithdrawNow, AskWithdrawal, ApproveWithdrawal,
       EndWithdrawal, RaiseDispute, ResolveDispute, ReopenDispute, HoldPending, AdminStep, Hold,
       MarkManual, HoldAtClaim, Moves, Claim, CallStep, InitiateTransfer, LookUp, Succeed, Fail,
       Requeue, Leave, WorkerStops, PaystackStep, ReconcilePayout, TransferEnds,
       TransferReversed, TransferEvent, HandleEvent
  <1>2. q = p
    BY <1>1 DEF Release, ReleasedRef, RequeueFailed, IInv, TypeOK
  <1>3. status[p] \notin {"processing", "success"}
    BY <1>1, <1>2 DEF Release, Releasable, RequeueFailed
  <1>. QED
    BY <1>3 DEF IInv, LiveIsCurrent

\* A new reference is drawn only when no transfer of the payout may stand.
THEOREM NewReferenceAfterNoAlways ==
    ASSUME Undisturbed
    PROVE  Spec => NewReferenceAfterNo
  <1>1. IInv /\ [Next]_vars => [\A p \in Payouts : ref'[p] # ref[p] => ref[p] \notin Live(p)]_vars
    BY NewReference
  <1>. QED
    BY <1>1, Inductive, PTL DEF Spec, NewReferenceAfterNo

-----------------------------------------------------------------------------
(* How the status of a payout may change.                                  *)

\* An event never moves a settled payout, nor one whose transfer stands.
LEMMA EventStatus ==
    ASSUME Bounded, NEW p \in Payouts, NEW q \in Payouts, NEW r \in Refs, NEW key,
           NEW to \in Happened(q, r), HandleEvent(q, r, to, key), status'[p] # status[p]
    PROVE  /\ p = q /\ r = ref[p] /\ status'[p] \in Final
           /\ status[p] \in Queued \cup {"processing", "success"}
           /\ status[p] = "success" => transfer[p][ref[p]] = "reversed"
  <1>1. /\ p = q /\ ref[p] = r /\ MovesTo(status[p], to) /\ status'[p] = to
    BY DEF HandleEvent, Bounded, TypeOK
  <1>. QED
    BY <1>1 DEF MovesTo, Happened, Final, Queued

LEMMA PaystackStatus ==
    ASSUME Bounded, NEW p \in Payouts, NEW q \in Payouts, PaystackStep(q), status'[p] # status[p]
    PROVE  /\ p = q /\ status'[p] \in Final
           /\ status[p] \in Queued \cup {"processing", "success"}
           /\ status[p] = "success" => transfer[p][ref[p]] = "reversed"
  <1>1. CASE ReconcilePayout(q)
    <2>1. transfer[q][ref[q]] \in Happened(q, ref[q]) /\ ref[q] \in Refs
      BY <1>1 DEF ReconcilePayout, Happened, Final, Bounded, TypeOK
    <2>. QED
      BY <1>1, <2>1, EventStatus DEF ReconcilePayout
  <1>2. ASSUME NEW r \in Refs, TransferEvent(q, r)
        PROVE  /\ p = q /\ status'[p] \in Final
               /\ status[p] \in Queued \cup {"processing", "success"}
               /\ status[p] = "success" => transfer[p][ref[p]] = "reversed"
    BY <1>2, EventStatus DEF TransferEvent
  <1>. QED
    BY <1>1, <1>2 DEF PaystackStep, TransferEnds, TransferReversed, payoutVars

\* People and the job move a payout only from a status in which it waits.
LEMMA PeopleStatus ==
    ASSUME Bounded, NEW p \in Payouts, NEW q \in Payouts,
           \/ ShopStep(q) \/ AdminStep(q) \/ RequeueFailed(q) \/ HoldAtClaim(q)
           \/ \E w \in Workers : Claim(w, q),
           status'[p] # status[p]
    PROVE  /\ p = q /\ status[p] \in Queued \cup {"none", "failed", "reversed"}
           /\ status'[p] \in {"processing", "to_wallet"} => p \notin disputed
  <1>. USE DEF Bounded, TypeOK, Becomes, Queued
  <1>1. CASE ShopStep(q)
    BY <1>1 DEF ShopStep, Queue, WithdrawNow, AskWithdrawal, ApproveWithdrawal, EndWithdrawal,
       RaiseDispute, ResolveDispute, ReopenDispute, HoldPending, Moves, payoutVars
  <1>2. CASE AdminStep(q) \/ RequeueFailed(q) \/ HoldAtClaim(q)
    BY <1>2 DEF AdminStep, Release, Releasable, Hold, MarkManual, Unpaid, RequeueFailed,
       HoldAtClaim, Moves
  <1>3. CASE \E w \in Workers : Claim(w, q)
    BY <1>3 DEF Claim, Claimable
  <1>. QED
    BY <1>1, <1>2, <1>3

\* A worker writes only what it was told.
LEMMA CallStatus ==
    ASSUME Bounded, Alone, NEW p \in Payouts, NEW w \in Workers, CallStep(w),
           status'[p] # status[p]
    PROVE  /\ p = worker[w].payout /\ worker[w] # Idle
           /\ status[p] \in Final \cup {"processing"}
           /\ status'[p] \in {"success", "failed", "pending"}
           /\ status'[p] # "success"
                => worker[w].at = "answer" /\ worker[w].answer \in TryLater \cup {"refused"}
  <1>1. CASE Succeed(w) \/ Fail(w) \/ Requeue(w) \/ Leave(w) \/ WorkerStops(w)
    BY <1>1, CallEnds, Busy DEF DoneSteps
  <1>2. CASE InitiateTransfer(w) \/ LookUp(w)
    BY <1>2 DEF InitiateTransfer, LookUp, payoutVars
  <1>. QED
    BY <1>1, <1>2 DEF CallStep

LEMMA ByHandStep ==
    ASSUME Bounded, Alone, [Next]_vars, NEW p \in Payouts
    PROVE  /\ status[p] \in {"paid_manually", "to_wallet"} => status'[p] = status[p]
           /\ status[p] \in {"processing", "success"}
                => status'[p] \notin {"paid_manually", "to_wallet"}
  <1>. SUFFICES ASSUME status'[p] # status[p]
                PROVE  /\ status[p] \notin {"paid_manually", "to_wallet"}
                       /\ status[p] \in {"processing", "success"}
                            => status'[p] \notin {"paid_manually", "to_wallet"}
    OBVIOUS
  <1>1. Next
    BY DEF vars, payoutVars
  <1>2. ASSUME NEW q \in Payouts, PaystackStep(q)
        PROVE  status'[p] \in Final /\ status[p] \in Queued \cup {"processing", "success"}
    BY <1>2, PaystackStatus
  <1>3. ASSUME NEW q \in Payouts,
               \/ ShopStep(q) \/ AdminStep(q) \/ RequeueFailed(q) \/ HoldAtClaim(q)
               \/ \E w \in Workers : Claim(w, q)
        PROVE  status[p] \in Queued \cup {"none", "failed", "reversed"}
    BY <1>3, PeopleStatus
  <1>4. ASSUME NEW w \in Workers, CallStep(w)
        PROVE  /\ status[p] \in Final \cup {"processing"}
               /\ status'[p] \in {"success", "failed", "pending"}
    BY <1>4, CallStatus
  <1>. QED
    BY <1>1, <1>2, <1>3, <1>4 DEF Next, Final, Queued

\* A payout settled by hand or into the wallet is left alone for good, also when the write
\* of an answer failed or a 5xx hid a transfer: no late event, retry, release or dispute
\* puts it back into the queue.
SettledByHandStays ==
    [][\A p \in Payouts :
        status[p] \in {"paid_manually", "to_wallet"} => status'[p] = status[p]]_vars

THEOREM SettledByHandStaysAlways ==
    ASSUME ~Overlap
    PROVE  Spec => SettledByHandStays
  <1>1. Alone /\ Bounded /\ [Next]_vars =>
            [\A p \in Payouts :
                status[p] \in {"paid_manually", "to_wallet"} => status'[p] = status[p]]_vars
    BY ByHandStep
  <1>. QED
    BY <1>1, WorkersApart, PTL DEF Spec, SettledByHandStays

LEMMA SettledStep ==
    ASSUME IInv, [Next]_vars, NEW p \in Payouts
    PROVE  /\ status[p] = "success" /\ ref[p] \in Live(p) => status'[p] = "success"
           /\ status[p] \in {"paid_manually", "to_wallet"} => status'[p] = status[p]
  <1>0. Bounded /\ Alone /\ Core
    BY CoreMeans
  <1>1. SUFFICES ASSUME status[p] = "success", status'[p] # "success"
                 PROVE  transfer[p][ref[p]] \notin {"pending", "success"}
    BY <1>0, ByHandStep DEF Live
  <1>2. Next
    BY <1>1 DEF vars, payoutVars
  <1>3. ASSUME NEW q \in Payouts, PaystackStep(q)
        PROVE  transfer[p][ref[p]] = "reversed"
    BY <1>0, <1>1, <1>3, PaystackStatus
  <1>4. ASSUME NEW q \in Payouts,
               \/ ShopStep(q) \/ AdminStep(q) \/ RequeueFailed(q) \/ HoldAtClaim(q)
               \/ \E w \in Workers : Claim(w, q)
        PROVE  FALSE
    BY <1>0, <1>1, <1>4, PeopleStatus DEF Queued
  <1>5. ASSUME NEW w \in Workers, CallStep(w)
        PROVE  transfer[p][ref[p]] \notin {"pending", "success"}
    <2>1. /\ p = worker[w].payout /\ worker[w] # Idle /\ worker[w].at = "answer"
          /\ worker[w].answer \in TryLater \cup {"refused"}
      BY <1>0, <1>1, <1>5, CallStatus
    <2>. QED
      BY <1>0, <2>1, Busy DEF Core, Told, ToldTrue
  <1>. QED
    BY <1>2, <1>3, <1>4, <1>5 DEF Next

\* While a transfer stands its payout stays "success"; by hand and wallet stay too.
THEOREM SettledStaysAlways ==
    ASSUME Undisturbed
    PROVE  Spec => SettledStays
  <1>1. IInv /\ [Next]_vars =>
            [\A p \in Payouts :
                /\ status[p] = "success" /\ ref[p] \in Live(p) => status'[p] = "success"
                /\ status[p] \in {"paid_manually", "to_wallet"} => status'[p] = status[p]]_vars
    BY SettledStep
  <1>. QED
    BY <1>1, Inductive, PTL DEF Spec, SettledStays

\* As Refunds has to see it: a payout moves only in the ways of PayoutMoves.
LEMMA ShownMoves ==
    ASSUME Bounded, Alone, [Next]_vars, NEW p \in Payouts, PM!Shown(status[p]) # PM!Shown(status'[p])
    PROVE  <<PM!Shown(status[p]), PM!Shown(status'[p])>> \in PM!Moves
  <1>0. status'[p] # status[p]
    OBVIOUS
  <1>1. Next
    BY DEF vars, payoutVars
  <1>2. ASSUME NEW q \in Payouts, PaystackStep(q)
        PROVE  <<PM!Shown(status[p]), PM!Shown(status'[p])>> \in PM!Moves
    <2>1. status'[p] \in Final /\ status[p] \in Queued \cup {"processing", "success"}
      BY <1>0, <1>2, PaystackStatus
    <2>. QED
      BY <2>1 DEF PM!Shown, PM!Moves, PM!Ended, Final, Queued
  <1>3. ASSUME NEW q \in Payouts, ShopStep(q)
        PROVE  <<PM!Shown(status[p]), PM!Shown(status'[p])>> \in PM!Moves
    <2>1. \/ status[p] = "none" /\ status'[p] = "waiting"
          \/ status[p] \in {"waiting", "on_hold"} /\ status'[p] \in {"pending", "to_wallet"}
          \/ status[p] = "pending" /\ status'[p] \in {"waiting", "on_hold"}
      BY <1>0, <1>3 DEF ShopStep, Queue, WithdrawNow, AskWithdrawal, ApproveWithdrawal,
         EndWithdrawal, RaiseDispute, ResolveDispute, ReopenDispute, HoldPending, Moves, Becomes,
         payoutVars, Bounded, TypeOK
    <2>. QED
      BY <2>1 DEF PM!Shown, PM!Moves, PM!Ended
  <1>4. ASSUME NEW q \in Payouts, AdminStep(q) \/ RequeueFailed(q) \/ HoldAtClaim(q)
        PROVE  <<PM!Shown(status[p]), PM!Shown(status'[p])>> \in PM!Moves
    <2>1. \/ status[p] \in {"waiting", "on_hold", "failed", "reversed"} /\ status'[p] = "pending"
          \/ status[p] \in {"pending", "failed"} /\ status'[p] = "on_hold"
          \/ /\ status[p] \in {"pending", "waiting", "on_hold", "failed", "reversed"}
             /\ status'[p] = "paid_manually"
      BY <1>0, <1>4 DEF AdminStep, Release, Releasable, Hold, MarkManual, Unpaid, RequeueFailed,
         HoldAtClaim, Moves, Becomes, Bounded, TypeOK
    <2>. QED
      BY <2>1 DEF PM!Shown, PM!Moves, PM!Ended
  <1>5. ASSUME NEW q \in Payouts, NEW w \in Workers, Claim(w, q)
        PROVE  <<PM!Shown(status[p]), PM!Shown(status'[p])>> \in PM!Moves
    <2>1. status[p] = "pending" /\ status'[p] = "processing"
      BY <1>0, <1>5 DEF Claim, Claimable, Becomes, Bounded, TypeOK
    <2>. QED
      BY <2>1 DEF PM!Shown, PM!Moves
  <1>6. ASSUME NEW w \in Workers, CallStep(w)
        PROVE  <<PM!Shown(status[p]), PM!Shown(status'[p])>> \in PM!Moves
    <2>1. /\ status[p] \in Final \cup {"processing"}
          /\ status'[p] \in {"success", "failed", "pending"}
      BY <1>0, <1>6, CallStatus
    <2>. QED
      BY <2>1 DEF PM!Shown, PM!Moves, PM!Ended, Final
  <1>. QED
    BY <1>1, <1>2, <1>3, <1>4, <1>5, <1>6 DEF Next

\* A payout moves in no way but those Refunds reckons with, also when the write of an answer
\* failed or a 5xx hid a transfer.
THEOREM StatusMovesAlways ==
    ASSUME ~Overlap
    PROVE  Spec => StatusMoves
  <1>1. Alone /\ Bounded /\ [Next]_vars =>
            [\A p \in Payouts :
                LET a == PM!Shown(status[p])
                    b == PM!Shown(status'[p]) IN
                a # b => <<a, b>> \in PM!Moves]_vars
    BY ShownMoves
  <1>. QED
    BY <1>1, WorkersApart, PTL DEF Spec, StatusMoves

\* While a dispute is open no money starts to leave, whatever else goes wrong.
THEOREM DisputeHoldsAlways == Spec => DisputeHolds
  <1>1. ASSUME Bounded, [Next]_vars, NEW p \in Payouts, p \in disputed,
               status'[p] \in {"processing", "to_wallet"}, status'[p] # status[p]
        PROVE  FALSE
    <2>1. Next
      BY <1>1 DEF vars, payoutVars
    <2>2. ASSUME NEW q \in Payouts,
                 \/ ShopStep(q) \/ AdminStep(q) \/ RequeueFailed(q) \/ HoldAtClaim(q)
                 \/ \E w \in Workers : Claim(w, q)
          PROVE  FALSE
      BY <1>1, <2>2, PeopleStatus
    <2>3. ASSUME NEW q \in Payouts, PaystackStep(q) PROVE FALSE
      BY <1>1, <2>3, PaystackStatus DEF Final
    <2>4. ASSUME NEW w \in Workers, CallStep(w) PROVE FALSE
      BY <1>1, <2>4 DEF CallStep, Succeed, Fail, Requeue, InitiateTransfer, LookUp, Leave,
         WorkerStops, Becomes, payoutVars, Bounded, TypeOK
    <2>. QED
      BY <2>1, <2>2, <2>3, <2>4 DEF Next
  <1>2. Bounded /\ [Next]_vars =>
            [\A p \in Payouts :
                p \in disputed /\ status'[p] \in {"processing", "to_wallet"}
                    => status'[p] = status[p]]_vars
    BY <1>1
  <1>. QED
    BY <1>2, BoundedInit, BoundedStep, PTL DEF Spec, DisputeHolds

-----------------------------------------------------------------------------
(* The promise of PaidOnce.                                                *)

LEMMA OutIsOne ==
    ASSUME IInv, NEW p \in Payouts
    PROVE  /\ Live(p) # {} => Out(p) = {<<"transfer", ref[p]>>}
           /\ status[p] = "paid_manually" => Out(p) = {<<"by_hand", 0>>}
           /\ status[p] = "to_wallet" => Out(p) = {<<"wallet", 0>>}
           /\ Live(p) = {} /\ status[p] \notin {"paid_manually", "to_wallet"} => Out(p) = {}
  <1>1. Live(p) \subseteq {ref[p]} /\ (Live(p) # {} => status[p] \in {"processing", "success"})
    BY DEF IInv, LiveIsCurrent
  <1>. QED
    BY <1>1 DEF Out

LEMMA OutIsOneNext ==
    ASSUME IInv', NEW p \in Payouts
    PROVE  /\ Live(p)' # {} => Out(p)' = {<<"transfer", ref'[p]>>}
           /\ status'[p] = "paid_manually" => Out(p)' = {<<"by_hand", 0>>}
           /\ status'[p] = "to_wallet" => Out(p)' = {<<"wallet", 0>>}
           /\ Live(p)' = {} /\ status'[p] \notin {"paid_manually", "to_wallet"} => Out(p)' = {}
  <1>1. /\ Live(p)' \subseteq {ref'[p]}
        /\ Live(p)' # {} => status'[p] \in {"processing", "success"}
    BY DEF IInv, LiveIsCurrent
  <1>. QED
    BY <1>1 DEF Out

\* A step concerns one payout.
LEMMA OnePayout ==
    ASSUME Bounded, [Next]_vars, NEW p \in Payouts,
           status'[p] # status[p] \/ transfer'[p] # transfer[p]
    PROVE  \A q \in Payouts \ {p} : status'[q] = status[q] /\ transfer'[q] = transfer[q]
  <1>1. Next
    BY DEF vars, payoutVars
  <1>2. ASSUME NEW o \in Payouts,
               \/ ShopStep(o) \/ AdminStep(o) \/ RequeueFailed(o) \/ HoldAtClaim(o)
               \/ \E w \in Workers : Claim(w, o)
        PROVE  /\ transfer' = transfer
               /\ \A q \in Payouts \ {o} : status'[q] = status[q]
    <2>1. transfer' = transfer
      BY <1>2 DEF ShopStep, Queue, WithdrawNow, AskWithdrawal, ApproveWithdrawal, EndWithdrawal,
         RaiseDispute, ResolveDispute, ReopenDispute, HoldPending, AdminStep, Release, Hold,
         MarkManual, RequeueFailed, HoldAtClaim, Claim, Moves
    <2>. QED
      BY <1>2, <2>1, PeopleStatus
  <1>3. ASSUME NEW w \in Workers, CallStep(w)
        PROVE  \A q \in Payouts \ {worker[w].payout} :
                    status'[q] = status[q] /\ transfer'[q] = transfer[q]
    BY <1>3 DEF CallStep, InitiateTransfer, LookUp, Succeed, Fail, Requeue, Leave, WorkerStops,
       Becomes, payoutVars, Bounded, TypeOK
  <1>4. ASSUME NEW o \in Payouts, PaystackStep(o)
        PROVE  \A q \in Payouts \ {o} : status'[q] = status[q] /\ transfer'[q] = transfer[q]
    <2>1. \A q \in Payouts \ {o} : transfer'[q] = transfer[q]
      BY <1>4 DEF PaystackStep, ReconcilePayout, TransferEnds, TransferReversed, TransferEvent,
         HandleEvent, Bounded, TypeOK
    <2>. QED
      BY <1>4, <2>1, PaystackStatus
  <1>. QED
    BY <1>1, <1>2, <1>3, <1>4 DEF Next

LEMMA OutStep ==
    ASSUME IInv, IInv', [Next]_vars, NEW p \in Payouts
    PROVE  Out(p)' = Out(p) \/ Out(p) = {} \/ Out(p)' = {}
  <1>1. CASE status[p] \in {"paid_manually", "to_wallet"}
    <2>1. status'[p] = status[p]
      BY <1>1, ByHandStep, CoreMeans
    <2>2. /\ status[p] = "paid_manually" => Out(p) = {<<"by_hand", 0>>}
          /\ status[p] = "to_wallet" => Out(p) = {<<"wallet", 0>>}
      BY OutIsOne
    <2>3. /\ status'[p] = "paid_manually" => Out(p)' = {<<"by_hand", 0>>}
          /\ status'[p] = "to_wallet" => Out(p)' = {<<"wallet", 0>>}
      BY OutIsOneNext
    <2>. QED
      BY <1>1, <2>1, <2>2, <2>3
  <1>2. CASE Live(p) # {}
    <2>1. status[p] \in {"processing", "success"} /\ Out(p) = {<<"transfer", ref[p]>>}
      BY <1>2, OutIsOne DEF IInv, LiveIsCurrent
    <2>2. ref'[p] = ref[p] /\ status'[p] \notin {"paid_manually", "to_wallet"}
      BY <1>2, <2>1, NewReference, ByHandStep, CoreMeans
    <2>3. /\ Live(p)' # {} => Out(p)' = {<<"transfer", ref'[p]>>}
          /\ Live(p)' = {} /\ status'[p] \notin {"paid_manually", "to_wallet"} => Out(p)' = {}
      BY OutIsOneNext
    <2>. QED
      BY <2>1, <2>2, <2>3
  <1>3. CASE Live(p) = {} /\ status[p] \notin {"paid_manually", "to_wallet"}
    BY <1>3, OutIsOne
  <1>. QED
    BY <1>1, <1>2, <1>3

LEMMA PromiseInit == Init => Promise!Init
  BY DEF Init, Promise!Init, Out, Live, Refs

LEMMA PromiseStep ==
    IInv /\ IInv' /\ [Next]_vars => [Promise!Next]_([p \in Payouts |-> Out(p)])
  <1>. DEFINE out == [p \in Payouts |-> Out(p)]
  <1>. SUFFICES ASSUME IInv, IInv', [Next]_vars, out' # out
                PROVE  Promise!Next
    OBVIOUS
  <1>0. Bounded
    BY DEF IInv, Bounded
  <1>1. PICK p \in Payouts : Out(p)' # Out(p)
    OBVIOUS
  <1>2. status'[p] # status[p] \/ transfer'[p] # transfer[p]
    BY <1>1 DEF Out, Live
  <1>3. \A q \in Payouts \ {p} : Out(q)' = Out(q)
    BY <1>0, <1>2, OnePayout DEF Out, Live
  <1>4. out' = [out EXCEPT ![p] = Out(p)']
    BY <1>3
  <1>5. Out(p) = {} \/ Out(p)' = {}
    BY <1>1, OutStep
  <1>6. CASE Out(p)' = {}
    <2>1. out[p] # {} /\ out' = [out EXCEPT ![p] = {}]
      BY <1>1, <1>4, <1>6
    <2>. QED
      BY <2>1 DEF Promise!Next, Promise!ComesBack
  <1>7. CASE Out(p)' # {}
    <2>1. ref'[p] \in Refs
      BY DEF IInv, TypeOK
    <2>2. \E w \in ({"transfer"} \X Refs) \cup {<<"by_hand", 0>>, <<"wallet", 0>>} : Out(p)' = {w}
      <3>1. /\ Live(p)' # {} => Out(p)' = {<<"transfer", ref'[p]>>}
            /\ status'[p] = "paid_manually" => Out(p)' = {<<"by_hand", 0>>}
            /\ status'[p] = "to_wallet" => Out(p)' = {<<"wallet", 0>>}
            /\ Live(p)' = {} /\ status'[p] \notin {"paid_manually", "to_wallet"} => Out(p)' = {}
        BY OutIsOneNext
      <3>. QED
        BY <1>7, <2>1, <3>1
    <2>3. out[p] = {}
      BY <1>5, <1>7
    <2>. QED
      BY <1>4, <2>2, <2>3 DEF Promise!Next, Promise!Pay
  <1>. QED
    BY <1>6, <1>7

\* VendorPayouts implements PaidOnce: the money leaves in one way at a time, and in
\* another only after it came back.
THEOREM PromiseKeptAlways ==
    ASSUME Undisturbed
    PROVE  Spec => PromiseKept
  BY Inductive, PromiseInit, PromiseStep, PTL DEF Spec, PromiseKept, Promise!Spec
=============================================================================

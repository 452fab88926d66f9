--------------------------- MODULE RefundsProofs ---------------------------
(***************************************************************************)
(* Proofs about Refunds, for any payments, units, overlapping runs of the  *)
(* job, and bounds, in layers, each under no more than it needs.  Type     *)
(* correctness, and that only the newest row of a payment is under way     *)
(* (Opened), hold whatever happens.  That a row is refunded once (Once)    *)
(* needs only that no run overtakes another's look-up.  That the rows show *)
(* what became of the money (Core) also needs that the faults of Calm do   *)
(* not happen, and that the shop and the buyer never have the same money,  *)
(* that no order is cancelled after its payout left (Ordinary).  For each  *)
(* of these the model checker shows what happens otherwise.                *)
(***************************************************************************)
EXTENDS Refunds, TLAPS

USE RefundAssumption

\* A 5xx means that no refund was made, Paystack does not retry a refund it gave up, and
\* no run overtakes another's look-up.
Calm == ~SentBehind5xx /\ ~Retried /\ ~Overlap

\* And no order is cancelled once its payout has left.
Ordinary == Calm /\ ~LateCancel

-----------------------------------------------------------------------------
(* Type correctness.                                                       *)

LEMMA TypeInit == Init => TypeOK
  BY DEF Init, TypeOK, PayoutStatuses, NoRow, Row

\* A run that is at work has a row, and what it has learnt is about refunds.
LEMMA AtWork ==
    ASSUME TypeOK, NEW r \in Runs, run[r] # Idle
    PROVE  /\ run[r].row \in Keys
           /\ run[r].at = "listed" => run[r].found \subseteq Ids
           /\ run[r].at = "answer" => run[r].id \subseteq Ids
  BY DEF TypeOK, Job

LEMMA IdleIsIdle == Idle.at = "idle"
  BY DEF Idle

\* Writing one row.
LEMMA OneStatus ==
    ASSUME TypeOK, NEW x \in Keys,
           NEW s \in {"none", "pending", "processing", "processed", "failed"}
    PROVE  [rows EXCEPT ![x].status = s] \in [Keys -> Row]
  BY DEF TypeOK, Row

LEMMA OneId ==
    ASSUME TypeOK, NEW x \in Keys, NEW i \in SUBSET Ids
    PROVE  [rows EXCEPT ![x].id = i] \in [Keys -> Row]
  BY ZenonT(60) DEF TypeOK, Row

LEMMA OneEnd ==
    ASSUME TypeOK, NEW x \in Keys, NEW s \in {"processed", "failed"}, NEW i \in Ids
    PROVE  [rows EXCEPT ![x].status = s, ![x].id = {i}] \in [Keys -> Row]
  BY ZenonT(60) DEF TypeOK, Row

Truths == {"none", "pending", "processed", "failed", "retried"}
LEMMA OneRefund ==
    ASSUME TypeOK, NEW x \in Keys, NEW n \in 1..MaxSends, NEW t \in Truths
    PROVE  [made EXCEPT ![x][n] = t] \in [Keys -> [1..MaxSends -> Truths]]
  <1>1. made[x] \in [1..MaxSends -> Truths]
    BY DEF TypeOK, Truths
  <1>2. [made[x] EXCEPT ![n] = t] \in [1..MaxSends -> Truths]
    BY <1>1
  <1>. QED
    BY <1>2 DEF TypeOK, Truths

\* What the call leaves behind: no refund, or the n-th of the row.
Answer(x, a, i) == [at |-> "answer", row |-> x, answer |-> a, id |-> i]
Learns(r, a, i) == run' = [run EXCEPT ![r] = Answer(run[r].row, a, i)]
NotMade(r, a) == made' = made /\ Learns(r, a, {})
Made(r, n) ==
    /\ run[r].row[2] \notin ByWallet
    /\ made[run[r].row][n] = "none"
    /\ made' = [made EXCEPT ![run[r].row][n] = "pending"]
    /\ \/ Learns(r, "ok", {<<run[r].row, n>>})
       \/ Learns(r, "unknown", {})
       \/ SentBehind5xx /\ Learns(r, "unavailable", {})
LEMMA Created ==
    ASSUME TypeOK, NEW r \in Runs, CreateRefund(r)
    PROVE  /\ run[r].at = "call" /\ run[r].row \in Keys
           /\ UNCHANGED <<orderVars, payoutVars, rowVars, handled>>
           /\ \/ \E a \in NotOk : NotMade(r, a)
              \/ \E n \in 1..MaxSends : Made(r, n)
  <1>1. run[r].row \in Keys
    BY AtWork, IdleIsIdle DEF CreateRefund
  <1>. QED
    BY <1>1 DEF CreateRefund, Becomes, Answer, NotOk, NotMade, Made, Learns

LEMMA AnswerRun ==
    ASSUME TypeOK, NEW r \in Runs, run[r].row \in Keys,
           NEW a \in {"ok", "refused", "unavailable", "unknown"}, NEW i \in SUBSET Ids
    PROVE  Learns(r, a, i) => run' \in [Runs -> Job \cup {Idle}]
  <1>1. Answer(run[r].row, a, i) \in Job
    BY DEF Answer, Job
  <1>. QED
    BY <1>1 DEF TypeOK, Learns

LEMMA TypeQueue ==
    ASSUME TypeOK, NEW parts, \A p \in Payments : parts[p] \subseteq Units, Queue(parts)
    PROVE  batches' \in 0..MaxBatches /\ rows' \in [Keys -> Row]
  <1>1. batches' \in 0..MaxBatches
    BY DEF TypeOK, Queue
  <1>2. \A x \in Keys : x[2] \in Payments
    BY DEF Keys
  <1>3. \A x \in Keys : NewRow(parts[x[2]]) \in Row
    BY <1>2 DEF NewRow, NoRow, Row
  <1>4. \A x \in Keys : rows[x] \in Row
    BY DEF TypeOK
  <1>5. rows' \in [Keys -> Row]
    BY <1>3, <1>4 DEF Queue
  <1>. QED
    BY <1>1, <1>5

LEMMA TypeOrder == ASSUME TypeOK, OrderStep PROVE TypeOK'
  <1>1. CASE Complete \/ \E p \in Payments : Pay(p)
    BY <1>1 DEF TypeOK, Complete, Pay, PayoutStatuses, payoutVars, rowVars
  <1>2. CASE Cancel
    <2>1. /\ order' = "cancelled"
          /\ Queue([p \in Payments |-> IF Refundable(p) THEN UnitsOf(p) ELSE {}])
          /\ UNCHANGED <<paid, payoutVars, credited, made, handled, run>>
      BY <1>2 DEF Cancel
    <2>2. batches' \in 0..MaxBatches /\ rows' \in [Keys -> Row]
      BY <2>1, TypeQueue DEF UnitsOf
    <2>. QED
      BY <2>1, <2>2 DEF TypeOK, payoutVars
  <1>3. CASE \E to \in PayoutStatuses : PayoutMove(to)
    <2>1. Free \subseteq Units
      BY DEF Free, AllPaid
    <2>. QED
      BY <1>3, <2>1 DEF PayoutMove, TypeOK, orderVars, rowVars
  <1>4. CASE \E W \in SUBSET Units : RefundOrder(W)
    <2>1. PICK W \in SUBSET Units : RefundOrder(W)
      BY <1>4
    <2>2. batches' \in 0..MaxBatches /\ rows' \in [Keys -> Row]
      BY <2>1, TypeQueue DEF RefundOrder
    <2>3. payout' \in PayoutStatuses /\ (order = "open" => payout' = "none")
      BY <2>1 DEF RefundOrder, HoldsPayout, TypeOK, PayoutStatuses
    <2>. QED
      BY <2>1, <2>2, <2>3 DEF RefundOrder, TypeOK, orderVars
  <1>. QED
    BY <1>1, <1>2, <1>3, <1>4 DEF OrderStep

LEMMA TypeRun == ASSUME TypeOK, NEW r \in Runs, RunStep(r) PROVE TypeOK'
  <1>1. CASE \E x \in Keys : CreditWallet(r, x)
    <2>1. rows' \in [Keys -> Row]
      BY ZenonT(60), <1>1, OneStatus DEF CreditWallet, SetStatus
    <2>. QED
      BY <1>1, <2>1 DEF CreditWallet, TypeOK, orderVars, payoutVars
  <1>2. CASE \E x \in Keys : TakeNext(r, x)
    <2>1. PICK x \in Keys : TakeNext(r, x)
      BY <1>2
    <2>2. [at |-> "call", row |-> x] \in Job
      BY DEF Job
    <2>3. rows' \in [Keys -> Row]
      BY <2>1, OneStatus DEF TakeNext, SetStatus
    <2>. QED
      BY <2>1, <2>2, <2>3 DEF TakeNext, Becomes, TypeOK, orderVars, payoutVars
  <1>3. CASE \E x \in Keys : ListRefunds(r, x)
    <2>1. PICK x \in Keys : ListRefunds(r, x)
      BY <1>3
    <2>2. [at |-> "listed", row |-> x, found |-> MadeOf(x[2])] \in Job
      BY DEF Job, MadeOf
    <2>. QED
      BY <2>1, <2>2 DEF ListRefunds, Becomes, TypeOK, orderVars, payoutVars, rowVars
  <1>4. CASE CreateRefund(r)
    <2>1. run[r].row \in Keys
      BY <1>4, Created
    <2>2. \A n \in 1..MaxSends : {<<run[r].row, n>>} \in SUBSET Ids
      BY <2>1 DEF Ids
    <2>3. CASE \E a \in NotOk : NotMade(r, a)
      <3>1. run' \in [Runs -> Job \cup {Idle}] /\ made' = made
        BY <2>1, <2>3, AnswerRun DEF NotOk, NotMade
      <3>. QED
        BY <1>4, <3>1, Created DEF TypeOK, orderVars, payoutVars, rowVars
    <2>4. CASE \E n \in 1..MaxSends : Made(r, n)
      <3>1. PICK n \in 1..MaxSends : Made(r, n)
        BY <2>4
      <3>2. run' \in [Runs -> Job \cup {Idle}]
        BY <2>1, <2>2, <3>1, AnswerRun DEF Made
      <3>3. "pending" \in Truths
        BY DEF Truths
      <3>4. made' \in [Keys -> [1..MaxSends -> Truths]]
        BY <2>1, <3>1, <3>3, OneRefund DEF Made
      <3>. QED
        BY <1>4, <3>2, <3>4, Created DEF TypeOK, Truths, orderVars, payoutVars, rowVars
    <2>. QED
      BY <1>4, <2>3, <2>4, Created
  <1>5. CASE MarkSent(r)
    <2>1. run[r].row \in Keys /\ run[r].id \subseteq Ids
      BY <1>5, AtWork, IdleIsIdle DEF MarkSent, Answered
    <2>2. rows' \in [Keys -> Row]
      BY <1>5, <2>1, OneId DEF MarkSent
    <2>. QED
      BY <1>5, <2>2 DEF MarkSent, Becomes, TypeOK, orderVars, payoutVars
  <1>6. CASE MarkFailed(r)
    <2>1. run[r].row \in Keys
      BY <1>6, AtWork, IdleIsIdle DEF MarkFailed, Answered
    <2>2. rows' \in [Keys -> Row]
      BY <1>6, <2>1, OneStatus DEF MarkFailed, SetStatus
    <2>. QED
      BY <1>6, <2>2 DEF MarkFailed, Becomes, TypeOK, orderVars, payoutVars
  <1>7. CASE Note(r) \/ RunStops(r)
    BY <1>7 DEF Note, RunStops, Becomes, TypeOK, orderVars, payoutVars, rowVars
  <1>8. CASE Recover(r)
    <2>1. run[r].row \in Keys /\ run[r].found \subseteq Ids
      BY <1>8, AtWork, IdleIsIdle DEF Recover
    <2>2. \A i \in Matches(r) : {i} \in SUBSET Ids
      BY <2>1 DEF Matches
    <2>3. rows' \in [Keys -> Row]
      <3>1. CASE ~Unconfirmed(run[r].row)
        BY <1>8, <3>1 DEF Recover, TypeOK
      <3>2. CASE Unconfirmed(run[r].row) /\ Matches(r) = {}
        BY <1>8, <2>1, <3>2, OneStatus DEF Recover, SetStatus
      <3>3. CASE Unconfirmed(run[r].row) /\ Matches(r) # {}
        <4>1. PICK i \in Matches(r) : rows' = [rows EXCEPT ![run[r].row].id = {i}]
          BY <1>8, <3>3 DEF Recover
        <4>. QED
          BY <2>1, <2>2, <4>1, OneId
      <3>. QED
        BY <3>1, <3>2, <3>3
    <2>. QED
      BY <1>8, <2>3 DEF Recover, Becomes, TypeOK, orderVars, payoutVars
  <1>. QED
    BY <1>1, <1>2, <1>3, <1>4, <1>5, <1>6, <1>7, <1>8 DEF RunStep, AnswerStep

LEMMA TypePaystack ==
    ASSUME TypeOK, NEW x \in Keys, NEW n \in 1..MaxSends,
           RefundEnds(x, n) \/ RefundRetried(x, n) \/ RefundEvent(x, n)
    PROVE  TypeOK'
  <1>1. CASE RefundEnds(x, n) \/ RefundRetried(x, n)
    <2>1. PICK t \in Truths : made' = [made EXCEPT ![x][n] = t]
      BY <1>1 DEF RefundEnds, RefundRetried, Truths
    <2>2. made' \in [Keys -> [1..MaxSends -> Truths]]
      BY <2>1, OneRefund
    <2>. QED
      BY <1>1, <2>2 DEF RefundEnds, RefundRetried, TypeOK, Truths, orderVars, payoutVars, rowVars
  <1>2. CASE RefundEvent(x, n)
    <2>1. PICK to \in Happened(<<x, n>>) : HandleEvent(<<x, n>>, to)
      BY <1>2 DEF RefundEvent
    <2>2. to \in {"processed", "failed"}
      BY DEF Happened
    <2>3. <<x, n>> \in Ids
      BY DEF Ids
    <2>4. rows' \in [Keys -> Row]
      <3>1. PICK y \in Keys :
                rows' = IF MovesTo(rows[y].status, to)
                        THEN [rows EXCEPT ![y].status = to, ![y].id = {<<x, n>>}] ELSE rows
        BY <2>1 DEF HandleEvent
      <3>. QED
        BY <2>2, <2>3, <3>1, OneEnd DEF TypeOK
    <2>5. handled' \subseteq Ids \X {"processed", "failed"}
      <3>1. handled' = handled \cup {<<<<x, n>>, to>>}
        BY <2>1 DEF HandleEvent
      <3>2. <<<<x, n>>, to>> \in Ids \X {"processed", "failed"}
        BY <2>2, <2>3
      <3>3. handled \subseteq Ids \X {"processed", "failed"}
        BY DEF TypeOK
      <3>. QED
        BY <3>1, <3>2, <3>3
    <2>. QED
      BY <2>1, <2>4, <2>5 DEF HandleEvent, TypeOK, orderVars, payoutVars
  <1>. QED
    BY <1>1, <1>2

LEMMA TypeStep == TypeOK /\ [Next]_vars => TypeOK'
  <1>1. ASSUME TypeOK, UNCHANGED vars PROVE TypeOK'
    BY <1>1 DEF TypeOK, vars, orderVars, payoutVars, rowVars
  <1>. QED
    BY <1>1, TypeOrder, TypeRun, TypePaystack DEF Next, PaystackStep

\* Every reachable state is well typed, and an order that is not completed has no
\* payout, whatever fails, is retried or overtaken.
THEOREM TypeCorrect == Spec => []TypeOK
  BY TypeInit, TypeStep, PTL DEF Spec

-----------------------------------------------------------------------------
(* What holds whatever fails, is retried or overtaken: of a payment, only  *)
(* the newest refund may be open.                                          *)

\* A run at work has a row that exists.
Opened ==
    /\ NewestOpen
    /\ \A r \in Runs : run[r] # Idle => rows[run[r].row].status # "none"

LEMMA NewestInit == Init => NewestOpen
  BY DEF Init, NewestOpen, NoRow, Open

\* Where a row only moves on, the others stay as they are.
MovesOn(x) ==
    /\ \A y \in Keys : y # x => rows'[y] = rows[y]
    /\ rows[x].status # "none" /\ rows'[x].status # "none"
    /\ Open(x)' => Open(x)
    /\ batches' = batches

LEMMA NewestKept ==
    ASSUME NewestOpen, NEW x \in Keys, MovesOn(x)
    PROVE  NewestOpen'
  <1>1. \A y \in Keys : Open(y)' => Open(y)
    BY DEF MovesOn, Open
  <1>. QED
    BY <1>1 DEF NewestOpen, MovesOn

\* The rows of a new batch.
LEMMA NewestQueue ==
    ASSUME TypeOK, NewestOpen, NEW parts, Queue(parts),
           \A x \in Keys : Open(x) => parts[x[2]] = {}
    PROVE  NewestOpen'
  <1>. DEFINE new(x) == x[1] = batches' /\ parts[x[2]] # {}
  <1>1. \A x \in Keys : rows'[x] = IF new(x) THEN NewRow(parts[x[2]]) ELSE rows[x]
    BY DEF Queue
  <1>2. batches' = batches + 1 /\ batches \in Nat
    BY DEF Queue, TypeOK
  <1>3. \A x \in Keys : x[1] \in Nat
    BY DEF Keys
  <1>4. \A x \in Keys : new(x) => rows[x].status = "none"
    BY <1>2, <1>3 DEF NewestOpen
  <1>5. \A x \in Keys : new(x) => rows'[x].status = "pending"
    BY ZenonT(60), <1>1 DEF NewRow, NoRow
  <1>6. \A x, y \in Keys : x[2] = y[2] /\ x[1] = y[1] => x = y
    BY DEF Keys
  <1>7. ASSUME NEW x \in Keys
        PROVE  /\ x[1] > batches' => rows'[x].status = "none"
               /\ rows'[x].status = "none" => rows'[x] = NoRow
    <2>1. CASE new(x)
      BY <1>2, <1>5, <2>1
    <2>2. CASE ~new(x)
      <3>1. rows'[x] = rows[x] /\ (x[1] > batches' => x[1] > batches)
        BY <1>1, <1>2, <1>3, <2>2
      <3>. QED
        BY <3>1 DEF NewestOpen
    <2>. QED
      BY <2>1, <2>2
  <1>8. ASSUME NEW x \in Keys, NEW y \in Keys, Open(x)', y[2] = x[2], y # x
        PROVE  ~Open(y)' /\ (y[1] > x[1] => rows'[y].status = "none")
    <2>1. CASE new(x)
      <3>1. ~new(y) /\ rows'[y] = rows[y]
        BY <1>1, <1>6, <1>8, <2>1
      <3>2. ~Open(y)
        BY <1>8, <2>1
      <3>3. y[1] > x[1] => rows[y].status = "none"
        BY <1>2, <1>3, <2>1 DEF NewestOpen
      <3>. QED
        BY <3>1, <3>2, <3>3 DEF Open
    <2>2. CASE ~new(x)
      <3>1. Open(x) /\ rows'[x] = rows[x]
        BY <1>1, <1>8, <2>2 DEF Open
      <3>2. ~new(y)
        BY <1>8, <3>1
      <3>. QED
        BY <1>1, <1>8, <3>1, <3>2 DEF Open, NewestOpen
    <2>. QED
      BY <2>1, <2>2
  <1>. HIDE DEF new
  <1>. QED
    BY <1>7, <1>8 DEF NewestOpen

LEMMA OpenedQueue ==
    ASSUME TypeOK, Opened, NEW parts, Queue(parts), run' = run,
           \A x \in Keys : Open(x) => parts[x[2]] = {}
    PROVE  Opened'
  <1>1. NewestOpen'
    BY NewestQueue DEF Opened
  <1>2. ASSUME NEW x \in Keys, rows[x].status # "none" PROVE rows'[x].status # "none"
    <2>1. x[1] # batches'
      BY <1>2 DEF Queue, Opened, NewestOpen, TypeOK, Keys
    <2>. QED
      BY <1>2, <2>1 DEF Queue
  <1>3. \A r \in Runs : run[r] # Idle => run[r].row \in Keys
    BY AtWork
  <1>. QED
    BY <1>1, <1>2, <1>3 DEF Opened

\* Writing one row that exists.
LEMMA OneMoves ==
    ASSUME TypeOK, NEW x \in Keys, rows[x].status # "none", batches' = batches,
           NEW s \in {"pending", "processing", "processed", "failed"}, NEW i,
           s \in {"pending", "processing"} => Open(x),
           \/ rows' = rows
           \/ rows' = [rows EXCEPT ![x].status = s]
           \/ rows' = [rows EXCEPT ![x].id = i]
           \/ rows' = [rows EXCEPT ![x].status = s, ![x].id = i]
    PROVE  MovesOn(x)
  <1>1. \A y \in Keys : y # x => rows'[y] = rows[y]
    BY DEF TypeOK
  <1>2. rows'[x].status \in {rows[x].status, s}
    <2>1. rows[x] \in Row
      BY DEF TypeOK
    <2>. QED
      BY <2>1 DEF TypeOK, Row
  <1>. QED
    BY <1>1, <1>2 DEF MovesOn, Open

\* The runs that are at work after the step work with rows that were there before it.
RunsFollow ==
    \A r \in Runs : run'[r] # Idle =>
        run'[r].row \in Keys /\ rows[run'[r].row].status # "none"

LEMMA Follow ==
    ASSUME TypeOK, Opened,
           \/ run' = run
           \/ \E r \in Runs, v \in Job \cup {Idle} :
                /\ run' = [run EXCEPT ![r] = v]
                /\ v = Idle \/ (v.row \in Keys /\ rows[v.row].status # "none")
    PROVE  RunsFollow
  <1>1. \A r \in Runs : run[r] # Idle => run[r].row \in Keys /\ rows[run[r].row].status # "none"
    BY AtWork DEF Opened
  <1>. QED
    BY <1>1 DEF RunsFollow, TypeOK

LEMMA OpenedMoves ==
    ASSUME Opened, NEW x \in Keys, MovesOn(x), RunsFollow
    PROVE  Opened'
  <1>1. NewestOpen'
    BY NewestKept DEF Opened
  <1>. QED
    BY <1>1 DEF Opened, RunsFollow, MovesOn

LEMMA OpenedSame ==
    ASSUME Opened, RunsFollow, UNCHANGED <<batches, rows>>
    PROVE  Opened'
  <1>1. NewestOpen'
    BY DEF Opened, NewestOpen, Open
  <1>. QED
    BY <1>1 DEF Opened, RunsFollow

LEMMA OpenedOrder == ASSUME TypeOK, Opened, OrderStep PROVE Opened'
  <1>1. CASE Complete \/ (\E p \in Payments : Pay(p)) \/ \E to \in PayoutStatuses : PayoutMove(to)
    <2>1. UNCHANGED <<batches, rows, run>>
      BY <1>1 DEF Complete, Pay, PayoutMove, rowVars
    <2>. QED
      BY <2>1, Follow, OpenedSame
  <1>2. CASE Cancel
    <2>. DEFINE parts == [p \in Payments |-> IF Refundable(p) THEN UnitsOf(p) ELSE {}]
    <2>1. \A x \in Keys : Open(x) => parts[x[2]] = {}
      BY DEF Open, Refundable, Keys
    <2>2. Queue(parts) /\ run' = run
      BY <1>2 DEF Cancel
    <2>. HIDE DEF parts
    <2>. QED
      BY <2>1, <2>2, OpenedQueue
  <1>3. ASSUME NEW W \in SUBSET Units, RefundOrder(W) PROVE Opened'
    BY <1>3, OpenedQueue DEF RefundOrder
  <1>. QED
    BY <1>1, <1>2, <1>3 DEF OrderStep

LEMMA OpenedRun == ASSUME TypeOK, Opened, NEW r \in Runs, RunStep(r) PROVE Opened'
  <1>1. ASSUME NEW x \in Keys, CreditWallet(r, x) \/ TakeNext(r, x) PROVE Opened'
    <2>1. /\ rows[x].status = "pending" /\ Open(x) /\ batches' = batches
          /\ \E s \in {"processing", "processed"} : rows' = [rows EXCEPT ![x].status = s]
      BY <1>1 DEF CreditWallet, TakeNext, SetStatus, Open
    <2>2. MovesOn(x)
      BY <2>1, OneMoves
    <2>3. run' = run \/ run' = [run EXCEPT ![r] = [at |-> "call", row |-> x]]
      BY <1>1 DEF CreditWallet, TakeNext, Becomes
    <2>4. [at |-> "call", row |-> x] \in Job
      BY DEF Job
    <2>5. RunsFollow
      BY <2>1, <2>3, <2>4, Follow
    <2>. QED
      BY <2>2, <2>5, OpenedMoves
  <1>2. ASSUME NEW x \in Keys, ListRefunds(r, x) PROVE Opened'
    <2>1. rows[x].status = "processing" /\ UNCHANGED <<batches, rows>>
      BY <1>2 DEF ListRefunds, Unconfirmed, rowVars
    <2>. DEFINE v == [at |-> "listed", row |-> x, found |-> MadeOf(x[2])]
    <2>2. run' = [run EXCEPT ![r] = v]
      BY <1>2 DEF ListRefunds, Becomes
    <2>3. v \in Job /\ v.row = x
      BY DEF Job, MadeOf
    <2>. HIDE DEF v
    <2>4. RunsFollow
      BY <2>1, <2>2, <2>3, Follow
    <2>. QED
      BY <2>1, <2>4, OpenedSame
  <1>3. CASE CreateRefund(r)
    <2>1. /\ run[r] # Idle /\ run[r].row \in Keys /\ rows[run[r].row].status # "none"
          /\ UNCHANGED <<batches, rows>>
      BY <1>3, Created, IdleIsIdle DEF Opened, rowVars
    <2>2. PICK a, i : Learns(r, a, i)
      BY <1>3, Created DEF NotMade, Made
    <2>3. \A q \in Runs : run'[q] = IF q = r THEN Answer(run[r].row, a, i) ELSE run[q]
      BY <2>2 DEF Learns, TypeOK
    <2>4. \A q \in Runs : run[q] # Idle => run[q].row \in Keys /\ rows[run[q].row].status # "none"
      BY AtWork DEF Opened
    <2>5. RunsFollow
      BY <2>1, <2>3, <2>4 DEF RunsFollow, Answer
    <2>. QED
      BY <2>1, <2>5, OpenedSame
  <1>4. CASE MarkSent(r) \/ MarkFailed(r) \/ Note(r) \/ RunStops(r) \/ Recover(r)
    <2>1. run[r] # Idle /\ run' = [run EXCEPT ![r] = Idle] /\ batches' = batches
      BY <1>4, IdleIsIdle DEF MarkSent, MarkFailed, Note, RunStops, Recover, Answered, Becomes, rowVars
    <2>. PICK x \in Keys : x = run[r].row
      BY <2>1, AtWork
    <2>2. rows[x].status # "none"
      BY <2>1 DEF Opened
    <2>3. RunsFollow
      BY <2>1, Follow
    <2>4. CASE rows' = rows
      BY <2>1, <2>3, <2>4, OpenedSame
    <2>5. CASE \E i : rows' = [rows EXCEPT ![x].id = i]
      <3>1. MovesOn(x)
        BY <2>1, <2>2, <2>5, OneMoves
      <3>. QED
        BY <2>3, <3>1, OpenedMoves
    <2>6. CASE rows' = [rows EXCEPT ![x].status = "failed"]
      <3>1. MovesOn(x)
        BY <2>1, <2>2, <2>6, OneMoves
      <3>. QED
        BY <2>3, <3>1, OpenedMoves
    <2>7. CASE Unconfirmed(x) /\ rows' = [rows EXCEPT ![x].status = "pending"]
      <3>1. MovesOn(x)
        BY <2>1, <2>2, <2>7, OneMoves DEF Unconfirmed, Open
      <3>. QED
        BY <2>3, <3>1, OpenedMoves
    <2>. QED
      BY <1>4, <2>4, <2>5, <2>6, <2>7
         DEF MarkSent, MarkFailed, Note, RunStops, Recover, SetStatus, rowVars
  <1>. QED
    BY <1>1, <1>2, <1>3, <1>4 DEF RunStep, AnswerStep

LEMMA OpenedPaystack ==
    ASSUME TypeOK, Opened, NEW x \in Keys, NEW n \in 1..MaxSends,
           RefundEnds(x, n) \/ RefundRetried(x, n) \/ RefundEvent(x, n)
    PROVE  Opened'
  <1>1. run' = run /\ batches' = batches
    BY DEF RefundEnds, RefundRetried, RefundEvent, HandleEvent, rowVars
  <1>2. RunsFollow
    BY <1>1, Follow
  <1>3. CASE rows' = rows
    BY <1>1, <1>2, <1>3, OpenedSame
  <1>4. CASE RefundEvent(x, n)
    <2>1. PICK to \in {"processed", "failed"} : HandleEvent(<<x, n>>, to)
      BY <1>4 DEF RefundEvent, Happened
    <2>2. PICK y \in Keys :
            /\ rows[y].status # "none"
            /\ \/ rows' = rows
               \/ rows' = [rows EXCEPT ![y].status = to, ![y].id = {<<x, n>>}]
      BY <2>1 DEF HandleEvent, Newest
    <2>3. MovesOn(y)
      BY <1>1, <2>2, OneMoves
    <2>. QED
      BY <1>2, <2>3, OpenedMoves
  <1>. QED
    BY <1>3, <1>4 DEF RefundEnds, RefundRetried, rowVars

LEMMA OpenedStep == TypeOK /\ Opened /\ [Next]_vars => Opened'
  <1>. SUFFICES ASSUME TypeOK, Opened, [Next]_vars PROVE Opened'
    OBVIOUS
  <1>1. CASE UNCHANGED vars
    BY <1>1, Follow, OpenedSame DEF vars, rowVars
  <1>. QED
    BY <1>1, OpenedOrder, OpenedRun, OpenedPaystack DEF Next, PaystackStep

\* Whatever fails, is retried or overtaken, no payment ever has two refunds under way, and
\* the one under way is the newest: the row that an event, which names only the payment,
\* will find.
THEOREM NewestOpenAlways == Spec => []NewestOpen
  <1>1. Init => Opened
    BY NewestInit DEF Init, Opened
  <1>2. Spec => []Opened
    BY <1>1, TypeInit, TypeStep, OpenedStep, PTL DEF Spec
  <1>3. Opened => NewestOpen
    BY DEF Opened
  <1>. QED
    BY <1>2, <1>3, PTL

-----------------------------------------------------------------------------
(* What needs no more than that no run overtakes another's look-up: a row  *)
(* is refunded once.                                                       *)

LEMMA OnceInit == Init => Once
  <1>. SUFFICES ASSUME Init PROVE Once
    OBVIOUS
  <1>1. \A x \in Keys : rows[x] = NoRow
    BY DEF Init
  <1>2. NewestOpen
    BY NewestInit
  <1>3. \A x \in Keys : RowOnce(x)
    BY <1>1 DEF Init, RowOnce, SentOnce, NoRow
  <1>. QED
    BY <1>2, <1>3 DEF Init, OneRun, Once

\* No refund that was made is forgotten.
MadeStays == \A x \in Keys, n \in 1..MaxSends : made[x][n] # "none" => made'[x][n] # "none"

\* What is said of a row, or of a run, depends on it alone.
LEMMA RowOnceKept ==
    ASSUME NEW x \in Keys, RowOnce(x), rows'[x] = rows[x], MadeStays,
           \A n \in 1..MaxSends : made'[x][n] # "none" => made[x][n] # "none",
           x \in credited' => x \in credited
    PROVE  RowOnce(x)'
  <1>1. SentOnce(x)'
    BY DEF RowOnce, SentOnce
  <1>. QED
    BY <1>1 DEF RowOnce, Taken, MadeStays

LEMMA RunOnceKept ==
    ASSUME NEW r \in Runs, run[r] # Idle, RunOnce(r), run'[r] = run[r], run[r].row \in Keys,
           Taken(run[r].row)', MadeStays,
           \A n \in 1..MaxSends :
                made'[run[r].row][n] # "none" => made[run[r].row][n] # "none",
           run[r].row \in credited' => run[r].row \in credited
    PROVE  RunOnce(r)'
  BY DEF RunOnce, MadeStays

LEMMA OnceSame ==
    ASSUME TypeOK, Once, UNCHANGED <<rowVars, run>>,
           \A x \in Keys, n \in 1..MaxSends : made'[x][n] # "none" <=> made[x][n] # "none"
    PROVE  Once'
  <1>1. NewestOpen' /\ OneRun'
    BY DEF Once, NewestOpen, Open, OneRun, rowVars
  <1>2. \A x \in Keys : RowOnce(x)'
    BY RowOnceKept DEF Once, MadeStays, rowVars
  <1>3. ASSUME NEW r \in Runs, run'[r] # Idle PROVE RunOnce(r)'
    <2>1. run[r] # Idle /\ RunOnce(r) /\ run[r].row \in Keys /\ run'[r] = run[r]
      BY <1>3, AtWork DEF Once
    <2>2. Taken(run[r].row)'
      BY <2>1 DEF RunOnce, Taken, rowVars
    <2>. QED
      BY <2>1, <2>2, RunOnceKept DEF MadeStays, rowVars
  <1>. QED
    BY <1>1, <1>2, <1>3 DEF Once

\* The rows of a new batch.
LEMMA OnceQueue ==
    ASSUME TypeOK, Once, UNCHANGED <<credited, made, run>>, NEW parts, Queue(parts),
           \A x \in Keys : Open(x) => parts[x[2]] = {}
    PROVE  Once'
  <1>. DEFINE new(x) == x[1] = batches' /\ parts[x[2]] # {}
  <1>1. \A x \in Keys : rows'[x] = IF new(x) THEN NewRow(parts[x[2]]) ELSE rows[x]
    BY DEF Queue
  <1>2. batches' = batches + 1 /\ batches \in Nat
    BY DEF Queue, TypeOK
  <1>3. \A x \in Keys : x[1] \in Nat /\ x[2] \in Payments
    BY DEF Keys
  <1>4. \A x \in Keys : new(x) => rows[x] = NoRow
    BY <1>2, <1>3 DEF Once, NewestOpen
  <1>5. \A x \in Keys : new(x) => rows'[x].status = "pending" /\ rows'[x].id = {}
    BY ZenonT(60), <1>1 DEF NewRow, NoRow
  <1>7. NewestOpen'
    BY NewestQueue DEF Once
  <1>8. ASSUME NEW x \in Keys PROVE RowOnce(x)'
    <2>1. RowOnce(x)
      BY DEF Once
    <2>2. CASE ~new(x)
      BY <1>1, <2>1, <2>2, RowOnceKept DEF MadeStays
    <2>3. CASE new(x)
      <3>1. ~Taken(x)
        BY <1>4, <2>3 DEF Taken, NoRow
      <3>2. x \notin credited /\ \A n \in 1..MaxSends : made[x][n] = "none"
        BY <2>1, <3>1 DEF RowOnce
      <3>. QED
        BY <1>5, <2>3, <3>2 DEF RowOnce, SentOnce
    <2>. QED
      BY <2>2, <2>3
  <1>9. ASSUME NEW r \in Runs, run'[r] # Idle PROVE RunOnce(r)'
    <2>1. RunOnce(r) /\ run[r] # Idle /\ run[r].row \in Keys
      BY <1>9, AtWork DEF Once
    <2>2. rows'[run[r].row] = rows[run[r].row]
      BY <1>1, <1>4, <2>1 DEF NoRow, RunOnce, Taken
    <2>3. Taken(run[r].row)'
      BY <2>1, <2>2 DEF RunOnce, Taken
    <2>. QED
      BY <2>1, <2>3, RunOnceKept DEF MadeStays
  <1>10. OneRun'
    BY DEF Once, OneRun
  <1>. QED
    BY <1>7, <1>8, <1>9, <1>10 DEF Once

\* A run at work and the others: only the run of a row changes what it knows of it.
OneChanges(r, v) ==
    /\ \A q \in Runs : run'[q] = IF q = r THEN v ELSE run[q]
    /\ v = Idle \/ (run[r] # Idle /\ v.row = run[r].row)

LEMMA RunsKept ==
    ASSUME Once, NEW r \in Runs, NEW v, OneChanges(r, v)
    PROVE  OneRun' /\ \A q \in Runs : q # r /\ run[q] # Idle /\ run[r] # Idle => run[q].row # run[r].row
  BY DEF Once, OneRun, OneChanges

\* The steps of a run, or of an event, that change the row x alone, and the refunds made
\* for it.
LEMMA OnceMoves ==
    ASSUME TypeOK, Once, NEW x \in Keys, MovesOn(x), RowOnce(x)', OneRun', MadeStays,
           \A y \in Keys : y # x => made'[y] = made[y],
           \A y \in Keys : y # x => (y \in credited' => y \in credited),
           \A r \in Runs : run'[r] # Idle =>
              RunOnce(r)' \/ (run'[r] = run[r] /\ run[r].row # x)
    PROVE  Once'
  <1>1. NewestOpen'
    BY NewestKept DEF Once
  <1>2. \A y \in Keys : y # x => RowOnce(y)'
    BY RowOnceKept DEF Once, MovesOn
  <1>3. ASSUME NEW r \in Runs, run'[r] = run[r], run[r] # Idle, run[r].row # x
        PROVE  RunOnce(r)'
    <2>1. RunOnce(r) /\ run[r].row \in Keys
      BY <1>3, AtWork DEF Once
    <2>2. Taken(run[r].row)'
      BY <1>3, <2>1 DEF RunOnce, Taken, MovesOn
    <2>. QED
      BY <1>3, <2>1, <2>2, RunOnceKept
  <1>. QED
    BY <1>1, <1>2, <1>3 DEF Once

LEMMA OnceCredit ==
    ASSUME ~Overlap, TypeOK, Once, NEW r \in Runs, NEW x \in Keys, CreditWallet(r, x)
    PROVE  Once'
  <1>1. /\ rows[x].status = "pending" /\ rows[x] \in Row
        /\ \A q \in Runs : run[q] # Idle => run[q].row # x
        /\ UNCHANGED <<batches, made, run>> /\ credited' = credited \cup {x}
    BY DEF CreditWallet, Alone, Busy, TypeOK
  <1>2. \A y \in Keys : rows'[y] = IF y = x THEN [rows[x] EXCEPT !.status = "processed"] ELSE rows[y]
    BY DEF CreditWallet, SetStatus, TypeOK
  <1>3. rows'[x].status = "processed" /\ rows'[x].id = rows[x].id
    BY <1>1, <1>2 DEF Row
  <1>4. MovesOn(x)
    BY <1>1, <1>2, <1>3 DEF MovesOn, Open
  <1>5. RowOnce(x)'
    <2>1. RowOnce(x) /\ ~Taken(x)
      BY <1>1 DEF Once, Taken
    <2>. QED
      BY <1>1, <1>3, <2>1 DEF RowOnce, SentOnce, Taken
  <1>6. OneRun'
    BY <1>1 DEF Once, OneRun
  <1>. QED
    BY <1>1, <1>4, <1>5, <1>6, OnceMoves DEF MadeStays

LEMMA OnceTake ==
    ASSUME ~Overlap, TypeOK, Once, NEW r \in Runs, NEW x \in Keys, TakeNext(r, x)
    PROVE  Once'
  <1>1. /\ rows[x].status = "pending" /\ rows[x] \in Row
        /\ \A q \in Runs : run[q] # Idle => run[q].row # x
        /\ UNCHANGED <<batches, made, credited>>
    BY DEF TakeNext, Alone, Busy, TypeOK
  <1>2. \A y \in Keys : rows'[y] = IF y = x THEN [rows[x] EXCEPT !.status = "processing"] ELSE rows[y]
    BY DEF TakeNext, SetStatus, TypeOK
  <1>3. \A q \in Runs : run'[q] = IF q = r THEN [at |-> "call", row |-> x] ELSE run[q]
    BY DEF TakeNext, Becomes, TypeOK
  <1>4. rows'[x].status = "processing" /\ rows'[x].id = rows[x].id
    BY <1>1, <1>2 DEF Row
  <1>5. MovesOn(x)
    BY <1>1, <1>2, <1>4 DEF MovesOn, Open
  <1>6. x \notin credited /\ \A n \in 1..MaxSends : made[x][n] = "none"
    BY <1>1 DEF Once, RowOnce, Taken
  <1>7. RowOnce(x)'
    <2>1. RowOnce(x)
      BY DEF Once
    <2>. QED
      BY <1>1, <1>4, <1>6, <2>1 DEF RowOnce, SentOnce, Taken
  <1>8. RunOnce(r)'
    BY <1>1, <1>3, <1>4, <1>6 DEF RunOnce, Taken
  <1>9. OneRun'
    BY <1>1, <1>3 DEF Once, OneRun
  <1>. QED
    BY <1>1, <1>3, <1>5, <1>7, <1>8, <1>9, OnceMoves DEF MadeStays

LEMMA OnceList ==
    ASSUME ~Overlap, TypeOK, Once, NEW r \in Runs, NEW x \in Keys, ListRefunds(r, x)
    PROVE  Once'
  <1>1. /\ rows[x].status = "processing"
        /\ \A q \in Runs : run[q] # Idle => run[q].row # x
        /\ UNCHANGED <<rowVars, made>>
    BY DEF ListRefunds, Unconfirmed, Alone, Busy
  <1>2. \A q \in Runs :
            run'[q] = IF q = r THEN [at |-> "listed", row |-> x, found |-> MadeOf(x[2])] ELSE run[q]
    BY DEF ListRefunds, Becomes, TypeOK
  <1>3. \A y \in Keys, n \in 1..MaxSends :
            <<y, n>> \in MadeOf(x[2]) <=> made[y][n] # "none" /\ y[2] = x[2]
    BY DEF MadeOf, Ids
  <1>4. RowOnce(x) /\ RowOnce(x)'
    BY <1>1, RowOnceKept DEF Once, MadeStays, rowVars
  <1>5. RunOnce(r)'
    BY <1>1, <1>2, <1>3, <1>4 DEF RunOnce, RowOnce, Taken, rowVars
  <1>6. OneRun'
    BY <1>1, <1>2 DEF Once, OneRun
  <1>7. MovesOn(x)
    BY <1>1 DEF MovesOn, Open, rowVars
  <1>. QED
    BY <1>1, <1>2, <1>4, <1>5, <1>6, <1>7, OnceMoves DEF MadeStays, rowVars

LEMMA OnceCreate ==
    ASSUME TypeOK, Once, NEW r \in Runs, CreateRefund(r)
    PROVE  Once'
  <1>. PICK x \in Keys : x = run[r].row
    BY Created
  <1>1. /\ run[r].at = "call" /\ x = run[r].row /\ run[r] # Idle
        /\ UNCHANGED rowVars
    BY Created, IdleIsIdle
  <1>2. RunOnce(r) /\ RowOnce(x)
    BY <1>1 DEF Once
  <1>3. /\ Taken(x) /\ x \notin credited
        /\ \A n \in 1..MaxSends : made[x][n] = "none"
    BY <1>1, <1>2 DEF RunOnce
  <1>4. MovesOn(x)
    BY <1>1, <1>3 DEF MovesOn, Open, Taken, rowVars
  <1>5. CASE \E a \in NotOk : NotMade(r, a)
    <2>1. PICK a \in NotOk : NotMade(r, a)
      BY <1>5
    <2>2. OneChanges(r, Answer(x, a, {})) /\ made' = made
      BY <1>1, <2>1 DEF NotMade, Learns, OneChanges, Answer, TypeOK
    <2>3. RowOnce(x)'
      BY <1>1, <1>2, <2>2, RowOnceKept DEF MadeStays, rowVars
    <2>4. RunOnce(r)'
      BY <1>1, <1>3, <2>2 DEF RunOnce, OneChanges, Answer, Taken, rowVars
    <2>5. OneRun' /\ \A q \in Runs : q # r /\ run[q] # Idle => run[q].row # x
      BY <1>1, <2>2, RunsKept
    <2>. QED
      BY <1>1, <1>4, <2>2, <2>3, <2>4, <2>5, OnceMoves DEF OneChanges, MadeStays, rowVars
  <1>6. CASE \E n \in 1..MaxSends : Made(r, n)
    <2>1. PICK n \in 1..MaxSends : Made(r, n)
      BY <1>6
    <2>2. PICK a \in {"ok", "unknown", "unavailable"}, i \in {{}, {<<x, n>>}} : Learns(r, a, i)
      BY <1>1, <2>1 DEF Made
    <2>3. OneChanges(r, Answer(x, a, i))
      BY <1>1, <2>2 DEF Learns, OneChanges, Answer, TypeOK
    <2>4. /\ \A y \in Keys : y # x => made'[y] = made[y]
          /\ \A k \in 1..MaxSends : made'[x][k] = IF k = n THEN "pending" ELSE "none"
      BY <1>1, <1>3, <2>1 DEF Made, TypeOK
    <2>5. MadeStays
      BY <1>3, <2>4 DEF MadeStays
    <2>6. RowOnce(x)'
      <3>1. SentOnce(x)'
        BY <1>1, <1>3, <2>4 DEF SentOnce, rowVars
      <3>. QED
        BY <1>1, <1>2, <1>3, <2>5, <3>1 DEF RowOnce, Taken, MadeStays, rowVars
    <2>7. RunOnce(r)'
      BY <1>1, <1>3, <2>3, <2>4 DEF RunOnce, OneChanges, Answer, Taken, rowVars
    <2>8. OneRun' /\ \A q \in Runs : q # r /\ run[q] # Idle => run[q].row # x
      BY <1>1, <2>3, RunsKept
    <2>. QED
      BY <1>1, <1>4, <2>3, <2>4, <2>5, <2>6, <2>7, <2>8, OnceMoves DEF OneChanges, rowVars
  <1>. QED
    BY <1>5, <1>6, Created

\* A run that is done writes down what it knows, and no more.
LEMMA OnceDone ==
    ASSUME TypeOK, Once, NEW r \in Runs, NEW x \in Keys, run[r] # Idle, run[r].row = x,
           run' = [run EXCEPT ![r] = Idle], UNCHANGED <<batches, credited, made>>,
           MovesOn(x), RowOnce(x)'
    PROVE  Once'
  <1>1. OneChanges(r, Idle)
    BY DEF OneChanges, TypeOK
  <1>2. OneRun' /\ \A q \in Runs : q # r /\ run[q] # Idle => run[q].row # x
    BY <1>1, RunsKept
  <1>. QED
    BY <1>1, <1>2, OnceMoves DEF OneChanges, MadeStays

LEMMA OnceAnswered ==
    ASSUME TypeOK, Once, NEW r \in Runs,
           MarkSent(r) \/ MarkFailed(r) \/ Note(r) \/ RunStops(r)
    PROVE  Once'
  <1>1. /\ run[r] # Idle /\ run' = [run EXCEPT ![r] = Idle]
        /\ UNCHANGED <<batches, credited, made>>
    BY IdleIsIdle DEF MarkSent, MarkFailed, Note, RunStops, Answered, Becomes, rowVars
  <1>. PICK x \in Keys : x = run[r].row
    BY <1>1, AtWork
  <1>2. RunOnce(r) /\ RowOnce(x) /\ Taken(x) /\ x \notin credited /\ rows[x] \in Row
    BY <1>1 DEF Once, RunOnce, TypeOK
  <1>3. CASE rows' = rows
    <2>1. MovesOn(x) /\ RowOnce(x)'
      BY <1>1, <1>2, <1>3, RowOnceKept DEF MovesOn, Open, Taken, MadeStays
    <2>. QED
      BY <1>1, <2>1, OnceDone
  <1>4. CASE MarkFailed(r)
    <2>1. \A y \in Keys : rows'[y] = IF y = x THEN [rows[x] EXCEPT !.status = "failed"] ELSE rows[y]
      BY <1>4 DEF MarkFailed, SetStatus, TypeOK
    <2>2. rows'[x].status = "failed" /\ rows'[x].id = rows[x].id
      BY <1>2, <2>1 DEF Row
    <2>3. MovesOn(x)
      BY <1>1, <1>2, <2>1, <2>2 DEF MovesOn, Open, Taken
    <2>4. RowOnce(x)'
      BY <1>1, <1>2, <2>2 DEF RowOnce, SentOnce, Taken
    <2>. QED
      BY <1>1, <2>3, <2>4, OnceDone
  <1>5. CASE MarkSent(r)
    <2>1. \A y \in Keys : rows'[y] = IF y = x THEN [rows[x] EXCEPT !.id = run[r].id] ELSE rows[y]
      BY <1>5 DEF MarkSent, TypeOK
    <2>2. rows'[x].status = rows[x].status /\ rows'[x].id = run[r].id
      BY <1>2, <2>1 DEF Row
    <2>3. MovesOn(x)
      BY <1>1, <1>2, <2>1, <2>2 DEF MovesOn, Open, Taken
    <2>4. \A i \in run[r].id : \E n \in 1..MaxSends : i = <<x, n>> /\ made[x][n] # "none"
      BY <1>2, <1>5 DEF RunOnce, MarkSent, Answered
    <2>5. \A y \in Keys, n \in 1..MaxSends :
            <<y, n>> \in rows'[x].id => y[2] = x[2] /\ y[1] <= x[1] /\ made'[y][n] # "none"
      BY <1>1, <2>2, <2>4 DEF Keys
    <2>6. RowOnce(x)'
      BY <1>1, <1>2, <2>2, <2>5 DEF RowOnce, SentOnce, Taken
    <2>. QED
      BY <1>1, <2>3, <2>6, OnceDone
  <1>6. CASE Note(r) \/ RunStops(r)
    BY <1>3, <1>6 DEF Note, RunStops, rowVars
  <1>. QED
    BY <1>4, <1>5, <1>6

\* A look-up that finds nothing finds that nothing was made: what was made for an open row
\* no other row carries.
LEMMA OnceRecover ==
    ASSUME TypeOK, Once, NEW r \in Runs, Recover(r)
    PROVE  Once'
  <1>1. /\ run[r] # Idle /\ run[r].at = "listed" /\ run' = [run EXCEPT ![r] = Idle]
        /\ UNCHANGED <<batches, credited, made>>
    BY IdleIsIdle DEF Recover, Becomes
  <1>. PICK x \in Keys : x = run[r].row
    BY <1>1, AtWork
  <1>2. RunOnce(r) /\ RowOnce(x) /\ Taken(x) /\ x \notin credited /\ rows[x] \in Row
    BY <1>1 DEF Once, RunOnce, TypeOK
  <1>3. /\ \A n \in 1..MaxSends : made[x][n] # "none" => <<x, n>> \in run[r].found
        /\ \A y \in Keys, n \in 1..MaxSends :
              <<y, n>> \in run[r].found => made[y][n] # "none" /\ y[2] = x[2]
        /\ run[r].found \subseteq Ids
    BY <1>1, <1>2, AtWork DEF RunOnce
  <1>4. \A y \in Keys : y[1] \in Nat
    BY DEF Keys
  <1>5. \A y \in Keys : y[2] = x[2] /\ y[1] = x[1] => y = x
    BY DEF Keys
  <1>6. CASE ~Unconfirmed(x)
    <2>1. rows' = rows
      BY <1>6 DEF Recover
    <2>2. MovesOn(x) /\ RowOnce(x)'
      BY <1>1, <1>2, <2>1, RowOnceKept DEF MovesOn, Open, Taken, MadeStays
    <2>. QED
      BY <1>1, <2>2, OnceDone
  <1>7. CASE Unconfirmed(x) /\ Matches(r) = {}
    <2>1. rows[x].status = "processing" /\ rows[x].id = {} /\ Open(x)
      BY <1>7 DEF Unconfirmed, Open
    <2>2. ASSUME NEW n \in 1..MaxSends PROVE made[x][n] = "none"
      <3>1. SUFFICES ASSUME made[x][n] # "none" PROVE <<x, n>> \in Matches(r)
        BY <1>7
      <3>2. ASSUME NEW y \in Keys, <<x, n>> \in rows[y].id PROVE FALSE
        <4>1. RowOnce(y)
          BY DEF Once
        <4>2. x[2] = y[2] /\ x[1] <= y[1] /\ Taken(y) /\ y # x
          BY <2>1, <3>2, <4>1 DEF RowOnce
        <4>3. y[1] > x[1]
          BY <1>4, <1>5, <4>2
        <4>. QED
          BY <2>1, <4>2, <4>3 DEF Once, NewestOpen, Taken
      <3>3. <<x, n>> \in run[r].found
        BY <1>3, <3>1
      <3>. QED
        BY <3>2, <3>3 DEF Matches
    <2>3. \A y \in Keys : rows'[y] = IF y = x THEN [rows[x] EXCEPT !.status = "pending"] ELSE rows[y]
      BY <1>7 DEF Recover, SetStatus, TypeOK
    <2>4. rows'[x].status = "pending" /\ rows'[x].id = {}
      BY <1>2, <2>1, <2>3 DEF Row
    <2>5. MovesOn(x)
      BY <1>1, <2>1, <2>3, <2>4 DEF MovesOn
    <2>6. RowOnce(x)'
      BY <1>1, <1>2, <2>2, <2>4 DEF RowOnce, SentOnce
    <2>. QED
      BY <1>1, <2>5, <2>6, OnceDone
  <1>8. CASE Unconfirmed(x) /\ Matches(r) # {}
    <2>1. PICK i \in Matches(r) : rows' = [rows EXCEPT ![x].id = {i}]
      BY <1>8 DEF Recover
    <2>2. PICK y \in Keys, n \in 1..MaxSends : i = <<y, n>>
      BY <1>3 DEF Matches, Ids
    <2>3. made[y][n] # "none" /\ y[2] = x[2]
      BY <1>3, <2>2 DEF Matches
    <2>4. Taken(y) /\ Open(x)
      BY <1>8, <2>3 DEF Once, RowOnce, Unconfirmed, Open
    <2>5. y[1] <= x[1]
      <3>1. y = x \/ ~(y[1] > x[1])
        BY <2>3, <2>4 DEF Once, NewestOpen, Taken
      <3>. QED
        BY <1>4, <3>1
    <2>6. \A z \in Keys : rows'[z] = IF z = x THEN [rows[x] EXCEPT !.id = {i}] ELSE rows[z]
      BY <2>1 DEF TypeOK
    <2>7. rows'[x].status = rows[x].status /\ rows'[x].id = {i}
      BY <1>2, <2>6 DEF Row
    <2>8. MovesOn(x)
      BY <1>1, <1>2, <2>6, <2>7 DEF MovesOn, Open, Taken
    <2>9. RowOnce(x)'
      BY <1>1, <1>2, <2>2, <2>3, <2>5, <2>7 DEF RowOnce, SentOnce, Taken
    <2>. QED
      BY <1>1, <2>8, <2>9, OnceDone
  <1>. QED
    BY <1>6, <1>7, <1>8

\* An event closes the newest row of its payment, whosever refund it tells of.
LEMMA OnceEvent ==
    ASSUME TypeOK, Once, NEW x \in Keys, NEW n \in 1..MaxSends, RefundEvent(x, n)
    PROVE  Once'
  <1>1. PICK to \in {"processed", "failed"} : HandleEvent(<<x, n>>, to) /\ made[x][n] # "none"
    BY DEF RefundEvent, Happened
  <1>2. PICK y \in Keys :
            /\ y[2] = x[2] /\ Newest(y)
            /\ rows' = IF MovesTo(rows[y].status, to)
                       THEN [rows EXCEPT ![y].status = to, ![y].id = {<<x, n>>}] ELSE rows
    BY <1>1 DEF HandleEvent
  <1>3. UNCHANGED <<batches, credited, made, run>>
    BY <1>1 DEF HandleEvent
  <1>4. RowOnce(x) /\ RowOnce(y) /\ rows[y] \in Row
    BY DEF Once, TypeOK
  <1>5. x[1] <= y[1] /\ rows[y].status # "none"
    BY <1>1, <1>2, <1>4 DEF RowOnce, Taken, Newest
  <1>6. CASE rows' = rows
    BY <1>3, <1>6, OnceSame DEF rowVars
  <1>7. CASE rows' = [rows EXCEPT ![y].status = to, ![y].id = {<<x, n>>}]
    <2>1. \A z \in Keys : z # y => rows'[z] = rows[z]
      BY <1>7 DEF TypeOK
    <2>2. rows'[y].status = to /\ rows'[y].id = {<<x, n>>}
      BY <1>4, <1>7 DEF TypeOK, Row
    <2>3. MovesOn(y)
      BY <1>3, <1>5, <2>1, <2>2 DEF MovesOn, Open
    <2>4. RowOnce(y)'
      BY <1>1, <1>2, <1>3, <1>4, <1>5, <2>2 DEF RowOnce, SentOnce, Taken
    <2>5. ASSUME NEW r \in Runs, run'[r] # Idle PROVE RunOnce(r)'
      <3>1. RunOnce(r) /\ run[r] # Idle /\ run[r].row \in Keys /\ run'[r] = run[r]
        BY <1>3, <2>5, AtWork DEF Once
      <3>2. Taken(run[r].row)'
        BY <2>1, <2>2, <3>1 DEF RunOnce, Taken
      <3>. QED
        BY <1>3, <3>1, <3>2, RunOnceKept DEF MadeStays
    <2>6. OneRun'
      BY <1>3 DEF Once, OneRun
    <2>. QED
      BY <1>3, <2>3, <2>4, <2>5, <2>6, OnceMoves DEF MadeStays
  <1>. QED
    BY <1>2, <1>6, <1>7

LEMMA OnceOrder == ASSUME TypeOK, Once, OrderStep PROVE Once'
  <1>1. CASE Complete \/ (\E p \in Payments : Pay(p)) \/ \E to \in PayoutStatuses : PayoutMove(to)
    BY <1>1, OnceSame DEF Complete, Pay, PayoutMove
  <1>2. CASE Cancel
    <2>. DEFINE parts == [p \in Payments |-> IF Refundable(p) THEN UnitsOf(p) ELSE {}]
    <2>1. \A x \in Keys : Open(x) => parts[x[2]] = {}
      BY DEF Open, Refundable, Keys
    <2>2. Queue(parts) /\ UNCHANGED <<credited, made, run>>
      BY <1>2 DEF Cancel
    <2>. HIDE DEF parts
    <2>. QED
      BY <2>1, <2>2, OnceQueue
  <1>3. ASSUME NEW W \in SUBSET Units, RefundOrder(W) PROVE Once'
    BY <1>3, OnceQueue DEF RefundOrder
  <1>. QED
    BY <1>1, <1>2, <1>3 DEF OrderStep

LEMMA OnceStep ==
    ASSUME ~Overlap
    PROVE  TypeOK /\ Once /\ [Next]_vars => Once'
  <1>. SUFFICES ASSUME TypeOK, Once, [Next]_vars PROVE Once'
    OBVIOUS
  <1>1. CASE UNCHANGED vars
    BY <1>1, OnceSame DEF vars
  <1>2. ASSUME NEW x \in Keys, NEW n \in 1..MaxSends, RefundEnds(x, n) \/ RefundRetried(x, n)
        PROVE  Once'
    <2>1. PICK t \in {"processed", "failed", "retried"} : made' = [made EXCEPT ![x][n] = t]
      BY <1>2 DEF RefundEnds, RefundRetried
    <2>2. made[x][n] # "none" /\ UNCHANGED <<rowVars, run>>
      BY <1>2 DEF RefundEnds, RefundRetried
    <2>3. \A y \in Keys, k \in 1..MaxSends : made'[y][k] # "none" <=> made[y][k] # "none"
      BY <2>1, <2>2 DEF TypeOK
    <2>. QED
      BY <2>2, <2>3, OnceSame
  <1>3. ASSUME NEW r \in Runs, RunStep(r) PROVE Once'
    BY <1>3, OnceCredit, OnceTake, OnceList, OnceCreate, OnceAnswered, OnceRecover
       DEF RunStep, AnswerStep
  <1>. QED
    BY <1>1, <1>2, <1>3, OnceOrder, OnceEvent DEF Next, PaystackStep

\* Where no run overtakes another's look-up, only one run works with a row, and only the
\* newest row of a payment is open, whatever Paystack answers, retries or leaves unsaid.
THEOREM OnceAlways ==
    ASSUME ~Overlap
    PROVE  Spec => [](TypeOK /\ Once)
  BY TypeInit, TypeStep, OnceInit, OnceStep, PTL DEF Spec

\* A refunded row is refunded once: never into the wallet and at Paystack, and never
\* twice at Paystack, also when a 5xx hides a refund or Paystack retries one.
THEOREM RefundSentOnceAlways ==
    ASSUME ~Overlap
    PROVE  Spec => []RefundSentOnce
  <1>1. Once => RefundSentOnce
    BY DEF Once, RowOnce, RefundSentOnce
  <1>. QED
    BY <1>1, OnceAlways, PTL

-----------------------------------------------------------------------------
(* What needs no fault to happen: the rows, the truth at Paystack and what *)
(* the runs know agree, also where an order is cancelled after its payout. *)

Core ==
    /\ RowsApart
    /\ \A x \in Keys : RowTrue(x)
    /\ \A r \in Runs : run[r] # Idle => RunTrue(r)

LEMMA CoreInit == Init => Core
  <1>. SUFFICES ASSUME Init PROVE Core
    OBVIOUS
  <1>1. \A x \in Keys : rows[x] = NoRow
    BY DEF Init
  <1>2. RowsApart
    BY <1>1 DEF RowsApart, NoRow
  <1>3. \A x \in Keys : RowTrue(x)
    BY <1>1 DEF Init, RowTrue, NoRow
  <1>. QED
    BY <1>2, <1>3 DEF Init, Core

\* What is said of a row, or of a run, depends on it alone.
LEMMA RowKept ==
    ASSUME NEW x \in Keys, RowTrue(x), rows'[x] = rows[x], made'[x] = made[x],
           x \in credited' <=> x \in credited,
           \A n \in 1..MaxSends, to \in {"processed", "failed"} :
                <<<<x, n>>, to>> \in handled' <=> <<<<x, n>>, to>> \in handled,
           TypeOK, TypeOK'
    PROVE  RowTrue(x)'
  <1>1. \A n \in 1..MaxSends : <<<<x, n>>, made[x][n]>> \in handled' <=> <<<<x, n>>, made[x][n]>> \in handled
    <2>1. handled \subseteq Ids \X {"processed", "failed"} /\ handled' \subseteq Ids \X {"processed", "failed"}
      BY DEF TypeOK
    <2>. QED
      BY <2>1
  <1>. QED
    BY <1>1 DEF RowTrue

LEMMA RunKept ==
    ASSUME NEW r \in Runs, run[r] # Idle, RunTrue(r), run'[r] = run[r],
           run[r].row \in Keys,
           run[r].at = "call" \/ Answered(r, SaidNo) => rows'[run[r].row] = rows[run[r].row],
           made'[run[r].row] = made[run[r].row]
    PROVE  RunTrue(r)'
  <1>1. Answered(r, SaidNo)' <=> Answered(r, SaidNo)
    BY DEF Answered, SaidNo
  <1>2. Answered(r, {"ok"})' <=> Answered(r, {"ok"})
    BY DEF Answered
  <1>. QED
    BY <1>1, <1>2 DEF RunTrue

\* Rows that keep their part, and never come back from failed, stay apart.
Onward(x) ==
    /\ rows'[x].part = rows[x].part
    /\ rows'[x].status \notin {"none", "failed"} => rows[x].status \notin {"none", "failed"}
LEMMA ApartKept ==
    ASSUME RowsApart, \A x \in Keys : Onward(x)
    PROVE  RowsApart'
  BY DEF RowsApart, Onward, UnitsOf

LEMMA CoreSame ==
    ASSUME Core, UNCHANGED <<rowVars, made, handled, run>>
    PROVE  Core'
  <1>1. RowsApart'
    BY DEF Core, RowsApart, rowVars
  <1>2. \A x \in Keys : RowTrue(x)'
    BY DEF Core, RowTrue, rowVars
  <1>3. \A r \in Runs : run'[r] # Idle => RunTrue(r)'
    BY DEF Core, RunTrue, Answered, rowVars
  <1>. QED
    BY <1>1, <1>2, <1>3 DEF Core

\* The rows of a new batch.
LEMMA CoreQueue ==
    ASSUME TypeOK, TypeOK', Once, Core, UNCHANGED <<credited, made, handled, run>>,
           NEW parts \in [Payments -> SUBSET Units], Queue(parts),
           \A p \in Payments : parts[p] \subseteq UnitsOf(p) \ Reserved
    PROVE  Core'
  <1>. DEFINE new(x) == x[1] = batches' /\ parts[x[2]] # {}
  <1>1. \A x \in Keys : rows'[x] = IF new(x) THEN NewRow(parts[x[2]]) ELSE rows[x]
    BY DEF Queue
  <1>2. batches' = batches + 1 /\ batches \in Nat
    BY DEF Queue, TypeOK
  <1>3. \A x \in Keys : x[1] \in Nat /\ x[2] \in Payments
    BY DEF Keys
  <1>4. \A x \in Keys : new(x) => rows[x] = NoRow
    BY <1>2, <1>3 DEF Once, NewestOpen
  <1>5. \A x \in Keys : new(x) =>
          /\ rows'[x].status = "pending" /\ rows'[x].part = parts[x[2]] /\ rows'[x].id = {}
    BY ZenonT(60), <1>1 DEF NewRow, NoRow
  <1>6. \A x, y \in Keys : x[2] = y[2] /\ x[1] = y[1] => x = y
    BY DEF Keys
  <1>7. RowsApart'
    <2>1. ASSUME NEW x \in Keys PROVE rows'[x].part \subseteq UnitsOf(x[2])
      <3>1. CASE new(x)
        BY <1>3, <1>5, <3>1
      <3>2. CASE ~new(x)
        <4>1. rows'[x] = rows[x]
          BY <1>1, <3>2
        <4>. QED
          BY <4>1 DEF Core, RowsApart
      <3>. QED
        BY <3>1, <3>2
    <2>2. \A x \in Keys : rows[x].status \notin {"none", "failed"} => rows[x].part \subseteq Reserved
      BY DEF Reserved
    <2>3. \A p, q \in Payments : p # q => parts[p] \cap parts[q] = {}
      BY DEF UnitsOf
    <2>4. ASSUME NEW x \in Keys, NEW y \in Keys, x # y,
                 {rows'[x].status, rows'[y].status} \cap {"none", "failed"} = {}
          PROVE  rows'[x].part \cap rows'[y].part = {}
      <3>1. CASE new(x) /\ new(y)
        <4>1. x[2] # y[2]
          BY <1>6, <2>4, <3>1
        <4>2. rows'[x].part = parts[x[2]] /\ rows'[y].part = parts[y[2]]
          BY <1>5, <3>1
        <4>. QED
          BY <1>3, <2>3, <4>1, <4>2
      <3>2. CASE new(x) /\ ~new(y)
        BY <1>1, <1>3, <1>5, <2>2, <2>4, <3>2
      <3>3. CASE ~new(x) /\ new(y)
        BY <1>1, <1>3, <1>5, <2>2, <2>4, <3>3
      <3>4. CASE ~new(x) /\ ~new(y)
        BY <1>1, <2>4, <3>4 DEF Core, RowsApart
      <3>. QED
        BY <3>1, <3>2, <3>3, <3>4
    <2>5. \A p \in Payments : UnitsOf(p)' = UnitsOf(p)
      BY DEF UnitsOf
    <2>. HIDE DEF new
    <2>. QED
      BY <2>1, <2>4, <2>5, <1>3 DEF RowsApart
  <1>8. ASSUME NEW x \in Keys PROVE RowTrue(x)'
    <2>1. RowTrue(x) /\ RowOnce(x)
      BY DEF Core, Once
    <2>2. CASE ~new(x)
      BY <1>1, <2>1, <2>2, RowKept
    <2>3. CASE new(x)
      <3>1. rows[x].status = "none"
        BY <1>4, <2>3 DEF NoRow
      <3>2. x \notin credited /\ \A n \in 1..MaxSends : made[x][n] = "none"
        BY <2>1, <3>1 DEF RowOnce, Taken
      <3>. QED
        BY <1>5, <2>1, <2>3, <3>2 DEF RowTrue
    <2>. QED
      BY <2>2, <2>3
  <1>9. ASSUME NEW r \in Runs, run'[r] # Idle PROVE RunTrue(r)'
    <2>1. RunTrue(r) /\ run[r] # Idle /\ run[r].row \in Keys
      BY <1>9, AtWork DEF Core
    <2>2. rows[run[r].row].status # "none"
      BY <2>1 DEF Once, RunOnce, Taken
    <2>3. rows'[run[r].row] = rows[run[r].row]
      BY <1>1, <1>4, <2>1, <2>2 DEF NoRow
    <2>. QED
      BY <2>1, <2>3, RunKept
  <1>. QED
    BY <1>7, <1>8, <1>9 DEF Core

LEMMA CoreOrder ==
    ASSUME TypeOK, TypeOK', Once, Core, OrderStep
    PROVE  Core'
  <1>1. CASE Complete \/ (\E p \in Payments : Pay(p)) \/ \E to \in PayoutStatuses : PayoutMove(to)
    BY <1>1, CoreSame DEF Complete, Pay, PayoutMove
  <1>2. CASE Cancel
    <2>. DEFINE parts == [p \in Payments |-> IF Refundable(p) THEN UnitsOf(p) ELSE {}]
    <2>1. parts \in [Payments -> SUBSET Units] /\ \A p \in Payments : parts[p] \subseteq UnitsOf(p)
      BY DEF UnitsOf
    <2>2. ASSUME NEW p \in Payments, NEW u \in parts[p] PROVE u \notin Reserved
      <3>1. Refundable(p) /\ u \in UnitsOf(p)
        BY <2>2
      <3>2. SUFFICES ASSUME NEW x \in Keys, rows[x].status \notin {"none", "failed"}, u \in rows[x].part
                     PROVE  FALSE
        BY DEF Reserved
      <3>3. x[2] = p
        BY <3>1, <3>2 DEF Core, RowsApart, UnitsOf
      <3>. QED
        BY <3>1, <3>2, <3>3 DEF Refundable
    <2>3. Queue(parts) /\ UNCHANGED <<credited, made, handled, run>>
      BY <1>2 DEF Cancel
    <2>. HIDE DEF parts
    <2>4. \A p \in Payments : parts[p] \subseteq UnitsOf(p) \ Reserved
      BY <2>1, <2>2
    <2>. QED
      BY <2>1, <2>3, <2>4, CoreQueue
  <1>3. CASE \E W \in SUBSET Units : RefundOrder(W)
    <2>1. PICK W \in SUBSET Units : RefundOrder(W)
      BY <1>3
    <2>. DEFINE parts == [p \in Payments |-> W \cap UnitsOf(p)]
    <2>2. parts \in [Payments -> SUBSET Units]
      OBVIOUS
    <2>3. \A p \in Payments : parts[p] \subseteq UnitsOf(p) \ Reserved
      BY <2>1 DEF RefundOrder, Free
    <2>4. Queue(parts) /\ UNCHANGED <<credited, made, handled, run>>
      BY <2>1 DEF RefundOrder
    <2>. HIDE DEF parts
    <2>. QED
      BY <2>2, <2>3, <2>4, CoreQueue
  <1>. QED
    BY <1>1, <1>2, <1>3 DEF OrderStep

\* Where a step touches the row x alone, only a run that works with x can notice.
LEMMA OthersKept ==
    ASSUME TypeOK, Core, NEW x \in Keys,
           NEW q \in Runs, run'[q] = run[q], run[q] # Idle, run[q].row # x,
           \A y \in Keys : y # x => rows'[y] = rows[y] /\ made'[y] = made[y]
    PROVE  RunTrue(q)'
  <1>1. RunTrue(q) /\ run[q].row \in Keys
    BY AtWork DEF Core
  <1>. QED
    BY <1>1, RunKept

\* Nothing was refunded for a queued row, and it has no id.
LEMMA PendingClean ==
    ASSUME Once, NEW x \in Keys, rows[x].status = "pending"
    PROVE  /\ rows[x].id = {} /\ x \notin credited
           /\ \A n \in 1..MaxSends : made[x][n] = "none"
  BY DEF Once, RowOnce, Taken

LEMMA CoreCredit ==
    ASSUME Calm, TypeOK, TypeOK', Once, Core, NEW r \in Runs, NEW x \in Keys, CreditWallet(r, x)
    PROVE  Core'
  <1>1. \A y \in Keys : rows'[y] = IF y = x THEN [rows[x] EXCEPT !.status = "processed"] ELSE rows[y]
    BY DEF CreditWallet, SetStatus, TypeOK
  <1>2. rows[x].status = "pending" /\ rows[x] \in Row
    BY DEF CreditWallet, TypeOK
  <1>3. UNCHANGED <<made, handled, run>> /\ credited' = credited \cup {x}
    BY DEF CreditWallet
  <1>4. RowsApart'
    <2>1. \A y \in Keys : Onward(y)
      BY <1>1, <1>2 DEF Onward, Row
    <2>. QED
      BY <2>1, ApartKept DEF Core
  <1>5. \A y \in Keys : y # x => RowTrue(y)'
    BY <1>1, <1>3, RowKept DEF Core
  <1>6. RowTrue(x)'
    <2>1. /\ rows[x].id = {} /\ x \notin credited
          /\ \A n \in 1..MaxSends : made[x][n] = "none"
      BY <1>2, PendingClean
    <2>2. rows'[x].status = "processed" /\ rows'[x].id = {}
      BY <1>1, <1>2, <2>1 DEF Row
    <2>3. RowTrue(x)
      BY DEF Core
    <2>. QED
      BY <1>3, <2>1, <2>2, <2>3 DEF RowTrue
  <1>7. ASSUME NEW q \in Runs, run'[q] # Idle PROVE RunTrue(q)'
    <2>1. run[q].row # x
      BY <1>3, <1>7 DEF CreditWallet, Alone, Calm, Busy
    <2>. QED
      BY <1>1, <1>3, <1>7, <2>1, OthersKept
  <1>. QED
    BY <1>4, <1>5, <1>6, <1>7 DEF Core

LEMMA CoreTake ==
    ASSUME Calm, TypeOK, TypeOK', Once, Core, NEW r \in Runs, NEW x \in Keys, TakeNext(r, x)
    PROVE  Core'
  <1>1. \A y \in Keys : rows'[y] = IF y = x THEN [rows[x] EXCEPT !.status = "processing"] ELSE rows[y]
    BY DEF TakeNext, SetStatus, TypeOK
  <1>2. rows[x].status = "pending" /\ rows[x] \in Row
    BY DEF TakeNext, TypeOK
  <1>3. UNCHANGED <<credited, made, handled>>
    BY DEF TakeNext
  <1>4. \A q \in Runs : run'[q] = IF q = r THEN [at |-> "call", row |-> x] ELSE run[q]
    BY DEF TakeNext, Becomes, TypeOK
  <1>5. \A q \in Runs : run[q] # Idle => run[q].row # x
    BY DEF TakeNext, Alone, Calm, Busy
  <1>6. RowsApart'
    <2>1. \A y \in Keys : Onward(y)
      BY <1>1, <1>2 DEF Onward, Row
    <2>. QED
      BY <2>1, ApartKept DEF Core
  <1>7. \A y \in Keys : y # x => RowTrue(y)'
    BY <1>1, <1>3, RowKept DEF Core
  <1>8. /\ rows[x].id = {} /\ x \notin credited
        /\ \A n \in 1..MaxSends : made[x][n] = "none"
    BY <1>2, PendingClean
  <1>9. rows'[x].status = "processing" /\ rows'[x].id = {}
    BY <1>1, <1>2, <1>8 DEF Row
  <1>10. RowTrue(x)'
    <2>1. RowTrue(x)
      BY DEF Core
    <2>. QED
      BY <1>3, <1>8, <1>9, <2>1 DEF RowTrue
  <1>11. ASSUME NEW q \in Runs, run'[q] # Idle PROVE RunTrue(q)'
    <2>1. CASE q = r
      BY <1>3, <1>4, <1>8, <1>9, <2>1 DEF RunTrue, Answered
    <2>2. CASE q # r
      BY <1>1, <1>3, <1>4, <1>5, <1>11, <2>2, OthersKept
    <2>. QED
      BY <2>1, <2>2
  <1>. QED
    BY <1>6, <1>7, <1>10, <1>11 DEF Core

\* Steps of a run that leave rows and truth alone.
LEMMA SameRows ==
    ASSUME Core, UNCHANGED <<rowVars, made, handled>>
    PROVE  RowsApart' /\ \A y \in Keys : RowTrue(y)'
  <1>1. RowsApart'
    BY DEF Core, RowsApart, rowVars
  <1>2. \A y \in Keys : RowTrue(y)'
    BY DEF Core, RowTrue, rowVars
  <1>. QED
    BY <1>1, <1>2

LEMMA CoreList ==
    ASSUME Calm, TypeOK, Core, NEW r \in Runs, NEW x \in Keys, ListRefunds(r, x)
    PROVE  Core'
  <1>1. UNCHANGED <<rowVars, made, handled>>
    BY DEF ListRefunds
  <1>2. \A q \in Runs :
            run'[q] = IF q = r THEN [at |-> "listed", row |-> x, found |-> MadeOf(x[2])] ELSE run[q]
    BY DEF ListRefunds, Becomes, TypeOK
  <1>3. \A q \in Runs : run[q] # Idle => run[q].row # x
    BY DEF ListRefunds, Alone, Calm, Busy
  <1>4. RowsApart' /\ \A y \in Keys : RowTrue(y)'
    BY <1>1, SameRows
  <1>5. ASSUME NEW q \in Runs, run'[q] # Idle PROVE RunTrue(q)'
    <2>1. CASE q = r
      BY <1>2, <2>1 DEF RunTrue, Answered
    <2>2. CASE q # r
      BY <1>1, <1>2, <1>3, <1>5, <2>2, OthersKept DEF rowVars
    <2>. QED
      BY <2>1, <2>2
  <1>. QED
    BY <1>4, <1>5 DEF Core

LEMMA CoreCreate ==
    ASSUME Calm, TypeOK, TypeOK', Once, Core, NEW r \in Runs, CreateRefund(r)
    PROVE  Core'
  <1>. PICK x \in Keys : x = run[r].row
    BY Created
  <1>1. /\ run[r].at = "call" /\ x = run[r].row /\ run[r] # Idle
        /\ UNCHANGED <<rowVars, handled>>
    BY Created, IdleIsIdle
  <1>2. /\ rows[x].status = "processing" /\ rows[x].id = {}
        /\ \A n \in 1..MaxSends : made[x][n] = "none"
    BY <1>1 DEF Core, RunTrue
  <1>3. RowsApart'
    BY <1>1 DEF Core, RowsApart, rowVars
  <1>4. CASE \E a \in NotOk : NotMade(r, a)
    <2>1. PICK a \in NotOk : NotMade(r, a)
      BY <1>4
    <2>2. \A q \in Runs : run'[q] = IF q = r THEN Answer(x, a, {}) ELSE run[q]
      BY <1>1, <2>1 DEF NotMade, Learns, TypeOK
    <2>3. \A y \in Keys : RowTrue(y)'
      BY <1>1, <2>1, SameRows DEF NotMade
    <2>4. ASSUME NEW q \in Runs, run'[q] # Idle PROVE RunTrue(q)'
      <3>1. CASE q = r
        BY <1>1, <1>2, <2>1, <2>2, <3>1 DEF RunTrue, Answered, Answer, rowVars, NotMade, NotOk
      <3>2. CASE q # r
        <4>1. run[q].row # x
          BY <1>1, <2>2, <2>4, <3>2 DEF Once, OneRun
        <4>. QED
          BY <1>1, <2>1, <2>2, <2>4, <3>2, <4>1, OthersKept DEF rowVars, NotMade
      <3>. QED
        BY <3>1, <3>2
    <2>. QED
      BY <1>3, <2>3, <2>4 DEF Core
  <1>5. CASE \E n \in 1..MaxSends : Made(r, n)
    <2>1. PICK n \in 1..MaxSends : Made(r, n)
      BY <1>5
    <2>2. PICK a \in {"ok", "unknown"}, i \in SUBSET Ids :
              Learns(r, a, i) /\ (a = "ok" => i = {<<x, n>>})
      <3>1. {<<x, n>>} \in SUBSET Ids
        BY <1>1 DEF Ids
      <3>. QED
        BY <1>1, <2>1, <3>1 DEF Made, Calm
    <2>3. \A q \in Runs : run'[q] = IF q = r THEN Answer(x, a, i) ELSE run[q]
      BY <1>1, <2>2 DEF Learns, TypeOK
    <2>4. /\ \A y \in Keys : y # x => made'[y] = made[y]
          /\ \A k \in 1..MaxSends : made'[x][k] = IF k = n THEN "pending" ELSE "none"
      BY <1>1, <1>2, <2>1 DEF Made, TypeOK
    <2>5. \A y \in Keys : y # x => RowTrue(y)'
      BY <1>1, <2>4, RowKept DEF Core, rowVars
    <2>6. RowTrue(x)'
      <3>1. RowTrue(x)
        BY <1>1 DEF Core
      <3>2. \A k \in 1..MaxSends, to \in {"processed", "failed"} : <<<<x, k>>, to>> \notin handled
        BY <1>1, <1>2, <3>1 DEF RowTrue
      <3>3. \A k \in 1..MaxSends : <<<<x, k>>, "pending">> \notin handled
        BY DEF TypeOK
      <3>4. x \notin credited
        BY <1>2, <3>1 DEF RowTrue
      <3>. QED
        BY <1>1, <1>2, <2>4, <3>2, <3>3, <3>4 DEF RowTrue, rowVars
    <2>7. ASSUME NEW q \in Runs, run'[q] # Idle PROVE RunTrue(q)'
      <3>1. CASE q = r
        BY <1>1, <2>2, <2>3, <2>4, <3>1 DEF RunTrue, Answered, Answer, SaidNo
      <3>2. CASE q # r
        <4>1. run[q].row # x
          BY <1>1, <2>3, <2>7, <3>2 DEF Once, OneRun
        <4>. QED
          BY <1>1, <2>3, <2>4, <2>7, <3>2, <4>1, OthersKept DEF rowVars
      <3>. QED
        BY <3>1, <3>2
    <2>. QED
      BY <1>3, <2>5, <2>6, <2>7 DEF Core
  <1>. QED
    BY <1>4, <1>5, Created

\* A run that is done, and the others.
LEMMA CoreDone ==
    ASSUME TypeOK, Once, Core, NEW r \in Runs, NEW x \in Keys, run[r] # Idle, run[r].row = x,
           run' = [run EXCEPT ![r] = Idle], made' = made,
           \A y \in Keys : y # x => rows'[y] = rows[y],
           RowsApart', \A y \in Keys : RowTrue(y)'
    PROVE  Core'
  <1>1. \A q \in Runs : run'[q] = IF q = r THEN Idle ELSE run[q]
    BY DEF TypeOK
  <1>2. ASSUME NEW q \in Runs, run'[q] # Idle PROVE RunTrue(q)'
    <2>1. q # r /\ run'[q] = run[q] /\ run[q].row # x
      BY <1>1, <1>2 DEF Once, OneRun
    <2>. QED
      BY <1>2, <2>1, OthersKept
  <1>. QED
    BY <1>2 DEF Core

LEMMA CoreFailed ==
    ASSUME TypeOK, TypeOK', Once, Core, NEW r \in Runs, MarkFailed(r)
    PROVE  Core'
  <1>. PICK x \in Keys : x = run[r].row
    BY AtWork, IdleIsIdle DEF MarkFailed, Answered
  <1>1. run[r] # Idle /\ x = run[r].row /\ Answered(r, SaidNo)
    BY IdleIsIdle DEF MarkFailed, Answered
  <1>2. /\ rows[x].status = "processing" /\ rows[x].id = {}
        /\ \A n \in 1..MaxSends : made[x][n] = "none"
    BY <1>1 DEF Core, RunTrue
  <1>3. \A y \in Keys : rows'[y] = IF y = x THEN [rows[x] EXCEPT !.status = "failed"] ELSE rows[y]
    BY <1>1 DEF MarkFailed, SetStatus, TypeOK
  <1>4. rows[x] \in Row
    BY <1>1 DEF TypeOK
  <1>5. UNCHANGED <<credited, made, handled>> /\ run' = [run EXCEPT ![r] = Idle]
    BY DEF MarkFailed, Becomes
  <1>6. RowsApart'
    <2>1. \A y \in Keys : Onward(y)
      BY <1>2, <1>3, <1>4 DEF Onward, Row
    <2>. QED
      BY <2>1, ApartKept DEF Core
  <1>7. \A y \in Keys : y # x => RowTrue(y)'
    BY <1>3, <1>5, RowKept DEF Core
  <1>8. RowTrue(x)'
    <2>1. rows'[x].status = "failed" /\ rows'[x].id = {}
      BY <1>1, <1>2, <1>3, <1>4 DEF Row
    <2>2. RowTrue(x)
      BY <1>1 DEF Core
    <2>3. x \notin credited
      BY <1>2, <2>2 DEF RowTrue
    <2>. QED
      BY <1>2, <1>5, <2>1, <2>2, <2>3 DEF RowTrue
  <1>. QED
    BY <1>1, <1>3, <1>5, <1>6, <1>7, <1>8, CoreDone

\* A run that ends without writing anything.
LEMMA CoreStops ==
    ASSUME TypeOK, Once, Core, NEW r \in Runs, run[r] # Idle, run' = [run EXCEPT ![r] = Idle],
           UNCHANGED <<rowVars, made, handled>>
    PROVE  Core'
  <1>1. RowsApart' /\ \A y \in Keys : RowTrue(y)'
    BY SameRows
  <1>2. run[r].row \in Keys
    BY AtWork
  <1>. QED
    BY <1>1, <1>2, CoreDone DEF rowVars

\* A run writes down an id that is the row's own.
LEMMA CoreId ==
    ASSUME TypeOK, TypeOK', Once, Core, NEW r \in Runs, NEW x \in Keys, NEW n \in 1..MaxSends,
           run[r] # Idle, run[r].row = x, made[x][n] # "none",
           rows' = [rows EXCEPT ![x].id = {<<x, n>>}], run' = [run EXCEPT ![r] = Idle],
           UNCHANGED <<credited, made, handled>>
    PROVE  Core'
  <1>1. \A y \in Keys : rows'[y] = IF y = x THEN [rows[x] EXCEPT !.id = {<<x, n>>}] ELSE rows[y]
    BY DEF TypeOK
  <1>2. rows[x] \in Row /\ RowTrue(x) /\ RunOnce(r)
    BY DEF TypeOK, Core, Once
  <1>3. /\ rows'[x].id = {<<x, n>>} /\ rows'[x].status = rows[x].status
        /\ rows'[x].part = rows[x].part
    BY <1>1, <1>2 DEF Row
  <1>4. RowsApart'
    <2>1. \A y \in Keys : Onward(y)
      BY <1>1, <1>3 DEF Onward
    <2>. QED
      BY <2>1, ApartKept DEF Core
  <1>5. \A y \in Keys : y # x => RowTrue(y)'
    BY <1>1, RowKept DEF Core
  <1>6. \A k \in 1..MaxSends : made[x][k] # "none" => k = n
    BY DEF Once, RowOnce, SentOnce
  <1>7. RowTrue(x)'
    <2>1. x \notin credited
      BY <1>2 DEF RunOnce
    <2>. QED
      BY <1>2, <1>3, <1>6, <2>1 DEF RowTrue
  <1>8. \A y \in Keys : y # x => rows'[y] = rows[y]
    BY <1>1
  <1>9. \A y \in Keys : RowTrue(y)'
    BY <1>5, <1>7
  <1>. QED
    BY <1>4, <1>8, <1>9, CoreDone

LEMMA CoreSent ==
    ASSUME TypeOK, TypeOK', Once, Core, NEW r \in Runs, MarkSent(r)
    PROVE  Core'
  <1>. PICK x \in Keys : x = run[r].row
    BY AtWork, IdleIsIdle DEF MarkSent, Answered
  <1>1. run[r] # Idle /\ Answered(r, {"ok"})
    BY IdleIsIdle DEF MarkSent, Answered
  <1>2. PICK n \in 1..MaxSends : run[r].id = {<<x, n>>} /\ made[x][n] # "none"
    BY <1>1 DEF Core, RunTrue
  <1>. QED
    BY <1>1, <1>2, CoreId DEF MarkSent, Becomes

LEMMA CoreRecover ==
    ASSUME TypeOK, TypeOK', Once, Core, NEW r \in Runs, Recover(r)
    PROVE  Core'
  <1>. PICK x \in Keys : x = run[r].row
    BY AtWork, IdleIsIdle DEF Recover
  <1>1. /\ run[r] # Idle /\ run[r].at = "listed" /\ run' = [run EXCEPT ![r] = Idle]
        /\ UNCHANGED <<batches, credited, made, handled>>
    BY IdleIsIdle DEF Recover, Becomes
  <1>2. /\ \A n \in 1..MaxSends : made[x][n] # "none" => <<x, n>> \in run[r].found
        /\ \A y \in Keys, n \in 1..MaxSends :
              <<y, n>> \in run[r].found => made[y][n] # "none" /\ y[2] = x[2]
        /\ run[r].found \subseteq Ids
    BY <1>1, AtWork DEF Once, RunOnce
  <1>3. CASE ~Unconfirmed(x)
    BY <1>1, <1>3, CoreStops DEF Recover, rowVars
  <1>4. CASE Unconfirmed(x) /\ Matches(r) = {}
    <2>1. rows[x].status = "processing" /\ rows[x].id = {} /\ rows[x] \in Row
      BY <1>4 DEF Unconfirmed, TypeOK
    <2>2. ASSUME NEW n \in 1..MaxSends PROVE made[x][n] = "none"
      <3>1. SUFFICES ASSUME made[x][n] # "none" PROVE <<x, n>> \in Matches(r)
        BY <1>4
      <3>2. ASSUME NEW y \in Keys PROVE <<x, n>> \notin rows[y].id
        BY <2>1 DEF Core, RowTrue
      <3>3. <<x, n>> \in run[r].found
        BY <1>2, <3>1
      <3>. QED
        BY <3>2, <3>3 DEF Matches
    <2>3. \A y \in Keys : rows'[y] = IF y = x THEN [rows[x] EXCEPT !.status = "pending"] ELSE rows[y]
      BY <1>4 DEF Recover, SetStatus, TypeOK
    <2>4. rows'[x].status = "pending" /\ rows'[x].id = {} /\ rows'[x].part = rows[x].part
      BY <2>1, <2>3 DEF Row
    <2>5. RowsApart'
      <3>1. \A y \in Keys : Onward(y)
        BY <2>1, <2>3, <2>4 DEF Onward
      <3>. QED
        BY <3>1, ApartKept DEF Core
    <2>6. \A y \in Keys : y # x => RowTrue(y)'
      BY <1>1, <2>3, RowKept DEF Core
    <2>7. RowTrue(x)'
      <3>1. RowTrue(x)
        BY DEF Core
      <3>2. x \notin credited
        BY <2>1, <3>1 DEF RowTrue
      <3>. QED
        BY <1>1, <2>2, <2>4, <3>1, <3>2 DEF RowTrue
    <2>. QED
      BY <1>1, <2>3, <2>5, <2>6, <2>7, CoreDone
  <1>5. CASE Unconfirmed(x) /\ Matches(r) # {}
    <2>1. PICK i \in Matches(r) : rows' = [rows EXCEPT ![x].id = {i}]
      BY <1>5 DEF Recover
    <2>2. PICK y \in Keys, n \in 1..MaxSends : i = <<y, n>>
      BY <1>2 DEF Matches, Ids
    <2>3. i \in run[r].found /\ i \notin rows[y].id
      BY DEF Matches
    <2>4. made[y][n] # "none" /\ y[2] = x[2]
      BY <1>2, <2>2, <2>3
    <2>5. rows[y].status = "processing"
      <3>1. RowTrue(y)
        BY DEF Core
      <3>2. rows[y].status # "processing" => rows[y].id = {<<y, n>>}
        BY <2>4, <3>1 DEF RowTrue
      <3>. QED
        BY <2>2, <2>3, <3>2
    <2>6. y = x
      <3>1. rows[x].status = "processing"
        BY <1>5 DEF Unconfirmed
      <3>2. Open(x) /\ Open(y)
        BY <2>5, <3>1 DEF Open
      <3>. QED
        BY <2>4, <3>2 DEF Once, NewestOpen
    <2>. QED
      BY <1>1, <2>1, <2>2, <2>4, <2>6, CoreId
  <1>. QED
    BY <1>3, <1>4, <1>5

LEMMA CoreRun ==
    ASSUME Calm, TypeOK, TypeOK', Once, Core, NEW r \in Runs, RunStep(r)
    PROVE  Core'
  <1>1. CASE Note(r) \/ RunStops(r)
    <2>1. run[r] # Idle
      BY <1>1, IdleIsIdle DEF Note, RunStops, Answered
    <2>. QED
      BY <1>1, <2>1, CoreStops DEF Note, RunStops, Becomes
  <1>. QED
    BY <1>1, CoreCredit, CoreTake, CoreList, CoreCreate, CoreSent, CoreFailed, CoreRecover
       DEF RunStep, AnswerStep

\* Paystack ends a refund it has made: nothing else is known of it yet.
LEMMA CoreEnds ==
    ASSUME TypeOK, TypeOK', Core, NEW x \in Keys, NEW n \in 1..MaxSends, RefundEnds(x, n)
    PROVE  Core'
  <1>1. PICK t \in {"processed", "failed"} : made' = [made EXCEPT ![x][n] = t]
    BY DEF RefundEnds
  <1>2. made[x][n] = "pending" /\ UNCHANGED <<rowVars, handled, run>>
    BY DEF RefundEnds
  <1>3. /\ \A y \in Keys : y # x => made'[y] = made[y]
        /\ \A k \in 1..MaxSends : made'[x][k] = IF k = n THEN t ELSE made[x][k]
    BY <1>1 DEF TypeOK
  <1>4. \A y \in Keys, k \in 1..MaxSends : made'[y][k] # "none" <=> made[y][k] # "none"
    BY <1>2, <1>3
  <1>5. RowsApart'
    BY <1>2 DEF Core, RowsApart, rowVars
  <1>6. \A y \in Keys : y # x => RowTrue(y)'
    BY <1>2, <1>3, RowKept DEF Core, rowVars
  <1>7. RowTrue(x)
    BY DEF Core
  <1>8. \A to \in {"processed", "failed"} : <<<<x, n>>, to>> \notin handled
    BY <1>2, <1>7 DEF RowTrue
  <1>9. rows[x].status = "processing"
    <2>1. <<<<x, n>>, "pending">> \notin handled
      BY DEF TypeOK
    <2>. QED
      BY <1>2, <1>7, <2>1 DEF RowTrue
  <1>10. RowTrue(x)'
    BY <1>2, <1>3, <1>4, <1>7, <1>8, <1>9 DEF RowTrue, rowVars
  <1>11. ASSUME NEW r \in Runs, run'[r] # Idle PROVE RunTrue(r)'
    <2>1. RunTrue(r)
      BY <1>2, <1>11 DEF Core
    <2>2. Answered(r, SaidNo)' <=> Answered(r, SaidNo)
      BY <1>2 DEF Answered, SaidNo
    <2>3. Answered(r, {"ok"})' <=> Answered(r, {"ok"})
      BY <1>2 DEF Answered
    <2>4. run[r].row \in Keys
      BY <1>2, <1>11, AtWork
    <2>. QED
      BY <1>2, <1>4, <2>1, <2>2, <2>3, <2>4 DEF RunTrue, rowVars
  <1>. QED
    BY <1>5, <1>6, <1>10, <1>11 DEF Core

EndedBy(x, n, to) ==
    /\ rows[x].status = "processing" /\ made[x][n] = to
    /\ <<<<x, n>>, to>> \notin handled /\ handled' = handled \cup {<<<<x, n>>, to>>}
    /\ rows' = [rows EXCEPT ![x].status = to, ![x].id = {<<x, n>>}]
    /\ UNCHANGED <<payoutVars, batches, credited, made, run>>

\* The event of a refund finds its own row, and finds it processing: an older row of the
\* payment that is still open leaves no room for a newer one.
LEMMA EventOwn ==
    ASSUME TypeOK, Once, Core, NEW x \in Keys, NEW n \in 1..MaxSends, RefundEvent(x, n)
    PROVE  \E to \in {"processed", "failed"} : EndedBy(x, n, to)
  <1>1. PICK to \in Happened(<<x, n>>) : HandleEvent(<<x, n>>, to)
    BY DEF RefundEvent
  <1>2. RowTrue(x)
    BY DEF Core
  <1>3. made[x][n] = to /\ to \in {"processed", "failed"}
    BY <1>1, <1>2 DEF Happened, RowTrue
  <1>4. /\ <<<<x, n>>, to>> \notin handled /\ handled' = handled \cup {<<<<x, n>>, to>>}
        /\ UNCHANGED <<payoutVars, batches, credited, made, run>>
    BY <1>1 DEF HandleEvent
  <1>5. rows[x].status = "processing"
    BY <1>2, <1>3, <1>4 DEF RowTrue
  <1>6. rows' = [rows EXCEPT ![x].status = to, ![x].id = {<<x, n>>}]
    <2>1. PICK y \in Keys :
            /\ y[2] = x[2] /\ Newest(y)
            /\ rows' = IF MovesTo(rows[y].status, to)
                       THEN [rows EXCEPT ![y].status = to, ![y].id = {<<x, n>>}] ELSE rows
      BY <1>1 DEF HandleEvent
    <2>2. x[1] \in Nat /\ y[1] \in Nat
      BY DEF Keys
    <2>3. x[1] <= y[1] /\ rows[y].status # "none"
      BY <1>5, <2>1 DEF Newest
    <2>4. ~(y[1] > x[1])
      <3>1. Open(x) /\ (y[1] > x[1] => y # x)
        BY <1>5, <2>2 DEF Open
      <3>. QED
        BY <2>1, <2>3, <3>1 DEF Once, NewestOpen
    <2>5. y = x
      BY <2>1, <2>2, <2>3, <2>4 DEF Keys
    <2>. QED
      BY <1>3, <1>5, <2>1, <2>5 DEF MovesTo
  <1>. QED
    BY <1>3, <1>4, <1>5, <1>6 DEF EndedBy

LEMMA CoreEvent ==
    ASSUME TypeOK, TypeOK', Once, Core, NEW x \in Keys, NEW n \in 1..MaxSends, RefundEvent(x, n)
    PROVE  Core'
  <1>1. PICK to \in {"processed", "failed"} : EndedBy(x, n, to)
    BY EventOwn
  <1>2. RowTrue(x) /\ SentOnce(x)
    BY DEF Core, Once, RowOnce
  <1>3. made[x][n] = to /\ to \in {"processed", "failed"}
    BY <1>1 DEF EndedBy
  <1>4. /\ <<<<x, n>>, to>> \notin handled /\ handled' = handled \cup {<<<<x, n>>, to>>}
        /\ UNCHANGED <<credited, made, run>>
    BY <1>1 DEF EndedBy
  <1>5. rows[x].status = "processing"
    BY <1>1 DEF EndedBy
  <1>6. rows' = [rows EXCEPT ![x].status = to, ![x].id = {<<x, n>>}]
    BY <1>1 DEF EndedBy
  <1>7. \A y \in Keys : rows'[y] = IF y = x THEN [rows[x] EXCEPT !.status = to, !.id = {<<x, n>>}]
                                   ELSE rows[y]
    BY <1>6 DEF TypeOK
  <1>8. /\ rows'[x].status = to /\ rows'[x].id = {<<x, n>>}
        /\ rows'[x].part = rows[x].part
    <2>1. rows[x] \in Row
      BY DEF TypeOK
    <2>. QED
      BY <1>7, <2>1 DEF Row
  <1>9. RowsApart'
    <2>1. \A y \in Keys : Onward(y)
      BY <1>3, <1>5, <1>7, <1>8 DEF Onward
    <2>. QED
      BY <2>1, ApartKept DEF Core
  <1>10. ASSUME NEW y \in Keys, y # x PROVE RowTrue(y)'
    <2>1. \A k \in 1..MaxSends, s \in {"processed", "failed"} :
              <<<<y, k>>, s>> \in handled' <=> <<<<y, k>>, s>> \in handled
      BY <1>4, <1>10
    <2>. QED
      BY <1>4, <1>7, <1>10, <2>1, RowKept DEF Core
  <1>11. \A k \in 1..MaxSends : made[x][k] # "none" => k = n
    BY <1>2, <1>3 DEF SentOnce
  <1>12. x \notin credited
    BY <1>2, <1>5 DEF RowTrue
  <1>13. \A k \in 1..MaxSends, s \in {"processed", "failed"} :
            <<<<x, k>>, s>> \in handled' => made[x][k] = s
    BY <1>2, <1>3, <1>4 DEF RowTrue
  <1>14. RowTrue(x)'
    BY <1>3, <1>4, <1>8, <1>11, <1>12, <1>13 DEF RowTrue
  <1>15. ASSUME NEW r \in Runs, run'[r] # Idle PROVE RunTrue(r)'
    <2>1. RunTrue(r) /\ run[r].row \in Keys
      BY <1>4, <1>15, AtWork DEF Core
    <2>2. run[r].at = "call" \/ Answered(r, SaidNo) => run[r].row # x
      BY <1>3, <2>1 DEF RunTrue
    <2>. QED
      BY <1>4, <1>7, <1>15, <2>1, <2>2, RunKept
  <1>. QED
    BY <1>9, <1>10, <1>14, <1>15 DEF Core

LEMMA CoreStep ==
    ASSUME Calm
    PROVE  TypeOK /\ Once /\ Core /\ [Next]_vars => Core'
  <1>. SUFFICES ASSUME TypeOK, Once, Core, [Next]_vars PROVE Core'
    OBVIOUS
  <1>1. TypeOK'
    BY TypeStep
  <1>2. CASE UNCHANGED vars
    BY <1>2, CoreSame DEF vars
  <1>3. CASE PaystackStep
    <2>1. ~\E x \in Keys, n \in 1..MaxSends : RefundRetried(x, n)
      BY DEF Calm, RefundRetried
    <2>. QED
      BY <1>1, <1>3, <2>1, CoreEnds, CoreEvent DEF PaystackStep
  <1>4. CASE OrderStep \/ \E r \in Runs : RunStep(r)
    BY <1>1, <1>4, CoreOrder, CoreRun
  <1>. QED
    BY <1>2, <1>3, <1>4 DEF Next

\* As long as the faults of Calm do not happen, what the rows show, what Paystack has made
\* and what every run knows agree, whatever stops, is lost or comes late.
THEOREM RowsAgree ==
    ASSUME Calm
    PROVE  Spec => [](TypeOK /\ Once /\ Core)
  <1>1. Calm => ~Overlap
    BY DEF Calm
  <1>2. Spec => [](TypeOK /\ Once)
    BY <1>1, OnceAlways
  <1>. QED
    BY <1>2, CoreInit, CoreStep, PTL DEF Spec

LEMMA PaidBackRow ==
    ASSUME TypeOK, Core, NEW x \in PaidBack
    PROVE  x \in Keys /\ rows[x].status \in {"processing", "processed"}
  <1>1. RowTrue(x) /\ x \in Keys
    BY DEF Core, PaidBack
  <1>2. CASE x \in credited
    BY <1>1, <1>2 DEF RowTrue
  <1>3. CASE OutAtPaystack(x)
    <2>1. PICK n \in 1..MaxSends : made[x][n] \in {"pending", "processed", "retried"}
      BY <1>3 DEF OutAtPaystack
    <2>2. <<<<x, n>>, "pending">> \notin handled
      BY DEF TypeOK
    <2>3. made[x][n] \in {"pending", "processed"}
      BY <1>1, <2>1 DEF RowTrue
    <2>. QED
      BY <1>1, <2>2, <2>3 DEF RowTrue
  <1>. QED
    BY <1>1, <1>2, <1>3 DEF PaidBack

\* No two refunds give back the same money, also where an order is cancelled whose payout
\* has left.
THEOREM RefundsApartAlways ==
    ASSUME Calm
    PROVE  Spec => []RefundsApart
  <1>1. TypeOK /\ Core => RefundsApart
    BY PaidBackRow DEF RefundsApart, Core, RowsApart
  <1>. QED
    BY <1>1, RowsAgree, PTL

\* An event changes only the row its refund was made for, and a look-up by the amount
\* finds only that refund.
THEOREM IdIsOwnAlways ==
    ASSUME Calm
    PROVE  Spec => []IdIsOwn
  <1>1. Core => IdIsOwn
    <2>. SUFFICES ASSUME Core, NEW x \in Keys, NEW i \in rows[x].id PROVE i[1] = x
      BY DEF IdIsOwn
    <2>1. RowTrue(x)
      BY DEF Core
    <2>2. PICK n \in 1..MaxSends : rows[x].id = {<<x, n>>}
      BY <2>1 DEF RowTrue
    <2>. QED
      BY <2>2
  <1>. QED
    BY <1>1, RowsAgree, PTL

\* What a finished refund shows is what became of the money.
THEOREM ShownIsTrueAlways ==
    ASSUME Calm
    PROVE  Spec => []ShownIsTrue
  <1>1. TypeOK /\ Core => ShownIsTrue
    <2>. SUFFICES ASSUME TypeOK, Core, NEW x \in Keys
                  PROVE  /\ rows[x].status = "processed" =>
                              x \in credited \/ \E n \in 1..MaxSends : made[x][n] = "processed"
                         /\ rows[x].status = "failed" => x \notin PaidBack
      BY DEF ShownIsTrue
    <2>1. RowTrue(x)
      BY DEF Core
    <2>2. ASSUME rows[x].status = "processed", x \notin credited
          PROVE  \E n \in 1..MaxSends : made[x][n] = "processed"
      <3>1. PICK n \in 1..MaxSends : rows[x].id = {<<x, n>>} /\ made[x][n] # "none"
        BY <2>1, <2>2 DEF RowTrue
      <3>. QED
        BY <2>1, <2>2, <3>1 DEF RowTrue
    <2>3. rows[x].status = "failed" => x \notin PaidBack
      BY PaidBackRow
    <2>. QED
      BY <2>2, <2>3
  <1>. QED
    BY <1>1, RowsAgree, PTL

-----------------------------------------------------------------------------
(* What a step does to the rows.                                           *)

\* A final row stays, no row changes its part, and new rows come in a new batch.
Final(x) == rows[x].status \in {"processed", "failed"}
RowsGoOn ==
    \A x \in Keys :
        /\ Final(x) => rows'[x] = rows[x]
        /\ rows[x].status # "none" => rows'[x].part = rows[x].part
        /\ rows[x].status = "none" => rows'[x].status = "none" \/ batches' = batches + 1

\* A step that writes one row, which is not final.
LEMMA OneWritten ==
    ASSUME TypeOK, NEW x \in Keys, rows[x].status \in {"pending", "processing"},
           NEW s, NEW i,
           \/ rows' = [rows EXCEPT ![x].status = s]
           \/ rows' = [rows EXCEPT ![x].id = i]
           \/ rows' = [rows EXCEPT ![x].status = s, ![x].id = i]
    PROVE  RowsGoOn
  <1>1. rows[x] \in Row
    BY DEF TypeOK
  <1>2. rows'[x].part = rows[x].part
    BY <1>1 DEF TypeOK, Row
  <1>3. \A y \in Keys : y # x => rows'[y] = rows[y]
    BY DEF TypeOK
  <1>. QED
    BY <1>2, <1>3 DEF RowsGoOn, Final

LEMMA QueueGoesOn ==
    ASSUME TypeOK, Once, NEW parts, Queue(parts)
    PROVE  RowsGoOn
  <1>1. \A x \in Keys : x[1] = batches' => rows[x].status = "none"
    <2>1. \A x \in Keys : x[1] \in Nat
      BY DEF Keys
    <2>2. batches' > batches
      BY DEF Queue, TypeOK
    <2>. QED
      BY <2>1, <2>2 DEF Once, NewestOpen
  <1>2. \A x \in Keys : rows[x].status # "none" => rows'[x] = rows[x]
    BY <1>1 DEF Queue
  <1>3. batches' = batches + 1
    BY DEF Queue
  <1>. QED
    BY <1>2, <1>3 DEF RowsGoOn, Final

LEMMA StepGoesOn ==
    ASSUME Calm
    PROVE  TypeOK /\ Once /\ Core /\ [Next]_vars => RowsGoOn
  <1>. SUFFICES ASSUME TypeOK, Once, Core, [Next]_vars PROVE RowsGoOn
    OBVIOUS
  <1>1. rows' = rows => RowsGoOn
    BY DEF RowsGoOn
  <1>2. CASE OrderStep
    <2>1. CASE Cancel
      BY <2>1, QueueGoesOn DEF Cancel
    <2>2. CASE \E W \in SUBSET Units : RefundOrder(W)
      BY <2>2, QueueGoesOn DEF RefundOrder
    <2>3. CASE Complete \/ (\E p \in Payments : Pay(p)) \/ \E to \in PayoutStatuses : PayoutMove(to)
      BY <1>1, <2>3 DEF Complete, Pay, PayoutMove, rowVars
    <2>. QED
      BY <1>2, <2>1, <2>2, <2>3 DEF OrderStep
  <1>3. ASSUME NEW r \in Runs, RunStep(r) PROVE RowsGoOn
    <2>1. CASE \E x \in Keys : CreditWallet(r, x) \/ TakeNext(r, x)
      BY <2>1, OneWritten DEF CreditWallet, TakeNext, SetStatus
    <2>2. CASE CreateRefund(r) \/ Note(r) \/ RunStops(r) \/ \E x \in Keys : ListRefunds(r, x)
      BY <1>1, <2>2 DEF CreateRefund, Note, RunStops, ListRefunds, rowVars
    <2>3. CASE MarkSent(r)
      <3>. PICK x \in Keys : x = run[r].row
        BY <2>3, AtWork, IdleIsIdle DEF MarkSent, Answered
      <3>1. run[r] # Idle /\ Answered(r, {"ok"})
        BY <2>3, IdleIsIdle DEF MarkSent, Answered
      <3>2. PICK n \in 1..MaxSends : run[r].id = {<<x, n>>} /\ made[x][n] # "none"
        BY <3>1 DEF Core, RunTrue
      <3>3. RowTrue(x) /\ rows[x] \in Row
        BY DEF Core, TypeOK
      <3>4. rows[x].status = "processing" \/ rows[x].id = {<<x, n>>}
        BY <3>2, <3>3 DEF RowTrue
      <3>5. rows' = [rows EXCEPT ![x].id = {<<x, n>>}]
        BY <2>3, <3>2 DEF MarkSent
      <3>6. CASE rows[x].status = "processing"
        BY <3>5, <3>6, OneWritten
      <3>7. CASE rows[x].id = {<<x, n>>}
        <4>1. rows[x] = [rows[x] EXCEPT !.id = {<<x, n>>}]
          BY <3>3, <3>7 DEF Row
        <4>2. \A y \in Keys : rows'[y] = rows[y]
          BY <3>5, <4>1 DEF TypeOK
        <4>. QED
          BY <4>2 DEF RowsGoOn
      <3>. QED
        BY <3>4, <3>6, <3>7
    <2>4. CASE MarkFailed(r)
      <3>. PICK x \in Keys : x = run[r].row
        BY <2>4, AtWork, IdleIsIdle DEF MarkFailed, Answered
      <3>1. rows[x].status = "processing"
        BY <2>4, IdleIsIdle DEF MarkFailed, Answered, Core, RunTrue
      <3>. QED
        BY <2>4, <3>1, OneWritten DEF MarkFailed, SetStatus
    <2>5. CASE Recover(r)
      <3>. PICK x \in Keys : x = run[r].row
        BY <2>5, AtWork, IdleIsIdle DEF Recover
      <3>1. CASE ~Unconfirmed(x)
        BY <1>1, <2>5, <3>1 DEF Recover
      <3>2. CASE Unconfirmed(x)
        BY <2>5, <3>2, OneWritten DEF Recover, SetStatus, Unconfirmed
      <3>. QED
        BY <3>1, <3>2
    <2>. QED
      BY <1>3, <2>1, <2>2, <2>3, <2>4, <2>5 DEF RunStep, AnswerStep
  <1>4. ASSUME NEW x \in Keys, NEW n \in 1..MaxSends,
               RefundEnds(x, n) \/ RefundRetried(x, n) \/ RefundEvent(x, n)
        PROVE  RowsGoOn
    <2>1. CASE RefundEnds(x, n) \/ RefundRetried(x, n)
      BY <1>1, <2>1 DEF RefundEnds, RefundRetried, rowVars
    <2>2. CASE RefundEvent(x, n)
      <3>1. PICK to \in {"processed", "failed"} : EndedBy(x, n, to)
        BY <2>2, EventOwn
      <3>. QED
        BY <3>1, OneWritten DEF EndedBy
    <2>. QED
      BY <1>4, <2>1, <2>2
  <1>5. CASE UNCHANGED vars
    BY <1>1, <1>5 DEF vars, rowVars
  <1>. QED
    BY <1>2, <1>3, <1>4, <1>5 DEF Next, PaystackStep

\* A refund that is done or failed is never shown as anything else again, whatever
\* answers, look-ups or events come late.
THEOREM FinalStaysAlways ==
    ASSUME Calm
    PROVE  Spec => FinalStays
  <1>1. TypeOK /\ Once /\ Core /\ [Next]_vars =>
            [\A x \in Keys : rows[x].status \in {"processed", "failed"} => rows'[x] = rows[x]]_vars
    BY StepGoesOn DEF RowsGoOn, Final
  <1>. QED
    BY <1>1, RowsAgree, PTL DEF Spec, FinalStays

-----------------------------------------------------------------------------
(* The shop and the buyer, where no order is cancelled after its payout.   *)

LEMMA ShopInit == Init => ShopApart
  BY DEF Init, ShopApart

\* What is reserved comes from the rows alone, and only a new batch adds to it.
LEMMA QueueReserves ==
    ASSUME NEW parts, Queue(parts)
    PROVE  \A u \in Reserved' : u \in Reserved \/ \E p \in Payments : u \in parts[p]
  <1>. SUFFICES ASSUME NEW x \in Keys, rows'[x].status \notin {"none", "failed"},
                       NEW u \in rows'[x].part
                PROVE  u \in Reserved \/ \E p \in Payments : u \in parts[p]
    BY DEF Reserved
  <1>1. CASE rows'[x] = rows[x]
    BY <1>1 DEF Reserved
  <1>2. CASE rows'[x] = NewRow(parts[x[2]])
    <2>1. rows'[x].part = parts[x[2]]
      BY ZenonT(60), <1>2 DEF NewRow, NoRow
    <2>. QED
      BY <2>1 DEF Keys
  <1>. QED
    BY <1>1, <1>2 DEF Queue

LEMMA ShopOrder ==
    ASSUME Ordinary, TypeOK, ShopApart, OrderStep
    PROVE  ShopApart'
  <1>1. CASE \E p \in Payments : Pay(p)
    BY <1>1 DEF Pay, ShopApart, Reserved, payoutVars, rowVars
  <1>2. CASE Complete
    BY <1>2 DEF Complete, ShopApart, TypeOK, Left, Leaving
  <1>3. CASE \E to \in PayoutStatuses : PayoutMove(to)
    <2>1. PICK to \in PayoutStatuses : PayoutMove(to)
      BY <1>3
    <2>2. Leaving \subseteq Left
      BY DEF Left, Leaving
    <2>3. Reserved' = Reserved
      BY <2>1 DEF PayoutMove, Reserved, rowVars
    <2>. QED
      BY <2>1, <2>2, <2>3 DEF PayoutMove, Free, ShopApart
  <1>4. CASE Cancel
    <2>1. took = {}
      BY <1>4 DEF Cancel, Ordinary, ShopApart, TypeOK, Left, Leaving
    <2>. QED
      BY <1>4, <2>1 DEF Cancel, ShopApart, payoutVars
  <1>5. CASE \E W \in SUBSET Units : RefundOrder(W)
    <2>1. PICK W \in SUBSET Units : RefundOrder(W)
      BY <1>5
    <2>2. CASE payout = "to_wallet"
      <3>1. givenBack' = givenBack \cup W /\ took' = took /\ payout' = payout
        BY <2>1, <2>2 DEF RefundOrder, HoldsPayout
      <3>2. \A u \in Reserved' : u \in Reserved \/ u \in W
        <4>. DEFINE parts == [p \in Payments |-> W \cap UnitsOf(p)]
        <4>1. Queue(parts) /\ \A p \in Payments : parts[p] \subseteq W
          BY <2>1 DEF RefundOrder
        <4>. HIDE DEF parts
        <4>. QED
          BY <4>1, QueueReserves
      <3>. QED
        BY <2>2, <3>1, <3>2 DEF ShopApart, Left, Leaving
    <2>3. CASE payout # "to_wallet"
      <3>1. took = {}
        BY <2>1, <2>3 DEF RefundOrder, ShopApart, PaidOut, Left, Leaving
      <3>. QED
        BY <2>1, <3>1 DEF RefundOrder, ShopApart
    <2>. QED
      BY <2>2, <2>3
  <1>. QED
    BY <1>1, <1>2, <1>3, <1>4, <1>5 DEF OrderStep

LEMMA ShopStep ==
    ASSUME Ordinary
    PROVE  TypeOK /\ Once /\ Core /\ ShopApart /\ [Next]_vars => ShopApart'
  <1>. SUFFICES ASSUME TypeOK, Once, Core, ShopApart, [Next]_vars PROVE ShopApart'
    OBVIOUS
  <1>1. RowsGoOn
    BY StepGoesOn DEF Ordinary
  <1>2. ASSUME UNCHANGED <<payoutVars, batches>> PROVE ShopApart'
    <2>1. batches \in Nat
      BY DEF TypeOK
    <2>2. \A x \in Keys : rows'[x].status \notin {"none", "failed"} =>
              rows[x].status \notin {"none", "failed"} /\ rows'[x].part = rows[x].part
      BY <1>1, <1>2, <2>1 DEF RowsGoOn, Final
    <2>3. Reserved' \subseteq Reserved
      BY <2>2 DEF Reserved
    <2>. QED
      BY <1>2, <2>3 DEF ShopApart, payoutVars
  <1>3. CASE UNCHANGED vars
    BY <1>2, <1>3 DEF vars, rowVars
  <1>4. ASSUME NEW r \in Runs, RunStep(r) PROVE ShopApart'
    BY <1>2, <1>4 DEF RunStep, AnswerStep, CreditWallet, TakeNext, ListRefunds, CreateRefund,
                      MarkSent, MarkFailed, Note, RunStops, Recover, rowVars
  <1>5. CASE PaystackStep
    BY <1>2, <1>5 DEF PaystackStep, RefundEnds, RefundRetried, RefundEvent, HandleEvent, rowVars
  <1>. QED
    BY <1>3, <1>4, <1>5, ShopOrder DEF Next

LEMMA IInvMeans == IInv <=> TypeOK /\ Once /\ Core /\ ShopApart
  BY DEF IInv, Core

\* Everything the invariant says of rows, refunds, runs and the shop holds whatever stops,
\* is lost or comes late, where the faults are excluded and no order is cancelled after
\* its payout left.
THEOREM Inductive ==
    ASSUME Ordinary
    PROVE  Spec => []IInv
  <1>1. Calm
    BY DEF Ordinary
  <1>2. Spec => [](TypeOK /\ Once /\ Core)
    BY <1>1, RowsAgree
  <1>3. Spec => []ShopApart
    BY <1>2, ShopInit, ShopStep, PTL DEF Spec
  <1>. QED
    BY <1>2, <1>3, IInvMeans, PTL

\* The shop and the buyer never have the same money, nor does the buyer get any of it
\* twice, where the payout of an order cannot leave before the order is cancelled.
THEOREM SameMoneyOnceAlways ==
    ASSUME Ordinary
    PROVE  Spec => []SameMoneyOnce
  <1>1. IInv => SameMoneyOnce
    <2>. SUFFICES ASSUME IInv PROVE SameMoneyOnce
      OBVIOUS
    <2>1. TypeOK /\ Core /\ ShopApart
      BY IInvMeans
    <2>2. WithBuyer \subseteq Reserved
      BY <2>1, PaidBackRow DEF WithBuyer, Reserved
    <2>3. WithShop \cap Reserved = {}
      BY <2>1 DEF ShopApart, WithShop
    <2>4. RefundsApart
      BY <2>1, PaidBackRow DEF RefundsApart, Core, RowsApart
    <2>. QED
      BY <2>2, <2>3, <2>4 DEF SameMoneyOnce
  <1>. QED
    BY <1>1, Inductive, PTL

-----------------------------------------------------------------------------
(* The promise: every unit is with one party, and goes from one to the     *)
(* other through Levromart's hands.                                        *)

Place == [u \in Units |->
    IF u \in WithShop THEN "shop" ELSE IF u \in WithBuyer THEN "buyer" ELSE "held"]

LEMMA PromiseInit == Init => Promise!Init
  <1>. SUFFICES ASSUME Init PROVE Promise!Init
    OBVIOUS
  <1>1. WithShop = {}
    BY DEF Init, WithShop
  <1>2. PaidBack = {}
    BY DEF Init, PaidBack, OutAtPaystack
  <1>3. WithBuyer = {}
    BY <1>2 DEF WithBuyer
  <1>. QED
    BY <1>1, <1>3 DEF Promise!Init

\* Money that moves between one party and Levromart's hands.
LEMMA OnePartyMoves ==
    ASSUME WithShop \cap WithBuyer = {}, WithShop' \cap WithBuyer' = {},
           \/ /\ WithBuyer' = WithBuyer
              /\ WithShop \subseteq WithShop' \/ WithShop' \subseteq WithShop
           \/ /\ WithShop' = WithShop
              /\ WithBuyer \subseteq WithBuyer' \/ WithBuyer' \subseteq WithBuyer
    PROVE  [Promise!Next]_Place
  <1>. DEFINE S(A, B) == (A \ B) \cap Units
  <1>1. ASSUME WithBuyer' = WithBuyer, WithShop \subseteq WithShop' PROVE Promise!Next
    <2>1. Promise!Move(S(WithShop', WithShop), "held", "shop")
      BY <1>1 DEF Promise!Move
    <2>. QED
      BY <2>1 DEF Promise!Next
  <1>2. ASSUME WithBuyer' = WithBuyer, WithShop' \subseteq WithShop PROVE Promise!Next
    <2>1. Promise!Move(S(WithShop, WithShop'), "shop", "held")
      BY <1>2 DEF Promise!Move
    <2>. QED
      BY <2>1 DEF Promise!Next
  <1>3. ASSUME WithShop' = WithShop, WithBuyer \subseteq WithBuyer' PROVE Promise!Next
    <2>1. Promise!Move(S(WithBuyer', WithBuyer), "held", "buyer")
      BY <1>3 DEF Promise!Move
    <2>. QED
      BY <2>1 DEF Promise!Next
  <1>4. ASSUME WithShop' = WithShop, WithBuyer' \subseteq WithBuyer PROVE Promise!Next
    <2>1. Promise!Move(S(WithBuyer, WithBuyer'), "buyer", "held")
      BY <1>4 DEF Promise!Move
    <2>. QED
      BY <2>1 DEF Promise!Next
  <1>. QED
    BY <1>1, <1>2, <1>3, <1>4

\* The parts of refunds that went out do not change.
LEMMA BuyerGrows ==
    ASSUME TypeOK, Core, RowsGoOn
    PROVE  /\ PaidBack \subseteq PaidBack' => WithBuyer \subseteq WithBuyer'
           /\ PaidBack' \subseteq PaidBack => WithBuyer' \subseteq WithBuyer
  <1>1. \A x \in PaidBack : rows'[x].part = rows[x].part
    BY PaidBackRow DEF RowsGoOn
  <1>. QED
    BY <1>1 DEF WithBuyer

\* The payout leaves with what nobody has reserved, or gives back what it took.
LEMMA PayoutPart ==
    ASSUME ShopApart, NEW to \in PayoutStatuses, PayoutMove(to)
    PROVE  WithShop \subseteq WithShop' \/ WithShop' \subseteq WithShop
  <1>1. took' = IF to \in Leaving THEN Free ELSE IF to \in Left THEN took ELSE {}
    BY DEF PayoutMove
  <1>2. givenBack' = givenBack /\ payout' = to /\ (payout \notin Left => took = {})
    BY DEF PayoutMove, ShopApart
  <1>3. CASE to \in Leaving
    <2>1. payout \notin Left
      BY <1>3 DEF PayoutMove, Moves, Leaving, Left, Ended
    <2>. QED
      BY <2>1 DEF WithShop
  <1>4. CASE to \notin Leaving
    BY <1>1, <1>2, <1>4 DEF WithShop
  <1>. QED
    BY <1>3, <1>4

LEMMA PromiseStep ==
    Ordinary /\ IInv /\ SameMoneyOnce /\ SameMoneyOnce' /\ [Next]_vars => [Promise!Next]_Place
  <1>. SUFFICES ASSUME Ordinary, IInv, SameMoneyOnce, SameMoneyOnce', [Next]_vars
                PROVE  [Promise!Next]_Place
    OBVIOUS
  <1>1. TypeOK /\ Core /\ ShopApart /\ RowsGoOn
    BY IInvMeans, StepGoesOn DEF Ordinary
  <1>2. WithShop \cap WithBuyer = {} /\ WithShop' \cap WithBuyer' = {}
    BY DEF SameMoneyOnce
  <1>3. ASSUME UNCHANGED <<credited, made>> PROVE WithBuyer' = WithBuyer
    <2>1. PaidBack' = PaidBack
      BY <1>3 DEF PaidBack, OutAtPaystack
    <2>. QED
      BY <1>1, <2>1, BuyerGrows
  <1>4. UNCHANGED payoutVars => WithShop' = WithShop
    BY DEF payoutVars, WithShop
  <1>5. UNCHANGED <<credited, made, payoutVars>> => [Promise!Next]_Place
    BY <1>2, <1>3, <1>4, OnePartyMoves
  <1>6. CASE UNCHANGED vars
    BY <1>5, <1>6 DEF vars, rowVars
  <1>7. CASE OrderStep
    <2>1. UNCHANGED <<credited, made>>
      BY <1>7 DEF OrderStep, Complete, Cancel, Pay, PayoutMove, RefundOrder, rowVars
    <2>2. WithShop \subseteq WithShop' \/ WithShop' \subseteq WithShop
      <3>1. CASE Complete
        BY <1>1, <3>1 DEF Complete, WithShop, TypeOK, Left, Leaving
      <3>2. CASE Cancel \/ \E p \in Payments : Pay(p)
        BY <1>4, <3>2 DEF Cancel, Pay
      <3>3. CASE \E to \in PayoutStatuses : PayoutMove(to)
        BY <1>1, <3>3, PayoutPart
      <3>4. CASE \E W \in SUBSET Units : RefundOrder(W)
        BY <3>4 DEF RefundOrder, WithShop, HoldsPayout, Left, Leaving
      <3>. QED
        BY <1>7, <3>1, <3>2, <3>3, <3>4 DEF OrderStep
    <2>. QED
      BY <1>2, <1>3, <2>1, <2>2, OnePartyMoves
  <1>8. ASSUME NEW r \in Runs, RunStep(r) PROVE [Promise!Next]_Place
    <2>1. UNCHANGED payoutVars
      BY <1>8 DEF RunStep, AnswerStep, CreditWallet, TakeNext, ListRefunds, CreateRefund,
                  MarkSent, MarkFailed, Note, RunStops, Recover
    <2>2. PaidBack \subseteq PaidBack'
      <3>1. CASE UNCHANGED <<credited, made>>
        BY <3>1 DEF PaidBack, OutAtPaystack
      <3>2. CASE \E x \in Keys : CreditWallet(r, x)
        BY <3>2 DEF CreditWallet, PaidBack, OutAtPaystack
      <3>3. CASE CreateRefund(r)
        <4>1. CASE \E a \in NotOk : NotMade(r, a)
          BY <1>1, <3>3, <4>1, Created DEF NotMade, PaidBack, OutAtPaystack, rowVars
        <4>2. CASE \E n \in 1..MaxSends : Made(r, n)
          <5>1. PICK n \in 1..MaxSends : Made(r, n)
            BY <4>2
          <5>2. \A x \in Keys, k \in 1..MaxSends :
                    made[x][k] # "none" => made'[x][k] = made[x][k]
            BY <1>1, <3>3, <5>1, Created DEF Made, TypeOK
          <5>3. credited' = credited
            BY <3>3 DEF CreateRefund, rowVars
          <5>. QED
            BY <5>2, <5>3 DEF PaidBack, OutAtPaystack
        <4>. QED
          BY <1>1, <3>3, <4>1, <4>2, Created
      <3>. QED
        BY <1>8, <3>1, <3>2, <3>3 DEF RunStep, AnswerStep, TakeNext, ListRefunds,
                MarkSent, MarkFailed, Note, RunStops, Recover, rowVars
    <2>. QED
      BY <1>1, <1>2, <1>4, <2>1, <2>2, BuyerGrows, OnePartyMoves
  <1>9. ASSUME NEW x \in Keys, NEW n \in 1..MaxSends, RefundEnds(x, n) \/ RefundEvent(x, n)
        PROVE  [Promise!Next]_Place
    <2>1. CASE RefundEvent(x, n)
      BY <1>5, <2>1 DEF RefundEvent, HandleEvent
    <2>2. CASE RefundEnds(x, n)
      <3>1. PICK t \in {"processed", "failed"} : made' = [made EXCEPT ![x][n] = t]
        BY <2>2 DEF RefundEnds
      <3>2. UNCHANGED <<payoutVars, credited>> /\ made[x][n] = "pending"
        BY <2>2 DEF RefundEnds, rowVars
      <3>3. \A y \in Keys, k \in 1..MaxSends :
                made'[y][k] \in {"pending", "processed", "retried"} =>
                    made[y][k] \in {"pending", "processed", "retried"}
        BY <1>1, <3>1, <3>2 DEF TypeOK
      <3>4. PaidBack' \subseteq PaidBack
        BY <3>2, <3>3 DEF PaidBack, OutAtPaystack
      <3>. QED
        BY <1>1, <1>2, <1>4, <3>2, <3>4, BuyerGrows, OnePartyMoves
    <2>. QED
      BY <1>9, <2>1, <2>2
  <1>10. \A x \in Keys, n \in 1..MaxSends : ~RefundRetried(x, n)
    BY DEF RefundRetried, Ordinary, Calm
  <1>. QED
    BY <1>6, <1>7, <1>8, <1>9, <1>10 DEF Next, PaystackStep

\* Refunds and payouts together keep the promise of MoneyOnce: nobody is given what
\* another party has, and what was given is given on only after it came back.
THEOREM PromiseKeptAlways ==
    ASSUME Ordinary
    PROVE  Spec => PromiseKept
  <1>1. Spec => []IInv /\ []SameMoneyOnce
    BY Inductive, SameMoneyOnceAlways
  <1>2. Place = [u \in Units |->
            IF u \in WithShop THEN "shop" ELSE IF u \in WithBuyer THEN "buyer" ELSE "held"]
    BY DEF Place
  <1>. QED
    BY <1>1, PromiseInit, PromiseStep, PTL DEF Spec, PromiseKept, Promise!Spec, Place

=============================================================================

------------------------ MODULE PaymentWebhookProofs ------------------------
(***************************************************************************)
(* Theorems about PaymentWebhook, for every number of deliveries, replays, *)
(* events, administrators, order lines and faults.                         *)
(*                                                                         *)
(* A delivery that is past the lock of the payment is alone there, as long *)
(* as no request outlives its lock and no two requests share a ctx.now     *)
(* (Exclusion).  What a step of a delivery does is said once (Effect), and *)
(* each of the other invariants is kept by each of its eighteen cases:     *)
(*                                                                         *)
(*   Granting  a workflow completes when all its lines are granted         *)
(*   Money     the accounts of the order agree with the copy that is put   *)
(*   Settled   an event that is marked or answered has been done           *)
(*   Guarded   access to a blocked order is about to be revoked            *)
(***************************************************************************)
EXTENDS PaymentWebhook, FiniteSetTheorems, TLAPS

----------------------------------------------------------------------------
(* The inductive invariants *)

\* No request outlives its lock, and no two have the same ctx.now.
Orderly == Conditions \cap {"slow", "same_instant"} = {}

PaidSteps == {"lease", "find", "persist", "persist_again", "complete_checkout", "fulfil", "grant",
              "record", "close", "progress", "complete", "fail_flow"}

RefundSteps == {"find_reversal", "reverse", "revoke"}

\* The steps a delivery takes with the lock of the payment.
LockedSteps == PaidSteps \cup RefundSteps \cup {"mark", "reject", "release"}

Locked(d) == jobs[d].step \in LockedSteps

\* Which event is at which step, and at which line.
ControlOf(q) ==
  /\ q.step = "idle" => q = Idle
  /\ q.step # "idle" => q.event \in Webhooks /\ q.stamp \in AllStamps
  /\ q.step \in PaidSteps => q.event \in Paid
  /\ q.step \in RefundSteps => q.event \in Refunds
  /\ q.step \in {"fulfil", "grant", "record", "revoke"} => q.line \in Lines

AdminControlOf(q) ==
  /\ q.step = "idle" => q = Rest
  /\ q.step = "revoke" => q.line \in Lines

Control ==
  /\ \A d \in Deliveries : ControlOf(jobs[d]) /\ jobs[d].at <= now
  /\ \A a \in Admins : AdminControlOf(admins[a])

\* A request has its ctx.now for itself and does not outlive its lock; who is past
\* the lock holds it.
Apart == \A d, e \in Deliveries : jobs[d].stamp = jobs[e].stamp /\ jobs[d] # Idle => d = e

Timely == \A d \in Deliveries : jobs[d] # Idle => now < jobs[d].at + LeaseTime

Holding == \A d \in Deliveries : Locked(d) => lock = [owner |-> Owner(d), ends |-> jobs[d].at + LeaseTime]

Exclusion == Apart /\ Timely /\ Holding

\* Without refunds and administrators an order is paid or not there; a runner that
\* has come to a line has granted the lines before it.
Granted(l) == access[l] # "none"

Plain(o) == o.status \in {"none", "paid"}

GrantedBefore(d) ==
  /\ Plain(jobs[d].order)
  /\ jobs[d].step \in {"fulfil", "grant", "record"} => \A l \in 1..(jobs[d].line - 1) : Granted(l)
  /\ jobs[d].step = "record" => Granted(jobs[d].line)
  /\ jobs[d].step \in {"close", "mark", "complete"} => \A l \in Lines : Granted(l)

Granting == Plain(order) /\ (\A d \in Deliveries : GrantedBefore(d)) /\ CompletedIsGranted

\* What is granted was not granted before.
GrantsOnce == \A d \in Deliveries : jobs[d].step = "grant" => access[jobs[d].line] = "none"

\* Without administrators the three accounts of the money of an order agree, and the
\* copy of who has the lock agrees with the order.
Balanced(o) ==
  /\ o.payment = o.status /\ o.status # "cancelled"
  /\ o.status = "refunded" <=> o.reversed = Total
  /\ o.status = "none" => o = NoOrder

SameMoney(o, p) == o.status = p.status /\ o.reversed = p.reversed

Loaded == {"persist", "persist_again", "complete_checkout", "fulfil", "grant", "record", "close",
           "progress", "reverse"}

Opened == {"complete_checkout", "fulfil", "grant", "record", "close", "progress"}

MoneyOf(d) ==
  /\ Balanced(jobs[d].order)
  /\ jobs[d].step \in Loaded => SameMoney(jobs[d].order, order)
  /\ jobs[d].step \in Opened => jobs[d].order.status # "none"

Money == Balanced(order) /\ \A d \in Deliveries : MoneyOf(d)

\* What an event that is being processed has done so far.
Doing(d) ==
  /\ jobs[d].step \in Opened => order # NoOrder /\ order.status # "refunded"
  /\ jobs[d].step = "persist_again" => FALSE
  /\ jobs[d].step \in {"fulfil", "grant", "record"} => \A l \in 1..(jobs[d].line - 1) : Granted(l)
  /\ jobs[d].step = "record" => Granted(jobs[d].line)
  /\ jobs[d].step = "close" => \A l \in Lines : Granted(l)
  /\ jobs[d].step = "reverse" => order # NoOrder
  /\ jobs[d].step = "revoke" => order.status = "refunded" /\ \A l \in 1..(jobs[d].line - 1) : access[l] # "active"
  /\ jobs[d].step = "mark" \/ jobs[d].result = "processed" => Done(jobs[d].event)

\* Which results an event can have, when no paid event comes before its checkout.
Results(w) == IF w \in Paid THEN {"received", "processed", "failed_retryable"}
              ELSE {"received", "processed", "failed", "failed_retryable"}

Answering ==
  /\ \A w \in Webhooks : webhooks[w] \in Results(w) \cup {"absent"}
  /\ \A w \in Paid : webhooks[w] # "absent" => checkout # "absent"
  /\ \A d \in Deliveries : jobs[d].step # "idle" =>
       /\ jobs[d].event \in Paid => checkout # "absent" /\ jobs[d].step # "reject"
       /\ jobs[d].step = "store" => jobs[d].copy = "absent"
       /\ jobs[d].step # "store" =>
            /\ jobs[d].copy \in Results(jobs[d].event) \ {"processed"}
            /\ jobs[d].result \in Results(jobs[d].event) \cup {"error"}

Settled == Money /\ (\A d \in Deliveries : Doing(d)) /\ Answering /\ SettledIsDone

\* The copies of the order record no line that was not granted.
Filled == {l \in Lines : Granted(l)}

Recorded ==
  /\ order.filled \subseteq Filled
  /\ \A d \in Deliveries : jobs[d].order.filled \subseteq Filled
  /\ \A a \in Admins : admins[a].order.filled \subseteq Filled

Leasing(q) ==
  \/ q.step \in PaidSteps \ {"lease", "fail_flow"}
  \/ q.step \in {"mark", "reject"} /\ q.event \in Paid

\* Who has the lease of a workflow keeps it, and fulfils an order that allows it.
LeasedTo(d) ==
  /\ Leasing(jobs[d])
       => flows[jobs[d].event] = [status |-> "running", lease |-> jobs[d].stamp, ends |-> jobs[d].at + LeaseTime]
  /\ jobs[d].step \in Opened => ~orderBlocksFulfillment(jobs[d].order)

Leased == \A d \in Deliveries : LeasedTo(d)

\* Somebody is on the way to revoke a line, or to put an order that allows it.
Revoking(l) ==
  \/ \E a \in Admins : admins[a].step = "revoke" /\ admins[a].line <= l
  \/ \E d \in Deliveries : jobs[d].step = "revoke" /\ jobs[d].line <= l

Unblocks(d) ==
  \/ jobs[d].step = "record"
  \/ jobs[d].changed /\ jobs[d].step \in {"fulfil", "grant", "close"}

Covered ==
  faults = 0 =>
    /\ orderBlocksFulfillment(order) => 
         \A l \in Lines : access[l] = "active" => Revoking(l) \/ \E d \in Deliveries : Unblocks(d)
    /\ \A d \in Deliveries :
         jobs[d].step \in {"persist", "persist_again"} /\ orderBlocksFulfillment(jobs[d].order)
           => \A l \in Lines : access[l] = "active" => Revoking(l)

Guarded == GrantsOnce /\ Recorded /\ Leased /\ Covered

----------------------------------------------------------------------------
(* Rows and orders *)

\* Facts the constants give.
LEMMA Constants ==
  /\ Total \in Nat \ {0} /\ LineCount \in Nat \ {0} /\ LeaseTime \in Nat \ {0}
  /\ MaxTime \in Nat /\ MaxFaults \in Nat
  /\ Nobody \notin Webhooks /\ Nobody \notin AllStamps
  /\ Paid \cap Refunds = {}
  /\ IsFiniteSet(Deliveries) /\ IsFiniteSet(Paid) /\ Deliveries \cap Spares = {}
  /\ 1 \in Lines /\ Lines \subseteq Nat /\ \A w \in Refunds : Reversed[w] \in 1..Total
BY PaymentAssumption, StampAssumption DEF PaymentAssumption, StampAssumption, Lines

\* The empty records have the shapes of the full ones.
LEMMA EmptyRows ==
  /\ NoOrder \in OrderType /\ NewOrder \in OrderType
  /\ Idle \in JobType /\ ControlOf(Idle)
  /\ Rest \in AdminType /\ AdminControlOf(Rest)
<1>1. NoOrder \in OrderType
  BY Constants DEF NoOrder, OrderType
<1>2. NewOrder \in OrderType
  BY <1>1 DEF NewOrder, NoOrder, OrderType
<1>3. Idle \in JobType
  BY <1>1, Constants DEF Idle, JobType, Steps, Statuses
<1>4. Rest \in AdminType
  BY <1>1, Constants DEF Rest, AdminType
<1> QED
  BY <1>1, <1>2, <1>3, <1>4 DEF ControlOf, AdminControlOf, Idle, Rest, PaidSteps, RefundSteps

\* What the events do to an order keeps its shape.
LEMMA Orders ==
  ASSUME NEW o \in OrderType
  PROVE  /\ applyPaymentEventToOrder(o) \in OrderType
         /\ applyOrderCancel(o) \in OrderType
         /\ [o EXCEPT !.done = TRUE] \in OrderType
         /\ \A l \in Lines : [o EXCEPT !.filled = o.filled \cup {l}] \in OrderType
<1>1. applyPaymentEventToOrder(o) \in OrderType
  BY DEF applyPaymentEventToOrder, orderPaymentStatusAfterPaymentEvent, OrderType
<1>2. applyOrderCancel(o) \in OrderType
  BY DEF applyOrderCancel, OrderType
<1>3. [o EXCEPT !.done = TRUE] \in OrderType
  BY DEF OrderType
<1>4. \A l \in Lines : [o EXCEPT !.filled = o.filled \cup {l}] \in OrderType
  BY DEF OrderType
<1> QED
  BY <1>1, <1>2, <1>3, <1>4

\* A refund counts what it gives back, and the order is refunded when all is.
LEMMA RefundsCount ==
  ASSUME NEW o \in OrderType, NEW whole \in BOOLEAN, NEW amount \in 0..Total
  PROVE  LET p == applyOrderRefund(o, whole, amount)
         IN  /\ p \in OrderType /\ p.filled = o.filled
             /\ p.status \in {"refunded", "partially_refunded"} /\ p.payment = p.status
             /\ p.status = "refunded" <=> p.reversed = Total
             /\ p.reversed >= o.reversed /\ p.reversed \in 0..Total
             /\ whole => p.reversed = Total
             /\ o.reversed + amount <= Total => p.reversed >= o.reversed + amount
<1>1. PICK sum \in Nat : sum = o.reversed + amount
  BY Constants DEF OrderType
<1>2. PICK reversed \in 0..Total : reversed = IF whole \/ sum > Total THEN Total ELSE sum
  BY Constants
<1>3. PICK status \in {"refunded", "partially_refunded"} :
        status = IF reversed = Total THEN "refunded" ELSE "partially_refunded"
  OBVIOUS
<1>4. applyOrderRefund(o, whole, amount) =
        [o EXCEPT !.status = status, !.payment = status, !.reversed = reversed]
  BY <1>1, <1>2, <1>3 DEF applyOrderRefund
<1>5. LET p == applyOrderRefund(o, whole, amount)
      IN  /\ p \in OrderType /\ p.filled = o.filled
          /\ p.status = status /\ p.payment = status /\ p.reversed = reversed
  BY <1>4 DEF OrderType
<1>6. reversed >= o.reversed /\ (o.reversed + amount <= Total => reversed >= o.reversed + amount)
  BY <1>1, <1>2, Constants DEF OrderType
<1>7. status = "refunded" <=> reversed = Total
  BY <1>3
<1> QED
  BY <1>2, <1>3, <1>5, <1>6, <1>7

\* An amount that is still to be given back.
LEMMA Amounts ==
  ASSUME NEW o \in OrderType, NEW w \in Refunds
  PROVE  /\ ReversalAmount(o, w) \in 0..Total
         /\ o.reversed + ReversalAmount(o, w) >= Reversed[w]
         /\ o.reversed + ReversalAmount(o, w) <= Total
<1>1. PICK r \in 1..Total : r = Reversed[w]
  BY Constants
<1>2. o.reversed \in 0..Total
  BY DEF OrderType
<1> QED
  BY <1>1, <1>2, Constants DEF ReversalAmount

----------------------------------------------------------------------------
(* What a step makes of the row of its delivery *)

\* The rows of the other deliveries stay.
Only(d) == jobs' \in [Deliveries -> JobType] /\ \A e \in Deliveries \ {d} : jobs'[e] = jobs[e]

Ends(d) == Only(d) /\ jobs'[d] = Idle

\* The delivery goes on with the same event.
Becomes(d, step, o, line, result, changed) ==
  /\ Only(d)
  /\ jobs'[d].step = step /\ jobs'[d].order = o /\ jobs'[d].line = line
  /\ jobs'[d].result = result /\ jobs'[d].changed = changed
  /\ jobs'[d].event = jobs[d].event /\ jobs'[d].stamp = jobs[d].stamp /\ jobs'[d].at = jobs[d].at
  /\ jobs'[d].asked = jobs[d].asked /\ jobs'[d].copy = jobs[d].copy

\* The same, only the step changes.
Goes(d, step) == Becomes(d, step, jobs[d].order, jobs[d].line, jobs[d].result, jobs[d].changed)

\* A row that is written with what it has at its step fits.
LEMMA RowTyped ==
  ASSUME TypeOK, NEW d \in Deliveries
  PROVE  /\ jobs[d] \in JobType /\ jobs[d].order \in OrderType /\ jobs[d].line \in 0..(LineCount + 1)
         /\ jobs[d].result \in Statuses \cup {"error"} /\ jobs[d].changed \in BOOLEAN
         /\ jobs[d].copy \in Statuses /\ jobs[d].at \in 0..MaxTime /\ jobs[d].step \in Steps
         /\ jobs[d].event \in Webhooks \cup {Nobody} /\ jobs[d].stamp \in AllStamps \cup {Nobody}
         /\ jobs[d].asked \in BOOLEAN
<1>1. jobs[d] \in JobType
  BY DEF TypeOK
<1> QED
  BY <1>1 DEF JobType

\* A row that is written is the row of its delivery, and of no other.
LEMMA Writes ==
  ASSUME TypeOK, NEW d \in Deliveries, NEW row \in JobType, jobs' = [jobs EXCEPT ![d] = row]
  PROVE  Only(d) /\ jobs'[d] = row
<1>1. jobs \in [Deliveries -> JobType]
  BY DEF TypeOK
<1> QED
  BY <1>1 DEF Only

\* Go changes the step only.
LEMMA GoBecomes ==
  ASSUME TypeOK, NEW d \in Deliveries, NEW step \in Steps, Go(d, step)
  PROVE  Goes(d, step)
<1>1. PICK row : row = [jobs[d] EXCEPT !.step = step]
  OBVIOUS
<1>2. jobs[d] \in JobType
  BY RowTyped
<1>3. row \in JobType
  BY <1>1, <1>2 DEF JobType
<1>4. jobs' = [jobs EXCEPT ![d] = row]
  BY <1>1 DEF Go, TypeOK
<1>5. Only(d) /\ jobs'[d] = row
  BY <1>3, <1>4, Writes
<1> QED
  BY <1>1, <1>2, <1>5 DEF Goes, Becomes, JobType

\* GoWith changes the step, the copy of the order and the line.
LEMMA GoWithBecomes ==
  ASSUME TypeOK, NEW d \in Deliveries, NEW step \in Steps, NEW o \in OrderType, GoWith(d, step, o)
  PROVE  Becomes(d, step, o, 1, jobs[d].result, jobs[d].changed)
<1>1. PICK one \in 0..(LineCount + 1) : one = 1
  BY Constants
<1>2. PICK row : row = [jobs[d] EXCEPT !.step = step, !.order = o, !.line = one]
  OBVIOUS
<1>3. jobs[d] \in JobType
  BY RowTyped
<1>4. row \in JobType
  BY <1>2, <1>3 DEF JobType
<1>5. jobs' = [jobs EXCEPT ![d] = row]
  BY <1>1, <1>2 DEF GoWith, TypeOK
<1>6. Only(d) /\ jobs'[d] = row
  BY <1>4, <1>5, Writes
<1> QED
  BY <1>1, <1>2, <1>3, <1>6 DEF Becomes, JobType

\* Returns changes the step and the result.
LEMMA ReturnsBecomes ==
  ASSUME TypeOK, NEW d \in Deliveries, NEW step \in Steps, NEW result \in Statuses \cup {"error"},
         Returns(d, step, result)
  PROVE  Becomes(d, step, jobs[d].order, jobs[d].line, result, jobs[d].changed)
<1>1. PICK row : row = [jobs[d] EXCEPT !.step = step, !.result = result]
  OBVIOUS
<1>2. jobs[d] \in JobType
  BY RowTyped
<1>3. row \in JobType
  BY <1>1, <1>2 DEF JobType
<1>4. jobs' = [jobs EXCEPT ![d] = row]
  BY <1>1 DEF Returns, TypeOK
<1>5. Only(d) /\ jobs'[d] = row
  BY <1>3, <1>4, Writes
<1> QED
  BY <1>1, <1>2, <1>5 DEF Becomes, JobType

\* A delivery that answers is over.
LEMMA AnswerEnds ==
  ASSUME TypeOK, NEW d \in Deliveries, jobs' = [jobs EXCEPT ![d] = Idle]
  PROVE  Ends(d)
BY EmptyRows, Writes DEF Ends

\* An answer is noted, and no answer is taken back.
LEMMA AnswersType ==
  ASSUME TypeOK, NEW d \in Deliveries, NEW result, Answer(d, result)
  PROVE  /\ answered' \in [Webhooks -> {"no", "duplicate", "receipt"}]
         /\ \A w \in Webhooks :
              \/ answered'[w] = answered[w]
              \/ w = jobs[d].event /\ AnswersOK(w, result)
BY DEF Answer, TypeOK, Event

\* The step after a line: on to the next one, or to its record.
NextOf(line) == IF line = LineCount THEN "close" ELSE "fulfil"

\* A line that is done is recorded, or was recorded before.
LEMMA LineDoneBecomes ==
  ASSUME TypeOK, NEW d \in Deliveries, jobs[d].line \in Lines, LineDone(d)
  PROVE  \/ /\ jobs[d].line \in jobs[d].order.filled
            /\ Becomes(d, NextOf(jobs[d].line), jobs[d].order, jobs[d].line + 1, jobs[d].result,
                       jobs[d].changed)
         \/ \E o \in OrderType :
              /\ o = [jobs[d].order EXCEPT !.filled = jobs[d].order.filled \cup {jobs[d].line}]
              /\ Becomes(d, "record", o, jobs[d].line, jobs[d].result, TRUE)
<1>1. jobs[d] \in JobType /\ jobs[d].order \in OrderType
  BY RowTyped
<1>2. jobs[d].line + 1 \in 0..(LineCount + 1)
  BY Constants DEF Lines
<1>3. NextOf(jobs[d].line) \in Steps
  BY DEF NextOf, Steps, WorkflowSteps
<1>4. CASE jobs[d].line \in jobs[d].order.filled
  <2>1. PICK row : row = [jobs[d] EXCEPT !.step = NextOf(jobs[d].line), !.line = jobs[d].line + 1]
    OBVIOUS
  <2>2. row \in JobType
    BY <1>1, <1>2, <1>3, <2>1 DEF JobType
  <2>3. jobs' = [jobs EXCEPT ![d] = row]
    BY <1>4, <2>1 DEF LineDone, NextOf, TypeOK
  <2>4. Only(d) /\ jobs'[d] = row
    BY <2>2, <2>3, Writes
  <2> QED
    BY <1>1, <1>4, <2>1, <2>4 DEF Becomes, JobType
<1>5. CASE jobs[d].line \notin jobs[d].order.filled
  <2>1. PICK o \in OrderType : o = [jobs[d].order EXCEPT !.filled = jobs[d].order.filled \cup {jobs[d].line}]
    BY <1>1, Orders
  <2>2. PICK yes \in BOOLEAN : yes = TRUE
    OBVIOUS
  <2>3. PICK row : row = [jobs[d] EXCEPT !.step = "record", !.order = o, !.changed = yes]
    OBVIOUS
  <2>4. "record" \in Steps
    BY DEF Steps
  <2>5. row \in JobType
    BY <1>1, <2>3, <2>4 DEF JobType
  <2>6. jobs' = [jobs EXCEPT ![d] = row]
    BY <1>1, <1>5, <2>1, <2>2, <2>3 DEF LineDone, TypeOK, JobType, OrderType
  <2>7. Only(d) /\ jobs'[d] = row
    BY <2>5, <2>6, Writes
  <2>8. Becomes(d, "record", o, jobs[d].line, jobs[d].result, TRUE)
    BY <1>1, <2>2, <2>3, <2>7 DEF Becomes, JobType
  <2> QED
    BY <2>1, <2>8
<1> QED
  BY <1>4, <1>5

\* A step of a workflow is entered with its lease, or the lease is lost.
LEMMA EnterWithBecomes ==
  ASSUME TypeOK, NEW d \in Deliveries, NEW step \in Steps, NEW o \in OrderType, EnterWith(d, step, o),
         jobs[d].event \in Paid
  PROVE  \/ /\ workflowHasActiveLease(d)
            /\ Becomes(d, step, o, 1, jobs[d].result, jobs[d].changed)
         \/ /\ ~workflowHasActiveLease(d)
            /\ Becomes(d, "release", jobs[d].order, jobs[d].line, jobs[d].copy, jobs[d].changed)
<1>1. jobs[d].event \notin Refunds
  BY Constants
<1>2. CASE workflowHasActiveLease(d)
  <2>1. GoWith(d, step, o)
    BY <1>2 DEF EnterWith
  <2> QED
    BY <1>2, <2>1, GoWithBecomes
<1>3. CASE ~workflowHasActiveLease(d)
  <2>1. Returns(d, "release", jobs[d].copy)
    BY <1>1, <1>3 DEF EnterWith, LoseLease, Event
  <2>2. jobs[d].copy \in Statuses \cup {"error"} /\ "release" \in Steps
    BY RowTyped DEF Steps
  <2> QED
    BY <1>3, <2>1, <2>2, ReturnsBecomes
<1> QED
  BY <1>2, <1>3

----------------------------------------------------------------------------
(* Types and control *)

StoresOK ==
  /\ webhooks \in [Webhooks -> Statuses]
  /\ flows \in [Paid -> [status : {"absent", "running", "failed", "completed"},
                         lease : AllStamps \cup {Nobody}, ends : 0..(MaxTime + LeaseTime)]]
  /\ lock \in [owner : (Webhooks \cup {Nobody}) \X (AllStamps \cup {Nobody}),
               ends : 0..(MaxTime + LeaseTime)]
  /\ order \in OrderType
  /\ access \in [Lines -> {"none", "active", "revoked"}]
  /\ checkout \in {"absent", "created", "completed"}
  /\ faults \in 0..MaxFaults
  /\ answered \in [Webhooks -> {"no", "duplicate", "receipt"}]

\* The row of a delivery is cleared, or is still about its event.
Stays(d) ==
  \/ jobs'[d] = Idle
  \/ /\ jobs[d] # Idle /\ jobs'[d].event = jobs[d].event
     /\ jobs'[d].stamp = jobs[d].stamp /\ jobs'[d].at = jobs[d].at

\* A delivery that goes on is at a step its event has.
LEMMA ControlKept ==
  ASSUME TypeOK, Control, NEW d \in Deliveries, jobs[d].step # "idle",
         NEW step \in Steps \ {"idle"}, NEW o, NEW line, NEW result, NEW changed,
         Becomes(d, step, o, line, result, changed),
         step \in PaidSteps => jobs[d].event \in Paid,
         step \in RefundSteps => jobs[d].event \in Refunds,
         step \in {"fulfil", "grant", "record", "revoke"} => line \in Lines
  PROVE  Only(d) /\ Stays(d) /\ ControlOf(jobs'[d])
<1>1. ControlOf(jobs[d])
  BY DEF Control
<1>2. jobs[d] # Idle
  BY DEF Idle
<1> QED
  BY <1>1, <1>2 DEF Becomes, ControlOf, Stays

\* A delivery that is over is idle.
LEMMA EndsControl ==
  ASSUME NEW d \in Deliveries, Ends(d)
  PROVE  Only(d) /\ Stays(d) /\ ControlOf(jobs'[d])
BY EmptyRows DEF Ends, Stays

\* A delivery that writes its row as it should leaves all rows in shape.
LEMMA DeliveryShaped ==
  ASSUME TypeOK, Control, NEW d \in Deliveries, Only(d), Stays(d), ControlOf(jobs'[d]),
         UNCHANGED <<admins, now>>, StoresOK'
  PROVE  TypeOK' /\ Control'
<1>1. TypeOK'
  BY DEF TypeOK, StoresOK, Only
<1>2. jobs'[d].at <= now
  <2>1. now \in Nat /\ jobs[d].at <= now
    BY Constants DEF TypeOK, Control
  <2> QED
    BY <2>1 DEF Stays, Idle
<1>3. \A e \in Deliveries : ControlOf(jobs'[e]) /\ jobs'[e].at <= now
  BY <1>2 DEF Only, Control
<1> QED
  BY <1>1, <1>3 DEF Control

\* The old stores are in shape.
LEMMA StoresTyped ==
  ASSUME TypeOK
  PROVE  StoresOK
BY DEF TypeOK, StoresOK

\* What a delivery that is not idle has.
LEMMA AtBusy ==
  ASSUME TypeOK, Control, NEW d \in Deliveries, jobs[d].step # "idle"
  PROVE  /\ jobs[d].event \in Webhooks /\ jobs[d].stamp \in AllStamps /\ jobs[d] # Idle
         /\ jobs[d].step \in PaidSteps => jobs[d].event \in Paid
         /\ jobs[d].step \in RefundSteps => jobs[d].event \in Refunds
         /\ jobs[d].step \in {"fulfil", "grant", "record", "revoke"} => jobs[d].line \in Lines
         /\ jobs[d].at \in 0..MaxTime /\ jobs[d].at + LeaseTime \in 0..(MaxTime + LeaseTime)
<1>1. ControlOf(jobs[d])
  BY DEF Control
<1>2. jobs[d].at \in 0..MaxTime /\ jobs[d].at + LeaseTime \in 0..(MaxTime + LeaseTime)
  BY RowTyped, Constants
<1> QED
  BY <1>1, <1>2 DEF ControlOf, Idle

Fits(d) == Only(d) /\ Stays(d) /\ ControlOf(jobs'[d]) /\ StoresOK'

\* The receipt of an event, and the lock.
LEMMA ReceiptFits ==
  ASSUME TypeOK, Control, NEW d \in Deliveries, Store(d) \/ MarkFailed(d)
  PROVE  Fits(d)
<1>1. StoresOK
  BY StoresTyped
<1>2. jobs[d].step # "idle"
  BY DEF Store, MarkFailed, At
<1>3. jobs[d].event \in Webhooks
  BY <1>2, AtBusy
<1>4. \A w \in Webhooks, s \in Statuses : [webhooks EXCEPT ![w] = s] \in [Webhooks -> Statuses]
  BY <1>1 DEF StoresOK
<1>5. CASE Store(d) /\ webhooks[jobs[d].event] = "absent"
  <2>1. PICK received \in Statuses : received = "received"
    BY DEF Statuses
  <2>2. PICK row : row = [jobs[d] EXCEPT !.step = "lock", !.copy = received, !.result = received]
    OBVIOUS
  <2>3. jobs[d] \in JobType /\ "lock" \in Steps
    BY RowTyped DEF Steps
  <2>4. row \in JobType
    BY <2>2, <2>3 DEF JobType
  <2>5. jobs' = [jobs EXCEPT ![d] = row]
    BY <1>5, <2>1, <2>2 DEF Store, Event, TypeOK
  <2>6. Only(d) /\ jobs'[d] = row
    BY <2>4, <2>5, Writes
  <2>7. Stays(d)
    BY <1>2, <2>2, <2>3, <2>6 DEF Stays, Idle, JobType
  <2>8. ControlOf(row)
    <3>1. row.step = "lock" /\ row.event = jobs[d].event /\ row.stamp = jobs[d].stamp
      BY <2>2, <2>3 DEF JobType
    <3>2. jobs[d].stamp \in AllStamps
      BY <1>2, AtBusy
    <3> QED
      BY <1>3, <3>1, <3>2 DEF ControlOf, PaidSteps, RefundSteps
  <2>9. StoresOK'
    BY <1>1, <1>3, <1>4, <1>5, <2>1 DEF Store, Event, StoresOK
  <2> QED
    BY <2>6, <2>7, <2>8, <2>9 DEF Fits
<1>6. CASE Store(d) /\ webhooks[jobs[d].event] # "absent"
  <2>1. Ends(d)
    BY <1>6, AnswerEnds DEF Store, Event
  <2>2. answered' \in [Webhooks -> {"no", "duplicate", "receipt"}]
    BY <1>1, <1>6 DEF Store, Event, AnswerDuplicate, StoresOK
  <2>3. StoresOK'
    BY <1>1, <1>6, <2>2 DEF Store, Event, StoresOK
  <2> QED
    BY <2>1, <2>3, EndsControl DEF Fits
<1>7. CASE MarkFailed(d)
  <2>1. PICK s \in {"failed_retryable", "failed"} :
          webhooks' = [webhooks EXCEPT ![jobs[d].event] = s] /\ Answer(d, s)
    BY <1>7 DEF MarkFailed, Event
  <2>2. Ends(d)
    BY <2>1, AnswerEnds DEF Answer
  <2>3. answered' \in [Webhooks -> {"no", "duplicate", "receipt"}]
    BY <2>1, AnswersType
  <2>4. s \in Statuses
    BY DEF Statuses
  <2>5. webhooks' \in [Webhooks -> Statuses]
    BY <1>3, <1>4, <2>1, <2>4
  <2>6. UNCHANGED <<flows, lock, order, access, checkout, faults>>
    BY <1>7 DEF MarkFailed
  <2>7. StoresOK'
    BY <1>1, <2>3, <2>5, <2>6 DEF StoresOK
  <2> QED
    BY <2>2, <2>7, EndsControl DEF Fits
<1> QED
  BY <1>5, <1>6, <1>7 DEF Store, Event

\* AcquireLock and ReleaseLock keep every shape.
LEMMA LockFits ==
  ASSUME TypeOK, Control, NEW d \in Deliveries, AcquireLock(d) \/ ReleaseLock(d)
  PROVE  Fits(d)
<1>1. StoresOK
  BY StoresTyped
<1>2. jobs[d].step # "idle"
  BY DEF AcquireLock, ReleaseLock, At
<1>3. /\ jobs[d].event \in Webhooks /\ jobs[d].stamp \in AllStamps
      /\ jobs[d].at + LeaseTime \in 0..(MaxTime + LeaseTime)
  BY <1>2, AtBusy
<1>4. CASE AcquireLock(d) /\ LockFree(d)
  <2>1. PICK step \in {"lease", "find_reversal"} :
          Go(d, step) /\ step = IF jobs[d].event \in Paid THEN "lease" ELSE "find_reversal"
    BY <1>4 DEF AcquireLock, Event
  <2>2. step \in Steps \ {"idle"}
    BY DEF Steps
  <2>3. Goes(d, step)
    BY <2>1, <2>2, GoBecomes
  <2>4. jobs[d].event \in Paid \/ jobs[d].event \in Refunds
    BY <1>3 DEF Webhooks
  <2>5. Only(d) /\ Stays(d) /\ ControlOf(jobs'[d])
    BY <1>2, <2>1, <2>2, <2>3, <2>4, ControlKept DEF Goes, PaidSteps, RefundSteps
  <2>6. lock' \in [owner : (Webhooks \cup {Nobody}) \X (AllStamps \cup {Nobody}),
                   ends : 0..(MaxTime + LeaseTime)]
    BY <1>3, <1>4 DEF AcquireLock, Owner, Event
  <2>7. StoresOK'
    BY <1>1, <1>4, <2>6 DEF AcquireLock, StoresOK
  <2> QED
    BY <2>5, <2>7 DEF Fits
<1>5. CASE AcquireLock(d) /\ ~LockFree(d)
  <2>1. Answer(d, jobs[d].copy) /\ UNCHANGED lock
    BY <1>5 DEF AcquireLock
  <2>2. Ends(d)
    BY <2>1, AnswerEnds DEF Answer
  <2>3. answered' \in [Webhooks -> {"no", "duplicate", "receipt"}]
    BY <2>1, AnswersType
  <2>4. StoresOK'
    BY <1>1, <1>5, <2>1, <2>3 DEF AcquireLock, StoresOK
  <2> QED
    BY <2>2, <2>4, EndsControl DEF Fits
<1>6. CASE ReleaseLock(d)
  <2>1. lock' \in [owner : (Webhooks \cup {Nobody}) \X (AllStamps \cup {Nobody}),
                   ends : 0..(MaxTime + LeaseTime)]
    <3>1. Free \in [owner : (Webhooks \cup {Nobody}) \X (AllStamps \cup {Nobody}),
                    ends : 0..(MaxTime + LeaseTime)]
      BY Constants DEF Free
    <3> QED
      BY <1>1, <1>6, <3>1 DEF ReleaseLock, StoresOK
  <2>2. CASE jobs[d].result = "error"
    <3>1. Go(d, "mark_failed") /\ UNCHANGED answered
      BY <1>6, <2>2 DEF ReleaseLock
    <3>2. "mark_failed" \in Steps
      BY DEF Steps
    <3>3. Goes(d, "mark_failed")
      BY <3>1, <3>2, GoBecomes
    <3>4. Only(d) /\ Stays(d) /\ ControlOf(jobs'[d])
      BY <1>2, <3>2, <3>3, ControlKept DEF Goes, PaidSteps, RefundSteps
    <3>5. StoresOK'
      BY <1>1, <1>6, <2>1, <3>1 DEF ReleaseLock, StoresOK
    <3> QED
      BY <3>4, <3>5 DEF Fits
  <2>3. CASE jobs[d].result # "error"
    <3>1. Answer(d, jobs[d].result)
      BY <1>6, <2>3 DEF ReleaseLock
    <3>2. Ends(d)
      BY <3>1, AnswerEnds DEF Answer
    <3>3. answered' \in [Webhooks -> {"no", "duplicate", "receipt"}]
      BY <3>1, AnswersType
    <3>4. StoresOK'
      BY <1>1, <1>6, <2>1, <3>3 DEF ReleaseLock, StoresOK
    <3> QED
      BY <3>2, <3>4, EndsControl DEF Fits
  <2> QED
    BY <2>2, <2>3
<1> QED
  BY <1>4, <1>5, <1>6

\* The lease of the workflow, and its end.
LEMMA FlowFits ==
  ASSUME TypeOK, Control, NEW d \in Deliveries,
         LeaseWorkflow(d) \/ LeaseEnds(d) \/ CompleteWorkflow(d) \/ FailWorkflow(d)
  PROVE  Fits(d)
<1>1. StoresOK
  BY StoresTyped
<1>2. jobs[d].step # "idle"
  BY DEF LeaseWorkflow, LeaseEnds, CompleteWorkflow, FailWorkflow, At, WorkflowSteps
<1>3. /\ jobs[d].event \in Paid /\ jobs[d].stamp \in AllStamps
      /\ jobs[d].at + LeaseTime \in 0..(MaxTime + LeaseTime)
  <2>1. jobs[d].event \in Paid
    BY <1>2, AtBusy DEF LeaseWorkflow, LeaseEnds, CompleteWorkflow, FailWorkflow, At, PaidSteps, Event
  <2> QED
    BY <1>2, <2>1, AtBusy
<1>4. /\ {"release", "find"} \subseteq Steps \ {"idle"}
      /\ jobs[d].copy \in Statuses \cup {"error"}
  BY RowTyped DEF Steps
<1>5. (\E step \in {"release", "find"} : Go(d, step)) \/ Returns(d, "release", jobs[d].copy)
  BY DEF LeaseWorkflow, LeaseEnds, CompleteWorkflow, FailWorkflow, LoseLease
<1>6. Only(d) /\ Stays(d) /\ ControlOf(jobs'[d])
  <2>1. ASSUME NEW step \in {"release", "find"}, Go(d, step)
        PROVE  Only(d) /\ Stays(d) /\ ControlOf(jobs'[d])
    <3>1. Goes(d, step)
      BY <1>4, <2>1, GoBecomes
    <3> QED
      BY <1>2, <1>3, <1>4, <2>1, <3>1, ControlKept DEF Goes, RefundSteps
  <2>2. ASSUME Returns(d, "release", jobs[d].copy)
        PROVE  Only(d) /\ Stays(d) /\ ControlOf(jobs'[d])
    <3>1. Becomes(d, "release", jobs[d].order, jobs[d].line, jobs[d].copy, jobs[d].changed)
      BY <1>4, <2>2, ReturnsBecomes
    <3> QED
      BY <1>2, <1>4, <3>1, ControlKept DEF PaidSteps, RefundSteps
  <2> QED
    BY <1>5, <2>1, <2>2
<1>7. flows' \in [Paid -> [status : {"absent", "running", "failed", "completed"},
                           lease : AllStamps \cup {Nobody}, ends : 0..(MaxTime + LeaseTime)]]
  <2>1. \A status \in {"running", "failed", "completed"}, lease \in AllStamps \cup {Nobody},
           ends \in 0..(MaxTime + LeaseTime) :
           [flows EXCEPT ![jobs[d].event] = [status |-> status, lease |-> lease, ends |-> ends]]
             \in [Paid -> [status : {"absent", "running", "failed", "completed"},
                           lease : AllStamps \cup {Nobody}, ends : 0..(MaxTime + LeaseTime)]]
    BY <1>1 DEF StoresOK
  <2>2. 0 \in 0..(MaxTime + LeaseTime)
    BY Constants
  <2>3. \/ UNCHANGED flows
        \/ flows' = [flows EXCEPT ![jobs[d].event] =
                       [status |-> "running", lease |-> jobs[d].stamp, ends |-> jobs[d].at + LeaseTime]]
        \/ \E status \in {"failed", "completed"} :
             flows' = [flows EXCEPT ![jobs[d].event] = [status |-> status, lease |-> Nobody, ends |-> 0]]
    BY DEF LeaseWorkflow, LeaseEnds, CompleteWorkflow, FailWorkflow, Event, stores
  <2>4. CASE UNCHANGED flows
    BY <1>1, <2>4 DEF StoresOK
  <2>5. CASE flows' = [flows EXCEPT ![jobs[d].event] =
                        [status |-> "running", lease |-> jobs[d].stamp, ends |-> jobs[d].at + LeaseTime]]
    BY <1>3, <2>1, <2>5
  <2>6. CASE \E status \in {"failed", "completed"} :
               flows' = [flows EXCEPT ![jobs[d].event] = [status |-> status, lease |-> Nobody, ends |-> 0]]
    BY <2>1, <2>2, <2>6
  <2> QED
    BY <2>3, <2>4, <2>5, <2>6
<1>8. UNCHANGED <<webhooks, lock, order, access, checkout, faults, answered>>
  BY DEF LeaseWorkflow, LeaseEnds, CompleteWorkflow, FailWorkflow, stores
<1>9. StoresOK'
  BY <1>1, <1>7, <1>8 DEF StoresOK
<1> QED
  BY <1>6, <1>9 DEF Fits

\* The order of a paid event is found, put and closed; the checkout is completed.
LEMMA OrderFits ==
  ASSUME TypeOK, Control, NEW d \in Deliveries,
         FindOrder(d) \/ PersistOrder(d) \/ CompleteCheckout(d) \/ CloseOrder(d)
  PROVE  Fits(d)
<1>1. StoresOK
  BY StoresTyped
<1>2. jobs[d].step # "idle" /\ jobs[d].event \in Paid
  <2>1. jobs[d].step \in PaidSteps /\ jobs[d].step # "idle"
    BY DEF FindOrder, PersistOrder, CompleteCheckout, CloseOrder, At, PaidSteps
  <2> QED
    BY <2>1, AtBusy
<1>3. jobs[d].order \in OrderType /\ order \in OrderType
  BY <1>1, RowTyped DEF StoresOK
<1>4. {"reject", "persist", "persist_again", "mark", "complete_checkout", "fulfil", "release"}
        \subseteq Steps \ {"idle"}
  BY DEF Steps, WorkflowSteps
<1>5. ASSUME NEW step \in {"reject", "persist", "persist_again", "mark", "complete_checkout", "fulfil"},
             NEW o \in OrderType, EnterWith(d, step, o) \/ GoWith(d, step, o)
      PROVE  Only(d) /\ Stays(d) /\ ControlOf(jobs'[d])
  <2>1. step \in Steps \ {"idle"}
    BY <1>4, <1>5
  <2>2. \/ Becomes(d, step, o, 1, jobs[d].result, jobs[d].changed)
        \/ Becomes(d, "release", jobs[d].order, jobs[d].line, jobs[d].copy, jobs[d].changed)
    BY <1>2, <1>5, <2>1, EnterWithBecomes, GoWithBecomes
  <2>3. CASE Becomes(d, step, o, 1, jobs[d].result, jobs[d].changed)
    BY <1>2, <2>1, <2>3, ControlKept, Constants DEF RefundSteps
  <2>4. CASE Becomes(d, "release", jobs[d].order, jobs[d].line, jobs[d].copy, jobs[d].changed)
    BY <1>2, <1>4, <2>4, ControlKept DEF PaidSteps, RefundSteps
  <2> QED
    BY <2>2, <2>3, <2>4
<1>6. CASE FindOrder(d)
  <2>1. PICK step \in {"reject", "persist"} : EnterWith(d, step, order)
    BY <1>6 DEF FindOrder
  <2>2. StoresOK'
    BY <1>1, <1>6 DEF FindOrder, StoresOK, stores
  <2> QED
    BY <1>3, <1>5, <2>1, <2>2 DEF Fits
<1>7. CASE PersistOrder(d)
  <2>1. PICK updated \in OrderType :
          updated = IF jobs[d].order = NoOrder THEN NewOrder ELSE applyPaymentEventToOrder(jobs[d].order)
    BY <1>3, EmptyRows, Orders
  <2>2. \/ GoWith(d, "persist_again", order) /\ UNCHANGED order
        \/ \E step \in {"mark", "complete_checkout"} : order' = updated /\ EnterWith(d, step, updated)
    BY <1>7, <2>1 DEF PersistOrder
  <2>3. StoresOK'
    <3>1. order' \in OrderType
      BY <1>3, <2>1, <2>2
    <3> QED
      BY <1>1, <1>7, <3>1 DEF PersistOrder, StoresOK
  <2> QED
    BY <1>3, <1>5, <2>1, <2>2, <2>3 DEF Fits
<1>8. CASE CompleteCheckout(d)
  <2>1. EnterWith(d, "fulfil", jobs[d].order)
    BY <1>8 DEF CompleteCheckout, Enter
  <2>2. StoresOK'
    BY <1>1, <1>8 DEF CompleteCheckout, StoresOK
  <2> QED
    BY <1>3, <1>5, <2>1, <2>2 DEF Fits
<1>9. CASE CloseOrder(d)
  <2>1. EnterWith(d, "mark", jobs[d].order)
    BY <1>9 DEF CloseOrder, Enter
  <2>2. order' \in OrderType
    BY <1>3, <1>9, Orders DEF CloseOrder
  <2>3. StoresOK'
    BY <1>1, <1>9, <2>2 DEF CloseOrder, StoresOK
  <2> QED
    BY <1>3, <1>5, <2>1, <2>3 DEF Fits
<1> QED
  BY <1>6, <1>7, <1>8, <1>9

\* The lines of an order are fulfilled and recorded.
LEMMA LineFits ==
  ASSUME TypeOK, Control, NEW d \in Deliveries, FulfilLine(d) \/ GrantLine(d) \/ RecordLine(d)
  PROVE  Fits(d)
<1>1. StoresOK
  BY StoresTyped
<1>2. jobs[d].step # "idle" /\ jobs[d].event \in Paid /\ jobs[d].line \in Lines
  <2>1. jobs[d].step \in {"fulfil", "grant", "record"}
    BY DEF FulfilLine, GrantLine, RecordLine, At
  <2>2. jobs[d].step \in PaidSteps /\ jobs[d].step # "idle"
    BY <2>1 DEF PaidSteps
  <2> QED
    BY <2>1, <2>2, AtBusy
<1>3. jobs[d].order \in OrderType
  BY RowTyped
<1>4. {"grant", "fulfil", "close", "record"} \subseteq (Steps \cap PaidSteps) \ {"idle"}
  BY DEF Steps, PaidSteps, WorkflowSteps
<1>5. /\ NextOf(jobs[d].line) \in (Steps \cap PaidSteps) \ {"idle"}
      /\ NextOf(jobs[d].line) = "fulfil" => jobs[d].line + 1 \in Lines
      /\ NextOf(jobs[d].line) \notin {"grant", "record", "revoke"}
  BY <1>2, <1>4, Constants DEF NextOf, Lines
<1>6. ASSUME NEW step \in (Steps \cap PaidSteps) \ {"idle"}, NEW o, NEW line, NEW result, NEW changed,
             Becomes(d, step, o, line, result, changed),
             step \in {"fulfil", "grant", "record", "revoke"} => line \in Lines
      PROVE  Only(d) /\ Stays(d) /\ ControlOf(jobs'[d])
  <2>1. step \notin RefundSteps
    BY <1>6 DEF PaidSteps, RefundSteps
  <2> QED
    BY <1>2, <1>6, <2>1, ControlKept
<1>7. ASSUME LineDone(d)
      PROVE  Only(d) /\ Stays(d) /\ ControlOf(jobs'[d])
  <2>1. CASE Becomes(d, NextOf(jobs[d].line), jobs[d].order, jobs[d].line + 1, jobs[d].result,
                     jobs[d].changed)
    BY <1>5, <1>6, <2>1
  <2>2. CASE \E o \in OrderType : Becomes(d, "record", o, jobs[d].line, jobs[d].result, TRUE)
    BY <1>2, <1>4, <1>6, <2>2
  <2> QED
    BY <1>2, <1>7, <2>1, <2>2, LineDoneBecomes
<1>8. CASE FulfilLine(d)
  <2>1. StoresOK'
    BY <1>1, <1>8 DEF FulfilLine, StoresOK, stores
  <2>2. ASSUME jobs' = [jobs EXCEPT ![d].step = "grant"]
        PROVE  Only(d) /\ Stays(d) /\ ControlOf(jobs'[d])
    <3>1. Goes(d, "grant")
      BY <1>4, <2>2, GoBecomes DEF Go
    <3> QED
      BY <1>2, <1>4, <1>6, <3>1 DEF Goes
  <2> QED
    BY <1>7, <1>8, <2>1, <2>2 DEF FulfilLine, Fits
<1>9. CASE GrantLine(d)
  <2>1. access' \in [Lines -> {"none", "active", "revoked"}]
    BY <1>1, <1>9 DEF GrantLine, StoresOK
  <2>2. StoresOK'
    BY <1>1, <1>9, <2>1 DEF GrantLine, StoresOK
  <2> QED
    BY <1>7, <1>9, <2>2 DEF GrantLine, Fits
<1>10. CASE RecordLine(d)
  <2>1. PICK row : row = [jobs[d] EXCEPT !.step = NextOf(jobs[d].line), !.line = jobs[d].line + 1]
    OBVIOUS
  <2>2. jobs[d] \in JobType /\ jobs[d].line + 1 \in 0..(LineCount + 1)
    BY <1>2, RowTyped, Constants DEF Lines
  <2>3. row \in JobType
    BY <1>5, <2>1, <2>2 DEF JobType
  <2>4. jobs' = [jobs EXCEPT ![d] = row]
    BY <1>10, <2>1 DEF RecordLine, NextOf, TypeOK
  <2>5. Only(d) /\ jobs'[d] = row
    BY <2>3, <2>4, Writes
  <2>6. Becomes(d, NextOf(jobs[d].line), jobs[d].order, jobs[d].line + 1, jobs[d].result, jobs[d].changed)
    BY <2>1, <2>2, <2>5 DEF Becomes, JobType
  <2>7. StoresOK'
    BY <1>1, <1>3, <1>10 DEF RecordLine, StoresOK
  <2> QED
    BY <1>5, <1>6, <2>6, <2>7 DEF Fits
<1> QED
  BY <1>8, <1>9, <1>10

\* What is left of a workflow, for every event.
LEMMA EndFits ==
  ASSUME TypeOK, Control, NEW d \in Deliveries, PersistProgress(d) \/ MarkProcessed(d) \/ Reject(d)
  PROVE  Fits(d)
<1>1. StoresOK
  BY StoresTyped
<1>2. jobs[d].step # "idle" /\ jobs[d].event \in Webhooks
  <2>1. jobs[d].step # "idle"
    BY DEF PersistProgress, MarkProcessed, Reject, At
  <2> QED
    BY <2>1, AtBusy
<1>3. jobs[d].order \in OrderType
  BY RowTyped
<1>4. {"fail_flow", "complete", "release"} \subseteq Steps \ {"idle"}
  BY DEF Steps
<1>5. CASE PersistProgress(d)
  <2>1. Goes(d, "fail_flow")
    BY <1>4, <1>5, GoBecomes DEF PersistProgress
  <2>2. jobs[d].event \in Paid
    BY <1>2, <1>5, AtBusy DEF PersistProgress, At, PaidSteps
  <2>3. Only(d) /\ Stays(d) /\ ControlOf(jobs'[d])
    BY <1>2, <1>4, <2>1, <2>2, ControlKept DEF Goes, RefundSteps
  <2>4. StoresOK'
    BY <1>1, <1>3, <1>5 DEF PersistProgress, StoresOK
  <2> QED
    BY <2>3, <2>4 DEF Fits
<1>6. CASE MarkProcessed(d) \/ Reject(d)
  <2>1. PICK step \in {"fail_flow", "complete", "release"}, result \in Statuses :
          /\ Returns(d, step, result) /\ (step \in {"fail_flow", "complete"} => jobs[d].event \in Paid)
          /\ webhooks' = [webhooks EXCEPT ![jobs[d].event] = result]
    BY <1>6 DEF MarkProcessed, Reject, Event, Statuses
  <2>2. Becomes(d, step, jobs[d].order, jobs[d].line, result, jobs[d].changed)
    BY <1>4, <2>1, ReturnsBecomes
  <2>3. Only(d) /\ Stays(d) /\ ControlOf(jobs'[d])
    BY <1>2, <1>4, <2>1, <2>2, ControlKept DEF PaidSteps, RefundSteps
  <2>4. webhooks' \in [Webhooks -> Statuses]
    BY <1>1, <1>2, <2>1 DEF StoresOK
  <2>5. StoresOK'
    BY <1>1, <1>6, <2>4 DEF MarkProcessed, Reject, StoresOK
  <2> QED
    BY <2>3, <2>5 DEF Fits
<1> QED
  BY <1>5, <1>6

\* A reversal finds the order, puts it and revokes the access, line by line.
LEMMA ReversalFits ==
  ASSUME TypeOK, Control, NEW d \in Deliveries, FindReversal(d) \/ ReverseOrder(d) \/ RevokeLine(d)
  PROVE  Fits(d)
<1>1. StoresOK
  BY StoresTyped
<1>2. jobs[d].step # "idle" /\ jobs[d].event \in Refunds
  <2>1. jobs[d].step \in RefundSteps /\ jobs[d].step # "idle"
    BY DEF FindReversal, ReverseOrder, RevokeLine, At, RefundSteps
  <2> QED
    BY <2>1, AtBusy
<1>3. jobs[d].order \in OrderType /\ order \in OrderType
  BY <1>1, RowTyped DEF StoresOK
<1>4. {"reject", "revoke", "reverse", "mark"} \subseteq Steps \ {"idle"}
  BY DEF Steps, WorkflowSteps
<1>5. ASSUME NEW step \in {"reject", "revoke", "reverse", "mark"}, NEW o, NEW line \in Lines, NEW result,
             NEW changed, Becomes(d, step, o, line, result, changed)
      PROVE  Only(d) /\ Stays(d) /\ ControlOf(jobs'[d])
  BY <1>2, <1>4, <1>5, ControlKept DEF PaidSteps
<1>6. CASE FindReversal(d)
  <2>1. PICK step \in {"reject", "revoke", "reverse"} : GoWith(d, step, order)
    BY <1>6 DEF FindReversal
  <2>2. Becomes(d, step, order, 1, jobs[d].result, jobs[d].changed)
    BY <1>3, <1>4, <2>1, GoWithBecomes
  <2>3. StoresOK'
    BY <1>1, <1>6 DEF FindReversal, StoresOK, stores
  <2> QED
    BY <1>5, <2>2, <2>3, Constants DEF Fits
<1>7. CASE ReverseOrder(d)
  <2>1. PICK updated \in OrderType :
          updated = applyOrderRefund(jobs[d].order, Reversed[jobs[d].event] = Total,
                                     ReversalAmount(jobs[d].order, jobs[d].event))
    BY <1>2, <1>3, Amounts, RefundsCount
  <2>2. PICK step \in {"revoke", "mark"} : order' = updated /\ GoWith(d, step, updated)
    BY <1>7, <2>1 DEF ReverseOrder, Event
  <2>3. Becomes(d, step, updated, 1, jobs[d].result, jobs[d].changed)
    BY <1>4, <2>2, GoWithBecomes
  <2>4. StoresOK'
    BY <1>1, <1>7, <2>2 DEF ReverseOrder, StoresOK
  <2> QED
    BY <1>5, <2>3, <2>4, Constants DEF Fits
<1>8. CASE RevokeLine(d)
  <2>1. jobs[d].line \in Lines
    BY <1>2, <1>8, AtBusy DEF RevokeLine, At
  <2>2. access' \in [Lines -> {"none", "active", "revoked"}]
    BY <1>1, <1>8 DEF RevokeLine, RevokeAccess, StoresOK
  <2>3. StoresOK'
    BY <1>1, <1>8, <2>2 DEF RevokeLine, StoresOK
  <2>4. CASE jobs[d].line = LineCount
    <3>1. Goes(d, "mark")
      BY <1>4, <1>8, <2>4, GoBecomes DEF RevokeLine
    <3> QED
      BY <1>5, <2>1, <2>3, <3>1 DEF Goes, Fits
  <2>5. CASE jobs[d].line # LineCount
    <3>1. PICK line \in Lines : line = jobs[d].line + 1
      BY <2>1, <2>5, Constants DEF Lines
    <3>2. PICK row : row = [jobs[d] EXCEPT !.line = line]
      OBVIOUS
    <3>3. jobs[d] \in JobType /\ line \in 0..(LineCount + 1)
      BY RowTyped, Constants DEF Lines
    <3>4. row \in JobType
      BY <3>2, <3>3 DEF JobType
    <3>5. jobs' = [jobs EXCEPT ![d] = row]
      BY <1>8, <2>5, <3>1, <3>2 DEF RevokeLine, TypeOK
    <3>6. Only(d) /\ jobs'[d] = row
      BY <3>4, <3>5, Writes
    <3>7. Becomes(d, "revoke", jobs[d].order, line, jobs[d].result, jobs[d].changed)
      BY <1>8, <3>2, <3>3, <3>6 DEF Becomes, JobType, RevokeLine, At
    <3> QED
      BY <1>5, <2>3, <3>7 DEF Fits
  <2> QED
    BY <2>4, <2>5
<1> QED
  BY <1>6, <1>7, <1>8

\* Calls that throw, and requests that die.
LEMMA FaultFits ==
  ASSUME TypeOK, Control, NEW d \in Deliveries, Fault(d)
  PROVE  Fits(d)
<1>1. StoresOK
  BY StoresTyped
<1>2. jobs[d].step # "idle"
  BY DEF Fault, Throw, ReleaseThrows, Crash, At, Control, ControlOf
<1>3. faults' \in 0..MaxFaults
  BY <1>1, Constants DEF Fault, Throw, ReleaseThrows, Crash, StoresOK
<1>4. {"mark_failed", "release", "progress", "fail_flow"} \subseteq Steps \ {"idle"}
  BY DEF Steps
<1>5. CASE Throw(d)
  <2>1. jobs[d].event \in Paid \/ jobs[d].event \in Refunds
    BY <1>2, AtBusy DEF Webhooks
  <2>2. PICK step \in {"mark_failed", "release", "progress", "fail_flow"} : step = AfterThrow(d)
    BY DEF AfterThrow
  <2>3. step \in {"progress", "fail_flow"} => jobs[d].event \in Paid
    BY <2>1, <2>2 DEF AfterThrow, Event
  <2>4. Becomes(d, step, jobs[d].order, jobs[d].line, "error", jobs[d].changed)
    BY <1>4, <1>5, <2>2, ReturnsBecomes DEF Throw
  <2>5. Only(d) /\ Stays(d) /\ ControlOf(jobs'[d])
    BY <1>2, <1>4, <2>3, <2>4, ControlKept DEF PaidSteps, RefundSteps
  <2>6. StoresOK'
    BY <1>1, <1>3, <1>5 DEF Throw, StoresOK, stores
  <2> QED
    BY <2>5, <2>6 DEF Fits
<1>6. CASE ReleaseThrows(d) /\ jobs[d].result = "error"
  <2>1. Goes(d, "mark_failed")
    BY <1>4, <1>6, GoBecomes DEF ReleaseThrows
  <2>2. Only(d) /\ Stays(d) /\ ControlOf(jobs'[d])
    BY <1>2, <1>4, <2>1, ControlKept DEF Goes, PaidSteps, RefundSteps
  <2>3. StoresOK'
    BY <1>1, <1>3, <1>6 DEF ReleaseThrows, StoresOK, stores
  <2> QED
    BY <2>2, <2>3 DEF Fits
<1>7. CASE ReleaseThrows(d) /\ jobs[d].result # "error"
  <2>1. Answer(d, jobs[d].result)
    BY <1>7 DEF ReleaseThrows
  <2>2. Ends(d) /\ answered' \in [Webhooks -> {"no", "duplicate", "receipt"}]
    BY <2>1, AnswerEnds, AnswersType DEF Answer
  <2>3. StoresOK'
    BY <1>1, <1>3, <1>7, <2>2 DEF ReleaseThrows, StoresOK, stores
  <2> QED
    BY <2>2, <2>3, EndsControl DEF Fits
<1>8. CASE Crash(d)
  <2>1. Ends(d)
    BY <1>8, AnswerEnds DEF Crash
  <2>2. StoresOK'
    BY <1>1, <1>3, <1>8 DEF Crash, StoresOK, stores
  <2> QED
    BY <2>1, <2>2, EndsControl DEF Fits
<1> QED
  BY <1>5, <1>6, <1>7, <1>8 DEF Fault

\* A step of a delivery keeps all in shape, and what the others remember.
LEMMA DeliveryFits ==
  ASSUME TypeOK, Control, NEW d \in Deliveries, Step(d) \/ Fault(d)
  PROVE  Fits(d) /\ UNCHANGED <<admins, now>> /\ jobs[d] # Idle
<1>1. CASE Store(d) \/ MarkFailed(d)
  <2>1. jobs[d].step # "idle" /\ UNCHANGED <<admins, now>>
    BY <1>1 DEF Store, MarkFailed, At
  <2> QED
    BY <1>1, <2>1, ReceiptFits DEF Idle
<1>2. CASE AcquireLock(d) \/ ReleaseLock(d)
  <2>1. jobs[d].step # "idle" /\ UNCHANGED <<admins, now>>
    BY <1>2 DEF AcquireLock, ReleaseLock, At
  <2> QED
    BY <1>2, <2>1, LockFits DEF Idle
<1>3. CASE LeaseWorkflow(d) \/ LeaseEnds(d) \/ CompleteWorkflow(d) \/ FailWorkflow(d)
  <2>1. jobs[d].step # "idle" /\ UNCHANGED <<admins, now>>
    BY <1>3 DEF LeaseWorkflow, LeaseEnds, CompleteWorkflow, FailWorkflow, At, WorkflowSteps
  <2> QED
    BY <1>3, <2>1, FlowFits DEF Idle
<1>4. CASE FindOrder(d) \/ PersistOrder(d) \/ CompleteCheckout(d) \/ CloseOrder(d)
  <2>1. jobs[d].step # "idle" /\ UNCHANGED <<admins, now>>
    BY <1>4 DEF FindOrder, PersistOrder, CompleteCheckout, CloseOrder, At
  <2> QED
    BY <1>4, <2>1, OrderFits DEF Idle
<1>5. CASE FulfilLine(d) \/ GrantLine(d) \/ RecordLine(d)
  <2>1. jobs[d].step # "idle" /\ UNCHANGED <<admins, now>>
    BY <1>5 DEF FulfilLine, GrantLine, RecordLine, At
  <2> QED
    BY <1>5, <2>1, LineFits DEF Idle
<1>6. CASE PersistProgress(d) \/ MarkProcessed(d) \/ Reject(d)
  <2>1. jobs[d].step # "idle" /\ UNCHANGED <<admins, now>>
    BY <1>6 DEF PersistProgress, MarkProcessed, Reject, At
  <2> QED
    BY <1>6, <2>1, EndFits DEF Idle
<1>7. CASE FindReversal(d) \/ ReverseOrder(d) \/ RevokeLine(d)
  <2>1. jobs[d].step # "idle" /\ UNCHANGED <<admins, now>>
    BY <1>7 DEF FindReversal, ReverseOrder, RevokeLine, At
  <2> QED
    BY <1>7, <2>1, ReversalFits DEF Idle
<1>8. CASE Fault(d)
  <2>1. UNCHANGED <<admins, now>>
    BY <1>8 DEF Fault, Throw, ReleaseThrows, Crash
  <2>2. jobs[d] # Idle
    BY <1>8 DEF Fault, Throw, ReleaseThrows, Crash, At, Idle
  <2> QED
    BY <1>8, <2>1, <2>2, FaultFits
<1> QED
  BY <1>1, <1>2, <1>3, <1>4, <1>5, <1>6, <1>7, <1>8 DEF Step

----------------------------------------------------------------------------
(* Every request finds a ctx.now of its own *)

\* A finite set has no fewer elements than its image.
LEMMA ImageIsSmaller ==
  ASSUME NEW S, IsFiniteSet(S), NEW f, DOMAIN f = S
  PROVE  IsFiniteSet({f[x] : x \in S}) /\ Cardinality({f[x] : x \in S}) <= Cardinality(S)
<1> DEFINE T == {f[x] : x \in S}
           g == [x \in S |-> f[x]]
<1>1. g \in Surjection(S, T)
  BY DEF Surjection
<1> QED
  BY <1>1, FS_Surjection

\* Each of the documents that carry a stamp carries one: there are fewer than stamps.
LEMMA SpareStamp ==
  ASSUME TypeOK, NEW d \in Deliveries, jobs[d] = Idle, Used(d)
  PROVE  \E s \in Spares : ~Used(s)
<1> DEFINE Rest1 == Deliveries \ {d}
           ofJobs == [e \in Rest1 |-> jobs[e].stamp]
           ofFlows == [w \in Paid |-> flows[w].lease]
           J == {ofJobs[e] : e \in Rest1}
           F == {ofFlows[w] : w \in Paid}
           L == {lock.owner[2]}
           n == Cardinality(Deliveries)
           p == Cardinality(Paid)
<1>1. n \in Nat /\ p \in Nat /\ n > 0
  <2>1. n \in Nat /\ p \in Nat
    BY Constants, FS_CardinalityType
  <2>2. n # 0
    BY Constants, FS_EmptySet
  <2> QED
    BY <2>1, <2>2
<1>2. IsFiniteSet(J) /\ Cardinality(J) <= n - 1
  <2>1. IsFiniteSet(Rest1) /\ Cardinality(Rest1) = n - 1
    BY Constants, FS_RemoveElement
  <2>2. IsFiniteSet(J) /\ Cardinality(J) <= Cardinality(Rest1)
    BY <2>1, ImageIsSmaller
  <2> QED
    BY <2>1, <2>2
<1>3. IsFiniteSet(F) /\ Cardinality(F) <= p
  BY Constants, ImageIsSmaller
<1>4. IsFiniteSet(L) /\ Cardinality(L) = 1
  BY FS_Singleton
<1>5. Cardinality(J) \in Nat /\ Cardinality(F) \in Nat
  BY <1>2, <1>3, FS_CardinalityType
<1>6. IsFiniteSet(J \cup F) /\ Cardinality(J \cup F) <= Cardinality(J) + Cardinality(F)
  <2>1. IsFiniteSet(J \cup F) /\ Cardinality(J \cup F) = Cardinality(J) + Cardinality(F) - Cardinality(J \cap F)
    BY <1>2, <1>3, FS_Union
  <2>2. Cardinality(J \cap F) \in Nat
    BY <1>2, FS_Subset, FS_CardinalityType
  <2> HIDE DEF J, F
  <2> QED
    BY <1>5, <2>1, <2>2
<1>7. IsFiniteSet(J \cup F \cup L) /\ Cardinality(J \cup F \cup L) <= n + p
  <2>1. /\ IsFiniteSet(J \cup F \cup L)
        /\ Cardinality(J \cup F \cup L) = Cardinality(J \cup F) + 1 - Cardinality((J \cup F) \cap L)
    BY <1>4, <1>6, FS_Union
  <2>2. Cardinality((J \cup F) \cap L) \in Nat /\ Cardinality(J \cup F) \in Nat
    BY <1>6, FS_Subset, FS_CardinalityType
  <2> HIDE DEF J, F, L, n, p
  <2> QED
    BY <1>1, <1>2, <1>3, <1>5, <1>6, <2>1, <2>2
<1>8. \A s : Used(s) /\ s # Nobody => s \in J \cup F \cup L
  BY DEF Used, Idle
<1>9. d # Nobody /\ d \notin Spares /\ Nobody \notin Spares
  BY Constants DEF AllStamps
<1>10. SUFFICES ASSUME \A s \in Spares : Used(s)
                PROVE  FALSE
  OBVIOUS
<1>11. Spares \cup {d} \subseteq J \cup F \cup L
  BY <1>8, <1>9, <1>10
<1>12. IsFiniteSet(Spares) /\ Cardinality(Spares) = p + n
  <2>1. p + n \in Int /\ ~(1 > p + n) /\ 1 \in Int /\ (p + n) - 1 + 1 = p + n
    BY <1>1
  <2> HIDE DEF n, p
  <2>2. IsFiniteSet(1..(p + n)) /\ Cardinality(1..(p + n)) = (p + n) - 1 + 1
    BY <2>1, FS_Interval
  <2> QED
    BY <2>1, <2>2 DEF Spares, n, p
<1>13. Cardinality(Spares \cup {d}) = p + n + 1
  BY <1>9, <1>12, FS_AddElement
<1>14. Cardinality(Spares \cup {d}) <= Cardinality(J \cup F \cup L)
  BY <1>7, <1>11, FS_Subset
<1>15. Cardinality(J \cup F \cup L) \in Nat
  BY <1>7, FS_CardinalityType
<1> HIDE DEF J, F, L, n, p
<1> QED
  BY <1>1, <1>7, <1>13, <1>14, <1>15

\* A new stamp is one that nobody has.
LEMMA NewStampIsNew ==
  ASSUME TypeOK, NEW d \in Deliveries, jobs[d] = Idle
  PROVE  NewStamp(d) \in AllStamps /\ ~Used(NewStamp(d))
<1>1. CASE ~Used(d)
  BY <1>1 DEF NewStamp, AllStamps
<1>2. CASE Used(d)
  BY <1>2, SpareStamp DEF NewStamp, AllStamps
<1> QED
  BY <1>1, <1>2

----------------------------------------------------------------------------
(* Requests arrive, administrators act, time passes *)

\* The row of a delivery that has arrived with an event.
Arrives(d, w, s) ==
  /\ Only(d)
  /\ jobs'[d].event = w /\ jobs'[d].stamp = s /\ jobs'[d].at = now
  /\ jobs'[d].step = IF webhooks[w] = "absent" THEN "store" ELSE "lock"
  /\ jobs'[d].copy = webhooks[w] /\ jobs'[d].result = webhooks[w] /\ webhooks[w] # "processed"
  /\ jobs'[d].order = NoOrder /\ ~jobs'[d].changed

\* A new request finds its ctx.now among the stamps.
LEMMA StampsTyped ==
  ASSUME TypeOK, Control, NEW d \in Deliveries, jobs[d] = Idle
  PROVE  Stamps(d) \subseteq AllStamps
<1>1. \A e \in Deliveries : jobs[e] # Idle => jobs[e].stamp \in AllStamps
  BY DEF Control, ControlOf
<1> QED
  BY <1>1, NewStampIsNew DEF Stamps

\* A request that arrives is answered as a duplicate or gets its row.
LEMMA ArrivalFits ==
  ASSUME TypeOK, Control, NEW d \in Deliveries, NEW w \in Webhooks, NEW s \in AllStamps,
         \/ Deliver(d, w, s)
         \/ Replay(d, w) /\ s = NewStamp(d)
  PROVE  /\ jobs[d] = Idle /\ UNCHANGED <<stores, admins, now, faults>>
         /\ \/ UNCHANGED jobs /\ webhooks[w] = "processed"
            \/ Arrives(d, w, s) /\ UNCHANGED answered
         /\ answered' \in [Webhooks -> {"no", "duplicate", "receipt"}]
         /\ \A v \in Webhooks : answered'[v] = answered[v] \/ answered'[v] = "duplicate"
<1>1. StoresOK
  BY StoresTyped
<1>2. jobs[d] = Idle /\ UNCHANGED <<stores, admins, now, faults>>
  BY DEF Deliver, Replay
<1>3. CASE UNCHANGED jobs /\ webhooks[w] = "processed" /\ AnswerDuplicate(w)
  BY <1>1, <1>2, <1>3 DEF AnswerDuplicate, StoresOK
<1>4. ASSUME NEW row,
             \/ row = [Idle EXCEPT !.step = IF webhooks[w] = "absent" THEN "store" ELSE "lock",
                                   !.event = w, !.stamp = s, !.at = now, !.asked = TRUE,
                                   !.copy = webhooks[w], !.result = webhooks[w]]
             \/ /\ row = [Idle EXCEPT !.step = "lock", !.event = w, !.stamp = s, !.at = now,
                                      !.copy = webhooks[w], !.result = webhooks[w]]
                /\ webhooks[w] # "absent",
             jobs' = [jobs EXCEPT ![d] = row], webhooks[w] # "processed", UNCHANGED answered
      PROVE  Arrives(d, w, s) /\ UNCHANGED answered
  <2>1. PICK step \in {"store", "lock"} : step = IF webhooks[w] = "absent" THEN "store" ELSE "lock"
    OBVIOUS
  <2>2. PICK yes \in BOOLEAN : yes = TRUE
    OBVIOUS
  <2>3. \/ row = [Idle EXCEPT !.step = step, !.event = w, !.stamp = s, !.at = now, !.asked = yes,
                              !.copy = webhooks[w], !.result = webhooks[w]]
        \/ row = [Idle EXCEPT !.step = step, !.event = w, !.stamp = s, !.at = now,
                              !.copy = webhooks[w], !.result = webhooks[w]]
    BY <1>4, <2>1, <2>2
  <2>4. Idle \in JobType /\ step \in Steps /\ webhooks[w] \in Statuses /\ now \in 0..MaxTime
    BY <1>1, EmptyRows DEF StoresOK, Steps, TypeOK
  <2>5. row \in JobType
    BY <2>3, <2>4 DEF JobType
  <2>6. Only(d) /\ jobs'[d] = row
    BY <1>4, <2>5, Writes
  <2>7. /\ row.step = step /\ row.event = w /\ row.stamp = s /\ row.at = now
        /\ row.copy = webhooks[w] /\ row.result = webhooks[w]
        /\ row.order = Idle.order /\ row.changed = Idle.changed
    BY <2>3, <2>4 DEF JobType
  <2>8. Idle.order = NoOrder /\ ~Idle.changed
    BY DEF Idle
  <2> QED
    BY <1>4, <2>1, <2>6, <2>7, <2>8 DEF Arrives
<1>5. CASE Deliver(d, w, s)
  <2>1. CASE webhooks[w] = "processed"
    BY <1>3, <1>5, <2>1 DEF Deliver
  <2>2. CASE webhooks[w] # "processed"
    BY <1>1, <1>2, <1>4, <1>5, <2>2 DEF Deliver, StoresOK
  <2> QED
    BY <2>1, <2>2
<1>6. CASE Replay(d, w) /\ s = NewStamp(d)
  <2>1. webhooks[w] # "absent" /\ webhooks[w] # "processed"
    BY <1>6 DEF Replay, isReplayable
  <2> QED
    BY <1>1, <1>2, <1>4, <1>6, <2>1 DEF Replay, StoresOK
<1> QED
  BY <1>5, <1>6

\* A request that arrives keeps every shape.
LEMMA ArrivalShaped ==
  ASSUME TypeOK, Control, NEW d \in Deliveries, NEW w \in Webhooks, NEW s \in AllStamps,
         \/ Deliver(d, w, s)
         \/ Replay(d, w) /\ s = NewStamp(d)
  PROVE  TypeOK' /\ Control'
<1>1. /\ jobs[d] = Idle /\ UNCHANGED <<stores, admins, now, faults>>
      /\ UNCHANGED jobs \/ Arrives(d, w, s)
      /\ answered' \in [Webhooks -> {"no", "duplicate", "receipt"}]
  BY ArrivalFits
<1>2. CASE UNCHANGED jobs
  BY <1>1, <1>2 DEF TypeOK, Control, stores
<1>3. CASE Arrives(d, w, s)
  <2>1. TypeOK'
    BY <1>1, <1>3 DEF Arrives, Only, TypeOK, stores
  <2>2. ControlOf(jobs'[d]) /\ jobs'[d].at <= now
    <3>1. now <= now
      BY Constants DEF TypeOK
    <3> QED
      BY <1>3, <3>1 DEF Arrives, ControlOf, PaidSteps, RefundSteps
  <2>3. Control'
    BY <1>1, <1>3, <2>2 DEF Arrives, Only, Control
  <2> QED
    BY <2>1, <2>3
<1> QED
  BY <1>1, <1>2, <1>3

\* What an administrator puts.
Put(a) ==
  IF admins[a].op = "cancel" THEN applyOrderCancel(admins[a].order)
  ELSE applyOrderRefund(admins[a].order, admins[a].amount = 0, admins[a].amount)

\* What an administrator puts is an order with the lines of the one that was read.
LEMMA PutTyped ==
  ASSUME TypeOK, NEW a \in Admins
  PROVE  /\ admins[a] \in AdminType /\ admins[a].order \in OrderType /\ Put(a) \in OrderType
         /\ Put(a).filled = admins[a].order.filled
<1>1. admins[a] \in AdminType
  BY DEF TypeOK
<1>2. admins[a].order \in OrderType /\ admins[a].amount \in 0..Total
  BY <1>1 DEF AdminType
<1>3. CASE admins[a].op = "cancel"
  <2>1. Put(a) = applyOrderCancel(admins[a].order)
    BY <1>3 DEF Put
  <2> QED
    BY <1>1, <1>2, <2>1, Orders DEF applyOrderCancel, OrderType
<1>4. CASE admins[a].op # "cancel"
  <2>1. PICK whole \in BOOLEAN : whole = (admins[a].amount = 0)
    OBVIOUS
  <2>2. Put(a) = applyOrderRefund(admins[a].order, whole, admins[a].amount)
    BY <1>4, <2>1 DEF Put
  <2>3. LET p == applyOrderRefund(admins[a].order, whole, admins[a].amount)
        IN  p \in OrderType /\ p.filled = admins[a].order.filled
    BY <1>2, RefundsCount
  <2> QED
    BY <1>1, <1>2, <2>2, <2>3
<1> QED
  BY <1>3, <1>4

\* What an administrator's step makes of the administrator's row, the order and the
\* access.
AdminFits(a) ==
  /\ admins' \in [Admins -> AdminType] /\ AdminControlOf(admins'[a])
  /\ \A b \in Admins \ {a} : admins'[b] = admins[b]
  /\ UNCHANGED <<webhooks, flows, lock, checkout, jobs, now, answered, faults>>
  /\ \/ UNCHANGED <<order, access>> /\ admins[a] = Rest /\ admins'[a].step = "put" /\ admins'[a].order = order
     \/ UNCHANGED <<order, access>> /\ admins[a].step = "put" /\ admins'[a] = Rest
     \/ /\ admins[a].step = "put" /\ order' = Put(a) /\ UNCHANGED access
        /\ admins'[a] = IF orderBlocksFulfillment(Put(a)) THEN [Rest EXCEPT !.step = "revoke", !.line = 1]
                        ELSE Rest
     \/ /\ admins[a].step = "revoke" /\ admins[a].line \in Lines /\ UNCHANGED order
        /\ RevokeAccess(admins[a].line)
        /\ \/ admins[a].line = LineCount /\ admins'[a] = Rest
           \/ /\ admins[a].line # LineCount
              /\ admins'[a].step = "revoke" /\ admins'[a].line = admins[a].line + 1
              /\ admins'[a].order = admins[a].order

\* A row that is written is the row of its administrator, and of no other.
LEMMA AdminWrites ==
  ASSUME TypeOK, NEW a \in Admins, NEW row \in AdminType, admins' = [admins EXCEPT ![a] = row]
  PROVE  /\ admins' \in [Admins -> AdminType] /\ admins'[a] = row
         /\ \A b \in Admins \ {a} : admins'[b] = admins[b]
<1>1. admins \in [Admins -> AdminType]
  BY DEF TypeOK
<1> QED
  BY <1>1

\* Each step of an administrator is one of four.
LEMMA AdminStepFits ==
  ASSUME TypeOK, Control, NEW a \in Admins, Admin(a)
  PROVE  AdminFits(a)
<1>1. /\ admins[a] \in AdminType /\ AdminControlOf(admins[a]) /\ order \in OrderType
      /\ Rest \in AdminType /\ AdminControlOf(Rest)
  BY EmptyRows, PutTyped DEF TypeOK, Control
<1>2. ASSUME NEW op \in {"refund", "cancel"}, NEW amount \in 0..Total, admins[a] = Rest,
             NEW row, \/ row = [Rest EXCEPT !.step = "put", !.op = op, !.order = order, !.amount = amount]
                      \/ row = [Rest EXCEPT !.step = "put", !.op = op, !.order = order],
             admins' = [admins EXCEPT ![a] = row], UNCHANGED <<stores, jobs, now, answered, faults>>
      PROVE  AdminFits(a)
  <2>1. row \in AdminType
    BY <1>1, <1>2 DEF AdminType
  <2>2. row.step = "put" /\ row.order = order
    BY <1>1, <1>2 DEF AdminType
  <2>3. AdminControlOf(row)
    BY <2>2 DEF AdminControlOf
  <2>4. /\ admins' \in [Admins -> AdminType] /\ admins'[a] = row
        /\ \A b \in Admins \ {a} : admins'[b] = admins[b]
    BY <1>2, <2>1, AdminWrites
  <2> QED
    BY <1>2, <2>2, <2>3, <2>4 DEF AdminFits, stores
<1>3. CASE \E amount \in 0..Total : BeginRefund(a, amount)
  BY <1>2, <1>3 DEF BeginRefund
<1>4. CASE BeginCancel(a)
  <2>1. PICK row : row = [Rest EXCEPT !.step = "put", !.op = "cancel", !.order = order]
    OBVIOUS
  <2>2. /\ admins[a] = Rest /\ admins' = [admins EXCEPT ![a] = row]
        /\ UNCHANGED <<stores, jobs, now, answered, faults>>
    BY <1>4, <2>1 DEF BeginCancel
  <2>3. 0 \in 0..Total
    BY Constants
  <2> QED
    BY <1>2, <2>1, <2>2, <2>3
<1>5. CASE AdminStops(a)
  <2>1. /\ admins' \in [Admins -> AdminType] /\ admins'[a] = Rest
        /\ \A b \in Admins \ {a} : admins'[b] = admins[b]
    BY <1>1, <1>5, AdminWrites DEF AdminStops
  <2> QED
    BY <1>1, <1>5, <2>1 DEF AdminStops, AdminFits, stores
<1>6. CASE PutAdmin(a)
  <2>1. order' = Put(a) /\ admins[a].step = "put"
    BY <1>6 DEF PutAdmin, Put
  <2>2. PICK row : row = IF orderBlocksFulfillment(Put(a)) THEN [Rest EXCEPT !.step = "revoke", !.line = 1]
                         ELSE Rest
    OBVIOUS
  <2>3. row \in AdminType /\ AdminControlOf(row)
    <3>1. PICK one \in 0..LineCount : one = 1 /\ one \in Lines
      BY Constants DEF Lines
    <3>2. [Rest EXCEPT !.step = "revoke", !.line = one] \in AdminType
      BY <1>1, <3>1 DEF AdminType
    <3>3. AdminControlOf([Rest EXCEPT !.step = "revoke", !.line = one])
      BY <3>1 DEF AdminControlOf, Rest
    <3> QED
      BY <1>1, <2>2, <3>1, <3>2, <3>3
  <2>4. admins' = [admins EXCEPT ![a] = row]
    BY <1>6, <2>2 DEF PutAdmin, Put
  <2>5. /\ admins' \in [Admins -> AdminType] /\ admins'[a] = row
        /\ \A b \in Admins \ {a} : admins'[b] = admins[b]
    BY <2>3, <2>4, AdminWrites
  <2>6. UNCHANGED <<webhooks, flows, lock, access, checkout, jobs, now, answered, faults>>
    BY <1>6 DEF PutAdmin
  <2> QED
    BY <2>1, <2>2, <2>3, <2>5, <2>6 DEF AdminFits
<1>7. CASE RevokeAdmin(a)
  <2>1. admins[a].step = "revoke" /\ admins[a].line \in Lines /\ RevokeAccess(admins[a].line)
    BY <1>1, <1>7 DEF RevokeAdmin, AdminControlOf
  <2>2. UNCHANGED <<webhooks, flows, lock, order, checkout, jobs, now, answered, faults>>
    BY <1>7 DEF RevokeAdmin
  <2>3. CASE admins[a].line = LineCount
    <3>1. /\ admins' \in [Admins -> AdminType] /\ admins'[a] = Rest
          /\ \A b \in Admins \ {a} : admins'[b] = admins[b]
      BY <1>1, <1>7, <2>3, AdminWrites DEF RevokeAdmin
    <3> QED
      BY <1>1, <2>1, <2>2, <2>3, <3>1 DEF AdminFits
  <2>4. CASE admins[a].line # LineCount
    <3>1. PICK line \in 0..LineCount : line = admins[a].line + 1 /\ line \in Lines
      BY <2>1, <2>4, Constants DEF Lines
    <3>2. PICK row : row = [admins[a] EXCEPT !.line = line]
      OBVIOUS
    <3>3. row \in AdminType
      BY <1>1, <3>1, <3>2 DEF AdminType
    <3>4. row.step = "revoke" /\ row.line = line /\ row.order = admins[a].order
      BY <1>1, <2>1, <3>2 DEF AdminType
    <3>5. admins' = [admins EXCEPT ![a] = row]
      BY <1>7, <2>4, <3>1, <3>2 DEF RevokeAdmin, TypeOK
    <3>6. /\ admins' \in [Admins -> AdminType] /\ admins'[a] = row
          /\ \A b \in Admins \ {a} : admins'[b] = admins[b]
      BY <3>3, <3>5, AdminWrites
    <3> QED
      BY <2>1, <2>2, <2>4, <3>1, <3>4, <3>6 DEF AdminFits, AdminControlOf
  <2> QED
    BY <2>3, <2>4
<1> QED
  BY <1>3, <1>4, <1>5, <1>6, <1>7 DEF Admin

\* An administrator's step keeps every shape.
LEMMA AdminShaped ==
  ASSUME TypeOK, Control, NEW a \in Admins, Admin(a)
  PROVE  TypeOK' /\ Control'
<1>1. AdminFits(a)
  BY AdminStepFits
<1>2. order' \in OrderType
  BY <1>1, PutTyped DEF AdminFits, TypeOK
<1>3. access' \in [Lines -> {"none", "active", "revoked"}]
  BY <1>1 DEF AdminFits, RevokeAccess, TypeOK
<1>4. TypeOK'
  BY <1>1, <1>2, <1>3 DEF AdminFits, TypeOK
<1>5. Control'
  BY <1>1 DEF AdminFits, Control
<1> QED
  BY <1>4, <1>5

\* The checkout and the clock keep every shape.
LEMMA WorldShaped ==
  ASSUME TypeOK, Control, PersistCheckout \/ Tick \/ UNCHANGED vars
  PROVE  TypeOK' /\ Control'
<1>1. CASE PersistCheckout
  BY <1>1 DEF PersistCheckout, TypeOK, Control
<1>2. CASE Tick
  <2>1. now' \in 0..MaxTime /\ \A n \in Nat : n <= now => n <= now'
    BY <1>2, Constants DEF Tick, TypeOK
  <2>2. TypeOK'
    BY <1>2, <2>1 DEF Tick, TypeOK, stores
  <2>3. \A d \in Deliveries : jobs[d].at \in Nat
    BY RowTyped
  <2>4. Control'
    BY <1>2, <2>1, <2>3 DEF Tick, Control
  <2> QED
    BY <2>2, <2>4
<1>3. CASE UNCHANGED vars
  BY <1>3 DEF vars, stores, TypeOK, Control
<1> QED
  BY <1>1, <1>2, <1>3

\* Everything has its shape at the start.
LEMMA StartShaped ==
  ASSUME Init
  PROVE  TypeOK /\ Control
<1>1. TypeOK
  BY EmptyRows, Constants DEF Init, TypeOK, Statuses, Free
<1>2. Control
  BY EmptyRows, Constants DEF Init, Control, Idle
<1> QED
  BY <1>1, <1>2

\* What a step is, for the proofs that follow.
LEMMA Moves ==
  ASSUME TypeOK, Control, [Next]_vars
  PROVE  \/ \E d \in Deliveries, w \in Webhooks, s \in AllStamps :
              s \in Stamps(d) /\ (Deliver(d, w, s) \/ (Replay(d, w) /\ s = NewStamp(d)))
         \/ \E d \in Deliveries : Step(d) \/ Fault(d)
         \/ \E a \in Admins : Admin(a)
         \/ PersistCheckout \/ Tick \/ UNCHANGED vars
<1>1. ASSUME NEW d \in Deliveries, NEW w \in Webhooks, NEW s \in Stamps(d), Deliver(d, w, s)
      PROVE  s \in AllStamps
  BY <1>1, StampsTyped DEF Deliver
<1>2. ASSUME NEW d \in Deliveries, NEW w \in Webhooks, Replay(d, w)
      PROVE  NewStamp(d) \in AllStamps /\ NewStamp(d) \in Stamps(d)
  BY <1>2, NewStampIsNew DEF Replay, Stamps
<1> QED
  BY <1>1, <1>2 DEF Next

\* Every step keeps every shape.
LEMMA NextShaped ==
  ASSUME TypeOK, Control, [Next]_vars
  PROVE  TypeOK' /\ Control'
<1>1. CASE \E d \in Deliveries, w \in Webhooks, s \in AllStamps :
             Deliver(d, w, s) \/ (Replay(d, w) /\ s = NewStamp(d))
  BY <1>1, ArrivalShaped
<1>2. CASE \E d \in Deliveries : Step(d) \/ Fault(d)
  <2>1. PICK d \in Deliveries : Step(d) \/ Fault(d)
    BY <1>2
  <2>2. Fits(d) /\ UNCHANGED <<admins, now>>
    BY <2>1, DeliveryFits
  <2> QED
    BY <2>2, DeliveryShaped DEF Fits
<1>3. CASE \E a \in Admins : Admin(a)
  BY <1>3, AdminShaped
<1> QED
  BY <1>1, <1>2, <1>3, Moves, WorldShaped

\* Every document, lock and request in flight keeps its shape, and every delivery is at
\* a step its event has.
THEOREM TypeCorrect == Spec => []TypeOK
<1>1. Init => TypeOK /\ Control
  BY StartShaped
<1>2. TypeOK /\ Control /\ [Next]_vars => (TypeOK /\ Control)'
  BY NextShaped
<1> QED
  BY <1>1, <1>2, PTL DEF Spec

----------------------------------------------------------------------------
(* What a step of a delivery does *)

kept == <<flows, lock, access, checkout, faults>>

\* A delivery that does not have the lock goes on, or ends.
Waits(d) ==
  /\ jobs[d].step \in {"store", "lock", "mark_failed"}
  /\ UNCHANGED <<flows, lock, order, access, checkout>>
  /\ Only(d)
  /\ \/ jobs'[d] = Idle
     \/ /\ jobs'[d].order = jobs[d].order /\ jobs[d].step = "store" /\ jobs'[d].step = "lock"
        /\ jobs'[d].copy = "received" /\ jobs'[d].result = "received"
     \/ /\ jobs'[d].order = jobs[d].order /\ jobs[d].step = "lock" /\ jobs'[d].step = "mark_failed"
        /\ jobs'[d].copy = jobs[d].copy /\ jobs'[d].result = "error"

Takes(d) ==
  /\ jobs[d].step = "lock" /\ LockFree(d)
  /\ lock' = [owner |-> Owner(d), ends |-> jobs[d].at + LeaseTime]
  /\ UNCHANGED <<webhooks, flows, order, access, checkout, faults>>
  /\ Goes(d, IF jobs[d].event \in Paid THEN "lease" ELSE "find_reversal")

Frees(d) ==
  /\ jobs[d].step = "release" /\ lock' = IF lock.owner = Owner(d) THEN Free ELSE lock
  /\ UNCHANGED <<webhooks, flows, order, access, checkout, faults>>
  /\ Ends(d) \/ Goes(d, "mark_failed")

\* A delivery that has the lock gives up.
Drops(d) ==
  /\ Locked(d) /\ UNCHANGED <<webhooks, flows, lock, order, access, checkout>>
  /\ \/ Ends(d)
     \/ \E step \in {"mark_failed", "release", "progress", "fail_flow"},
           result \in {"error", jobs[d].copy, jobs[d].result} :
          /\ Becomes(d, step, jobs[d].order, jobs[d].line, result, jobs[d].changed)
          /\ step = "progress" => jobs[d].changed /\ jobs[d].step \in {"fulfil", "grant", "record"}
  /\ \/ faults' = faults + 1
     \/ UNCHANGED faults /\ jobs[d].step \in {"lease", "fail_flow"}
     \/ UNCHANGED faults /\ jobs[d].event \in Paid /\ jobs[d].step \in WorkflowSteps \cup {"complete"}
                         /\ ~workflowHasActiveLease(d)

Leases(d) ==
  /\ jobs[d].step = "lease"
  /\ flows[jobs[d].event].status # "completed" /\ flows[jobs[d].event].ends <= jobs[d].at
  /\ flows' = [flows EXCEPT ![jobs[d].event] = [status |-> "running", lease |-> jobs[d].stamp,
                                                ends |-> jobs[d].at + LeaseTime]]
  /\ UNCHANGED <<webhooks, lock, order, access, checkout, faults>>
  /\ Goes(d, "find")

EndsLease(d) ==
  /\ jobs[d].step \in {"complete", "fail_flow"} /\ workflowHasActiveLease(d)
  /\ flows' = [flows EXCEPT ![jobs[d].event] =
                 [status |-> IF jobs[d].step = "complete" THEN "completed" ELSE "failed",
                  lease |-> Nobody, ends |-> 0]]
  /\ UNCHANGED <<webhooks, lock, order, access, checkout, faults>>
  /\ Goes(d, "release")

\* The next step of a workflow is entered, or the lease is lost.
Enters(d, step, o) ==
  \/ /\ workflowHasActiveLease(d)
     /\ Becomes(d, step, o, 1, jobs[d].result, jobs[d].changed)
  \/ /\ ~workflowHasActiveLease(d)
     /\ Becomes(d, "release", jobs[d].order, jobs[d].line, jobs[d].copy, jobs[d].changed)

Finds(d) ==
  /\ jobs[d].step = "find" /\ UNCHANGED <<kept, webhooks, order>>
  /\ Enters(d, IF order = NoOrder /\ checkout = "absent" THEN "reject" ELSE "persist", order)

\* The order as the paid event leaves it.
PaidOrder(o) == IF o = NoOrder THEN NewOrder ELSE applyPaymentEventToOrder(o)

Persists(d) ==
  /\ jobs[d].step \in {"persist", "persist_again"} /\ UNCHANGED <<kept, webhooks>>
  /\ \/ /\ jobs[d].order = NoOrder /\ order # NoOrder /\ UNCHANGED order
        /\ Becomes(d, "persist_again", order, 1, jobs[d].result, jobs[d].changed)
     \/ /\ ~(jobs[d].order = NoOrder /\ order # NoOrder) /\ order' = PaidOrder(jobs[d].order)
        /\ Enters(d, IF orderBlocksFulfillment(PaidOrder(jobs[d].order)) THEN "mark"
                     ELSE "complete_checkout", PaidOrder(jobs[d].order))

Completes(d) ==
  /\ jobs[d].step = "complete_checkout" /\ UNCHANGED <<webhooks, flows, lock, order, access, faults>>
  /\ checkout' = IF checkout = "absent" THEN "absent" ELSE "completed"
  /\ Enters(d, "fulfil", jobs[d].order)

LineGoes(d) ==
  \/ /\ jobs[d].line \in jobs[d].order.filled
     /\ Becomes(d, NextOf(jobs[d].line), jobs[d].order, jobs[d].line + 1, jobs[d].result,
                jobs[d].changed)
  \/ \E o \in OrderType :
       /\ o = [jobs[d].order EXCEPT !.filled = jobs[d].order.filled \cup {jobs[d].line}]
       /\ Becomes(d, "record", o, jobs[d].line, jobs[d].result, TRUE)

Fulfils(d) ==
  /\ jobs[d].step = "fulfil" /\ UNCHANGED <<kept, webhooks, order>>
  /\ \/ access[jobs[d].line] = "none" /\ Goes(d, "grant")
     \/ access[jobs[d].line] # "none" /\ LineGoes(d)

Grants(d) ==
  /\ jobs[d].step = "grant" /\ UNCHANGED <<webhooks, flows, lock, order, checkout, faults>>
  /\ access' = [access EXCEPT ![jobs[d].line] = "active"]
  /\ LineGoes(d)

Records(d) ==
  /\ jobs[d].step = "record" /\ UNCHANGED <<kept, webhooks>> /\ order' = jobs[d].order
  /\ Becomes(d, NextOf(jobs[d].line), jobs[d].order, jobs[d].line + 1, jobs[d].result,
             jobs[d].changed)

Closes(d) ==
  /\ jobs[d].step = "close" /\ UNCHANGED <<kept, webhooks>>
  /\ \/ order' = [jobs[d].order EXCEPT !.done = TRUE]
     \/ UNCHANGED order /\ ~jobs[d].changed
  /\ Enters(d, "mark", jobs[d].order)

Saves(d) ==
  /\ jobs[d].step = "progress" /\ UNCHANGED <<kept, webhooks>> /\ order' = jobs[d].order
  /\ Goes(d, "fail_flow")

\* The event is settled, one way or the other.
Settles(d) ==
  \E status \in {"processed", "failed"} :
    /\ jobs[d].step = IF status = "processed" THEN "mark" ELSE "reject"
    /\ UNCHANGED <<kept, order>>
    /\ webhooks' = [webhooks EXCEPT ![jobs[d].event] = status]
    /\ Becomes(d, IF jobs[d].event \notin Paid THEN "release"
                  ELSE IF status = "processed" THEN "complete" ELSE "fail_flow",
               jobs[d].order, jobs[d].line, status, jobs[d].changed)

FindsReversal(d) ==
  /\ jobs[d].step = "find_reversal" /\ UNCHANGED <<kept, webhooks, order>>
  /\ \E step \in {"reject", "revoke", "reverse"} :
       /\ step = "reject" <=> order = NoOrder
       /\ step = "revoke" <=> order # NoOrder /\ order.payment = "refunded"
       /\ Becomes(d, step, order, 1, jobs[d].result, jobs[d].changed)

\* The order as the refund event leaves it.
RefundedOrder(d) ==
  applyOrderRefund(jobs[d].order, Reversed[jobs[d].event] = Total,
                   ReversalAmount(jobs[d].order, jobs[d].event))

Reverses(d) ==
  /\ jobs[d].step = "reverse" /\ UNCHANGED <<kept, webhooks>> /\ order' = RefundedOrder(d)
  /\ Becomes(d, IF RefundedOrder(d).status = "refunded" THEN "revoke" ELSE "mark", RefundedOrder(d), 1,
             jobs[d].result, jobs[d].changed)

Revokes(d) ==
  /\ jobs[d].step = "revoke" /\ RevokeAccess(jobs[d].line)
  /\ UNCHANGED <<webhooks, flows, lock, order, checkout, faults>>
  /\ \/ jobs[d].line = LineCount /\ Goes(d, "mark")
     \/ /\ jobs[d].line # LineCount
        /\ Becomes(d, "revoke", jobs[d].order, jobs[d].line + 1, jobs[d].result, jobs[d].changed)

Effect(d) ==
  \/ Waits(d) \/ Takes(d) \/ Frees(d) \/ Drops(d) \/ Leases(d) \/ EndsLease(d)
  \/ Finds(d) \/ Persists(d) \/ Completes(d) \/ Fulfils(d) \/ Grants(d) \/ Records(d)
  \/ Closes(d) \/ Saves(d) \/ Settles(d) \/ FindsReversal(d) \/ Reverses(d) \/ Revokes(d)

\* The names of the steps, for the rows that are written.
LEMMA StepNames ==
  {"idle", "store", "lock", "mark_failed", "release", "progress", "fail_flow", "lease", "find",
   "find_reversal", "reject", "persist", "persist_again", "mark", "complete_checkout", "fulfil",
   "grant", "record", "close", "complete", "reverse", "revoke"} \subseteq Steps
BY DEF Steps, WorkflowSteps

\* The steps outside the lock.
LEMMA WaitEffects ==
  ASSUME TypeOK, Control, NEW d \in Deliveries,
         Store(d) \/ MarkFailed(d) \/ AcquireLock(d) \/ ReleaseLock(d)
  PROVE  Effect(d)
<1>1. CASE Store(d)
  <2>1. CASE webhooks[jobs[d].event] = "absent"
    <3>1. PICK received \in Statuses : received = "received"
      BY DEF Statuses
    <3>2. PICK row : row = [jobs[d] EXCEPT !.step = "lock", !.copy = received, !.result = received]
      OBVIOUS
    <3>3. jobs[d] \in JobType /\ "lock" \in Steps
      BY RowTyped, StepNames
    <3>4. /\ row \in JobType /\ row.step = "lock" /\ row.order = jobs[d].order
          /\ row.copy = "received" /\ row.result = "received"
      BY <3>1, <3>2, <3>3 DEF JobType
    <3>5. jobs' = [jobs EXCEPT ![d] = row]
      BY <1>1, <2>1, <3>1, <3>2 DEF Store, Event, TypeOK
    <3>6. Only(d) /\ jobs'[d] = row
      BY <3>4, <3>5, Writes
    <3>7. Waits(d)
      BY <1>1, <3>4, <3>6 DEF Store, At, Waits
    <3> QED
      BY <3>7 DEF Effect
  <2>2. CASE webhooks[jobs[d].event] # "absent"
    <3>1. Ends(d)
      BY <1>1, <2>2, AnswerEnds DEF Store, Event
    <3>2. Waits(d)
      BY <1>1, <3>1 DEF Store, At, Waits, Ends, Idle
    <3> QED
      BY <3>2 DEF Effect
  <2> QED
    BY <2>1, <2>2
<1>2. CASE MarkFailed(d)
  <2>1. Ends(d)
    BY <1>2, AnswerEnds DEF MarkFailed, Answer
  <2>2. Waits(d)
    BY <1>2, <2>1 DEF MarkFailed, At, Waits, Ends, Idle
  <2> QED
    BY <2>2 DEF Effect
<1>3. CASE AcquireLock(d) /\ LockFree(d)
  <2>1. Goes(d, IF jobs[d].event \in Paid THEN "lease" ELSE "find_reversal")
    BY <1>3, GoBecomes, StepNames DEF AcquireLock, Event
  <2>2. Takes(d)
    BY <1>3, <2>1 DEF AcquireLock, Takes, At
  <2> QED
    BY <2>2 DEF Effect
<1>4. CASE AcquireLock(d) /\ ~LockFree(d)
  <2>1. Ends(d)
    BY <1>4, AnswerEnds DEF AcquireLock, Answer
  <2>2. Waits(d)
    BY <1>4, <2>1 DEF AcquireLock, At, Waits, Ends, Idle
  <2> QED
    BY <2>2 DEF Effect
<1>5. CASE ReleaseLock(d)
  <2>1. Ends(d) \/ Goes(d, "mark_failed")
    BY <1>5, AnswerEnds, GoBecomes, StepNames DEF ReleaseLock, Answer
  <2>2. Frees(d)
    BY <1>5, <2>1 DEF ReleaseLock, Frees, At
  <2> QED
    BY <2>2 DEF Effect
<1> QED
  BY <1>1, <1>2, <1>3, <1>4, <1>5

\* The steps that take, end or lose the lease of the workflow.
LEMMA FlowEffects ==
  ASSUME TypeOK, Control, NEW d \in Deliveries,
         LeaseWorkflow(d) \/ LeaseEnds(d) \/ CompleteWorkflow(d) \/ FailWorkflow(d)
  PROVE  Effect(d)
<1>1. jobs[d].step # "idle"
  BY DEF LeaseWorkflow, LeaseEnds, CompleteWorkflow, FailWorkflow, At, WorkflowSteps
<1>2. jobs[d].event \in Paid
  BY <1>1, AtBusy DEF LeaseWorkflow, LeaseEnds, CompleteWorkflow, FailWorkflow, At, PaidSteps, Event
<1>3. jobs[d].copy \in Statuses \cup {"error"} /\ flows[jobs[d].event].ends \in Nat /\ jobs[d].at \in Nat
  BY <1>2, RowTyped, Constants DEF TypeOK
<1>4. CASE LeaseWorkflow(d)
  <2>1. CASE flows[jobs[d].event].status = "completed" \/ flows[jobs[d].event].ends > jobs[d].at
    <3>1. Goes(d, "release") /\ UNCHANGED <<webhooks, flows, lock, order, access, checkout, faults>>
      BY <1>4, <2>1, GoBecomes, StepNames DEF LeaseWorkflow, Event
    <3>2. Drops(d)
      BY <1>4, <3>1 DEF Drops, Goes, LeaseWorkflow, At, Locked, LockedSteps, PaidSteps
    <3> QED
      BY <3>2 DEF Effect
  <2>2. CASE ~(flows[jobs[d].event].status = "completed" \/ flows[jobs[d].event].ends > jobs[d].at)
    <3>1. Goes(d, "find")
      BY <1>4, <2>2, GoBecomes, StepNames DEF LeaseWorkflow, Event
    <3>2. /\ flows' = [flows EXCEPT ![jobs[d].event] = [status |-> "running", lease |-> jobs[d].stamp,
                                                        ends |-> jobs[d].at + LeaseTime]]
          /\ jobs[d].step = "lease" /\ UNCHANGED <<webhooks, lock, order, access, checkout, faults>>
      BY <1>4, <2>2 DEF LeaseWorkflow, Event, At
    <3>3. Leases(d)
      BY <1>3, <2>2, <3>1, <3>2 DEF Leases
    <3> QED
      BY <3>3 DEF Effect
  <2> QED
    BY <2>1, <2>2
<1>5. CASE LeaseEnds(d)
  <2>1. Becomes(d, "release", jobs[d].order, jobs[d].line, jobs[d].copy, jobs[d].changed)
    BY <1>3, <1>5, ReturnsBecomes, StepNames DEF LeaseEnds, LoseLease
  <2>2. Drops(d)
    BY <1>2, <1>5, <2>1 DEF Drops, LeaseEnds, Locked, LockedSteps, PaidSteps, WorkflowSteps, stores
  <2> QED
    BY <2>2 DEF Effect
<1>6. CASE CompleteWorkflow(d) \/ FailWorkflow(d)
  <2>1. CASE workflowHasActiveLease(d)
    <3>1. Goes(d, "release")
      BY <1>6, <2>1, GoBecomes, StepNames DEF CompleteWorkflow, FailWorkflow
    <3>2. EndsLease(d)
      BY <1>6, <2>1, <3>1 DEF CompleteWorkflow, FailWorkflow, Event, At, EndsLease
    <3> QED
      BY <3>2 DEF Effect
  <2>2. CASE ~workflowHasActiveLease(d)
    <3>1. Becomes(d, "release", jobs[d].order, jobs[d].line, jobs[d].copy, jobs[d].changed)
      BY <1>3, <1>6, <2>2, ReturnsBecomes, StepNames DEF CompleteWorkflow, FailWorkflow, LoseLease
    <3>2. Drops(d)
      BY <1>2, <1>6, <2>2, <3>1
      DEF Drops, CompleteWorkflow, FailWorkflow, At, Locked, LockedSteps, PaidSteps
    <3> QED
      BY <3>2 DEF Effect
  <2> QED
    BY <2>1, <2>2
<1> QED
  BY <1>4, <1>5, <1>6

\* The steps that find, put and close the order of a paid event.
LEMMA OrderEffects ==
  ASSUME TypeOK, Control, NEW d \in Deliveries,
         FindOrder(d) \/ PersistOrder(d) \/ CompleteCheckout(d) \/ CloseOrder(d)
  PROVE  Effect(d)
<1>1. jobs[d].event \in Paid
  <2>1. jobs[d].step \in PaidSteps /\ jobs[d].step # "idle"
    BY DEF FindOrder, PersistOrder, CompleteCheckout, CloseOrder, At, PaidSteps
  <2> QED
    BY <2>1, AtBusy
<1>2. jobs[d].order \in OrderType /\ order \in OrderType
  BY RowTyped DEF TypeOK
<1>3. CASE FindOrder(d)
  <2>1. Enters(d, IF order = NoOrder /\ checkout = "absent" THEN "reject" ELSE "persist", order)
    BY <1>1, <1>2, <1>3, EnterWithBecomes, StepNames DEF FindOrder, Enters
  <2>2. Finds(d)
    BY <1>3, <2>1 DEF FindOrder, At, Finds, stores, kept
  <2> QED
    BY <2>2 DEF Effect
<1>4. CASE PersistOrder(d)
  <2>1. PICK updated \in OrderType : updated = PaidOrder(jobs[d].order)
    BY <1>2, EmptyRows, Orders DEF PaidOrder
  <2>2. jobs[d].step \in {"persist", "persist_again"} /\ UNCHANGED <<kept, webhooks>>
    BY <1>4 DEF PersistOrder, kept
  <2>3. CASE jobs[d].order = NoOrder /\ order # NoOrder
    <3>1. UNCHANGED order /\ Becomes(d, "persist_again", order, 1, jobs[d].result, jobs[d].changed)
      BY <1>2, <1>4, <2>3, GoWithBecomes, StepNames DEF PersistOrder
    <3>2. Persists(d)
      BY <2>2, <2>3, <3>1 DEF Persists
    <3> QED
      BY <3>2 DEF Effect
  <2>4. CASE ~(jobs[d].order = NoOrder /\ order # NoOrder)
    <3>1. /\ order' = updated
          /\ EnterWith(d, IF orderBlocksFulfillment(updated) THEN "mark" ELSE "complete_checkout", updated)
      BY <1>4, <2>1, <2>4 DEF PersistOrder, PaidOrder
    <3>2. Enters(d, IF orderBlocksFulfillment(updated) THEN "mark" ELSE "complete_checkout", updated)
      BY <1>1, <2>1, <3>1, EnterWithBecomes, StepNames DEF Enters
    <3>3. Persists(d)
      BY <2>1, <2>2, <2>4, <3>1, <3>2 DEF Persists
    <3> QED
      BY <3>3 DEF Effect
  <2> QED
    BY <2>3, <2>4
<1>5. CASE CompleteCheckout(d)
  <2>1. Enters(d, "fulfil", jobs[d].order)
    BY <1>1, <1>2, <1>5, EnterWithBecomes, StepNames DEF CompleteCheckout, Enter, Enters
  <2>2. Completes(d)
    BY <1>5, <2>1 DEF CompleteCheckout, At, Completes
  <2> QED
    BY <2>2 DEF Effect
<1>6. CASE CloseOrder(d)
  <2>1. Enters(d, "mark", jobs[d].order)
    BY <1>1, <1>2, <1>6, EnterWithBecomes, StepNames DEF CloseOrder, Enter, Enters
  <2>2. Closes(d)
    BY <1>6, <2>1 DEF CloseOrder, At, Closes, kept
  <2> QED
    BY <2>2 DEF Effect
<1> QED
  BY <1>3, <1>4, <1>5, <1>6

\* The steps that fulfil a line.
LEMMA LineEffects ==
  ASSUME TypeOK, Control, NEW d \in Deliveries, FulfilLine(d) \/ GrantLine(d) \/ RecordLine(d)
  PROVE  Effect(d)
<1>1. jobs[d].line \in Lines
  <2>1. jobs[d].step \in {"fulfil", "grant", "record"}
    BY DEF FulfilLine, GrantLine, RecordLine, At
  <2> QED
    BY <2>1, AtBusy
<1>2. LineDone(d) => LineGoes(d)
  BY <1>1, LineDoneBecomes DEF LineGoes
<1>3. CASE FulfilLine(d)
  <2>1. ASSUME jobs' = [jobs EXCEPT ![d].step = "grant"]
        PROVE  Goes(d, "grant")
    BY <2>1, GoBecomes, StepNames DEF Go
  <2>2. Fulfils(d)
    BY <1>2, <1>3, <2>1 DEF FulfilLine, Fulfils, At, stores, kept
  <2> QED
    BY <2>2 DEF Effect
<1>4. CASE GrantLine(d)
  <2>1. Grants(d)
    BY <1>2, <1>4 DEF GrantLine, Grants, At
  <2> QED
    BY <2>1 DEF Effect
<1>5. CASE RecordLine(d)
  <2>1. PICK row : row = [jobs[d] EXCEPT !.step = NextOf(jobs[d].line), !.line = jobs[d].line + 1]
    OBVIOUS
  <2>2. jobs[d] \in JobType /\ jobs[d].line + 1 \in 0..(LineCount + 1) /\ NextOf(jobs[d].line) \in Steps
    BY <1>1, RowTyped, Constants, StepNames DEF Lines, NextOf
  <2>3. row \in JobType
    BY <2>1, <2>2 DEF JobType
  <2>4. jobs' = [jobs EXCEPT ![d] = row]
    BY <1>5, <2>1 DEF RecordLine, NextOf, TypeOK
  <2>5. Only(d) /\ jobs'[d] = row
    BY <2>3, <2>4, Writes
  <2>6. Becomes(d, NextOf(jobs[d].line), jobs[d].order, jobs[d].line + 1, jobs[d].result, jobs[d].changed)
    BY <2>1, <2>2, <2>5 DEF Becomes, JobType
  <2>7. Records(d)
    BY <1>5, <2>6 DEF RecordLine, Records, At, kept
  <2> QED
    BY <2>7 DEF Effect
<1> QED
  BY <1>3, <1>4, <1>5

\* The steps that save what was fulfilled and settle the event.
LEMMA EndEffects ==
  ASSUME TypeOK, Control, NEW d \in Deliveries, PersistProgress(d) \/ MarkProcessed(d) \/ Reject(d)
  PROVE  Effect(d)
<1>1. jobs[d].event \in Webhooks /\ (jobs[d].event \notin Paid <=> jobs[d].event \in Refunds)
  <2>1. jobs[d].step # "idle"
    BY DEF PersistProgress, MarkProcessed, Reject, At
  <2> QED
    BY <2>1, AtBusy, Constants DEF Webhooks
<1>2. CASE PersistProgress(d)
  <2>1. Goes(d, "fail_flow")
    BY <1>2, GoBecomes, StepNames DEF PersistProgress
  <2>2. Saves(d)
    BY <1>2, <2>1 DEF PersistProgress, At, Saves, kept
  <2> QED
    BY <2>2 DEF Effect
<1>3. ASSUME NEW status \in {"processed", "failed"}, NEW step \in {"release", "complete", "fail_flow"},
             Returns(d, step, status)
      PROVE  Becomes(d, step, jobs[d].order, jobs[d].line, status, jobs[d].changed)
  <2>1. status \in Statuses \cup {"error"} /\ step \in Steps
    BY StepNames DEF Statuses
  <2> QED
    BY <1>3, <2>1, ReturnsBecomes
<1>4. CASE MarkProcessed(d)
  <2>1. Becomes(d, IF jobs[d].event \notin Paid THEN "release" ELSE "complete", jobs[d].order, jobs[d].line,
                "processed", jobs[d].changed)
    BY <1>1, <1>3, <1>4 DEF MarkProcessed, Event
  <2>2. Settles(d)
    BY <1>4, <2>1 DEF MarkProcessed, At, Event, Settles, kept
  <2> QED
    BY <2>2 DEF Effect
<1>5. CASE Reject(d)
  <2>1. Becomes(d, IF jobs[d].event \notin Paid THEN "release" ELSE "fail_flow", jobs[d].order, jobs[d].line,
                "failed", jobs[d].changed)
    BY <1>1, <1>3, <1>5 DEF Reject, Event
  <2>2. Settles(d)
    BY <1>5, <2>1 DEF Reject, At, Event, Settles, kept
  <2> QED
    BY <2>2 DEF Effect
<1> QED
  BY <1>2, <1>4, <1>5

\* The steps of a refund.
LEMMA ReversalEffects ==
  ASSUME TypeOK, Control, NEW d \in Deliveries, FindReversal(d) \/ ReverseOrder(d) \/ RevokeLine(d)
  PROVE  Effect(d)
<1>1. jobs[d].event \in Refunds
  <2>1. jobs[d].step \in RefundSteps /\ jobs[d].step # "idle"
    BY DEF FindReversal, ReverseOrder, RevokeLine, At, RefundSteps
  <2> QED
    BY <2>1, AtBusy
<1>2. jobs[d].order \in OrderType /\ order \in OrderType
  BY RowTyped DEF TypeOK
<1>3. CASE FindReversal(d)
  <2>1. PICK step \in {"reject", "revoke", "reverse"} :
          /\ GoWith(d, step, order)
          /\ step = "reject" <=> order = NoOrder
          /\ step = "revoke" <=> order # NoOrder /\ order.payment = "refunded"
    BY <1>3 DEF FindReversal, NoOrder
  <2>2. Becomes(d, step, order, 1, jobs[d].result, jobs[d].changed)
    BY <1>2, <2>1, GoWithBecomes, StepNames
  <2>3. FindsReversal(d)
    BY <1>3, <2>1, <2>2 DEF FindReversal, At, FindsReversal, stores, kept
  <2> QED
    BY <2>3 DEF Effect
<1>4. CASE ReverseOrder(d)
  <2>1. PICK updated \in OrderType : updated = RefundedOrder(d)
    BY <1>1, <1>2, Amounts, RefundsCount DEF RefundedOrder
  <2>2. PICK step \in {"revoke", "mark"} :
          /\ order' = updated /\ GoWith(d, step, updated)
          /\ step = IF updated.status = "refunded" THEN "revoke" ELSE "mark"
    BY <1>4, <2>1 DEF ReverseOrder, RefundedOrder, Event
  <2>3. Becomes(d, step, updated, 1, jobs[d].result, jobs[d].changed)
    BY <2>2, GoWithBecomes, StepNames
  <2>4. Reverses(d)
    BY <1>4, <2>1, <2>2, <2>3 DEF ReverseOrder, At, Reverses, kept
  <2> QED
    BY <2>4 DEF Effect
<1>5. CASE RevokeLine(d)
  <2>1. jobs[d].step = "revoke" /\ jobs[d].line \in Lines
    BY <1>5, AtBusy DEF RevokeLine, At
  <2>2. /\ RevokeAccess(jobs[d].line)
        /\ UNCHANGED <<webhooks, flows, lock, order, checkout, faults>>
    BY <1>5 DEF RevokeLine
  <2>3. CASE jobs[d].line = LineCount
    <3>1. Goes(d, "mark")
      BY <1>5, <2>3, GoBecomes, StepNames DEF RevokeLine
    <3>2. Revokes(d)
      BY <2>1, <2>2, <2>3, <3>1 DEF Revokes
    <3> QED
      BY <3>2 DEF Effect
  <2>4. CASE jobs[d].line # LineCount
    <3>1. PICK line \in Lines : line = jobs[d].line + 1
      BY <2>1, <2>4, Constants DEF Lines
    <3>2. PICK row : row = [jobs[d] EXCEPT !.line = line]
      OBVIOUS
    <3>3. jobs[d] \in JobType /\ line \in 0..(LineCount + 1)
      BY RowTyped, Constants DEF Lines
    <3>4. row \in JobType
      BY <3>2, <3>3 DEF JobType
    <3>5. jobs' = [jobs EXCEPT ![d] = row]
      BY <1>5, <2>4, <3>1, <3>2 DEF RevokeLine, TypeOK
    <3>6. Only(d) /\ jobs'[d] = row
      BY <3>4, <3>5, Writes
    <3>7. Becomes(d, "revoke", jobs[d].order, jobs[d].line + 1, jobs[d].result, jobs[d].changed)
      BY <2>1, <3>1, <3>2, <3>3, <3>6 DEF Becomes, JobType
    <3>8. Revokes(d)
      BY <2>1, <2>2, <2>4, <3>7 DEF Revokes
    <3> QED
      BY <3>8 DEF Effect
  <2> QED
    BY <2>3, <2>4
<1> QED
  BY <1>3, <1>4, <1>5

\* A fault is a wait that ends, or a delivery that gives up.
LEMMA FaultEffects ==
  ASSUME TypeOK, Control, NEW d \in Deliveries, Fault(d)
  PROVE  Effect(d)
<1>1. jobs[d].step # "idle" /\ jobs[d].step \in Steps
  BY RowTyped DEF Fault, Throw, ReleaseThrows, Crash, At, Control, ControlOf
<1>2. Locked(d) \/ jobs[d].step \in {"store", "lock", "mark_failed"}
  BY <1>1 DEF Steps, WorkflowSteps, Locked, LockedSteps, PaidSteps, RefundSteps
<1>3. UNCHANGED <<webhooks, flows, lock, order, access, checkout>> /\ faults' = faults + 1
  BY DEF Fault, Throw, ReleaseThrows, Crash, stores
<1>4. CASE Throw(d)
  <2>1. PICK step \in {"mark_failed", "release", "progress", "fail_flow"} :
          /\ step = AfterThrow(d)
          /\ step = "progress" => jobs[d].changed /\ jobs[d].step \in {"fulfil", "grant", "record"}
          /\ jobs[d].step = "lock" => step = "mark_failed"
    BY DEF AfterThrow, At
  <2>2. Becomes(d, step, jobs[d].order, jobs[d].line, "error", jobs[d].changed)
    BY <1>4, <2>1, ReturnsBecomes, StepNames DEF Throw
  <2>3. CASE jobs[d].step = "lock"
    <3>1. Waits(d)
      BY <1>3, <2>1, <2>2, <2>3 DEF Becomes, Waits
    <3> QED
      BY <3>1 DEF Effect
  <2>4. CASE jobs[d].step # "lock"
    <3>1. Locked(d)
      BY <1>2, <1>4, <2>4 DEF Throw
    <3>2. Drops(d)
      BY <1>3, <2>1, <2>2, <3>1 DEF Drops
    <3> QED
      BY <3>2 DEF Effect
  <2> QED
    BY <2>3, <2>4
<1>5. CASE ReleaseThrows(d)
  <2>1. Ends(d) \/ Goes(d, "mark_failed")
    BY <1>5, AnswerEnds, GoBecomes, StepNames DEF ReleaseThrows, Answer
  <2>2. Locked(d)
    BY <1>2, <1>5 DEF ReleaseThrows, At
  <2>3. Drops(d)
    BY <1>3, <2>1, <2>2 DEF Drops, Goes
  <2> QED
    BY <2>3 DEF Effect
<1>6. CASE Crash(d)
  <2>1. Ends(d)
    BY <1>6, AnswerEnds DEF Crash
  <2>2. CASE Locked(d)
    <3>1. Drops(d)
      BY <1>3, <2>1, <2>2 DEF Drops
    <3> QED
      BY <3>1 DEF Effect
  <2>3. CASE jobs[d].step \in {"store", "lock", "mark_failed"}
    <3>1. Waits(d)
      BY <1>3, <2>1, <2>3 DEF Waits, Ends, Idle
    <3> QED
      BY <3>1 DEF Effect
  <2> QED
    BY <1>2, <2>2, <2>3
<1> QED
  BY <1>4, <1>5, <1>6 DEF Fault

\* Each step of a delivery does one of the eighteen things.
LEMMA Effects ==
  ASSUME TypeOK, Control, NEW d \in Deliveries, Step(d) \/ Fault(d)
  PROVE  Effect(d) /\ Stays(d) /\ UNCHANGED <<admins, now>>
<1>1. Stays(d) /\ UNCHANGED <<admins, now>>
  BY DeliveryFits DEF Fits
<1>2. Effect(d)
  BY WaitEffects, FlowEffects, OrderEffects, LineEffects, EndEffects, ReversalEffects, FaultEffects DEF Step
<1> QED
  BY <1>1, <1>2

----------------------------------------------------------------------------
(* The lock excludes *)

\* Two deliveries do not both have the lock.
LEMMA Alone ==
  ASSUME TypeOK, Control, Exclusion, NEW d \in Deliveries, NEW e \in Deliveries, Locked(d), Locked(e)
  PROVE  d = e
<1>1. Owner(d) = Owner(e)
  BY DEF Exclusion, Holding
<1>2. jobs[d].stamp = jobs[e].stamp
  BY <1>1 DEF Owner
<1>3. jobs[d] # Idle
  BY DEF Locked, LockedSteps, PaidSteps, RefundSteps, Idle
<1> QED
  BY <1>2, <1>3 DEF Exclusion, Apart

\* Nobody takes the lock from a delivery that has it.
LEMMA TakenFree ==
  ASSUME TypeOK, Control, Exclusion, NEW d \in Deliveries, Takes(d), NEW e \in Deliveries, Locked(e)
  PROVE  FALSE
<1>1. jobs[d].step = "lock" /\ jobs[d] # Idle /\ jobs[d].at <= now /\ jobs[d].at \in Nat
  BY RowTyped, Constants DEF Takes, Idle, Control
<1>2. lock.owner = Owner(e) /\ lock.ends = jobs[e].at + LeaseTime
  BY DEF Exclusion, Holding
<1>3. jobs[e].step # "idle" /\ jobs[e] # Idle
  BY DEF Locked, LockedSteps, PaidSteps, RefundSteps, Idle
<1>4. now < lock.ends /\ lock.ends \in Nat /\ now \in Nat
  BY <1>2, <1>3, RowTyped, Constants DEF Exclusion, Timely, TypeOK
<1>5. ~(lock.ends <= jobs[d].at)
  BY <1>1, <1>4
<1>6. lock.owner # Free.owner
  <2>1. jobs[e].event \in Webhooks
    BY <1>3, AtBusy
  <2> QED
    BY <1>2, <2>1, Constants DEF Owner, Event, Free
<1>7. lock.owner # Owner(d)
  <2>1. ASSUME lock.owner = Owner(d)
        PROVE  FALSE
    <3>1. jobs[d].stamp = jobs[e].stamp
      BY <1>2, <2>1 DEF Owner
    <3>2. d = e
      BY <1>1, <3>1 DEF Exclusion, Apart
    <3> QED
      BY <1>1, <3>2 DEF Locked, LockedSteps, PaidSteps, RefundSteps
  <2> QED
    BY <2>1
<1> QED
  BY <1>5, <1>6, <1>7 DEF Takes, LockFree

\* Who steps without touching the lock does not come to have it.
LEMMA LockedBefore ==
  ASSUME TypeOK, Control, NEW d \in Deliveries, Effect(d), ~Takes(d), Locked(d)'
  PROVE  UNCHANGED lock /\ Locked(d)
<1>1. ASSUME Waits(d) \/ Frees(d)
      PROVE  FALSE
  BY <1>1 DEF Waits, Frees, Ends, Goes, Becomes, Idle, Locked, LockedSteps, PaidSteps, RefundSteps
<1>2. CASE Drops(d)
  BY <1>2 DEF Drops
<1>3. CASE Leases(d) \/ EndsLease(d)
  BY <1>3 DEF Leases, EndsLease, Locked, LockedSteps, PaidSteps
<1>4. CASE Finds(d) \/ Persists(d) \/ Completes(d) \/ Closes(d) \/ Saves(d) \/ Settles(d)
  BY <1>4 DEF Finds, Persists, Completes, Closes, Saves, Settles, kept, Locked, LockedSteps, PaidSteps
<1>5. CASE Fulfils(d) \/ Grants(d) \/ Records(d)
  BY <1>5 DEF Fulfils, Grants, Records, kept, Locked, LockedSteps, PaidSteps
<1>6. CASE FindsReversal(d) \/ Reverses(d) \/ Revokes(d)
  BY <1>6 DEF FindsReversal, Reverses, Revokes, kept, Locked, LockedSteps, RefundSteps
<1> QED
  BY <1>1, <1>2, <1>3, <1>4, <1>5, <1>6 DEF Effect

\* A delivery keeps its lock until it frees it.
LEMMA DeliveryExcludes ==
  ASSUME TypeOK, Control, Exclusion, NEW d \in Deliveries, Step(d) \/ Fault(d)
  PROVE  Exclusion'
<1>1. Effect(d) /\ Stays(d) /\ UNCHANGED <<admins, now>> /\ Only(d) /\ jobs[d] # Idle
  BY Effects, DeliveryFits DEF Fits
<1>2. \A e \in Deliveries : jobs'[e] # Idle =>
        /\ jobs'[e].stamp = jobs[e].stamp /\ jobs'[e].at = jobs[e].at /\ jobs'[e].event = jobs[e].event
        /\ jobs[e] # Idle
  BY <1>1 DEF Stays, Only
<1>3. \A e \in Deliveries : jobs[e] # Idle => jobs[e].stamp # Nobody
  BY Constants DEF Control, ControlOf
<1>4. Apart'
  <2> SUFFICES ASSUME NEW e \in Deliveries, NEW f \in Deliveries, jobs'[e].stamp = jobs'[f].stamp,
                      jobs'[e] # Idle
               PROVE  e = f
    BY DEF Apart
  <2>1. jobs'[f] # Idle
    <3>1. Idle.stamp = Nobody
      BY DEF Idle
    <3> QED
      BY <1>2, <1>3, <3>1
  <2> QED
    BY <1>2, <2>1 DEF Exclusion, Apart
<1>5. Timely'
  BY <1>1, <1>2 DEF Exclusion, Timely
<1>6. Holding'
  <2> SUFFICES ASSUME NEW e \in Deliveries, Locked(e)'
               PROVE  lock' = [owner |-> Owner(e)', ends |-> jobs'[e].at + LeaseTime]
    BY DEF Holding
  <2>1. jobs'[e] # Idle
    BY DEF Locked, LockedSteps, PaidSteps, RefundSteps, Idle
  <2>2. Owner(e)' = Owner(e) /\ jobs'[e].at = jobs[e].at
    BY <1>2, <2>1 DEF Owner, Event
  <2>3. CASE e = d /\ Takes(d)
    BY <2>2, <2>3 DEF Takes
  <2>4. CASE e = d /\ ~Takes(d)
    <3>1. UNCHANGED lock /\ Locked(d)
      BY <1>1, <2>4, LockedBefore
    <3> QED
      BY <2>2, <2>4, <3>1 DEF Exclusion, Holding
  <2>5. CASE e # d
    <3>1. Locked(e)
      BY <1>1, <2>5 DEF Only, Locked
    <3>2. ~Takes(d)
      BY <3>1, TakenFree
    <3>3. ~Frees(d)
      BY <2>5, <3>1, Alone DEF Frees, Locked, LockedSteps
    <3>4. UNCHANGED lock
      BY <1>1, <3>2, <3>3 DEF Effect, Waits, Drops, Leases, EndsLease, Finds, Persists, Completes, Fulfils,
         Grants, Records, Closes, Saves, Settles, FindsReversal, Reverses, Revokes, kept
    <3> QED
      BY <2>2, <3>1, <3>4 DEF Exclusion, Holding
  <2> QED
    BY <2>3, <2>4, <2>5
<1> QED
  BY <1>4, <1>5, <1>6 DEF Exclusion

\* A request that arrives has a ctx.now that nobody has.
LEMMA ArrivalExcludes ==
  ASSUME Orderly, TypeOK, Control, Exclusion, NEW d \in Deliveries, NEW w \in Webhooks, NEW s \in AllStamps,
         s \in Stamps(d),
         \/ Deliver(d, w, s)
         \/ Replay(d, w) /\ s = NewStamp(d)
  PROVE  Exclusion'
<1>1. /\ jobs[d] = Idle /\ UNCHANGED <<stores, admins, now, faults>>
      /\ UNCHANGED jobs \/ Arrives(d, w, s)
  BY ArrivalFits
<1>2. s = NewStamp(d)
  BY DEF Stamps, Orderly
<1>3. \A e \in Deliveries : jobs[e].stamp # s
  BY <1>1, <1>2, NewStampIsNew DEF Used
<1>4. CASE UNCHANGED jobs
  BY <1>1, <1>4 DEF Exclusion, Apart, Timely, Holding, Locked, Owner, Event, stores
<1>5. CASE Arrives(d, w, s)
  <2>1. jobs'[d].stamp = s /\ jobs'[d].at = now /\ ~Locked(d)'
    BY <1>5 DEF Arrives, Locked, LockedSteps, PaidSteps, RefundSteps
  <2>2. \A e \in Deliveries \ {d} : jobs'[e] = jobs[e]
    BY <1>5 DEF Arrives, Only
  <2>3. Apart'
    BY <1>3, <2>1, <2>2 DEF Exclusion, Apart
  <2>4. Timely'
    <3>1. now < now + LeaseTime
      BY Constants DEF TypeOK
    <3> QED
      BY <1>1, <2>1, <2>2, <3>1 DEF Exclusion, Timely
  <2>5. Holding'
    BY <1>1, <2>1, <2>2 DEF Exclusion, Holding, Locked, Owner, Event, stores
  <2> QED
    BY <2>3, <2>4, <2>5 DEF Exclusion
<1> QED
  BY <1>1, <1>4, <1>5

\* The clock does not pass the end of a lock in use.
LEMMA WorldExcludes ==
  ASSUME Orderly, TypeOK, Control, Exclusion,
         (\E a \in Admins : Admin(a)) \/ PersistCheckout \/ Tick \/ UNCHANGED vars
  PROVE  Exclusion'
<1>1. CASE UNCHANGED <<jobs, lock, now>>
  BY <1>1 DEF Exclusion, Apart, Timely, Holding, Locked, Owner, Event
<1>2. CASE \E a \in Admins : Admin(a)
  BY <1>1, <1>2, AdminStepFits DEF AdminFits
<1>3. CASE PersistCheckout \/ UNCHANGED vars
  BY <1>1, <1>3 DEF PersistCheckout, vars, stores
<1>4. CASE Tick
  <2>1. UNCHANGED <<jobs, lock>> /\ now' = now + 1
    BY <1>4 DEF Tick, stores
  <2>2. \A d \in Deliveries : jobs[d] = Idle \/ now + 1 < jobs[d].at + LeaseTime
    BY <1>4 DEF Tick, Orderly
  <2> QED
    BY <2>1, <2>2 DEF Exclusion, Apart, Timely, Holding, Locked, Owner, Event
<1> QED
  BY <1>2, <1>3, <1>4

\* Nobody has the lock at the start.
LEMMA StartExcludes ==
  ASSUME Init
  PROVE  Exclusion
BY DEF Init, Exclusion, Apart, Timely, Holding, Locked, LockedSteps, PaidSteps, RefundSteps, Idle

\* Every step keeps the exclusion.
LEMMA NextExcludes ==
  ASSUME Orderly, TypeOK, Control, Exclusion, [Next]_vars
  PROVE  Exclusion'
BY Moves, DeliveryExcludes, ArrivalExcludes, WorldExcludes

\* A delivery that is past the lock holds it and is the only one, as long as no request
\* outlives its lock and no two have the same ctx.now.
THEOREM LockExcludes ==
  ASSUME Orderly
  PROVE  Spec => [](\A d, e \in Deliveries : Locked(d) /\ Locked(e) => d = e)
<1>1. Init => TypeOK /\ Control /\ Exclusion
  BY StartShaped, StartExcludes
<1>2. TypeOK /\ Control /\ Exclusion /\ [Next]_vars => (TypeOK /\ Control /\ Exclusion)'
  BY NextShaped, NextExcludes
<1>3. TypeOK /\ Control /\ Exclusion => \A d, e \in Deliveries : Locked(d) /\ Locked(e) => d = e
  BY Alone
<1> QED
  BY <1>1, <1>2, <1>3, PTL DEF Spec

----------------------------------------------------------------------------
(* Only a workflow whose goods were granted is completed *)

\* A paid event changes the status alone, and never a terminal one.
LEMMA PaidOrders ==
  ASSUME NEW o \in OrderType
  PROVE  /\ PaidOrder(o) \in OrderType
         /\ PaidOrder(o).filled = o.filled /\ PaidOrder(o).reversed = o.reversed
         /\ o.status \in Terminal => PaidOrder(o).status = o.status /\ PaidOrder(o).payment = o.payment
         /\ o.status \notin Terminal => PaidOrder(o).status = "paid" /\ PaidOrder(o).payment = "paid"
<1>1. CASE o = NoOrder
  <2>1. PaidOrder(o) = NewOrder
    BY <1>1 DEF PaidOrder
  <2>2. o.status = "none" /\ o.filled = {} /\ o.reversed = 0
    BY <1>1 DEF NoOrder
  <2> QED
    BY <2>1, <2>2, EmptyRows DEF NewOrder, NoOrder, Terminal
<1>2. CASE o # NoOrder
  <2>1. PaidOrder(o) = applyPaymentEventToOrder(o)
    BY <1>2 DEF PaidOrder
  <2>2. CASE o.status \in Terminal
    <3>1. PaidOrder(o) = [o EXCEPT !.status = o.status, !.payment = o.payment]
      BY <2>1, <2>2 DEF applyPaymentEventToOrder, orderPaymentStatusAfterPaymentEvent
    <3> QED
      BY <2>2, <3>1 DEF OrderType
  <2>3. CASE o.status \notin Terminal
    <3>1. PaidOrder(o) = [o EXCEPT !.status = "paid", !.payment = "paid"]
      BY <2>1, <2>3 DEF applyPaymentEventToOrder, orderPaymentStatusAfterPaymentEvent
    <3> QED
      BY <2>3, <3>1 DEF OrderType
  <2> QED
    BY <2>2, <2>3
<1> QED
  BY <1>1, <1>2

\* The next line, or none, comes after a line that is granted.
LEMMA NextLine ==
  ASSUME NEW line \in Lines, \A l \in 1..(line - 1) : access'[l] # "none", access'[line] # "none"
  PROVE  /\ \A l \in 1..((line + 1) - 1) : access'[l] # "none"
         /\ NextOf(line) = "close" => \A l \in Lines : access'[l] # "none"
         /\ NextOf(line) \in {"close", "fulfil"}
<1>1. line \in Nat /\ line >= 1
  BY Constants DEF Lines
<1>2. \A l \in 1..((line + 1) - 1) : l \in 1..(line - 1) \/ l = line
  BY <1>1
<1>3. NextOf(line) = "close" => line = LineCount
  BY DEF NextOf
<1>4. (line + 1) - 1 = line
  BY <1>1
<1> QED
  BY <1>2, <1>3, <1>4 DEF NextOf, Lines

\* A delivery whose line is granted goes on as it may.
LEMMA LineGranted ==
  ASSUME TypeOK, NEW d \in Deliveries, jobs[d].line \in Lines, Plain(jobs[d].order),
         \A l \in 1..(jobs[d].line - 1) : access'[l] # "none", access'[jobs[d].line] # "none",
         \/ LineGoes(d)
         \/ Becomes(d, NextOf(jobs[d].line), jobs[d].order, jobs[d].line + 1, jobs[d].result,
                    jobs[d].changed)
  PROVE  GrantedBefore(d)'
<1>1. CASE Becomes(d, NextOf(jobs[d].line), jobs[d].order, jobs[d].line + 1, jobs[d].result,
                   jobs[d].changed)
  <2>1. /\ jobs'[d].step = NextOf(jobs[d].line) /\ jobs'[d].line = jobs[d].line + 1
        /\ jobs'[d].order = jobs[d].order
    BY <1>1 DEF Becomes
  <2>2. /\ \A l \in 1..(jobs'[d].line - 1) : access'[l] # "none"
        /\ jobs'[d].step = "close" => \A l \in Lines : access'[l] # "none"
        /\ jobs'[d].step \in {"close", "fulfil"}
    <3>1. /\ \A l \in 1..((jobs[d].line + 1) - 1) : access'[l] # "none"
          /\ NextOf(jobs[d].line) = "close" => \A l \in Lines : access'[l] # "none"
          /\ NextOf(jobs[d].line) \in {"close", "fulfil"}
      BY NextLine
    <3> QED
      BY <2>1, <3>1
  <2> QED
    BY <2>1, <2>2 DEF GrantedBefore, Granted
<1>2. CASE \E o \in OrderType :
             /\ o = [jobs[d].order EXCEPT !.filled = jobs[d].order.filled \cup {jobs[d].line}]
             /\ Becomes(d, "record", o, jobs[d].line, jobs[d].result, TRUE)
  <2>1. PICK o \in OrderType :
          /\ o = [jobs[d].order EXCEPT !.filled = jobs[d].order.filled \cup {jobs[d].line}]
          /\ Becomes(d, "record", o, jobs[d].line, jobs[d].result, TRUE)
    BY <1>2
  <2>2. jobs[d].order \in OrderType
    BY RowTyped
  <2>3. o.status = jobs[d].order.status
    BY <2>1, <2>2 DEF OrderType
  <2>4. jobs'[d].step = "record" /\ jobs'[d].line = jobs[d].line /\ jobs'[d].order = o
    BY <2>1 DEF Becomes
  <2> QED
    BY <2>3, <2>4 DEF GrantedBefore, Granted, Plain
<1> QED
  BY <1>1, <1>2 DEF LineGoes

\* Without refunds a delivery goes on to a line when those before it are granted.
LEMMA DeliveryGrants ==
  ASSUME Refunds = {}, TypeOK, Control, Granting, NEW d \in Deliveries, Step(d) \/ Fault(d)
  PROVE  Granting'
<1>1. Effect(d) /\ Only(d) /\ jobs[d] # Idle
  BY Effects, DeliveryFits DEF Fits
<1>2. jobs[d].step # "idle" /\ jobs[d].event \in Paid /\ jobs[d].step \notin RefundSteps
  <2>1. jobs[d].step # "idle"
    BY <1>1 DEF Control, ControlOf
  <2> QED
    BY <2>1, AtBusy DEF Webhooks
<1>3. GrantedBefore(d) /\ Plain(order) /\ jobs[d].order \in OrderType /\ order \in OrderType
  BY RowTyped DEF Granting, TypeOK
<1>4. \A l \in Lines : Granted(l) => Granted(l)'
  BY <1>1, <1>2 DEF Effect, Waits, Takes, Frees, Drops, Leases, EndsLease, Finds, Persists, Completes, Fulfils,
     Grants, Records, Closes, Saves, Settles, FindsReversal, Reverses, Revokes, kept, Granted, TypeOK, RefundSteps
<1>5. \A e \in Deliveries \ {d} : GrantedBefore(e)'
  <2> SUFFICES ASSUME NEW e \in Deliveries \ {d}
               PROVE  GrantedBefore(e)'
    OBVIOUS
  <2>1. jobs'[e] = jobs[e] /\ GrantedBefore(e) /\ ControlOf(jobs[e])
    BY <1>1 DEF Only, Granting, Control
  <2>2. jobs[e].step \in {"fulfil", "grant", "record"} => \A l \in 1..(jobs[e].line - 1) : l \in Lines
    BY <2>1, Constants DEF ControlOf, Lines
  <2>3. jobs[e].step = "record" => jobs[e].line \in Lines
    BY <2>1 DEF ControlOf
  <2> QED
    BY <1>4, <2>1, <2>2, <2>3 DEF GrantedBefore
<1>6. Plain(PaidOrder(jobs[d].order)) /\ ~orderBlocksFulfillment(PaidOrder(jobs[d].order))
  BY <1>3, PaidOrders DEF GrantedBefore, Plain, Terminal, orderBlocksFulfillment
<1>7. Plain([jobs[d].order EXCEPT !.done = TRUE])
  BY <1>3 DEF GrantedBefore, Plain, OrderType
<1>8. Plain(order')
  BY <1>1, <1>2, <1>3, <1>6, <1>7 DEF Effect, Waits, Takes, Frees, Drops, Leases, EndsLease, Finds, Persists,
     Completes, Fulfils, Grants, Records, Closes, Saves, Settles, FindsReversal, Reverses, Revokes, kept,
     GrantedBefore, RefundSteps
<1>9. CompletedIsGranted'
  <2>1. CASE UNCHANGED flows
    BY <1>4, <2>1 DEF Granting, CompletedIsGranted, Granted
  <2>2. CASE Leases(d)
    BY <1>2, <1>4, <2>2 DEF Leases, Granting, CompletedIsGranted, Granted, TypeOK
  <2>3. CASE EndsLease(d)
    BY <1>2, <1>3, <1>4, <2>3 DEF EndsLease, Granting, GrantedBefore, CompletedIsGranted, Granted, TypeOK
  <2> QED
    BY <1>1, <2>1, <2>2, <2>3 DEF Effect, Waits, Takes, Frees, Drops, Finds, Persists,
     Completes, Fulfils, Grants, Records, Closes, Saves, Settles, FindsReversal, Reverses, Revokes, kept
<1>10. GrantedBefore(d)'
  <2>1. ASSUME NEW step, step \notin {"fulfil", "grant", "record", "close", "mark", "complete"},
               jobs'[d].step = step, Plain(jobs'[d].order)
        PROVE  GrantedBefore(d)'
    BY <2>1 DEF GrantedBefore
  <2>2. jobs[d].step \in {"fulfil", "grant", "record"} =>
          /\ jobs[d].line \in Lines
          /\ \A l \in 1..(jobs[d].line - 1) : access'[l] # "none"
    <3>1. jobs[d].step \in {"fulfil", "grant", "record"} =>
            jobs[d].line \in Lines /\ \A l \in 1..(jobs[d].line - 1) : l \in Lines
      BY <1>2, AtBusy, Constants DEF Lines
    <3> QED
      BY <1>3, <1>4, <3>1 DEF GrantedBefore, Granted
  <2>3. CASE Waits(d) \/ Takes(d) \/ Frees(d)
    BY <1>2, <1>3, <2>1, <2>3 DEF Waits, Takes, Frees, Ends, Goes, Becomes, GrantedBefore, Plain, Idle, NoOrder
  <2>4. CASE Drops(d)
    BY <1>3, <2>1, <2>4 DEF Drops, Ends, Becomes, GrantedBefore, Plain, Idle, NoOrder
  <2>5. CASE Leases(d) \/ EndsLease(d) \/ Saves(d)
    BY <1>3, <2>1, <2>5 DEF Leases, EndsLease, Saves, Goes, Becomes, GrantedBefore
  <2>6. CASE Finds(d)
    BY <1>3, <2>1, <2>6 DEF Finds, Enters, Becomes, GrantedBefore
  <2>7. CASE Persists(d)
    <3>1. \/ Becomes(d, "persist_again", order, 1, jobs[d].result, jobs[d].changed)
          \/ Enters(d, "complete_checkout", PaidOrder(jobs[d].order))
      BY <1>6, <2>7 DEF Persists
    <3> QED
      BY <1>3, <1>6, <2>1, <3>1 DEF Enters, Becomes, GrantedBefore
  <2>8. CASE Completes(d)
    <3>1. \A l \in 1..(1 - 1) : FALSE
      OBVIOUS
    <3> QED
      BY <1>3, <2>1, <2>8, <3>1 DEF Completes, Enters, Becomes, GrantedBefore
  <2>9. CASE Fulfils(d)
    <3>1. CASE Goes(d, "grant")
      BY <1>3, <2>2, <2>9, <3>1 DEF Fulfils, Goes, Becomes, GrantedBefore, Granted
    <3>2. CASE access[jobs[d].line] # "none" /\ LineGoes(d)
      <4>1. jobs[d].line \in Lines /\ \A l \in 1..(jobs[d].line - 1) : access'[l] # "none"
        BY <2>2, <2>9 DEF Fulfils
      <4>2. access'[jobs[d].line] # "none"
        BY <1>4, <3>2, <4>1 DEF Granted
      <4>3. Plain(jobs[d].order)
        BY <1>3 DEF GrantedBefore
      <4> QED
        BY <3>2, <4>1, <4>2, <4>3, LineGranted
    <3> QED
      BY <2>9, <3>1, <3>2 DEF Fulfils
  <2>10. CASE Grants(d)
    <3>1. jobs[d].line \in Lines /\ \A l \in 1..(jobs[d].line - 1) : access'[l] # "none"
      BY <2>2, <2>10 DEF Grants
    <3>2. access'[jobs[d].line] = "active"
      BY <2>10, <3>1 DEF Grants, TypeOK
    <3>3. access'[jobs[d].line] # "none"
      BY <3>2
    <3>4. Plain(jobs[d].order) /\ LineGoes(d)
      BY <1>3, <2>10 DEF GrantedBefore, Grants
    <3> QED
      BY <3>1, <3>3, <3>4, LineGranted
  <2>11. CASE Records(d)
    <3>1. jobs[d].line \in Lines /\ \A l \in 1..(jobs[d].line - 1) : access'[l] # "none"
      BY <2>2, <2>11 DEF Records
    <3>2. access'[jobs[d].line] # "none"
      BY <1>3, <1>4, <2>11, <3>1 DEF Records, GrantedBefore, Granted
    <3>3. /\ Plain(jobs[d].order)
          /\ Becomes(d, NextOf(jobs[d].line), jobs[d].order, jobs[d].line + 1, jobs[d].result,
                     jobs[d].changed)
      BY <1>3, <2>11 DEF GrantedBefore, Records
    <3> QED
      BY <3>1, <3>2, <3>3, LineGranted
  <2>12. CASE Closes(d)
    BY <1>3, <1>4, <2>1, <2>12 DEF Closes, Enters, Becomes, GrantedBefore
  <2>13. CASE Settles(d)
    BY <1>2, <1>3, <1>4, <2>1, <2>13 DEF Settles, Becomes, GrantedBefore
  <2> QED
    BY <1>1, <1>2, <2>3, <2>4, <2>5, <2>6, <2>7, <2>8, <2>9, <2>10, <2>11, <2>12, <2>13
    DEF Effect, FindsReversal, Reverses, Revokes, RefundSteps
<1> QED
  BY <1>5, <1>8, <1>9, <1>10 DEF Granting

\* Every step keeps what is granted before a workflow is completed.
LEMMA NextGrants ==
  ASSUME Refunds = {}, Admins = {}, TypeOK, Control, Granting, [Next]_vars
  PROVE  Granting'
<1>1. CASE UNCHANGED <<flows, order, access, jobs>>
  BY <1>1 DEF Granting, GrantedBefore, Granted, CompletedIsGranted
<1>2. CASE \E d \in Deliveries, w \in Webhooks, s \in AllStamps :
             Deliver(d, w, s) \/ (Replay(d, w) /\ s = NewStamp(d))
  <2>1. PICK d \in Deliveries, w \in Webhooks, s \in AllStamps :
          Deliver(d, w, s) \/ (Replay(d, w) /\ s = NewStamp(d))
    BY <1>2
  <2>2. UNCHANGED stores /\ (UNCHANGED jobs \/ Arrives(d, w, s))
    BY <2>1, ArrivalFits
  <2>3. CASE Arrives(d, w, s)
    <3>1. GrantedBefore(d)'
      BY <2>3 DEF Arrives, GrantedBefore, Plain, NoOrder
    <3>2. \A e \in Deliveries \ {d} : GrantedBefore(e)'
      BY <2>2, <2>3 DEF Arrives, Only, Granting, GrantedBefore, Granted, stores
    <3> QED
      BY <2>2, <3>1, <3>2 DEF Granting, CompletedIsGranted, stores
  <2> QED
    BY <1>1, <2>2, <2>3 DEF stores
<1>3. CASE PersistCheckout \/ Tick \/ UNCHANGED vars
  BY <1>1, <1>3 DEF PersistCheckout, Tick, vars, stores
<1> QED
  BY <1>2, <1>3, Moves, DeliveryGrants

\* When the payment is not reversed, a workflow is completed only if its goods were
\* granted, even when requests outlive the lock and the lease and others take over.
THEOREM OnlyGrantedCompletes ==
  ASSUME Refunds = {}, Admins = {}
  PROVE  Spec => []CompletedIsGranted
<1>1. Init => TypeOK /\ Control /\ Granting
  <2>1. Init => Granting
    BY DEF Init, Granting, GrantedBefore, Plain, CompletedIsGranted, Idle, NoOrder
  <2> QED
    BY <2>1, StartShaped
<1>2. TypeOK /\ Control /\ Granting /\ [Next]_vars => (TypeOK /\ Control /\ Granting)'
  BY NextShaped, NextGrants
<1>3. Granting => CompletedIsGranted
  BY DEF Granting
<1> QED
  BY <1>1, <1>2, <1>3, PTL DEF Spec

----------------------------------------------------------------------------
(* Revoked access never comes back *)

\* RevokeAccess changes one line, and only if it is active.
LEMMA RevokeOnly ==
  ASSUME TypeOK, NEW line \in Lines, RevokeAccess(line)
  PROVE  /\ \A l \in Lines : access'[l] = access[l] \/ (access[l] = "active" /\ access'[l] = "revoked")
         /\ access'[line] # "active"
         /\ \A l \in Lines \ {line} : access'[l] = access[l]
BY DEF RevokeAccess, TypeOK

\* What a step of a delivery does to the access.
LEMMA AccessMoves ==
  ASSUME TypeOK, Control, NEW d \in Deliveries, Effect(d), jobs[d].step # "idle"
  PROVE  \/ UNCHANGED access
         \/ Grants(d) /\ jobs[d].line \in Lines
         \/ Revokes(d) /\ jobs[d].line \in Lines
<1>1. jobs[d].step \in {"grant", "revoke"} => jobs[d].line \in Lines
  BY AtBusy
<1> QED
  BY <1>1 DEF Effect, Waits, Takes, Frees, Drops, Leases, EndsLease, Finds, Persists, Completes, Fulfils,
     Grants, Records, Closes, Saves, Settles, FindsReversal, Reverses, Revokes, kept

\* A delivery grants what was never granted.
LEMMA DeliveryRevokes ==
  ASSUME TypeOK, Control, Exclusion, GrantsOnce, NEW d \in Deliveries, Step(d) \/ Fault(d)
  PROVE  GrantsOnce' /\ \A l \in Lines : access[l] = "revoked" => access'[l] = "revoked"
<1>1. Effect(d) /\ Only(d) /\ jobs[d].step # "idle"
  BY Effects, DeliveryFits DEF Fits, Control, ControlOf
<1>2. \/ UNCHANGED access
      \/ Grants(d) /\ jobs[d].line \in Lines
      \/ Revokes(d) /\ jobs[d].line \in Lines
  BY <1>1, AccessMoves
<1>3. \A l \in Lines : access[l] = "revoked" => access'[l] = "revoked"
  <2>1. CASE UNCHANGED access
    BY <2>1
  <2>2. CASE Grants(d) /\ jobs[d].line \in Lines
    BY <2>2 DEF Grants, GrantsOnce, TypeOK
  <2>3. CASE Revokes(d) /\ jobs[d].line \in Lines
    BY <2>3, RevokeOnly DEF Revokes
  <2> QED
    BY <1>2, <2>1, <2>2, <2>3
<1>4. GrantsOnce'
  <2> SUFFICES ASSUME NEW e \in Deliveries, jobs'[e].step = "grant"
               PROVE  access'[jobs'[e].line] = "none"
    BY DEF GrantsOnce
  <2>1. CASE e = d
    <3>1. jobs'[d].step = "grant"
      BY <2>1
    <3>2. ~Waits(d) /\ ~Takes(d) /\ ~Frees(d) /\ ~Leases(d) /\ ~EndsLease(d) /\ ~Saves(d)
      BY <3>1 DEF Waits, Takes, Frees, Leases, EndsLease, Saves, Ends, Goes, Becomes, Idle
    <3>3. ~Drops(d)
      BY <3>1 DEF Drops, Ends, Becomes, Idle
    <3>4. ~Finds(d) /\ ~Persists(d) /\ ~Completes(d) /\ ~Closes(d)
      BY <3>1 DEF Finds, Persists, Completes, Closes, Enters, Becomes
    <3>5. ~Grants(d) /\ ~Records(d) /\ ~LineGoes(d)
      BY <3>1 DEF Grants, Records, LineGoes, NextOf, Becomes
    <3>6. ~Settles(d) /\ ~FindsReversal(d) /\ ~Reverses(d) /\ ~Revokes(d)
      BY <3>1 DEF Settles, FindsReversal, Reverses, Revokes, Goes, Becomes
    <3>7. Fulfils(d) /\ Goes(d, "grant") /\ access[jobs[d].line] = "none"
      BY <1>1, <3>2, <3>3, <3>4, <3>5, <3>6 DEF Effect, Fulfils
    <3> QED
      BY <2>1, <3>7 DEF Fulfils, Goes, Becomes, kept
  <2>2. CASE e # d
    <3>1. jobs'[e] = jobs[e] /\ jobs[e].line \in Lines /\ access[jobs[e].line] = "none"
      BY <1>1, <2>2, AtBusy DEF Only, GrantsOnce
    <3>2. ~Locked(d)
      BY <2>2, <3>1, Alone DEF Locked, LockedSteps, PaidSteps
    <3>3. UNCHANGED access
      BY <1>2, <3>2 DEF Grants, Revokes, Locked, LockedSteps, PaidSteps, RefundSteps
    <3> QED
      BY <3>1, <3>3
  <2> QED
    BY <2>1, <2>2
<1> QED
  BY <1>3, <1>4

\* No step gives back what was revoked.
LEMMA NextRevokes ==
  ASSUME TypeOK, Control, Exclusion, GrantsOnce, [Next]_vars
  PROVE  GrantsOnce' /\ \A l \in Lines : access[l] = "revoked" => access'[l] = "revoked"
<1>1. CASE UNCHANGED <<jobs, access>>
  BY <1>1 DEF GrantsOnce
<1>2. CASE \E d \in Deliveries, w \in Webhooks, s \in AllStamps :
             Deliver(d, w, s) \/ (Replay(d, w) /\ s = NewStamp(d))
  <2>1. PICK d \in Deliveries, w \in Webhooks, s \in AllStamps :
          Deliver(d, w, s) \/ (Replay(d, w) /\ s = NewStamp(d))
    BY <1>2
  <2>2. UNCHANGED stores /\ (UNCHANGED jobs \/ Arrives(d, w, s))
    BY <2>1, ArrivalFits
  <2>3. UNCHANGED access
    BY <2>2 DEF stores
  <2> QED
    BY <2>2, <2>3 DEF Arrives, Only, GrantsOnce
<1>3. CASE \E a \in Admins : Admin(a)
  <2>1. PICK a \in Admins : AdminFits(a)
    BY <1>3, AdminStepFits
  <2>2. UNCHANGED jobs
    BY <2>1 DEF AdminFits
  <2>3. UNCHANGED access \/ (admins[a].line \in Lines /\ RevokeAccess(admins[a].line))
    BY <2>1 DEF AdminFits
  <2>4. \A l \in Lines : access'[l] = access[l] \/ (access[l] = "active" /\ access'[l] = "revoked")
    BY <2>3, RevokeOnly
  <2>5. GrantsOnce'
    <3>1. \A d \in Deliveries : jobs[d].step = "grant" => jobs[d].line \in Lines
      BY AtBusy
    <3> QED
      BY <2>2, <2>4, <3>1 DEF GrantsOnce
  <2> QED
    BY <2>4, <2>5
<1>4. CASE PersistCheckout \/ Tick \/ UNCHANGED vars
  BY <1>1, <1>4 DEF PersistCheckout, Tick, vars, stores
<1> QED
  BY <1>2, <1>3, <1>4, Moves, DeliveryRevokes

\* Revoked access never comes back, whoever revoked it and however often fulfilment runs
\* again, as long as no request outlives its lock.
THEOREM RevokedForEver ==
  ASSUME Orderly
  PROVE  Spec => RevocationIsFinal
<1>1. Init => TypeOK /\ Control /\ Exclusion /\ GrantsOnce
  <2>1. Init => GrantsOnce
    BY DEF Init, GrantsOnce, Idle
  <2> QED
    BY <2>1, StartShaped, StartExcludes
<1>2. TypeOK /\ Control /\ Exclusion /\ GrantsOnce /\ [Next]_vars
        => (TypeOK /\ Control /\ Exclusion /\ GrantsOnce)'
  BY NextShaped, NextExcludes, NextRevokes
<1>3. TypeOK /\ Control /\ Exclusion /\ GrantsOnce /\ [Next]_vars
        => [\A l \in Lines : access[l] = "revoked" => access'[l] = "revoked"]_vars
  BY NextRevokes
<1> QED
  BY <1>1, <1>2, <1>3, PTL DEF Spec, RevocationIsFinal

----------------------------------------------------------------------------
(* What has been refunded is never forgotten *)

\* A paid event keeps the accounts of an order in agreement.
LEMMA PaidBalances ==
  ASSUME NEW o \in OrderType, Balanced(o)
  PROVE  Balanced(PaidOrder(o)) /\ PaidOrder(o).status # "none" /\ PaidOrder(o).reversed = o.reversed
<1>1. CASE o.status \in Terminal
  BY <1>1, PaidOrders DEF Balanced, Terminal
<1>2. CASE o.status \notin Terminal
  <2>1. o.status \in {"none", "paid"} /\ PaidOrder(o).status = "paid" /\ PaidOrder(o).payment = "paid"
    BY <1>2, PaidOrders DEF OrderType, Terminal
  <2>2. o.reversed # Total
    BY <2>1 DEF Balanced
  <2> QED
    BY <2>1, <2>2, PaidOrders DEF Balanced
<1> QED
  BY <1>1, <1>2

\* A refund keeps them in agreement and counts at least what it reports.
LEMMA RefundBalances ==
  ASSUME TypeOK, NEW d \in Deliveries, jobs[d].event \in Refunds
  PROVE  /\ Balanced(RefundedOrder(d)) /\ RefundedOrder(d).reversed >= jobs[d].order.reversed
         /\ RefundedOrder(d).filled = jobs[d].order.filled
         /\ RefundedOrder(d).status \in {"refunded", "partially_refunded"}
         /\ RefundedOrder(d) \in OrderType /\ RefundedOrder(d).reversed >= Reversed[jobs[d].event]
         /\ Reversed[jobs[d].event] = Total => RefundedOrder(d).status = "refunded"
<1>1. PICK o \in OrderType : o = jobs[d].order
  BY RowTyped
<1>2. PICK amount \in 0..Total : amount = ReversalAmount(o, jobs[d].event)
  BY Amounts
<1>3. o.reversed + amount >= Reversed[jobs[d].event] /\ o.reversed + amount <= Total
  BY <1>2, Amounts
<1>4. PICK whole \in BOOLEAN : whole = (Reversed[jobs[d].event] = Total)
  OBVIOUS
<1>5. PICK p : p = applyOrderRefund(o, whole, amount)
  OBVIOUS
<1>6. /\ p \in OrderType /\ p.filled = o.filled
      /\ p.status \in {"refunded", "partially_refunded"} /\ p.payment = p.status
      /\ p.status = "refunded" <=> p.reversed = Total
      /\ p.reversed >= o.reversed /\ p.reversed \in 0..Total
      /\ whole => p.reversed = Total
      /\ o.reversed + amount <= Total => p.reversed >= o.reversed + amount
  BY <1>5, RefundsCount
<1>7. p = RefundedOrder(d)
  BY <1>1, <1>2, <1>4, <1>5 DEF RefundedOrder
<1>8. p.reversed >= Reversed[jobs[d].event]
  <2>1. o.reversed \in Nat /\ Reversed[jobs[d].event] \in Nat /\ p.reversed \in Nat
    BY <1>6, Constants DEF OrderType
  <2> QED
    BY <1>2, <1>3, <1>6, <2>1
<1>9. Balanced(p)
  BY <1>6 DEF Balanced
<1> QED
  BY <1>1, <1>4, <1>6, <1>7, <1>8, <1>9

\* Putting the copy changes nothing of the money.
LEMMA LineMoney ==
  ASSUME TypeOK, NEW d \in Deliveries, MoneyOf(d), jobs[d].step \in Opened, LineGoes(d), UNCHANGED order
  PROVE  MoneyOf(d)'
<1>1. jobs[d].order \in OrderType /\ jobs[d].step \in Loaded
  BY RowTyped DEF Opened, Loaded
<1>2. Balanced(jobs[d].order) /\ SameMoney(jobs[d].order, order) /\ jobs[d].order.status # "none"
  BY <1>1 DEF MoneyOf
<1>3. CASE Becomes(d, NextOf(jobs[d].line), jobs[d].order, jobs[d].line + 1, jobs[d].result,
                   jobs[d].changed)
  BY <1>2, <1>3 DEF Becomes, MoneyOf
<1>4. ASSUME NEW o \in OrderType, o = [jobs[d].order EXCEPT !.filled = jobs[d].order.filled \cup {jobs[d].line}],
             Becomes(d, "record", o, jobs[d].line, jobs[d].result, TRUE)
      PROVE  MoneyOf(d)'
  <2>1. /\ o.status = jobs[d].order.status /\ o.payment = jobs[d].order.payment
        /\ o.reversed = jobs[d].order.reversed
    BY <1>1, <1>4 DEF OrderType
  <2>2. Balanced(o) /\ SameMoney(o, order) /\ o.status # "none"
    BY <1>2, <2>1 DEF Balanced, SameMoney
  <2> QED
    BY <1>4, <2>2 DEF Becomes, MoneyOf
<1> QED
  BY <1>3, <1>4 DEF LineGoes

\* A delivery puts an order that agrees with the one it replaces.
LEMMA DeliveryMoney ==
  ASSUME TypeOK, Control, Exclusion, Money, NEW d \in Deliveries, Step(d) \/ Fault(d)
  PROVE  Money' /\ order'.reversed >= order.reversed
<1>1. Effect(d) /\ Only(d) /\ jobs[d].step # "idle"
  BY Effects, DeliveryFits DEF Fits, Control, ControlOf
<1>2. MoneyOf(d) /\ Balanced(order) /\ jobs[d].order \in OrderType /\ order \in OrderType
  BY RowTyped DEF Money, TypeOK
<1>3. Balanced(NoOrder) /\ order.reversed >= order.reversed
  <2>1. order.reversed \in 0..Total /\ Total # 0
    BY <1>2, Constants DEF OrderType
  <2> QED
    BY <2>1 DEF Balanced, NoOrder
<1>4. UNCHANGED order \/ Locked(d)
  BY <1>1 DEF Effect, Waits, Takes, Frees, Drops, Leases, EndsLease, Finds, Persists, Completes, Fulfils,
     Grants, Records, Closes, Saves, Settles, FindsReversal, Reverses, Revokes, kept,
     Locked, LockedSteps, PaidSteps, RefundSteps
<1>5. \A e \in Deliveries \ {d} : MoneyOf(e)'
  <2> SUFFICES ASSUME NEW e \in Deliveries \ {d}
               PROVE  MoneyOf(e)'
    OBVIOUS
  <2>1. jobs'[e] = jobs[e] /\ MoneyOf(e)
    BY <1>1 DEF Only, Money
  <2>2. CASE UNCHANGED order
    BY <2>1, <2>2 DEF MoneyOf
  <2>3. CASE Locked(d)
    <3>1. jobs[e].step \notin Loaded
      BY <2>3, Alone DEF Loaded, Locked, LockedSteps, PaidSteps, RefundSteps
    <3> QED
      BY <2>1, <3>1 DEF MoneyOf
  <2> QED
    BY <1>4, <2>2, <2>3
<1>6. ASSUME UNCHANGED order, MoneyOf(d)'
      PROVE  Money' /\ order'.reversed >= order.reversed
  BY <1>2, <1>3, <1>5, <1>6 DEF Money
<1>7. ASSUME SameMoney(jobs[d].order, order), Balanced(order'),
             order'.reversed >= jobs[d].order.reversed, MoneyOf(d)'
      PROVE  Money' /\ order'.reversed >= order.reversed
  BY <1>5, <1>7 DEF Money, SameMoney
<1>8. jobs[d].order.reversed >= jobs[d].order.reversed
  BY <1>2, Constants DEF OrderType
<1>9. CASE Waits(d) \/ Takes(d) \/ Frees(d)
  <2>1. /\ jobs'[d].step \in {"idle", "lock", "mark_failed", "lease", "find_reversal"}
        /\ jobs'[d].order = NoOrder \/ jobs'[d].order = jobs[d].order
        /\ UNCHANGED order
    BY <1>9 DEF Waits, Takes, Frees, Ends, Goes, Becomes, Idle
  <2>2. MoneyOf(d)'
    BY <1>2, <1>3, <2>1 DEF MoneyOf, Loaded, Opened
  <2> QED
    BY <1>6, <2>1, <2>2
<1>10. CASE Drops(d)
  <2>1. /\ (jobs'[d].order = NoOrder /\ jobs'[d].step = "idle") \/ jobs'[d].order = jobs[d].order
        /\ jobs'[d].step \in Loaded => jobs'[d].step = "progress" /\ jobs[d].step \in Opened
        /\ UNCHANGED order
    BY <1>10 DEF Drops, Ends, Becomes, Idle, Loaded, Opened
  <2>2. jobs'[d].step \in Opened => jobs'[d].step \in Loaded
    BY DEF Opened, Loaded
  <2>3. jobs[d].step \in Opened => jobs[d].step \in Loaded
    BY DEF Opened, Loaded
  <2>4. MoneyOf(d)'
    BY <1>2, <1>3, <2>1, <2>2, <2>3 DEF MoneyOf, Loaded
  <2> QED
    BY <1>6, <2>1, <2>4
<1>11. CASE Leases(d) \/ EndsLease(d) \/ Settles(d) \/ Revokes(d)
  <2>1. /\ jobs'[d].step \notin Loaded /\ jobs'[d].step \notin Opened /\ jobs'[d].order = jobs[d].order
        /\ UNCHANGED order
    BY <1>11 DEF Leases, EndsLease, Settles, Revokes, Goes, Becomes, Loaded, Opened
  <2>2. MoneyOf(d)'
    BY <1>2, <2>1 DEF MoneyOf
  <2> QED
    BY <1>6, <2>1, <2>2
<1>12. CASE Finds(d) \/ FindsReversal(d)
  <2>1. /\ jobs'[d].step \notin Opened /\ UNCHANGED order
        /\ jobs'[d].order = order \/ (jobs'[d].order = jobs[d].order /\ jobs'[d].step = "release")
    BY <1>12 DEF Finds, FindsReversal, Enters, Becomes, Opened
  <2>2. MoneyOf(d)'
    BY <1>2, <2>1 DEF MoneyOf, SameMoney, Loaded
  <2> QED
    BY <1>6, <2>1, <2>2
<1>13. CASE Persists(d)
  <2>1. PICK p \in OrderType : p = PaidOrder(jobs[d].order)
    BY <1>2, PaidOrders
  <2>2. Balanced(p) /\ p.status # "none" /\ p.reversed = jobs[d].order.reversed
    BY <1>2, <2>1, PaidBalances DEF MoneyOf
  <2>3. SameMoney(jobs[d].order, order)
    BY <1>2, <1>13 DEF MoneyOf, Persists, Loaded
  <2>4. CASE UNCHANGED order /\ Becomes(d, "persist_again", order, 1, jobs[d].result, jobs[d].changed)
    <3>1. MoneyOf(d)'
      BY <1>2, <2>4 DEF MoneyOf, Becomes, SameMoney, Opened
    <3> QED
      BY <1>6, <2>4, <3>1
  <2>5. CASE /\ order' = p
             /\ Enters(d, IF orderBlocksFulfillment(p) THEN "mark" ELSE "complete_checkout", p)
    <3>1. MoneyOf(d)'
      <4>1. jobs'[d].order = p \/ (jobs'[d].order = jobs[d].order /\ jobs'[d].step = "release")
        BY <2>5 DEF Enters, Becomes
      <4> QED
        BY <1>2, <2>2, <2>5, <4>1 DEF MoneyOf, SameMoney, Loaded, Opened
    <3> QED
      BY <1>7, <1>8, <2>2, <2>3, <2>5, <3>1
  <2> QED
    BY <1>13, <2>1, <2>4, <2>5 DEF Persists
<1>14. CASE Completes(d)
  <2>1. SameMoney(jobs[d].order, order) /\ jobs[d].order.status # "none" /\ UNCHANGED order
    BY <1>2, <1>14 DEF MoneyOf, Completes, Loaded, Opened
  <2>2. jobs'[d].order = jobs[d].order
    BY <1>14 DEF Completes, Enters, Becomes
  <2>3. MoneyOf(d)'
    BY <1>2, <2>1, <2>2 DEF MoneyOf
  <2> QED
    BY <1>6, <2>1, <2>3
<1>15. CASE Fulfils(d) \/ Grants(d)
  <2>1. UNCHANGED order /\ (Goes(d, "grant") \/ LineGoes(d)) /\ jobs[d].step \in Opened /\ jobs[d].step \in Loaded
    BY <1>15 DEF Fulfils, Grants, kept, Opened, Loaded
  <2>2. CASE Goes(d, "grant")
    BY <1>2, <1>6, <2>1, <2>2 DEF Goes, Becomes, MoneyOf
  <2>3. CASE LineGoes(d)
    BY <1>2, <1>6, <2>1, <2>3, LineMoney
  <2> QED
    BY <2>1, <2>2, <2>3
<1>16. CASE Records(d) \/ Saves(d)
  <2>1. /\ order' = jobs[d].order /\ jobs'[d].order = jobs[d].order
        /\ jobs[d].step \in Loaded /\ jobs[d].step \in Opened
    BY <1>16 DEF Records, Saves, Goes, Becomes, Loaded, Opened
  <2>2. SameMoney(jobs[d].order, order) /\ Balanced(jobs[d].order) /\ jobs[d].order.status # "none"
    BY <1>2, <2>1 DEF MoneyOf
  <2>3. MoneyOf(d)'
    BY <2>1, <2>2 DEF MoneyOf, SameMoney
  <2> QED
    BY <1>7, <1>8, <2>1, <2>2, <2>3
<1>17. CASE Closes(d)
  <2>1. SameMoney(jobs[d].order, order) /\ Balanced(jobs[d].order) /\ jobs[d].order.status # "none"
    BY <1>2, <1>17 DEF MoneyOf, Closes, Loaded, Opened
  <2>2. jobs'[d].order = jobs[d].order /\ jobs'[d].step \in {"mark", "release"}
    BY <1>17 DEF Closes, Enters, Becomes
  <2>3. MoneyOf(d)'
    BY <2>1, <2>2 DEF MoneyOf, Loaded, Opened
  <2>4. PICK p : p = [jobs[d].order EXCEPT !.done = TRUE]
    OBVIOUS
  <2>5. /\ p.status = jobs[d].order.status /\ p.payment = jobs[d].order.payment
        /\ p.reversed = jobs[d].order.reversed
    BY <1>2, <2>4 DEF OrderType
  <2>6. Balanced(p)
    BY <2>1, <2>5 DEF Balanced
  <2>7. order' = p \/ UNCHANGED order
    BY <1>17, <2>4 DEF Closes
  <2> QED
    BY <1>6, <1>7, <1>8, <2>1, <2>3, <2>5, <2>6, <2>7
<1>18. CASE Reverses(d)
  <2>1. jobs[d].event \in Refunds /\ SameMoney(jobs[d].order, order)
    BY <1>1, <1>2, <1>18, AtBusy DEF MoneyOf, Reverses, Loaded, RefundSteps
  <2>2. order' = RefundedOrder(d) /\ jobs'[d].order = RefundedOrder(d) /\ jobs'[d].step \in {"revoke", "mark"}
    BY <1>18 DEF Reverses, Becomes
  <2>3. Balanced(RefundedOrder(d)) /\ RefundedOrder(d).reversed >= jobs[d].order.reversed
    BY <2>1, RefundBalances
  <2>4. MoneyOf(d)'
    BY <2>2, <2>3 DEF MoneyOf, Loaded, Opened
  <2> QED
    BY <1>7, <2>1, <2>2, <2>3, <2>4
<1> QED
  BY <1>1, <1>9, <1>10, <1>11, <1>12, <1>13, <1>14, <1>15, <1>16, <1>17, <1>18 DEF Effect

\* Every step keeps the accounts, and no amount is taken back.
LEMMA NextMoney ==
  ASSUME Admins = {}, TypeOK, Control, Exclusion, Money, [Next]_vars
  PROVE  Money' /\ order'.reversed >= order.reversed
<1>1. order.reversed >= order.reversed
  BY Constants DEF TypeOK, OrderType
<1>2. CASE UNCHANGED <<jobs, order>>
  BY <1>1, <1>2 DEF Money, MoneyOf
<1>3. CASE \E d \in Deliveries, w \in Webhooks, s \in AllStamps :
             Deliver(d, w, s) \/ (Replay(d, w) /\ s = NewStamp(d))
  <2>1. PICK d \in Deliveries, w \in Webhooks, s \in AllStamps :
          Deliver(d, w, s) \/ (Replay(d, w) /\ s = NewStamp(d))
    BY <1>3
  <2>2. UNCHANGED order /\ (UNCHANGED jobs \/ Arrives(d, w, s))
    BY <2>1, ArrivalFits DEF stores
  <2>3. CASE Arrives(d, w, s)
    <3>1. MoneyOf(d)'
      BY <2>3, Constants DEF Arrives, MoneyOf, Loaded, Opened, Balanced, NoOrder
    <3>2. \A e \in Deliveries \ {d} : MoneyOf(e)'
      BY <2>2, <2>3 DEF Arrives, Only, Money, MoneyOf
    <3> QED
      BY <1>1, <2>2, <3>1, <3>2 DEF Money
  <2> QED
    BY <1>2, <2>2, <2>3
<1>4. CASE PersistCheckout \/ Tick \/ UNCHANGED vars
  BY <1>2, <1>4 DEF PersistCheckout, Tick, vars, stores
<1> QED
  BY <1>3, <1>4, Moves, DeliveryMoney

\* There is no order at the start.
LEMMA StartMoney ==
  ASSUME Init
  PROVE  Money
BY Constants DEF Init, Money, MoneyOf, Balanced, SameMoney, Loaded, Opened, Idle, NoOrder

\* What has been refunded is never forgotten, in whatever order the events arrive and
\* however often, as long as no request outlives its lock.
THEOREM RefundedForEver ==
  ASSUME Orderly, Admins = {}
  PROVE  Spec => RefundIsFinal
<1>1. Init => TypeOK /\ Control /\ Exclusion /\ Money
  BY StartShaped, StartExcludes, StartMoney
<1>2. TypeOK /\ Control /\ Exclusion /\ Money /\ [Next]_vars => (TypeOK /\ Control /\ Exclusion /\ Money)'
  BY NextShaped, NextExcludes, NextMoney
<1>3. TypeOK /\ Control /\ Exclusion /\ Money /\ [Next]_vars => [order'.reversed >= order.reversed]_vars
  BY NextMoney
<1> QED
  BY <1>1, <1>2, <1>3, PTL DEF Spec, RefundIsFinal

----------------------------------------------------------------------------
(* What is settled is done *)

\* What a step notes of its event, and answers.
Notes(d) ==
  /\ \A w \in Webhooks :
       \/ webhooks'[w] = webhooks[w]
       \/ /\ w = jobs[d].event
          /\ \/ jobs[d].step = "store" /\ webhooks'[w] = "received"
             \/ jobs[d].step = "mark" /\ webhooks'[w] = "processed"
             \/ jobs[d].step = "reject" /\ webhooks'[w] = "failed"
             \/ /\ jobs[d].step = "mark_failed"
                /\ webhooks'[w] = IF w \in Paid THEN "failed_retryable" ELSE "failed"
  /\ \A w \in Webhooks :
       \/ answered'[w] = answered[w]
       \/ answered'[w] = "duplicate"
       \/ /\ w = jobs[d].event
          /\ \/ jobs[d].step = "lock" /\ AnswersOK(w, jobs[d].copy)
             \/ jobs[d].step = "release" /\ AnswersOK(w, jobs[d].result) /\ jobs[d].result # "error"
             \/ /\ jobs[d].step = "mark_failed"
                /\ AnswersOK(w, IF w \in Paid THEN "failed_retryable" ELSE "failed")

\* Each step notes of its event what it may.
LEMMA StepNotes ==
  ASSUME TypeOK, Control, NEW d \in Deliveries, Step(d) \/ Fault(d)
  PROVE  Notes(d)
<1>1. webhooks \in [Webhooks -> Statuses] /\ answered \in [Webhooks -> {"no", "duplicate", "receipt"}]
  BY DEF TypeOK
<1>2. CASE Store(d)
  BY <1>1, <1>2 DEF Store, At, Event, AnswerDuplicate, Notes
<1>3. CASE MarkFailed(d)
  <2>1. jobs[d].step = "mark_failed"
    BY <1>3 DEF MarkFailed, At
  <2>2. \E result : /\ result = IF jobs[d].event \in Paid THEN "failed_retryable" ELSE "failed"
                    /\ webhooks' = [webhooks EXCEPT ![jobs[d].event] = result]
                    /\ Answer(d, result)
    BY <1>3 DEF MarkFailed, Event
  <2> QED
    BY <1>1, <2>1, <2>2, AnswersType DEF Notes
<1>4. CASE AcquireLock(d)
  <2>1. jobs[d].step = "lock" /\ UNCHANGED webhooks /\ (UNCHANGED answered \/ Answer(d, jobs[d].copy))
    BY <1>4 DEF AcquireLock, At
  <2> QED
    BY <2>1, AnswersType DEF Notes
<1>5. CASE ReleaseLock(d) \/ ReleaseThrows(d)
  <2>1. /\ jobs[d].step = "release" /\ UNCHANGED webhooks
        /\ UNCHANGED answered \/ (jobs[d].result # "error" /\ Answer(d, jobs[d].result))
    BY <1>5 DEF ReleaseLock, ReleaseThrows, At, stores
  <2> QED
    BY <2>1, AnswersType DEF Notes
<1>6. CASE MarkProcessed(d) \/ Reject(d)
  BY <1>1, <1>6 DEF MarkProcessed, Reject, At, Event, Notes
<1>7. CASE UNCHANGED <<webhooks, answered>>
  BY <1>7 DEF Notes
<1>8. CASE Throw(d) \/ Crash(d)
  BY <1>7, <1>8 DEF Throw, Crash, stores
<1>9. CASE \/ LeaseWorkflow(d) \/ LeaseEnds(d) \/ CompleteWorkflow(d) \/ FailWorkflow(d)
           \/ FindOrder(d) \/ PersistOrder(d) \/ CompleteCheckout(d)
  BY <1>7, <1>9 DEF LeaseWorkflow, LeaseEnds, CompleteWorkflow, FailWorkflow, FindOrder, PersistOrder,
     CompleteCheckout, stores
<1>10. CASE \/ FulfilLine(d) \/ GrantLine(d) \/ RecordLine(d) \/ CloseOrder(d) \/ PersistProgress(d)
            \/ FindReversal(d) \/ ReverseOrder(d) \/ RevokeLine(d)
  BY <1>7, <1>10 DEF FulfilLine, GrantLine, RecordLine, CloseOrder, PersistProgress, FindReversal,
     ReverseOrder, RevokeLine, stores
<1> QED
  BY <1>2, <1>3, <1>4, <1>5, <1>6, <1>8, <1>9, <1>10 DEF Step, Fault

\* What a delivery may leave behind keeps the results an event can have.
LEMMA DeliveryAnswers ==
  ASSUME TypeOK, Control, Answering, NEW d \in Deliveries, Step(d) \/ Fault(d)
  PROVE  Answering'
<1>1. Effect(d) /\ Only(d) /\ jobs[d].step # "idle" /\ Stays(d) /\ Notes(d)
  BY Effects, DeliveryFits, StepNotes DEF Fits, Control, ControlOf
<1>2. /\ jobs[d].event \in Webhooks
      /\ jobs[d].event \in Paid => checkout # "absent" /\ jobs[d].step # "reject"
      /\ jobs[d].step = "store" => jobs[d].copy = "absent"
      /\ jobs[d].step # "store" =>
            /\ jobs[d].copy \in Results(jobs[d].event) \ {"processed"}
            /\ jobs[d].result \in Results(jobs[d].event) \cup {"error"}
  BY <1>1, AtBusy DEF Answering
<1>3. checkout # "absent" => checkout' # "absent"
  BY <1>1 DEF Effect, Waits, Takes, Frees, Drops, Leases, EndsLease, Finds, Persists, Completes, Fulfils,
     Grants, Records, Closes, Saves, Settles, FindsReversal, Reverses, Revokes, kept
<1>4. \A w \in Webhooks : webhooks'[w] \in Results(w) \cup {"absent"}
  BY <1>1, <1>2 DEF Notes, Answering, Results
<1>5. \A w \in Paid : webhooks'[w] # "absent" => checkout' # "absent"
  BY <1>1, <1>2, <1>3 DEF Notes, Answering, Webhooks
<1>6. \A e \in Deliveries \ {d} : jobs'[e] = jobs[e]
  BY <1>1 DEF Only
<1>7. ASSUME jobs'[d].step # "store", jobs'[d].event = jobs[d].event,
             jobs'[d].step = "reject" => jobs[d].event \notin Paid,
             jobs'[d].copy \in Results(jobs[d].event) \ {"processed"},
             jobs'[d].result \in Results(jobs[d].event) \cup {"error"}
      PROVE  Answering'
  BY <1>2, <1>3, <1>4, <1>5, <1>6, <1>7 DEF Answering
<1>8. CASE jobs'[d] = Idle
  BY <1>2, <1>3, <1>4, <1>5, <1>6, <1>8 DEF Answering, Idle
<1>9. CASE Waits(d) /\ jobs'[d] # Idle
  BY <1>1, <1>2, <1>7, <1>9 DEF Waits, Stays, Results
<1>10. ASSUME NEW step, NEW o, NEW line, NEW changed, NEW result \in {"error", jobs[d].copy, jobs[d].result},
              Becomes(d, step, o, line, result, changed), step # "store", jobs[d].step # "store",
              step = "reject" => jobs[d].event \notin Paid
       PROVE  Answering'
  BY <1>2, <1>7, <1>10 DEF Becomes
<1>11. CASE Takes(d) \/ Frees(d) \/ Leases(d) \/ EndsLease(d) \/ Saves(d)
  BY <1>8, <1>10, <1>11 DEF Takes, Frees, Leases, EndsLease, Saves, Goes, Ends
<1>12. CASE Drops(d)
  BY <1>8, <1>10, <1>12 DEF Drops, Ends, Locked, LockedSteps, PaidSteps, RefundSteps
<1>13. CASE Finds(d)
  <2>1. checkout # "absent"
    BY <1>1, <1>2, <1>13, AtBusy DEF Finds, PaidSteps
  <2> QED
    BY <1>10, <1>13, <2>1 DEF Finds, Enters
<1>14. CASE Persists(d)
  BY <1>10, <1>14 DEF Persists, Enters
<1>15. CASE Completes(d) \/ Closes(d)
  BY <1>10, <1>15 DEF Completes, Closes, Enters
<1>16. CASE Fulfils(d) \/ Grants(d) \/ Records(d)
  <2>1. NextOf(jobs[d].line) \in {"close", "fulfil"} /\ jobs[d].step # "store"
    BY <1>16 DEF NextOf, Fulfils, Grants, Records
  <2>2. CASE Goes(d, "grant")
    BY <1>10, <2>1, <2>2 DEF Goes
  <2>3. CASE Becomes(d, NextOf(jobs[d].line), jobs[d].order, jobs[d].line + 1, jobs[d].result,
                     jobs[d].changed)
    BY <1>10, <2>1, <2>3
  <2>4. ASSUME NEW o, Becomes(d, "record", o, jobs[d].line, jobs[d].result, TRUE)
        PROVE  Answering'
    BY <1>10, <2>1, <2>4
  <2> QED
    BY <1>16, <2>2, <2>3, <2>4 DEF Fulfils, Grants, Records, LineGoes
<1>17. CASE Settles(d)
  <2>1. PICK status \in {"processed", "failed"} :
          /\ jobs[d].step = IF status = "processed" THEN "mark" ELSE "reject"
          /\ Becomes(d, IF jobs[d].event \notin Paid THEN "release"
                  ELSE IF status = "processed" THEN "complete" ELSE "fail_flow",
               jobs[d].order, jobs[d].line, status, jobs[d].changed)
    BY <1>17 DEF Settles
  <2>2. status \in Results(jobs[d].event)
    BY <1>2, <2>1 DEF Results
  <2> QED
    BY <1>2, <1>7, <2>1, <2>2 DEF Becomes
<1>18. CASE FindsReversal(d)
  <2>1. jobs[d].event \notin Paid
    BY <1>1, <1>18, AtBusy, Constants DEF FindsReversal, RefundSteps
  <2> QED
    BY <1>10, <1>18, <2>1 DEF FindsReversal
<1>19. CASE Reverses(d) \/ Revokes(d)
  BY <1>10, <1>19 DEF Reverses, Revokes, Goes
<1> QED
  BY <1>1, <1>8, <1>9, <1>11, <1>12, <1>13, <1>14, <1>15, <1>16, <1>17, <1>18, <1>19 DEF Effect

\* An order that is put is one that is there.
LEMMA OrderStays ==
  ASSUME TypeOK, Control, Money, NEW d \in Deliveries, Effect(d), jobs[d].step # "idle"
  PROVE  UNCHANGED order \/ order'.status # "none"
<1>1. MoneyOf(d) /\ jobs[d].order \in OrderType
  BY RowTyped DEF Money
<1>2. CASE Persists(d)
  BY <1>1, <1>2, PaidBalances DEF Persists, MoneyOf
<1>3. CASE Records(d) \/ Saves(d)
  BY <1>1, <1>3 DEF Records, Saves, MoneyOf, Opened
<1>4. CASE Closes(d)
  <2>1. jobs[d].order.status # "none"
    BY <1>1, <1>4 DEF Closes, MoneyOf, Opened
  <2>2. PICK p : p = [jobs[d].order EXCEPT !.done = TRUE]
    OBVIOUS
  <2>3. p.status = jobs[d].order.status
    BY <1>1, <2>2 DEF OrderType
  <2> QED
    BY <1>4, <2>1, <2>2, <2>3 DEF Closes
<1>5. CASE Reverses(d)
  <2>1. jobs[d].event \in Refunds
    BY <1>5, AtBusy DEF Reverses, RefundSteps
  <2> QED
    BY <1>5, <2>1, RefundBalances DEF Reverses
<1> QED
  BY <1>2, <1>3, <1>4, <1>5 DEF Effect, Waits, Takes, Frees, Drops, Leases, EndsLease, Finds, Completes, Fulfils,
     Grants, Settles, FindsReversal, Revokes, kept

\* What is done stays done.
LEMMA DoneStays ==
  ASSUME TypeOK, Control, Money, NEW d \in Deliveries, Doing(d), Step(d) \/ Fault(d),
         TypeOK', Money', order'.reversed >= order.reversed
  PROVE  /\ order # NoOrder => order' # NoOrder
         /\ \A l \in Lines : access[l] # "none" => access'[l] # "none"
         /\ \A w \in Webhooks : Done(w) => Done(w)'
<1>1. Effect(d) /\ jobs[d].step # "idle"
  BY Effects, DeliveryFits DEF Fits, Control, ControlOf
<1>2. order # NoOrder => order' # NoOrder
  BY <1>1, OrderStays DEF NoOrder
<1>3. \/ UNCHANGED access
      \/ Grants(d) /\ jobs[d].line \in Lines
      \/ Revokes(d) /\ jobs[d].line \in Lines
  BY <1>1, AccessMoves
<1>4. \A l \in Lines : access[l] # "none" => access'[l] # "none"
  <2>1. CASE Grants(d) /\ jobs[d].line \in Lines
    BY <2>1 DEF Grants, TypeOK
  <2>2. CASE Revokes(d) /\ jobs[d].line \in Lines
    BY <2>2, RevokeOnly DEF Revokes
  <2> QED
    BY <1>3, <2>1, <2>2
<1>5. order.status = "refunded" => order'.status = "refunded"
  <2>1. order.status = "refunded" <=> order.reversed = Total
    BY DEF Money, Balanced
  <2>2. order'.status = "refunded" <=> order'.reversed = Total
    BY DEF Money, Balanced
  <2>3. order.reversed \in 0..Total /\ order'.reversed \in 0..Total /\ Total \in Nat
    BY Constants DEF TypeOK, OrderType
  <2> QED
    BY <2>1, <2>2, <2>3
<1>6. orderBlocksFulfillment(order) => orderBlocksFulfillment(order')
  BY <1>5 DEF orderBlocksFulfillment, Money, Balanced
<1>7. order.status = "refunded" => \A l \in Lines : access[l] # "active" => access'[l] # "active"
  <2>1. order.status = "refunded" => ~Grants(d)
    BY DEF Grants, Doing, Opened
  <2>2. CASE Revokes(d) /\ jobs[d].line \in Lines
    BY <2>2, RevokeOnly DEF Revokes
  <2> QED
    BY <1>3, <2>1, <2>2
<1>8. ASSUME NEW w \in Webhooks, Done(w)
      PROVE  Done(w)'
  <2>1. w \in Refunds => order'.reversed >= Reversed[w]
    <3>1. w \in Refunds => Reversed[w] \in Nat
      BY Constants
    <3>2. order.reversed \in Nat /\ order'.reversed \in Nat
      BY Constants DEF TypeOK, OrderType
    <3> QED
      BY <1>8, <3>1, <3>2 DEF Done
  <2> QED
    BY <1>2, <1>4, <1>5, <1>6, <1>7, <1>8, <2>1 DEF Done
<1> QED
  BY <1>2, <1>4, <1>8

\* The runner of an event has done what it says.
LEMMA DeliveryDoes ==
  ASSUME TypeOK, Control, Exclusion, Settled, NEW d \in Deliveries, Step(d) \/ Fault(d),
         TypeOK', Money', order'.reversed >= order.reversed
  PROVE  \A e \in Deliveries : Doing(e)'
<1>1. Effect(d) /\ Only(d) /\ Stays(d) /\ jobs[d].step # "idle" /\ Money /\ MoneyOf(d) /\ Doing(d)
  BY Effects, DeliveryFits DEF Fits, Control, ControlOf, Settled, Money
<1>2. /\ order # NoOrder => order' # NoOrder
      /\ \A l \in Lines : access[l] # "none" => access'[l] # "none"
      /\ \A w \in Webhooks : Done(w) => Done(w)'
  BY <1>1, DoneStays
<1>3. /\ jobs[d].event \in Webhooks /\ jobs[d].stamp \in AllStamps
      /\ jobs[d].step \in PaidSteps => jobs[d].event \in Paid
      /\ jobs[d].step \in RefundSteps => jobs[d].event \in Refunds
      /\ jobs[d].step \in {"fulfil", "grant", "record", "revoke"} => jobs[d].line \in Lines
  BY <1>1, AtBusy
<1>4. ASSUME NEW e \in Deliveries, e # d
      PROVE  Doing(e)'
  <2>1. jobs'[e] = jobs[e] /\ Doing(e)
    BY <1>1, <1>4 DEF Only, Settled
  <2>2. (jobs[e].step = "mark" \/ jobs[e].result = "processed") => jobs[e].event \in Webhooks
    <3>1. jobs[e].step = "idle" => jobs[e].result # "processed"
      BY DEF Control, ControlOf, Idle
    <3> QED
      BY <3>1, AtBusy
  <2>3. CASE Locked(e)
    <3>1. ~Locked(d)
      BY <1>4, <2>3, Alone
    <3>2. UNCHANGED <<order, access>>
      <4>1. CASE Waits(d) \/ Takes(d)
        BY <4>1 DEF Waits, Takes
      <4> QED
        BY <1>1, <3>1, <4>1 DEF Effect, Frees, Drops, Leases, EndsLease, Finds, Persists, Completes, Fulfils,
           Grants, Records, Closes, Saves, Settles, FindsReversal, Reverses, Revokes,
           Locked, LockedSteps, PaidSteps, RefundSteps
    <3> QED
      BY <2>1, <3>2 DEF Doing, Granted, Done
  <2>4. CASE ~Locked(e)
    <3>1. jobs[e].step \notin {"persist_again", "fulfil", "grant", "record", "close", "reverse", "revoke", "mark"}
      BY <2>4 DEF Locked, LockedSteps, PaidSteps, RefundSteps
    <3>2. jobs[e].step \notin Opened
      BY <2>4 DEF Locked, LockedSteps, PaidSteps, Opened
    <3>3. jobs[e].result = "processed" => Done(jobs[e].event)'
      BY <1>2, <2>1, <2>2 DEF Doing, Done
    <3> QED
      BY <2>1, <3>1, <3>2, <3>3 DEF Doing, Done
  <2> QED
    BY <2>3, <2>4
<1> SUFFICES Doing(d)'
  BY <1>4
<1>5. PICK w \in Webhooks : w = jobs[d].event
  BY <1>3
<1>6. /\ w \in Paid => checkout # "absent"
      /\ jobs[d].step # "store" => jobs[d].copy # "processed"
      /\ jobs[d].result = "processed" => Done(w)'
  BY <1>1, <1>2, <1>5 DEF Settled, Answering, Doing
<1>7. ASSUME NEW step, NEW o, NEW line, NEW changed, NEW result \in {"error", jobs[d].copy, jobs[d].result},
             Becomes(d, step, o, line, result, changed), jobs[d].step # "store"
      PROVE  /\ jobs'[d].step = step /\ jobs'[d].line = line /\ jobs'[d].event = w
             /\ jobs'[d].result = "processed" => Done(w)'
  BY <1>5, <1>6, <1>7 DEF Becomes
<1>8. ASSUME jobs'[d].result = "processed" => jobs'[d].event = w /\ Done(w)',
             jobs'[d].step \notin Opened \cup {"persist_again", "reverse", "revoke", "mark"}
      PROVE  Doing(d)'
  BY <1>8 DEF Doing, Opened, Done
<1>27. ASSUME jobs'[d].event = w, Done(w)'
       PROVE  Done(jobs[d].event)'
  BY <1>27 DEF Done
<1>9. \A l \in 1..(1 - 1) : FALSE
  OBVIOUS
<1>10. CASE Waits(d)
  BY <1>8, <1>10 DEF Waits, Idle, Opened
<1>11. CASE Takes(d) \/ Frees(d) \/ Leases(d) \/ EndsLease(d)
  <2>1. CASE Ends(d)
    BY <1>8, <2>1 DEF Ends, Idle, Opened
  <2>2. CASE \E step \in {"lease", "find_reversal", "mark_failed", "find", "release"} : Goes(d, step)
    <3>1. PICK step \in {"lease", "find_reversal", "mark_failed", "find", "release"} : Goes(d, step)
      BY <2>2
    <3>2. /\ jobs'[d].step = step /\ jobs'[d].event = w
          /\ jobs'[d].result = "processed" => Done(w)'
      BY <1>7, <1>11, <3>1 DEF Goes, Takes, Frees, Leases, EndsLease
    <3> QED
      BY <1>8, <3>2 DEF Opened
  <2> QED
    BY <1>11, <2>1, <2>2 DEF Takes, Frees, Leases, EndsLease
<1>12. CASE Drops(d)
  <2>1. CASE Ends(d)
    BY <1>8, <2>1 DEF Ends, Idle, Opened
  <2>2. ASSUME NEW step \in {"mark_failed", "release", "progress", "fail_flow"},
               NEW result \in {"error", jobs[d].copy, jobs[d].result},
               Becomes(d, step, jobs[d].order, jobs[d].line, result, jobs[d].changed),
               step = "progress" => jobs[d].changed /\ jobs[d].step \in {"fulfil", "grant", "record"}
        PROVE  Doing(d)'
    <3>1. jobs[d].step # "store"
      BY <1>12 DEF Drops, Locked, LockedSteps, PaidSteps, RefundSteps
    <3>2. /\ jobs'[d].step = step /\ jobs'[d].event = w
          /\ jobs'[d].result = "processed" => Done(w)'
      BY <1>7, <2>2, <3>1
    <3>3. step = "progress" => order' # NoOrder /\ order'.status # "refunded"
      BY <1>1, <1>12, <2>2 DEF Drops, Doing, Opened
    <3> QED
      BY <2>2, <3>2, <3>3, <1>27 DEF Doing, Opened
  <2> QED
    BY <1>12, <2>1, <2>2 DEF Drops
<1>13. CASE Finds(d)
  <2>1. w \in Paid /\ jobs[d].step # "store"
    BY <1>3, <1>5, <1>13 DEF Finds, PaidSteps
  <2>2. jobs'[d].step \in {"persist", "release"}
    BY <1>6, <1>13, <2>1 DEF Finds, Enters, Becomes
  <2>3. jobs'[d].result = "processed" => jobs'[d].event = w /\ Done(w)'
    BY <1>7, <1>13, <2>1 DEF Finds, Enters
  <2> QED
    BY <1>8, <2>2, <2>3 DEF Opened
<1>14. CASE Persists(d)
  <2>1. w \in Paid /\ w \notin Refunds /\ jobs[d].step # "store"
    BY <1>3, <1>5, <1>14, Constants DEF Persists, PaidSteps
  <2>2. SameMoney(jobs[d].order, order) /\ Balanced(order) /\ jobs[d].order \in OrderType
    BY <1>1, <1>14, RowTyped DEF Persists, MoneyOf, Loaded, Money
  <2>3. ~(jobs[d].order = NoOrder /\ order # NoOrder)
    BY <2>2 DEF SameMoney, Balanced, NoOrder
  <2>4. PICK p \in OrderType : p = PaidOrder(jobs[d].order) /\ p.status # "none"
    BY <1>1, <2>2, PaidOrders, PaidBalances DEF MoneyOf
  <2>5. order' = p /\ Enters(d, IF orderBlocksFulfillment(p) THEN "mark" ELSE "complete_checkout", p)
    BY <1>14, <2>3, <2>4 DEF Persists
  <2>6. order' # NoOrder
    BY <2>4, <2>5 DEF NoOrder
  <2>7. /\ jobs'[d].event = w /\ (jobs'[d].result = "processed" => Done(w)')
    BY <1>7, <2>1, <2>5 DEF Enters
  <2>8. \/ jobs'[d].step = "release"
        \/ jobs'[d].step = "mark" /\ orderBlocksFulfillment(p)
        \/ jobs'[d].step = "complete_checkout" /\ ~orderBlocksFulfillment(p)
    BY <2>5 DEF Enters, Becomes
  <2>9. orderBlocksFulfillment(p) => Done(w)'
    BY <2>1, <2>5, <2>6 DEF Done
  <2>10. ~orderBlocksFulfillment(p) => order'.status # "refunded"
    BY <2>5 DEF orderBlocksFulfillment
  <2>11. jobs'[d].step = "mark" \/ jobs'[d].result = "processed" => Done(w)'
    BY <2>7, <2>8, <2>9
  <2> QED
    BY <2>6, <2>7, <2>8, <2>10, <2>11, <1>27 DEF Doing, Opened
<1>15. CASE Completes(d)
  <2>1. jobs[d].step # "store" /\ jobs[d].step \in Opened
    BY <1>15 DEF Completes, Opened
  <2>2. UNCHANGED order /\ order # NoOrder /\ order.status # "refunded"
    BY <1>1, <1>15, <2>1 DEF Completes, Doing
  <2>3. /\ jobs'[d].event = w /\ (jobs'[d].result = "processed" => Done(w)')
        /\ (jobs'[d].step = "fulfil" /\ jobs'[d].line = 1) \/ jobs'[d].step = "release"
    BY <1>7, <1>15, <2>1 DEF Completes, Enters
  <2> QED
    BY <1>9, <2>2, <2>3, <1>27 DEF Doing, Opened
<1>16. ASSUME jobs[d].step \in {"fulfil", "grant", "record"}, access'[jobs[d].line] # "none",
              order' # NoOrder, order'.status # "refunded",
              \/ LineGoes(d)
              \/ Becomes(d, NextOf(jobs[d].line), jobs[d].order, jobs[d].line + 1, jobs[d].result,
                         jobs[d].changed)
       PROVE  Doing(d)'
  <2>1. jobs[d].step # "store" /\ jobs[d].line \in Lines
    BY <1>3, <1>16
  <2>2. \A l \in 1..(jobs[d].line - 1) : access'[l] # "none"
    <3>1. \A l \in 1..(jobs[d].line - 1) : l \in Lines
      BY <2>1, Constants DEF Lines
    <3> QED
      BY <1>1, <1>2, <1>16, <3>1 DEF Doing, Granted
  <2>3. /\ \A l \in 1..((jobs[d].line + 1) - 1) : access'[l] # "none"
        /\ NextOf(jobs[d].line) = "close" => \A l \in Lines : access'[l] # "none"
        /\ NextOf(jobs[d].line) \in {"close", "fulfil"}
    BY <1>16, <2>1, <2>2, NextLine
  <2>4. CASE Becomes(d, NextOf(jobs[d].line), jobs[d].order, jobs[d].line + 1, jobs[d].result,
                     jobs[d].changed)
    <3>1. /\ jobs'[d].step = NextOf(jobs[d].line) /\ jobs'[d].line = jobs[d].line + 1
          /\ jobs'[d].event = w /\ (jobs'[d].result = "processed" => Done(w)')
      BY <1>7, <2>1, <2>4
    <3> QED
      BY <1>16, <2>3, <3>1, <1>27 DEF Doing, Granted, Opened
  <2>5. CASE \E o \in OrderType : Becomes(d, "record", o, jobs[d].line, jobs[d].result, TRUE)
    <3>1. /\ jobs'[d].step = "record" /\ jobs'[d].line = jobs[d].line
          /\ jobs'[d].event = w /\ (jobs'[d].result = "processed" => Done(w)')
      BY <1>7, <2>1, <2>5
    <3> QED
      BY <1>16, <2>2, <3>1, <1>27 DEF Doing, Granted, Opened
  <2> QED
    BY <1>16, <2>4, <2>5 DEF LineGoes
<1>17. CASE Fulfils(d)
  <2>1. UNCHANGED <<order, access>> /\ order # NoOrder /\ order.status # "refunded" /\ jobs[d].step = "fulfil"
    BY <1>1, <1>17 DEF Fulfils, kept, Doing, Opened
  <2>2. CASE access[jobs[d].line] # "none" /\ LineGoes(d)
    BY <1>16, <2>1, <2>2
  <2>3. CASE Goes(d, "grant")
    <3>1. /\ jobs'[d].step = "grant" /\ jobs'[d].line = jobs[d].line
          /\ jobs'[d].event = w /\ (jobs'[d].result = "processed" => Done(w)')
      BY <1>7, <2>1, <2>3 DEF Goes
    <3> QED
      BY <1>1, <2>1, <3>1, <1>27 DEF Doing, Granted, Opened
  <2> QED
    BY <1>17, <2>2, <2>3 DEF Fulfils
<1>18. CASE Grants(d)
  <2>1. /\ UNCHANGED order /\ order # NoOrder /\ order.status # "refunded" /\ jobs[d].step = "grant"
        /\ LineGoes(d) /\ jobs[d].line \in Lines
    BY <1>1, <1>3, <1>18 DEF Grants, Doing, Opened
  <2>2. access'[jobs[d].line] # "none"
    BY <1>18, <2>1 DEF Grants, TypeOK
  <2> QED
    BY <1>16, <2>1, <2>2
<1>19. CASE Records(d)
  <2>1. /\ order' = jobs[d].order /\ UNCHANGED access /\ order.status # "refunded"
        /\ jobs[d].step = "record" /\ access[jobs[d].line] # "none"
    BY <1>1, <1>19 DEF Records, kept, Doing, Opened, Granted
  <2>2. order'.status # "none" /\ order'.status # "refunded"
    BY <1>1, <2>1 DEF MoneyOf, SameMoney, Loaded, Opened
  <2>3. order' # NoOrder
    BY <2>2 DEF NoOrder
  <2> QED
    BY <1>16, <1>19, <2>1, <2>2, <2>3 DEF Records
<1>20. CASE Closes(d)
  <2>1. jobs[d].step = "close" /\ w \in Paid /\ w \notin Refunds /\ UNCHANGED access
    BY <1>3, <1>5, <1>20, Constants DEF Closes, kept, PaidSteps
  <2>2. (\A l \in Lines : access'[l] # "none") /\ order' # NoOrder
    BY <1>1, <1>2, <2>1 DEF Doing, Granted, Opened
  <2>3. Done(w)'
    BY <2>1, <2>2 DEF Done
  <2>4. jobs'[d].event = w /\ jobs'[d].step \in {"mark", "release"}
    BY <1>7, <1>20, <2>1 DEF Closes, Enters
  <2> QED
    BY <2>3, <2>4, <1>27 DEF Doing, Opened
<1>21. CASE Saves(d)
  <2>1. jobs'[d].step = "fail_flow" /\ jobs'[d].event = w /\ (jobs'[d].result = "processed" => Done(w)')
    BY <1>7, <1>21 DEF Saves, Goes
  <2> QED
    BY <1>8, <2>1 DEF Opened
<1>22. CASE Settles(d)
  <2>1. PICK status \in {"processed", "failed"} :
          /\ jobs[d].step = IF status = "processed" THEN "mark" ELSE "reject"
          /\ Becomes(d, IF jobs[d].event \notin Paid THEN "release"
                        ELSE IF status = "processed" THEN "complete" ELSE "fail_flow",
                     jobs[d].order, jobs[d].line, status, jobs[d].changed)
    BY <1>22 DEF Settles
  <2>2. status = "processed" => Done(w)'
    BY <1>1, <1>2, <1>5, <2>1 DEF Doing
  <2>3. /\ jobs'[d].event = w /\ jobs'[d].result = status
        /\ jobs'[d].step \in {"release", "complete", "fail_flow"}
    BY <1>5, <2>1 DEF Becomes
  <2> QED
    BY <1>8, <2>2, <2>3 DEF Opened
<1>23. CASE FindsReversal(d)
  <2>1. PICK step \in {"reject", "revoke", "reverse"} :
          /\ step = "reject" <=> order = NoOrder
          /\ step = "revoke" <=> order # NoOrder /\ order.payment = "refunded"
          /\ Becomes(d, step, order, 1, jobs[d].result, jobs[d].changed)
    BY <1>23 DEF FindsReversal
  <2>2. /\ jobs'[d].step = step /\ jobs'[d].line = 1
        /\ jobs'[d].event = w /\ (jobs'[d].result = "processed" => Done(w)')
    BY <1>7, <1>23, <2>1 DEF FindsReversal
  <2>3. UNCHANGED order /\ (step = "revoke" => order.status = "refunded")
    BY <1>1, <1>23, <2>1 DEF FindsReversal, Money, Balanced
  <2> QED
    BY <1>9, <2>1, <2>2, <2>3, <1>27 DEF Doing, Opened
<1>24. CASE Reverses(d)
  <2>1. w \in Refunds /\ w \notin Paid
    BY <1>3, <1>5, <1>24, Constants DEF Reverses, RefundSteps
  <2>2. /\ order'.status \in {"refunded", "partially_refunded"} /\ order'.reversed >= Reversed[w]
        /\ Reversed[w] = Total => order'.status = "refunded"
    BY <1>5, <1>24, <2>1, RefundBalances DEF Reverses
  <2>3. order' # NoOrder
    BY <2>2 DEF NoOrder
  <2>4. /\ jobs'[d].step = (IF order'.status = "refunded" THEN "revoke" ELSE "mark") /\ jobs'[d].line = 1
        /\ jobs'[d].event = w /\ (jobs'[d].result = "processed" => Done(w)')
    BY <1>7, <1>24 DEF Reverses
  <2>5. order'.status # "refunded" => Done(w)'
    BY <2>1, <2>2, <2>3 DEF Done
  <2> QED
    BY <1>9, <2>3, <2>4, <2>5, <1>27 DEF Doing, Opened
<1>25. CASE Revokes(d)
  <2>1. w \in Refunds /\ w \notin Paid /\ jobs[d].line \in Lines /\ UNCHANGED order
    BY <1>3, <1>5, <1>25, Constants DEF Revokes, RefundSteps
  <2>2. order.status = "refunded" /\ \A l \in 1..(jobs[d].line - 1) : access[l] # "active"
    BY <1>1, <1>25 DEF Revokes, Doing
  <2>3. /\ access'[jobs[d].line] # "active"
        /\ \A l \in Lines : access[l] # "active" => access'[l] # "active"
    BY <1>25, <2>1, RevokeOnly DEF Revokes
  <2>4. \A l \in 1..jobs[d].line : access'[l] # "active"
    <3>1. \A l \in 1..jobs[d].line : l = jobs[d].line \/ (l \in 1..(jobs[d].line - 1) /\ l \in Lines)
      BY <2>1, Constants DEF Lines
    <3> QED
      BY <2>2, <2>3, <3>1
  <2>5. CASE jobs[d].line = LineCount /\ Goes(d, "mark")
    <3>1. order.reversed >= Reversed[w] /\ order # NoOrder
      <4>1. order.reversed = Total
        BY <1>1, <2>2 DEF Money, Balanced
      <4>2. Reversed[w] \in 1..Total
        BY <2>1, Constants
      <4> QED
        BY <2>2, <4>1, <4>2, Constants DEF NoOrder
    <3>2. Done(w)'
      BY <2>1, <2>2, <2>4, <2>5, <3>1 DEF Done, Lines
    <3>3. jobs'[d].step = "mark" /\ jobs'[d].event = w
      BY <1>7, <1>25, <2>5 DEF Revokes, Goes
    <3> QED
      BY <3>2, <3>3, <1>27 DEF Doing, Opened
  <2>6. CASE Becomes(d, "revoke", jobs[d].order, jobs[d].line + 1, jobs[d].result, jobs[d].changed)
    <3>1. /\ jobs'[d].step = "revoke" /\ jobs'[d].line = jobs[d].line + 1
          /\ jobs'[d].event = w /\ (jobs'[d].result = "processed" => Done(w)')
      BY <1>7, <1>25, <2>6 DEF Revokes
    <3>2. (jobs[d].line + 1) - 1 = jobs[d].line
      BY <2>1, Constants DEF Lines
    <3> QED
      BY <2>1, <2>2, <2>4, <3>1, <3>2, <1>27 DEF Doing, Opened
  <2> QED
    BY <1>25, <2>5, <2>6 DEF Revokes
<1> QED
  BY <1>1, <1>10, <1>11, <1>12, <1>13, <1>14, <1>15, <1>17, <1>18, <1>19, <1>20, <1>21, <1>22, <1>23, <1>24,
     <1>25 DEF Effect

\* A receipt is given, and an event marked, only for what is done.
LEMMA DeliverySettles ==
  ASSUME TypeOK, Control, Exclusion, Settled, NEW d \in Deliveries, Step(d) \/ Fault(d), TypeOK'
  PROVE  Settled'
<1>1. Money' /\ order'.reversed >= order.reversed
  BY DeliveryMoney DEF Settled
<1>2. \A w \in Webhooks : Done(w) => Done(w)'
  BY <1>1, DoneStays DEF Settled
<1>3. (\A e \in Deliveries : Doing(e)') /\ Answering'
  BY <1>1, DeliveryDoes, DeliveryAnswers DEF Settled
<1>4. Notes(d) /\ jobs[d].step # "idle"
  BY StepNotes, Effects, DeliveryFits DEF Fits, Control, ControlOf
<1>5. /\ jobs[d].step # "store" => jobs[d].copy \in Results(jobs[d].event) \ {"processed"}
      /\ jobs[d].step # "store" => jobs[d].result \in Results(jobs[d].event) \cup {"error"}
  BY <1>4 DEF Settled, Answering
<1>6. jobs[d].step = "mark" \/ jobs[d].result = "processed" => Done(jobs[d].event)
  BY DEF Settled, Doing
<1>7. ASSUME NEW w \in Webhooks, webhooks'[w] = "processed" \/ answered'[w] = "receipt"
      PROVE  Done(w)
  <2>1. webhooks[w] = "processed" \/ answered[w] = "receipt" => Done(w)
    BY DEF Settled, SettledIsDone
  <2>2. ASSUME NEW result \in Results(w) \ {"processed"}
        PROVE  ~AnswersOK(w, result)
    BY <2>2, Constants DEF AnswersOK, Results, Webhooks
  <2>3. ~AnswersOK(w, IF w \in Paid THEN "failed_retryable" ELSE "failed")
    BY <2>2 DEF Results
  <2>4. CASE webhooks'[w] = "processed"
    BY <1>4, <1>6, <2>1, <2>4 DEF Notes
  <2>5. CASE answered'[w] = "receipt"
    <3>1. \/ answered[w] = "receipt"
          \/ /\ w = jobs[d].event
             /\ \/ jobs[d].step = "lock" /\ AnswersOK(w, jobs[d].copy)
                \/ jobs[d].step = "release" /\ AnswersOK(w, jobs[d].result) /\ jobs[d].result # "error"
      BY <1>4, <2>3, <2>5 DEF Notes
    <3> QED
      BY <1>5, <1>6, <2>1, <2>2, <3>1
  <2> QED
    BY <1>7, <2>4, <2>5
<1>8. \A w \in Webhooks : webhooks'[w] = "processed" \/ answered'[w] = "receipt" => Done(w)'
  BY <1>2, <1>7
<1> QED
  BY <1>1, <1>3, <1>8 DEF Settled, SettledIsDone

\* Nothing is asked for that is done already.
LEMMA ArrivalSettles ==
  ASSUME "early" \notin Conditions, TypeOK, Control, Settled, NEW d \in Deliveries, NEW w \in Webhooks,
         NEW s \in AllStamps, Deliver(d, w, s) \/ (Replay(d, w) /\ s = NewStamp(d))
  PROVE  (\A e \in Deliveries : Doing(e)') /\ Answering' /\ SettledIsDone'
<1>1. /\ UNCHANGED <<webhooks, order, access, checkout>>
      /\ \A v \in Webhooks : answered'[v] = answered[v] \/ answered'[v] = "duplicate"
      /\ UNCHANGED jobs \/ Arrives(d, w, s)
  BY ArrivalFits DEF stores
<1>2. w \in Paid => checkout # "absent"
  BY DEF Deliver, Replay, isReplayable, Settled, Answering
<1>3. SettledIsDone'
  BY <1>1 DEF Settled, SettledIsDone, Done
<1>4. CASE UNCHANGED jobs
  BY <1>1, <1>3, <1>4 DEF Settled, Doing, Done, Granted, Answering
<1>5. CASE Arrives(d, w, s)
  <2>1. /\ jobs'[d].step \in {"store", "lock"} /\ jobs'[d].event = w
        /\ jobs'[d].step = "store" <=> webhooks[w] = "absent"
        /\ jobs'[d].copy = webhooks[w] /\ jobs'[d].result = webhooks[w] /\ webhooks[w] # "processed"
        /\ \A e \in Deliveries \ {d} : jobs'[e] = jobs[e]
    BY <1>5 DEF Arrives, Only
  <2>2. Doing(d)'
    BY <2>1 DEF Doing, Opened
  <2>3. \A e \in Deliveries \ {d} : Doing(e)'
    BY <1>1, <2>1 DEF Settled, Doing, Done, Granted
  <2>4. webhooks[w] \in Results(w) \cup {"absent"}
    BY DEF Settled, Answering
  <2>5. \A e \in Deliveries \ {d} : jobs'[e].step # "idle" =>
          /\ jobs'[e].event \in Paid => checkout' # "absent" /\ jobs'[e].step # "reject"
          /\ jobs'[e].step = "store" => jobs'[e].copy = "absent"
          /\ jobs'[e].step # "store" =>
               /\ jobs'[e].copy \in Results(jobs'[e].event) \ {"processed"}
               /\ jobs'[e].result \in Results(jobs'[e].event) \cup {"error"}
    BY <1>1, <2>1 DEF Settled, Answering
  <2>6. Answering'
    BY <1>1, <1>2, <2>1, <2>4, <2>5 DEF Settled, Answering
  <2> QED
    BY <1>3, <2>2, <2>3, <2>6
<1> QED
  BY <1>1, <1>4, <1>5

\* Every step keeps what is settled done.
LEMMA NextSettles ==
  ASSUME Admins = {}, "early" \notin Conditions, TypeOK, Control, Exclusion, Settled, [Next]_vars, TypeOK'
  PROVE  Settled'
<1>1. Money'
  BY NextMoney DEF Settled
<1>2. CASE \E d \in Deliveries, w \in Webhooks, s \in AllStamps :
             Deliver(d, w, s) \/ (Replay(d, w) /\ s = NewStamp(d))
  BY <1>1, <1>2, ArrivalSettles DEF Settled
<1>3. CASE UNCHANGED <<webhooks, order, access, jobs, answered>> /\ (checkout # "absent" => checkout' # "absent")
  BY <1>1, <1>3 DEF Settled, Doing, Done, Granted, Answering, SettledIsDone
<1>4. CASE PersistCheckout \/ Tick \/ UNCHANGED vars
  BY <1>3, <1>4 DEF PersistCheckout, Tick, vars, stores
<1> QED
  BY <1>2, <1>4, Moves, DeliverySettles

\* Nothing is settled at the start.
LEMMA StartSettles ==
  ASSUME Init
  PROVE  Settled
<1>1. Money
  BY StartMoney
<1>2. \A d \in Deliveries : Doing(d)
  BY DEF Init, Idle, Doing, Opened
<1>3. /\ \A w \in Webhooks : webhooks[w] = "absent" /\ answered[w] = "no"
      /\ \A d \in Deliveries : jobs[d].step = "idle"
  BY DEF Init, Idle
<1>4. Answering /\ SettledIsDone
  BY <1>3 DEF Answering, SettledIsDone, Webhooks
<1> QED
  BY <1>1, <1>2, <1>4 DEF Settled

\* What is marked processed, or answered with 200, has been done and stays done,
\* for every number of events, deliveries, replays, lines and faults, as long as no
\* request outlives its lock.
THEOREM SettledStaysDone ==
  ASSUME Orderly, Admins = {}, "early" \notin Conditions
  PROVE  Spec => []SettledIsDone
<1>1. Init => TypeOK /\ Control /\ Exclusion /\ Settled
  BY StartShaped, StartExcludes, StartSettles
<1>2. TypeOK /\ Control /\ Exclusion /\ Settled /\ [Next]_vars => (TypeOK /\ Control /\ Exclusion /\ Settled)'
  BY NextShaped, NextExcludes, NextSettles
<1>3. Settled => SettledIsDone
  BY DEF Settled
<1> QED
  BY <1>1, <1>2, <1>3, PTL DEF Spec

----------------------------------------------------------------------------
(* What is blocked has no access *)

\* What was granted stays recorded as granted, active or revoked.
LEMMA GrantedStays ==
  ASSUME TypeOK, Control, NEW d \in Deliveries, Effect(d), jobs[d].step # "idle"
  PROVE  \A l \in Lines : access[l] # "none" => access'[l] # "none"
<1>1. CASE Grants(d) /\ jobs[d].line \in Lines
  BY <1>1 DEF Grants, TypeOK
<1>2. CASE Revokes(d) /\ jobs[d].line \in Lines
  BY <1>2, RevokeOnly DEF Revokes
<1> QED
  BY <1>1, <1>2, AccessMoves

\* The copies that a delivery puts or keeps record no line that was not granted.
LEMMA DeliveryRecords ==
  ASSUME TypeOK, Control, Recorded, NEW d \in Deliveries, Step(d) \/ Fault(d)
  PROVE  Recorded'
<1>1. Effect(d) /\ Only(d) /\ jobs[d].step # "idle" /\ UNCHANGED admins
  BY Effects, DeliveryFits DEF Fits, Control, ControlOf
<1>2. \A l \in Lines : access[l] # "none" => access'[l] # "none"
  BY <1>1, GrantedStays
<1>3. PICK filled \in SUBSET Lines : filled = {l \in Lines : access'[l] # "none"}
  OBVIOUS
<1>4. /\ order.filled \subseteq filled /\ \A e \in Deliveries : jobs[e].order.filled \subseteq filled
      /\ \A a \in Admins : admins[a].order.filled \subseteq filled
  BY <1>2, <1>3 DEF Recorded, Filled, Granted
<1>5. jobs[d].order \in OrderType /\ NoOrder.filled \subseteq filled
  BY RowTyped DEF NoOrder
<1>6. PaidOrder(jobs[d].order).filled \subseteq filled
  BY <1>4, <1>5, PaidOrders
<1>7. PICK p : p = [jobs[d].order EXCEPT !.done = TRUE]
  OBVIOUS
<1>8. p.filled \subseteq filled
  BY <1>4, <1>5, <1>7 DEF OrderType
<1>9. jobs[d].step = "reverse" => RefundedOrder(d).filled \subseteq filled
  <2>1. jobs[d].step = "reverse" => jobs[d].event \in Refunds
    BY AtBusy DEF RefundSteps
  <2> QED
    BY <1>4, <2>1, RefundBalances
<1>10. order'.filled \subseteq filled
  BY <1>1, <1>4, <1>6, <1>7, <1>8, <1>9 DEF Effect, Waits, Takes, Frees, Drops, Leases, EndsLease, Finds,
     Persists, Completes, Fulfils, Grants, Records, Closes, Saves, Settles, FindsReversal, Reverses, Revokes, kept
<1>11. jobs'[d].order.filled \subseteq filled
  <2>1. CASE Waits(d) \/ Takes(d) \/ Frees(d) \/ Drops(d)
    BY <1>4, <1>5, <2>1 DEF Waits, Takes, Frees, Drops, Ends, Goes, Becomes, Idle
  <2>2. CASE Leases(d) \/ EndsLease(d) \/ Finds(d) \/ Completes(d) \/ Closes(d)
    BY <1>4, <2>2 DEF Leases, EndsLease, Finds, Completes, Closes, Goes, Enters, Becomes
  <2>3. CASE Persists(d)
    BY <1>4, <1>6, <2>3 DEF Persists, Enters, Becomes
  <2>4. CASE Records(d) \/ Saves(d) \/ Settles(d) \/ FindsReversal(d) \/ Revokes(d)
    BY <1>4, <2>4 DEF Records, Saves, Settles, FindsReversal, Revokes, Goes, Becomes
  <2>5. CASE Reverses(d)
    BY <1>9, <2>5 DEF Reverses, Becomes
  <2>6. ASSUME LineGoes(d), jobs[d].line \in filled
        PROVE  jobs'[d].order.filled \subseteq filled
    <3>1. CASE Becomes(d, NextOf(jobs[d].line), jobs[d].order, jobs[d].line + 1, jobs[d].result, jobs[d].changed)
      BY <1>4, <3>1 DEF Becomes
    <3>2. ASSUME NEW o, o = [jobs[d].order EXCEPT !.filled = jobs[d].order.filled \cup {jobs[d].line}],
                 Becomes(d, "record", o, jobs[d].line, jobs[d].result, TRUE)
          PROVE  jobs'[d].order.filled \subseteq filled
      <4>1. o.filled = jobs[d].order.filled \cup {jobs[d].line}
        BY <1>5, <3>2 DEF OrderType
      <4> QED
        BY <1>4, <2>6, <3>2, <4>1 DEF Becomes
    <3> QED
      BY <2>6, <3>1, <3>2 DEF LineGoes
  <2>7. jobs[d].step \in {"fulfil", "grant"} => jobs[d].line \in Lines
    BY AtBusy
  <2>8. CASE Fulfils(d)
    <3>1. CASE access[jobs[d].line] # "none" /\ LineGoes(d)
      BY <1>2, <1>3, <2>6, <2>7, <2>8, <3>1 DEF Fulfils
    <3>2. CASE Goes(d, "grant")
      BY <1>4, <3>2 DEF Goes, Becomes
    <3> QED
      BY <2>8, <3>1, <3>2 DEF Fulfils
  <2>9. CASE Grants(d)
    <3>1. access'[jobs[d].line] = "active" /\ jobs[d].line \in Lines
      BY <2>7, <2>9 DEF Grants, TypeOK
    <3> QED
      BY <1>3, <2>6, <2>9, <3>1 DEF Grants
  <2> QED
    BY <1>1, <2>1, <2>2, <2>3, <2>4, <2>5, <2>8, <2>9 DEF Effect
<1>12. \A e \in Deliveries : jobs'[e].order.filled \subseteq filled
  BY <1>1, <1>4, <1>11 DEF Only
<1> QED
  BY <1>1, <1>3, <1>4, <1>10, <1>12 DEF Recorded, Filled, Granted

\* An administrator puts the lines of the order that was read.
LEMMA AdminRecords ==
  ASSUME TypeOK, Recorded, NEW a \in Admins, AdminFits(a)
  PROVE  Recorded'
<1>1. \A l \in Lines : access[l] # "none" => access'[l] # "none"
  <2>1. UNCHANGED access \/ (admins[a].line \in Lines /\ RevokeAccess(admins[a].line))
    BY DEF AdminFits
  <2> QED
    BY <2>1, RevokeOnly
<1>2. PICK filled \in SUBSET Lines : filled = {l \in Lines : access'[l] # "none"}
  OBVIOUS
<1>3. /\ order.filled \subseteq filled /\ \A e \in Deliveries : jobs[e].order.filled \subseteq filled
      /\ \A b \in Admins : admins[b].order.filled \subseteq filled
  BY <1>1, <1>2 DEF Recorded, Filled, Granted
<1>4. PICK row : row = [Rest EXCEPT !.step = "revoke", !.line = 1]
  OBVIOUS
<1>5. Rest.order.filled \subseteq filled /\ row.order.filled \subseteq filled
  BY <1>4 DEF Rest, NoOrder
<1>6. Put(a).filled \subseteq filled
  BY <1>3, PutTyped
<1>7. order'.filled \subseteq filled
  BY <1>3, <1>6 DEF AdminFits
<1>8. admins'[a].order.filled \subseteq filled
  BY <1>3, <1>4, <1>5 DEF AdminFits
<1>9. UNCHANGED jobs /\ \A b \in Admins \ {a} : admins'[b] = admins[b]
  BY DEF AdminFits
<1> QED
  BY <1>2, <1>3, <1>7, <1>8, <1>9 DEF Recorded, Filled, Granted

\* Who has leased a workflow has an active lease, since its request does not outlive it.
LEMMA LeaseHeld ==
  ASSUME TypeOK, Control, Exclusion, Leased, NEW d \in Deliveries, Leasing(jobs[d])
  PROVE  workflowHasActiveLease(d) /\ Locked(d)
<1>1. Locked(d) /\ jobs[d].step # "idle"
  BY DEF Leasing, Locked, LockedSteps, PaidSteps
<1>2. jobs[d] # Idle
  BY <1>1 DEF Idle
<1>3. flows[jobs[d].event] = [status |-> "running", lease |-> jobs[d].stamp, ends |-> jobs[d].at + LeaseTime]
  BY DEF Leased, LeasedTo
<1>4. jobs[d].at + LeaseTime > now
  BY <1>2, RowTyped, Constants DEF Exclusion, Timely, TypeOK
<1> QED
  BY <1>1, <1>3, <1>4 DEF workflowHasActiveLease, Event

\* Who has the lease had it before, or takes it.
LEMMA LeasedBefore ==
  ASSUME TypeOK, Control, NEW d \in Deliveries, Effect(d), jobs[d].step # "idle", ~Leases(d), Leasing(jobs'[d])
  PROVE  UNCHANGED flows /\ Leasing(jobs[d])
<1>1. /\ jobs[d].step \in PaidSteps => jobs[d].event \in Paid /\ jobs[d].event \notin Refunds
      /\ jobs[d].step \in RefundSteps => jobs[d].event \notin Paid
  BY AtBusy, Constants
<1>2. ~Waits(d) /\ ~Takes(d) /\ ~Frees(d) /\ ~EndsLease(d) /\ ~Saves(d)
  BY DEF Leasing, Waits, Takes, Frees, EndsLease, Saves, Ends, Goes, Becomes, Idle, PaidSteps
<1>3. CASE Drops(d)
  BY <1>3 DEF Leasing, Drops, Ends, Becomes, Idle, PaidSteps
<1>4. CASE Finds(d) \/ Persists(d) \/ Completes(d) \/ Closes(d)
  BY <1>4 DEF Leasing, Finds, Persists, Completes, Closes, PaidSteps, kept
<1>5. CASE Fulfils(d) \/ Grants(d) \/ Records(d)
  BY <1>5 DEF Leasing, Fulfils, Grants, Records, PaidSteps, kept
<1>6. CASE Settles(d)
  BY <1>6 DEF Leasing, Settles, Becomes, PaidSteps, kept
<1>7. ~FindsReversal(d) /\ ~Reverses(d) /\ ~Revokes(d)
  BY <1>1 DEF Leasing, FindsReversal, Reverses, Revokes, Goes, Becomes, PaidSteps, RefundSteps
<1> QED
  BY <1>2, <1>3, <1>4, <1>5, <1>6, <1>7 DEF Effect

\* An order that must not be fulfilled is not opened.
LEMMA OpensFree ==
  ASSUME TypeOK, Control, NEW d \in Deliveries, LeasedTo(d), Effect(d), jobs'[d].step \in Opened
  PROVE  ~orderBlocksFulfillment(jobs'[d].order)
<1>1. jobs[d].order \in OrderType /\ (jobs[d].step \in Opened => ~orderBlocksFulfillment(jobs[d].order))
  BY RowTyped DEF LeasedTo
<1>2. ~Waits(d) /\ ~Takes(d) /\ ~Frees(d) /\ ~Leases(d) /\ ~EndsLease(d)
  BY DEF Opened, Waits, Takes, Frees, Leases, EndsLease, Ends, Goes, Becomes, Idle
<1>3. ~Finds(d) /\ ~Closes(d) /\ ~Saves(d)
  BY DEF Opened, Finds, Closes, Saves, Goes, Enters, Becomes
<1>4. ~FindsReversal(d) /\ ~Reverses(d) /\ ~Revokes(d)
  BY DEF Opened, FindsReversal, Reverses, Revokes, Goes, Becomes
<1>5. CASE Settles(d)
  <2>1. jobs'[d].step \in {"release", "complete", "fail_flow"}
    BY <1>5 DEF Settles, Becomes
  <2> QED
    BY <2>1 DEF Opened
<1>6. CASE Drops(d)
  BY <1>1, <1>6 DEF Opened, Drops, Ends, Becomes, Idle
<1>7. CASE Persists(d)
  BY <1>7 DEF Opened, Persists, Enters, Becomes
<1>8. CASE Completes(d) \/ Records(d)
  BY <1>1, <1>8 DEF Opened, Completes, Records, Enters, Becomes
<1>9. CASE Goes(d, "grant") /\ jobs[d].step \in Opened
  BY <1>1, <1>9 DEF Goes, Becomes
<1>10. CASE LineGoes(d) /\ jobs[d].step \in Opened
  <2>1. CASE Becomes(d, NextOf(jobs[d].line), jobs[d].order, jobs[d].line + 1, jobs[d].result, jobs[d].changed)
    BY <1>1, <1>10, <2>1 DEF Becomes
  <2>2. ASSUME NEW o, o = [jobs[d].order EXCEPT !.filled = jobs[d].order.filled \cup {jobs[d].line}],
               Becomes(d, "record", o, jobs[d].line, jobs[d].result, TRUE)
        PROVE  ~orderBlocksFulfillment(jobs'[d].order)
    <3>1. o.status = jobs[d].order.status
      BY <1>1, <2>2 DEF OrderType
    <3> QED
      BY <1>1, <1>10, <2>2, <3>1 DEF Becomes, orderBlocksFulfillment
  <2> QED
    BY <1>10, <2>1, <2>2 DEF LineGoes
<1>11. CASE Fulfils(d) \/ Grants(d)
  BY <1>9, <1>10, <1>11 DEF Fulfils, Grants, Opened
<1> QED
  BY <1>2, <1>3, <1>4, <1>5, <1>6, <1>7, <1>8, <1>11 DEF Effect

\* A delivery keeps the lease of its workflow while it needs it.
LEMMA DeliveryLeases ==
  ASSUME TypeOK, Control, Exclusion, Leased, NEW d \in Deliveries, Step(d) \/ Fault(d)
  PROVE  Leased'
<1>1. Effect(d) /\ Only(d) /\ Stays(d) /\ jobs[d].step # "idle" /\ LeasedTo(d)
  BY Effects, DeliveryFits DEF Fits, Control, ControlOf, Leased
<1>2. jobs'[d].step \in Opened => ~orderBlocksFulfillment(jobs'[d].order)
  BY <1>1, OpensFree
<1>3. ASSUME Leasing(jobs'[d])
      PROVE  flows'[jobs'[d].event]
               = [status |-> "running", lease |-> jobs'[d].stamp, ends |-> jobs'[d].at + LeaseTime]
  <2>1. jobs'[d] # Idle
    BY <1>3 DEF Leasing, Idle, PaidSteps
  <2>2. jobs'[d].event = jobs[d].event /\ jobs'[d].stamp = jobs[d].stamp /\ jobs'[d].at = jobs[d].at
    BY <1>1, <2>1 DEF Stays
  <2>3. CASE Leases(d)
    <3>1. jobs[d].event \in Paid
      BY <2>3, AtBusy DEF Leases, PaidSteps
    <3> QED
      BY <2>2, <2>3, <3>1 DEF Leases, TypeOK
  <2>4. CASE ~Leases(d)
    <3>1. UNCHANGED flows /\ Leasing(jobs[d])
      BY <1>1, <1>3, <2>4, LeasedBefore
    <3> QED
      BY <1>1, <2>2, <3>1 DEF LeasedTo
  <2> QED
    BY <2>3, <2>4
<1>4. LeasedTo(d)'
  BY <1>2, <1>3 DEF LeasedTo
<1>5. ASSUME NEW e \in Deliveries \ {d}
      PROVE  LeasedTo(e)'
  <2>1. jobs'[e] = jobs[e] /\ LeasedTo(e)
    BY <1>1 DEF Only, Leased
  <2>2. CASE UNCHANGED flows
    BY <2>1, <2>2 DEF LeasedTo
  <2>3. CASE Leases(d) \/ EndsLease(d)
    <3>1. Locked(d)
      BY <2>3 DEF Leases, EndsLease, Locked, LockedSteps, PaidSteps
    <3>2. ~Leasing(jobs[e])
      BY <3>1, LeaseHeld, Alone
    <3> QED
      BY <2>1, <3>2 DEF LeasedTo
  <2> QED
    BY <1>1, <2>2, <2>3 DEF Effect, Waits, Takes, Frees, Drops, Finds, Persists, Completes, Fulfils, Grants,
       Records, Closes, Saves, Settles, FindsReversal, Reverses, Revokes, kept
<1> QED
  BY <1>4, <1>5 DEF Leased

\* Faults are counted and never forgotten.
LEMMA FaultsCount ==
  ASSUME TypeOK, NEW d \in Deliveries, Step(d) \/ Fault(d)
  PROVE  faults' = 0 => faults = 0
<1>1. faults \in Nat
  BY Constants DEF TypeOK
<1>2. CASE Fault(d)
  BY <1>1, <1>2 DEF Fault, Throw, ReleaseThrows, Crash
<1>3. CASE \/ Store(d) \/ AcquireLock(d) \/ ReleaseLock(d) \/ MarkFailed(d)
           \/ LeaseWorkflow(d) \/ LeaseEnds(d) \/ CompleteWorkflow(d) \/ FailWorkflow(d)
  BY <1>3 DEF Store, AcquireLock, ReleaseLock, MarkFailed, LeaseWorkflow, LeaseEnds, CompleteWorkflow,
     FailWorkflow
<1>4. CASE \/ FindOrder(d) \/ PersistOrder(d) \/ CompleteCheckout(d) \/ FulfilLine(d) \/ GrantLine(d)
           \/ RecordLine(d) \/ CloseOrder(d) \/ PersistProgress(d)
  BY <1>4 DEF FindOrder, PersistOrder, CompleteCheckout, FulfilLine, GrantLine, RecordLine, CloseOrder,
     PersistProgress
<1>5. CASE MarkProcessed(d) \/ Reject(d) \/ FindReversal(d) \/ ReverseOrder(d) \/ RevokeLine(d)
  BY <1>5 DEF MarkProcessed, Reject, FindReversal, ReverseOrder, RevokeLine
<1> QED
  BY <1>2, <1>3, <1>4, <1>5 DEF Step

\* A step that puts no order, gives no access and only gives up a line that it revoked
\* leaves what is blocked covered.
LEMMA CoverStays ==
  ASSUME Covered, NEW d \in Deliveries, Only(d), UNCHANGED <<order, admins>>, faults' = 0 => faults = 0,
         \A l \in Lines : access'[l] = "active" => access[l] = "active",
         \A l \in Lines : access'[l] = "active" /\ jobs[d].step = "revoke" /\ jobs[d].line <= l
                            => jobs'[d].step = "revoke" /\ jobs'[d].line <= l,
         faults' = 0 /\ Unblocks(d) => Unblocks(d)',
         faults' = 0 /\ jobs'[d].step \in {"persist", "persist_again"} /\ orderBlocksFulfillment(jobs'[d].order)
           => \A l \in Lines : access[l] = "active" => Revoking(l)
  PROVE  Covered'
<1>1. \A e \in Deliveries \ {d} : jobs'[e] = jobs[e]
  BY DEF Only
<1>2. ASSUME NEW l \in Lines, access'[l] = "active", Revoking(l)
      PROVE  Revoking(l)'
  BY <1>1, <1>2 DEF Revoking
<1>3. ASSUME faults' = 0, NEW e \in Deliveries, Unblocks(e)
      PROVE  Unblocks(e)'
  BY <1>1, <1>3 DEF Unblocks
<1>4. ASSUME faults' = 0, orderBlocksFulfillment(order'), NEW l \in Lines, access'[l] = "active"
      PROVE  Revoking(l)' \/ \E e \in Deliveries : Unblocks(e)'
  <2>1. Revoking(l) \/ \E e \in Deliveries : Unblocks(e)
    BY <1>4 DEF Covered
  <2> QED
    BY <1>2, <1>3, <1>4, <2>1
<1>5. ASSUME faults' = 0, NEW e \in Deliveries, jobs'[e].step \in {"persist", "persist_again"},
             orderBlocksFulfillment(jobs'[e].order), NEW l \in Lines, access'[l] = "active"
      PROVE  Revoking(l)'
  <2>1. Revoking(l)
    BY <1>1, <1>5 DEF Covered
  <2> QED
    BY <1>2, <1>5, <2>1
<1> QED
  BY <1>4, <1>5 DEF Covered

\* A step with the lock: nobody else puts the order as it was.
LEMMA CoverAlone ==
  ASSUME TypeOK, Control, Exclusion, NEW d \in Deliveries, Only(d), Locked(d),
         jobs'[d].step \notin {"persist", "persist_again"},
         faults' = 0 /\ orderBlocksFulfillment(order')
           => \A l \in Lines : access'[l] = "active" => Revoking(l)' \/ \E e \in Deliveries : Unblocks(e)'
  PROVE  Covered'
<1>1. ASSUME NEW e \in Deliveries, e # d
      PROVE  jobs'[e].step \notin {"persist", "persist_again"}
  <2>1. jobs'[e] = jobs[e] /\ ~Locked(e)
    BY <1>1, Alone DEF Only
  <2> QED
    BY <2>1 DEF Locked, LockedSteps, PaidSteps
<1> QED
  BY <1>1 DEF Covered

\* A delivery leaves no access to a blocked order that nobody is about to revoke.
LEMMA DeliveryCovers ==
  ASSUME TypeOK, Control, Exclusion, Guarded, NEW d \in Deliveries, Step(d) \/ Fault(d)
  PROVE  Covered'
<1>1. /\ Effect(d) /\ Only(d) /\ jobs[d].step # "idle" /\ UNCHANGED admins /\ Covered
      /\ LeasedTo(d) /\ jobs[d].order \in OrderType
  BY Effects, DeliveryFits, RowTyped DEF Fits, Control, ControlOf, Guarded, Leased
<1>2. /\ jobs[d].step \in PaidSteps => jobs[d].event \in Paid /\ jobs[d].event \notin Refunds
      /\ jobs[d].step \in RefundSteps => jobs[d].event \in Refunds
      /\ jobs[d].step \in {"fulfil", "grant", "record", "revoke"} => jobs[d].line \in Lines
  BY <1>1, AtBusy, Constants
<1>3. jobs[d].step \in Opened => ~orderBlocksFulfillment(jobs[d].order)
  BY <1>1 DEF LeasedTo
<1>4. ASSUME Locked(d), ~Unblocks(d), faults = 0, orderBlocksFulfillment(order), NEW l \in Lines,
             access[l] = "active"
      PROVE  Revoking(l)
  <2>1. \A e \in Deliveries : ~Unblocks(e)
    <3>1. \A e \in Deliveries : Unblocks(e) => Locked(e)
      BY DEF Unblocks, Locked, LockedSteps, PaidSteps
    <3> QED
      BY <1>4, <3>1, Alone
  <2> QED
    BY <1>1, <1>4, <2>1 DEF Covered
<1>5. ASSUME UNCHANGED <<order, access, faults>>, jobs[d].step # "revoke", ~Unblocks(d),
             jobs'[d].step \notin {"persist", "persist_again"}
      PROVE  Covered'
  BY <1>1, <1>5, CoverStays
<1>6. CASE Waits(d)
  <2>1. /\ UNCHANGED <<order, access>> /\ ~Unblocks(d) /\ jobs[d].step # "revoke"
        /\ jobs'[d].step \notin {"persist", "persist_again"}
    BY <1>6 DEF Waits, Unblocks, Idle
  <2>2. faults' = 0 => faults = 0
    BY <1>1, FaultsCount
  <2> QED
    BY <1>1, <2>1, <2>2, CoverStays
<1>7. CASE Takes(d) \/ Frees(d) \/ Leases(d) \/ EndsLease(d)
  <2>1. /\ UNCHANGED <<order, access, faults>> /\ ~Unblocks(d) /\ jobs[d].step # "revoke"
    BY <1>7 DEF Takes, Frees, Leases, EndsLease, Unblocks
  <2>2. jobs'[d].step \notin {"persist", "persist_again"}
    BY <1>7 DEF Takes, Frees, Leases, EndsLease, Ends, Goes, Becomes, Idle
  <2> QED
    BY <1>5, <2>1, <2>2
<1>8. CASE Settles(d)
  <2>1. /\ UNCHANGED <<order, access, faults>> /\ ~Unblocks(d) /\ jobs[d].step # "revoke"
    BY <1>8 DEF Settles, kept, Unblocks
  <2>2. jobs'[d].step \notin {"persist", "persist_again"}
    BY <1>8 DEF Settles, Becomes
  <2> QED
    BY <1>5, <2>1, <2>2
<1>9. CASE FindsReversal(d) \/ Completes(d)
  <2>1. /\ UNCHANGED <<order, access, faults>> /\ ~Unblocks(d) /\ jobs[d].step # "revoke"
    BY <1>9 DEF FindsReversal, Completes, kept, Unblocks
  <2>2. jobs'[d].step \notin {"persist", "persist_again"}
    BY <1>9 DEF FindsReversal, Completes, Enters, Becomes
  <2> QED
    BY <1>5, <2>1, <2>2
<1>10. CASE Drops(d)
  <2>1. CASE faults' # 0
    BY <2>1 DEF Covered
  <2>2. CASE faults' = 0
    <3>1. faults \in Nat /\ faults' # faults + 1 /\ UNCHANGED <<faults, order, access>>
      BY <1>10, <2>2, Constants DEF Drops, TypeOK
    <3>2. ~(jobs[d].event \in Paid /\ jobs[d].step \in WorkflowSteps \cup {"complete"} /\ ~workflowHasActiveLease(d))
      <4>1. jobs[d].event \in Paid /\ jobs[d].step \in WorkflowSteps \cup {"complete"} => Leasing(jobs[d])
        BY DEF WorkflowSteps, Leasing, PaidSteps
      <4> QED
        BY <4>1, LeaseHeld DEF Guarded
    <3>3. jobs[d].step \in {"lease", "fail_flow"}
      BY <1>10, <3>1, <3>2 DEF Drops
    <3>4. ~Unblocks(d) /\ jobs[d].step # "revoke"
      BY <3>3 DEF Unblocks
    <3>5. jobs'[d].step \notin {"persist", "persist_again"}
      BY <1>10 DEF Drops, Ends, Becomes, Idle
    <3> QED
      BY <1>5, <3>1, <3>4, <3>5
  <2> QED
    BY <2>1, <2>2
<1>11. ASSUME UNCHANGED <<order, access, faults>>, jobs[d].step \in {"find", "persist", "persist_again"},
              jobs'[d].order = order
       PROVE  Covered'
  <2>1. Locked(d) /\ ~Unblocks(d)
    BY <1>11 DEF Locked, LockedSteps, PaidSteps, Unblocks
  <2>2. faults' = 0 /\ jobs'[d].step \in {"persist", "persist_again"} /\ orderBlocksFulfillment(jobs'[d].order)
          => \A l \in Lines : access[l] = "active" => Revoking(l)
    BY <1>4, <1>11, <2>1
  <2> QED
    BY <1>1, <1>11, <2>1, <2>2, CoverStays
<1>12. CASE Finds(d)
  <2>1. /\ UNCHANGED <<order, access, faults>> /\ jobs[d].step = "find" /\ ~Unblocks(d)
        /\ jobs'[d].order = order \/ jobs'[d].step = "release"
    BY <1>12 DEF Finds, kept, Enters, Becomes, Unblocks
  <2> QED
    BY <1>5, <1>11, <2>1
<1>13. CASE Persists(d)
  <2>1. UNCHANGED <<access, faults>> /\ jobs[d].step \in {"persist", "persist_again"} /\ Locked(d)
    BY <1>13 DEF Persists, kept, Locked, LockedSteps, PaidSteps
  <2>2. CASE UNCHANGED order /\ Becomes(d, "persist_again", order, 1, jobs[d].result, jobs[d].changed)
    BY <1>11, <2>1, <2>2 DEF Becomes
  <2>3. CASE /\ order' = PaidOrder(jobs[d].order)
             /\ Enters(d, IF orderBlocksFulfillment(PaidOrder(jobs[d].order)) THEN "mark"
                          ELSE "complete_checkout", PaidOrder(jobs[d].order))
    <3>1. jobs'[d].step \notin {"persist", "persist_again"}
      BY <2>3 DEF Enters, Becomes
    <3>2. orderBlocksFulfillment(order') => orderBlocksFulfillment(jobs[d].order)
      BY <1>1, <2>3, PaidOrders DEF orderBlocksFulfillment, Terminal
    <3>3. ASSUME faults' = 0, orderBlocksFulfillment(order'), NEW l \in Lines, access'[l] = "active"
          PROVE  Revoking(l)'
      <4>1. Revoking(l)
        BY <1>1, <2>1, <3>2, <3>3 DEF Covered
      <4>2. jobs[d].step # "revoke" /\ \A e \in Deliveries \ {d} : jobs'[e] = jobs[e]
        BY <1>1, <2>1 DEF Only
      <4> QED
        BY <1>1, <4>1, <4>2 DEF Revoking
    <3> QED
      BY <1>1, <2>1, <3>1, <3>3, CoverAlone
  <2> QED
    BY <1>13, <2>2, <2>3 DEF Persists
<1>14. ASSUME jobs[d].step \in Opened, jobs'[d].step \notin {"persist", "persist_again"},
              order'.status = jobs[d].order.status
       PROVE  Covered'
  <2>1. Locked(d) /\ ~orderBlocksFulfillment(order')
    BY <1>3, <1>14 DEF Opened, Locked, LockedSteps, PaidSteps, orderBlocksFulfillment
  <2> QED
    BY <1>1, <1>14, <2>1, CoverAlone
<1>15. CASE Records(d) \/ Saves(d)
  <2>1. jobs[d].step \in Opened /\ order' = jobs[d].order /\ jobs'[d].step \notin {"persist", "persist_again"}
    BY <1>15 DEF Records, Saves, Goes, Becomes, Opened, NextOf
  <2> QED
    BY <1>14, <2>1
<1>16. CASE Closes(d)
  <2>1. /\ jobs[d].step \in Opened /\ jobs'[d].step \notin {"persist", "persist_again"} /\ jobs[d].step = "close"
        /\ UNCHANGED <<access, faults>>
    BY <1>16 DEF Closes, kept, Enters, Becomes, Opened
  <2>2. CASE order' = [jobs[d].order EXCEPT !.done = TRUE]
    <3>1. order'.status = jobs[d].order.status
      BY <1>1, <2>2 DEF OrderType
    <3> QED
      BY <1>14, <2>1, <3>1
  <2>3. CASE UNCHANGED order /\ ~jobs[d].changed
    <3>1. ~Unblocks(d) /\ jobs[d].step # "revoke"
      BY <2>1, <2>3 DEF Unblocks
    <3> QED
      BY <1>5, <2>1, <2>3, <3>1
  <2> QED
    BY <1>16, <2>2, <2>3 DEF Closes
<1>17. ASSUME jobs[d].step \in {"fulfil", "grant"}, jobs'[d].step = "record"
       PROVE  Covered'
  <2>1. Locked(d) /\ Unblocks(d)'
    BY <1>17 DEF Locked, LockedSteps, PaidSteps, Unblocks
  <2> QED
    BY <1>1, <1>17, <2>1, CoverAlone
<1>18. CASE Fulfils(d)
  <2>1. jobs[d].step = "fulfil" /\ UNCHANGED <<order, access, faults>>
    BY <1>18 DEF Fulfils, kept
  <2>2. ASSUME jobs'[d].step \in {"fulfil", "grant", "close"}, jobs'[d].changed = jobs[d].changed
        PROVE  Covered'
    <3>1. (Unblocks(d) => Unblocks(d)') /\ jobs'[d].step \notin {"persist", "persist_again"}
      BY <2>1, <2>2 DEF Unblocks
    <3> QED
      BY <1>1, <2>1, <3>1, CoverStays
  <2>3. CASE Goes(d, "grant")
    BY <2>2, <2>3 DEF Goes, Becomes
  <2>4. CASE LineGoes(d)
    BY <1>17, <2>1, <2>2, <2>4 DEF LineGoes, Becomes, NextOf
  <2> QED
    BY <1>18, <2>3, <2>4 DEF Fulfils
<1>19. CASE Grants(d)
  <2>1. jobs[d].step = "grant" /\ access[jobs[d].line] = "none"
    BY <1>19 DEF Grants, Guarded, GrantsOnce
  <2>2. jobs[d].line \notin jobs[d].order.filled
    BY <2>1 DEF Guarded, Recorded, Filled, Granted
  <2>3. jobs'[d].step = "record"
    BY <1>19, <2>2 DEF Grants, LineGoes, Becomes
  <2> QED
    BY <1>17, <2>1, <2>3
<1>20. CASE Reverses(d)
  <2>1. /\ order' = RefundedOrder(d) /\ jobs[d].step = "reverse" /\ Locked(d)
        /\ jobs'[d].step = (IF RefundedOrder(d).status = "refunded" THEN "revoke" ELSE "mark")
        /\ jobs'[d].line = 1
    BY <1>20 DEF Reverses, Becomes, Locked, LockedSteps, RefundSteps
  <2>2. RefundedOrder(d).status \in {"refunded", "partially_refunded"}
    BY <1>2, <2>1, RefundBalances DEF RefundSteps
  <2>3. ASSUME orderBlocksFulfillment(order'), NEW l \in Lines
        PROVE  Revoking(l)'
    <3>1. jobs'[d].step = "revoke" /\ jobs'[d].line <= l
      BY <2>1, <2>2, <2>3 DEF orderBlocksFulfillment, Lines
    <3> QED
      BY <3>1 DEF Revoking
  <2> QED
    BY <1>1, <2>1, <2>3, CoverAlone
<1>21. CASE Revokes(d)
  <2>1. /\ UNCHANGED <<order, faults>> /\ jobs[d].step = "revoke" /\ jobs[d].line \in Lines
        /\ RevokeAccess(jobs[d].line) /\ ~Unblocks(d)
    BY <1>2, <1>21 DEF Revokes, Unblocks
  <2>2. /\ \A l \in Lines : access'[l] = "active" => access[l] = "active" /\ l # jobs[d].line
        /\ jobs'[d].step \in {"mark", "revoke"}
    BY <1>21, <2>1, RevokeOnly DEF Revokes, Goes, Becomes
  <2>3. ASSUME NEW l \in Lines, access'[l] = "active", jobs[d].line <= l
        PROVE  jobs'[d].step = "revoke" /\ jobs'[d].line <= l
    <3>1. l \in 1..LineCount /\ jobs[d].line \in 1..LineCount /\ l # jobs[d].line
      BY <2>1, <2>2, <2>3 DEF Lines
    <3>2. jobs[d].line # LineCount /\ jobs[d].line + 1 <= l
      BY <2>3, <3>1, Constants
    <3> QED
      BY <1>21, <3>2 DEF Revokes, Becomes
  <2> QED
    BY <1>1, <2>1, <2>2, <2>3, CoverStays
<1> QED
  BY <1>1, <1>6, <1>7, <1>8, <1>9, <1>10, <1>12, <1>13, <1>15, <1>16, <1>18, <1>19, <1>20, <1>21 DEF Effect

\* An administrator who puts an order that is blocked goes on to revoke every line.
LEMMA AdminCovers ==
  ASSUME TypeOK, Covered, NEW a \in Admins, AdminFits(a)
  PROVE  Covered'
<1>1. /\ UNCHANGED <<jobs, faults>> /\ \A b \in Admins \ {a} : admins'[b] = admins[b]
  BY DEF AdminFits
<1>2. \A e \in Deliveries : Unblocks(e) => Unblocks(e)'
  BY <1>1 DEF Unblocks
<1>3. ASSUME \A l \in Lines : access'[l] = "active" => access[l] = "active",
             \A l \in Lines : access'[l] = "active" /\ admins[a].step = "revoke" /\ admins[a].line <= l
                               => admins'[a].step = "revoke" /\ admins'[a].line <= l
      PROVE  \A l \in Lines : access'[l] = "active" /\ Revoking(l) => Revoking(l)'
  BY <1>1, <1>3 DEF Revoking
<1>4. ASSUME \A l \in Lines : access'[l] = "active" => access[l] = "active",
             \A l \in Lines : access'[l] = "active" /\ Revoking(l) => Revoking(l)',
             \/ UNCHANGED order
             \/ ~orderBlocksFulfillment(order')
             \/ \A l \in Lines : Revoking(l)'
      PROVE  Covered'
  <2>1. ASSUME faults' = 0, orderBlocksFulfillment(order'), NEW l \in Lines, access'[l] = "active"
        PROVE  Revoking(l)' \/ \E e \in Deliveries : Unblocks(e)'
    <3>1. CASE UNCHANGED order
      <4>1. Revoking(l) \/ \E e \in Deliveries : Unblocks(e)
        BY <1>1, <1>4, <2>1, <3>1 DEF Covered
      <4> QED
        BY <1>2, <1>4, <2>1, <4>1
    <3> QED
      BY <1>4, <2>1, <3>1
  <2>2. ASSUME faults' = 0, NEW e \in Deliveries, jobs'[e].step \in {"persist", "persist_again"},
               orderBlocksFulfillment(jobs'[e].order), NEW l \in Lines, access'[l] = "active"
        PROVE  Revoking(l)'
    <3>1. Revoking(l)
      BY <1>1, <1>4, <2>2 DEF Covered
    <3> QED
      BY <1>4, <2>2, <3>1
  <2> QED
    BY <2>1, <2>2 DEF Covered
<1>5. CASE UNCHANGED <<order, access>> /\ admins[a].step # "revoke"
  BY <1>3, <1>4, <1>5
<1>6. CASE /\ admins[a].step = "put" /\ order' = Put(a) /\ UNCHANGED access
           /\ admins'[a] = IF orderBlocksFulfillment(Put(a)) THEN [Rest EXCEPT !.step = "revoke", !.line = 1]
                           ELSE Rest
  <2>1. \A l \in Lines : access'[l] = "active" /\ Revoking(l) => Revoking(l)'
    BY <1>3, <1>6
  <2>2. ASSUME orderBlocksFulfillment(Put(a)), NEW l \in Lines
        PROVE  Revoking(l)'
    <3>1. PICK row : row = [Rest EXCEPT !.step = "revoke", !.line = 1]
      OBVIOUS
    <3>2. row.step = "revoke" /\ row.line = 1
      BY <3>1 DEF Rest
    <3>3. admins'[a].step = "revoke" /\ admins'[a].line <= l
      BY <1>6, <2>2, <3>1, <3>2 DEF Lines
    <3> QED
      BY <3>3 DEF Revoking
  <2> QED
    BY <1>4, <1>6, <2>1, <2>2
<1>7. CASE /\ admins[a].step = "revoke" /\ admins[a].line \in Lines /\ UNCHANGED order
           /\ RevokeAccess(admins[a].line)
           /\ \/ admins[a].line = LineCount /\ admins'[a] = Rest
              \/ /\ admins[a].line # LineCount
                 /\ admins'[a].step = "revoke" /\ admins'[a].line = admins[a].line + 1
                 /\ admins'[a].order = admins[a].order
  <2>1. \A l \in Lines : access'[l] = "active" => access[l] = "active" /\ l # admins[a].line
    BY <1>7, RevokeOnly
  <2>2. ASSUME NEW l \in Lines, access'[l] = "active", admins[a].line <= l
        PROVE  admins'[a].step = "revoke" /\ admins'[a].line <= l
    <3>1. l \in 1..LineCount /\ admins[a].line \in 1..LineCount /\ l # admins[a].line
      BY <1>7, <2>1, <2>2 DEF Lines
    <3>2. admins[a].line # LineCount /\ admins[a].line + 1 <= l
      BY <2>2, <3>1, Constants
    <3> QED
      BY <1>7, <3>2
  <2>3. \A l \in Lines : access'[l] = "active" /\ Revoking(l) => Revoking(l)'
    BY <1>3, <2>1, <2>2
  <2> QED
    BY <1>4, <1>7, <2>1, <2>3
<1>8. Rest.step # "revoke"
  BY DEF Rest
<1> QED
  BY <1>5, <1>6, <1>7, <1>8 DEF AdminFits

\* Every step keeps what is blocked covered.
LEMMA NextGuards ==
  ASSUME TypeOK, Control, Exclusion, Guarded, [Next]_vars
  PROVE  Guarded'
<1>1. GrantsOnce'
  BY NextRevokes DEF Guarded
<1>2. CASE \E d \in Deliveries, w \in Webhooks, s \in AllStamps :
             Deliver(d, w, s) \/ (Replay(d, w) /\ s = NewStamp(d))
  <2>1. PICK d \in Deliveries, w \in Webhooks, s \in AllStamps :
          Deliver(d, w, s) \/ (Replay(d, w) /\ s = NewStamp(d))
    BY <1>2
  <2>2. /\ UNCHANGED <<order, access, flows, admins, faults>> /\ jobs[d] = Idle
        /\ UNCHANGED jobs \/ Arrives(d, w, s)
    BY <2>1, ArrivalFits DEF stores
  <2>3. CASE UNCHANGED jobs
    BY <1>1, <2>2, <2>3 DEF Guarded, Recorded, Filled, Granted, Leased, LeasedTo, Covered, Revoking, Unblocks
  <2>4. CASE Arrives(d, w, s)
    <3>1. Only(d) /\ jobs'[d].step \in {"store", "lock"} /\ jobs'[d].order = NoOrder
      BY <2>4 DEF Arrives
    <3>2. \A e \in Deliveries \ {d} : jobs'[e] = jobs[e]
      BY <3>1 DEF Only
    <3>3. Recorded'
      <4>1. NoOrder.filled = {}
        BY DEF NoOrder
      <4> QED
        BY <2>2, <3>1, <3>2, <4>1 DEF Guarded, Recorded, Filled, Granted
    <3>4. Leased'
      BY <2>2, <3>1, <3>2 DEF Guarded, Leased, LeasedTo, Leasing, PaidSteps, Opened
    <3>5. Covered'
      <4>1. ~Unblocks(d) /\ jobs[d].step # "revoke"
        BY <2>2 DEF Unblocks, Idle
      <4> QED
        BY <2>2, <3>1, <4>1, CoverStays DEF Guarded
    <3> QED
      BY <1>1, <3>3, <3>4, <3>5 DEF Guarded
  <2> QED
    BY <2>2, <2>3, <2>4
<1>3. CASE \E d \in Deliveries : Step(d) \/ Fault(d)
  BY <1>1, <1>3, DeliveryRecords, DeliveryLeases, DeliveryCovers DEF Guarded
<1>4. CASE \E a \in Admins : Admin(a)
  <2>1. PICK a \in Admins : AdminFits(a)
    BY <1>4, AdminStepFits
  <2>2. Recorded' /\ Covered'
    BY <2>1, AdminRecords, AdminCovers DEF Guarded
  <2>3. UNCHANGED <<jobs, flows>>
    BY <2>1 DEF AdminFits
  <2>4. Leased'
    BY <2>3 DEF Guarded, Leased, LeasedTo
  <2> QED
    BY <1>1, <2>2, <2>4 DEF Guarded
<1>5. CASE UNCHANGED <<flows, order, access, jobs, admins, faults>>
  BY <1>1, <1>5 DEF Guarded, Recorded, Filled, Granted, Leased, LeasedTo, Covered, Revoking, Unblocks
<1>6. CASE PersistCheckout \/ Tick \/ UNCHANGED vars
  BY <1>5, <1>6 DEF PersistCheckout, Tick, vars, stores
<1> QED
  BY <1>2, <1>3, <1>4, <1>6, Moves

\* Nothing is granted at the start.
LEMMA StartGuards ==
  ASSUME Init
  PROVE  Guarded
<1>1. /\ \A d \in Deliveries : jobs[d] = Idle
      /\ \A a \in Admins : admins[a] = Rest
      /\ order = NoOrder /\ \A l \in Lines : access[l] = "none"
  BY DEF Init
<1>2. Idle.step = "idle" /\ Idle.order = NoOrder /\ Rest.order = NoOrder /\ NoOrder.filled = {}
  BY DEF Idle, Rest, NoOrder
<1>3. GrantsOnce /\ Recorded
  BY <1>1, <1>2 DEF GrantsOnce, Recorded
<1>4. Leased
  BY <1>1, <1>2 DEF Leased, LeasedTo, Leasing, PaidSteps, Opened
<1>5. Covered
  BY <1>1, <1>2 DEF Covered
<1> QED
  BY <1>3, <1>4, <1>5 DEF Guarded

\* When nobody works on the payment and nothing has failed, an order that is refunded or
\* cancelled has no access left, whatever the administrators, who take no lock, put
\* between the reads and the puts of the deliveries.
THEOREM BlockedIsRevoked ==
  ASSUME Orderly
  PROVE  Spec => []BlockedHasNoAccess
<1>1. Init => TypeOK /\ Control /\ Exclusion /\ Guarded
  BY StartShaped, StartExcludes, StartGuards
<1>2. TypeOK /\ Control /\ Exclusion /\ Guarded /\ [Next]_vars => (TypeOK /\ Control /\ Exclusion /\ Guarded)'
  BY NextShaped, NextExcludes, NextGuards
<1>3. Guarded => BlockedHasNoAccess
  <2>1. Quiet => /\ \A d \in Deliveries : ~Unblocks(d)
                 /\ \A l \in Lines : ~Revoking(l)
    BY DEF Quiet, Unblocks, Revoking, Idle, Rest
  <2> QED
    BY <2>1 DEF Guarded, Covered, BlockedHasNoAccess
<1> QED
  BY <1>1, <1>2, <1>3, PTL DEF Spec
=============================================================================

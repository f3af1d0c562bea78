--------------------------- MODULE PaymentWebhook ---------------------------
(***************************************************************************)
(* The webhooks about one payment: receipt, the lock on the payment, the   *)
(* leased workflow that turns a paid event into a fulfilled order, the     *)
(* reversal of the order by a refund event, and the administrator's refund *)
(* and cancellation of the same order.                                     *)
(*                                                                         *)
(* A delivery runs between awaits: one action is one call to a store, and  *)
(* the record of the delivery holds what it read before.  Documents are    *)
(* put blindly, so a put may carry an old copy back.  The cart, the stock  *)
(* and the checkout's other writers are in Checkout.tla.                   *)
(***************************************************************************)
EXTENDS Integers, FiniteSets

CONSTANTS
  Deliveries,  \* requests and replays in flight at one time
  Admins,      \* administrators' actions in flight at one time
  Paid,        \* events that say the payment is paid
  Refunds,     \* events that say (part of) it was given back
  Nobody,      \* no event: the owner of a free lock
  Total,       \* the amount of the order
  Reversed,    \* Refunds -> the amount given back so far, in all
  LineCount,   \* order lines, each fulfilled by an entitlement
  LeaseTime,   \* 300 000 ms: the life of the lock and of the lease
  Conditions,  \* what this instance allows, of AllConditions
  MaxTime,     \* bound: the clock stops here
  MaxFaults    \* bound: calls that throw and requests that die

Webhooks == Paid \cup Refunds
Lines == 1..LineCount

\* "slow": a request may outlive its lock and its lease.  "early": the paid
\* event may arrive before the checkout is stored.  "overlap": the provider
\* sends an event again before the first delivery has answered.  "same_instant":
\* two deliveries may be given the same ctx.now.
AllConditions == {"slow", "early", "overlap", "same_instant"}

ASSUME PaymentAssumption ==
  /\ Paid \cap Refunds = {} /\ Deliveries \cap Admins = {}
  /\ Total \in Nat \ {0} /\ Reversed \in [Refunds -> 1..Total]
  /\ LineCount \in Nat \ {0} /\ LeaseTime \in Nat \ {0}
  /\ Conditions \subseteq AllConditions /\ MaxTime \in Nat /\ MaxFaults \in Nat

VARIABLES
  webhooks,   \* Webhooks -> status of the webhook document
  flows,      \* Paid -> the event's workflow document
  lock,       \* the ephemeral record that locks the payment
  order,      \* the order document
  access,     \* Lines -> status of the line's entitlement
  checkout,   \* status of the checkout document
  jobs,       \* Deliveries -> what a delivery in flight remembers
  admins,     \* Admins -> what an administrator's action remembers
  now,        \* the wall clock
  answered,   \* Webhooks -> the answer 200 the provider has had: none, as a
              \* "duplicate", or as the "receipt" of an event dealt with
  faults      \* bound: faults so far

stores == <<webhooks, flows, lock, order, access, checkout>>
vars == <<stores, jobs, admins, now, answered, faults>>

NoOrder == [status |-> "none", payment |-> "none", reversed |-> 0, filled |-> {}, done |-> FALSE]

Idle == [step |-> "idle", event |-> Nobody, stamp |-> Nobody, at |-> 0,
         asked |-> FALSE, copy |-> "absent", result |-> "absent", order |-> NoOrder, line |-> 0,
         changed |-> FALSE]

Rest == [step |-> "idle", op |-> "none", order |-> NoOrder, amount |-> 0, line |-> 0]

Free == [owner |-> <<Nobody, Nobody>>, ends |-> 0]

Init ==
  /\ webhooks = [w \in Webhooks |-> "absent"]
  /\ flows = [w \in Paid |-> [status |-> "absent", lease |-> Nobody, ends |-> 0]]
  /\ lock = Free
  /\ order = NoOrder
  /\ access = [l \in Lines |-> "none"]
  /\ checkout = "absent"
  /\ jobs = [d \in Deliveries |-> Idle]
  /\ admins = [a \in Admins |-> Rest]
  /\ now = 0
  /\ answered = [w \in Webhooks |-> "no"] /\ faults = 0

----------------------------------------------------------------------------
(* The order's states *)

NewOrder == [NoOrder EXCEPT !.status = "paid", !.payment = "paid"]

Terminal == {"refunded", "partially_refunded", "cancelled"}

orderBlocksFulfillment(o) == o.status \in {"refunded", "cancelled"}

orderPaymentStatusAfterPaymentEvent(o) == IF o.status \in Terminal THEN o.status ELSE "paid"

applyPaymentEventToOrder(o) ==
  [o EXCEPT !.status = orderPaymentStatusAfterPaymentEvent(o),
            !.payment = IF o.status \in Terminal THEN @ ELSE "paid"]

\* Seeded fault: the amount refunded before is forgotten.
applyOrderRefundAnew(o, whole, amount) ==
  LET reversed == IF whole \/ amount > Total THEN Total ELSE amount
      status == IF reversed = Total THEN "refunded" ELSE "partially_refunded"
  IN  [o EXCEPT !.status = status, !.payment = status, !.reversed = reversed]

\* A refund of amount, or of what is left when whole.
applyOrderRefund(o, whole, amount) ==
  LET sum == o.reversed + amount
      reversed == IF whole \/ sum > Total THEN Total ELSE sum
      status == IF reversed = Total THEN "refunded" ELSE "partially_refunded"
  IN  [o EXCEPT !.status = status, !.payment = status, !.reversed = reversed]

\* What a reversal adds to what the order has refunded already.
ReversalAmount(o, w) == IF Reversed[w] > o.reversed THEN Reversed[w] - o.reversed ELSE 0

applyOrderCancel(o) == [o EXCEPT !.status = "cancelled"]

----------------------------------------------------------------------------
(* Deliveries *)

At(d, step) == jobs[d].step = step

Event(d) == jobs[d].event

Go(d, step) == jobs' = [jobs EXCEPT ![d].step = step]

GoWith(d, step, o) ==
  jobs' = [jobs EXCEPT ![d].step = step, ![d].order = o, ![d].line = 1]

Returns(d, step, result) == jobs' = [jobs EXCEPT ![d].step = step, ![d].result = result]

Owner(d) == <<Event(d), jobs[d].stamp>>

isReplayable(status) == status \in {"received", "failed", "failed_retryable"}

\* webhookReceiptResult: an answer other than 200 makes the provider try again.
AnswersOK(w, result) ==
  /\ result # "received" /\ result # "failed_retryable"
  /\ ~(w \in Refunds /\ result = "failed")

\* The delivery ends: a request of the provider is answered, a replay is not.
Answer(d, result) ==
  /\ jobs' = [jobs EXCEPT ![d] = Idle]
  /\ answered' = IF jobs[d].asked /\ AnswersOK(Event(d), result)
                 THEN [answered EXCEPT ![Event(d)] = "receipt"] ELSE answered

AnswerDuplicate(w) == answered' = [answered EXCEPT ![w] = IF @ = "no" THEN "duplicate" ELSE @]

\* ctx.now in milliseconds, of which the owner of the lock and the key of the
\* lease are made: no two requests have the same, unless they began together.  A
\* delivery's own name does for it, or a spare one while the lock or a lease of
\* an earlier delivery still carries the name.
Spares == 1..(Cardinality(Paid) + Cardinality(Deliveries))

AllStamps == Deliveries \cup Spares

\* There is a spare stamp for each document that may carry an old one.
ASSUME StampAssumption ==
  /\ IsFiniteSet(Deliveries) /\ IsFiniteSet(Paid) /\ Deliveries \cap Spares = {}
  /\ Nobody \notin Webhooks \cup AllStamps

Used(s) ==
  \/ \E d \in Deliveries : jobs[d].stamp = s
  \/ lock.owner[2] = s
  \/ \E w \in Paid : flows[w].lease = s

NewStamp(d) == IF Used(d) THEN CHOOSE s \in Spares : ~Used(s) ELSE d

Stamps(d) ==
  {NewStamp(d)} \cup {jobs[e].stamp : e \in {f \in Deliveries : /\ "same_instant" \in Conditions
                                                                /\ jobs[f] # Idle
                                                                /\ jobs[f].at = now}}

\* receiveWebhook: the event is verified, and looked up.
Deliver(d, w, s) ==
  /\ jobs[d] = Idle /\ s \in Stamps(d)
  /\ w \in Paid /\ checkout = "absent" => "early" \in Conditions
  /\ "overlap" \in Conditions \/ \A e \in Deliveries : ~(Event(e) = w /\ jobs[e].asked)
  /\ IF webhooks[w] = "processed"
     THEN AnswerDuplicate(w) /\ UNCHANGED jobs
     ELSE /\ jobs' = [jobs EXCEPT ![d] =
                        [Idle EXCEPT !.step = IF webhooks[w] = "absent" THEN "store" ELSE "lock",
                                     !.event = w, !.stamp = s, !.at = now, !.asked = TRUE,
                                     !.copy = webhooks[w], !.result = webhooks[w]]]
          /\ UNCHANGED answered
  /\ UNCHANGED <<stores, admins, now, faults>>

\* replayWebhook, by an administrator or by the maintenance of due workflows.
Replay(d, w) ==
  /\ jobs[d] = Idle /\ isReplayable(webhooks[w])
  /\ jobs' = [jobs EXCEPT ![d] = [Idle EXCEPT !.step = "lock", !.event = w, !.stamp = NewStamp(d),
                                              !.at = now, !.copy = webhooks[w],
                                              !.result = webhooks[w]]]
  /\ UNCHANGED <<stores, admins, now, answered, faults>>

\* The unique index on the event admits one document; the loser answers.
Store(d) ==
  /\ At(d, "store")
  /\ IF webhooks[Event(d)] = "absent"
     THEN /\ webhooks' = [webhooks EXCEPT ![Event(d)] = "received"]
          /\ jobs' = [jobs EXCEPT ![d].step = "lock", ![d].copy = "received",
                                  ![d].result = "received"]
          /\ UNCHANGED answered
     ELSE /\ AnswerDuplicate(Event(d))
          /\ jobs' = [jobs EXCEPT ![d] = Idle]
          /\ UNCHANGED webhooks
  /\ UNCHANGED <<flows, lock, order, access, checkout, admins, now, faults>>

----------------------------------------------------------------------------
(* The lock on the payment and the lease on the workflow *)

\* Seeded fault: the lock is taken from whoever holds it.
LockTaken(d) == TRUE

\* tryAcquireLock compares with ctx.now, the time the request began.
LockFree(d) == \/ lock.owner \in {Free.owner, Owner(d)}
               \/ lock.ends <= jobs[d].at

AcquireLock(d) ==
  /\ At(d, "lock")
  /\ IF LockFree(d)
     THEN /\ lock' = [owner |-> Owner(d), ends |-> jobs[d].at + LeaseTime]
          /\ Go(d, IF Event(d) \in Paid THEN "lease" ELSE "find_reversal")
          /\ UNCHANGED answered
     ELSE Answer(d, jobs[d].copy) /\ UNCHANGED lock
  /\ UNCHANGED <<webhooks, flows, order, access, checkout, admins, now, faults>>

\* releaseLock, in the finally of withWebhookSubjectLock.
ReleaseLock(d) ==
  /\ At(d, "release")
  /\ lock' = IF lock.owner = Owner(d) THEN Free ELSE lock
  /\ IF jobs[d].result = "error"
     THEN Go(d, "mark_failed") /\ UNCHANGED answered
     ELSE Answer(d, jobs[d].result)
  /\ UNCHANGED <<webhooks, flows, order, access, checkout, admins, now, faults>>

\* markWebhookFailed, after the lock is released.
MarkFailed(d) ==
  /\ At(d, "mark_failed")
  /\ LET result == IF Event(d) \in Paid THEN "failed_retryable" ELSE "failed"
     IN  /\ webhooks' = [webhooks EXCEPT ![Event(d)] = result]
         /\ Answer(d, result)
  /\ UNCHANGED <<flows, lock, order, access, checkout, admins, now, faults>>

\* Seeded fault: a running workflow is never leased again, its lease over or not.
LeaseOnce(d) ==
  /\ At(d, "lease")
  /\ LET w == Event(d)
     IN  IF flows[w].status \in {"running", "completed"}
         THEN Go(d, "release") /\ UNCHANGED flows
         ELSE /\ flows' = [flows EXCEPT ![w] = [status |-> "running", lease |-> jobs[d].stamp,
                                                ends |-> jobs[d].at + LeaseTime]]
              /\ Go(d, "find")
  /\ UNCHANGED <<webhooks, lock, order, access, checkout, admins, now, answered, faults>>

\* startPaymentWebhookWorkflow: create the document if absent and lease it.  The
\* event is replayable, so the lease is forced: only a live lease refuses it.
LeaseWorkflow(d) ==
  /\ At(d, "lease")
  /\ LET w == Event(d)
     IN  IF flows[w].status = "completed" \/ flows[w].ends > jobs[d].at
         THEN Go(d, "release") /\ UNCHANGED flows
         ELSE /\ flows' = [flows EXCEPT ![w] = [status |-> "running", lease |-> jobs[d].stamp,
                                                ends |-> jobs[d].at + LeaseTime]]
              /\ Go(d, "find")
  /\ UNCHANGED <<webhooks, lock, order, access, checkout, admins, now, answered, faults>>

workflowHasActiveLease(d) ==
  /\ flows[Event(d)].status = "running" /\ flows[Event(d)].lease = jobs[d].stamp
  /\ flows[Event(d)].ends > now

\* WorkflowRunnerLeaseLostError: the webhook is answered as it was read.
LoseLease(d) == Returns(d, "release", jobs[d].copy)

\* runWorkflowStep: a step of a paid event is entered under the lease.
\* completeWorkflowStep of the step before and startWorkflowStep are taken with
\* the last call of the step before; that the lease ends before they run is
\* LeaseEnds.
EnterWith(d, step, o) ==
  IF Event(d) \in Refunds \/ workflowHasActiveLease(d) THEN GoWith(d, step, o) ELSE LoseLease(d)

Enter(d, step) == EnterWith(d, step, jobs[d].order)

WorkflowSteps == {"persist", "complete_checkout", "fulfil", "mark", "reject"}

LeaseEnds(d) ==
  /\ Event(d) \in Paid /\ jobs[d].step \in WorkflowSteps /\ jobs[d].line \in {0, 1}
  /\ ~workflowHasActiveLease(d)
  /\ LoseLease(d)
  /\ UNCHANGED <<stores, admins, now, answered, faults>>

\* completeWorkflowStep of mark_webhook and completeWorkflow.
CompleteWorkflow(d) ==
  /\ At(d, "complete")
  /\ IF workflowHasActiveLease(d)
     THEN /\ flows' = [flows EXCEPT ![Event(d)] = [status |-> "completed", lease |-> Nobody,
                                                   ends |-> 0]]
          /\ Go(d, "release")
     ELSE LoseLease(d) /\ UNCHANGED flows
  /\ UNCHANGED <<webhooks, lock, order, access, checkout, admins, now, answered, faults>>

\* failWorkflowStep or failWorkflow.
FailWorkflow(d) ==
  /\ At(d, "fail_flow")
  /\ IF workflowHasActiveLease(d)
     THEN /\ flows' = [flows EXCEPT ![Event(d)] = [status |-> "failed", lease |-> Nobody,
                                                   ends |-> 0]]
          /\ Go(d, "release")
     ELSE LoseLease(d) /\ UNCHANGED flows
  /\ UNCHANGED <<webhooks, lock, order, access, checkout, admins, now, answered, faults>>

----------------------------------------------------------------------------
(* processPaymentWebhook *)

\* findExistingPaymentOrder and, when there is none, the link to a checkout.
FindOrder(d) ==
  /\ At(d, "find")
  /\ EnterWith(d, IF order = NoOrder /\ checkout = "absent" THEN "reject" ELSE "persist", order)
  /\ UNCHANGED <<stores, admins, now, answered, faults>>

\* persistNewPaymentOrder, whose put loses to another order of the payment, and
\* updatePaymentOrderFromEvent.
PersistOrder(d) ==
  /\ jobs[d].step \in {"persist", "persist_again"}
  /\ LET known == jobs[d].order
         updated == IF known = NoOrder THEN NewOrder ELSE applyPaymentEventToOrder(known)
     IN  IF known = NoOrder /\ order # NoOrder
         THEN GoWith(d, "persist_again", order) /\ UNCHANGED order
         ELSE /\ order' = updated
              /\ EnterWith(d, IF orderBlocksFulfillment(updated) THEN "mark"
                              ELSE "complete_checkout", updated)
  /\ UNCHANGED <<webhooks, flows, lock, access, checkout, admins, now, answered, faults>>

CompleteCheckout(d) ==
  /\ At(d, "complete_checkout")
  /\ checkout' = IF checkout = "absent" THEN "absent" ELSE "completed"
  /\ Enter(d, "fulfil")
  /\ UNCHANGED <<webhooks, flows, lock, order, access, admins, now, answered, faults>>

\* The line is done: a changed line is recorded on the order first.
LineDone(d) ==
  LET l == jobs[d].line
  IN  IF l \in jobs[d].order.filled
      THEN jobs' = [jobs EXCEPT ![d].step = IF l = LineCount THEN "close" ELSE "fulfil",
                                ![d].line = @ + 1]
      ELSE jobs' = [jobs EXCEPT ![d].step = "record", ![d].order.filled = @ \cup {l},
                                ![d].changed = TRUE]

\* Seeded fault: an entitlement that is not active is put again.
FulfilLineAgain(d) ==
  /\ At(d, "fulfil")
  /\ IF access[jobs[d].line] # "active"
     THEN jobs' = [jobs EXCEPT ![d].step = "grant"]
     ELSE LineDone(d)
  /\ UNCHANGED <<stores, admins, now, answered, faults>>

\* fulfillPaidOrderLine: the reservation is consumed, the entitlement looked up.
FulfilLine(d) ==
  /\ At(d, "fulfil")
  /\ IF access[jobs[d].line] = "none"
     THEN jobs' = [jobs EXCEPT ![d].step = "grant"]
     ELSE LineDone(d)
  /\ UNCHANGED <<stores, admins, now, answered, faults>>

GrantLine(d) ==
  /\ At(d, "grant")
  /\ access' = [access EXCEPT ![jobs[d].line] = "active"]
  /\ LineDone(d)
  /\ UNCHANGED <<webhooks, flows, lock, order, checkout, admins, now, answered, faults>>

\* The put of orderWithFulfilledLines after each changed line.
RecordLine(d) ==
  /\ At(d, "record")
  /\ order' = jobs[d].order
  /\ jobs' = [jobs EXCEPT ![d].step = IF jobs[d].line = LineCount THEN "close" ELSE "fulfil",
                          ![d].line = @ + 1]
  /\ UNCHANGED <<webhooks, flows, lock, access, checkout, admins, now, answered, faults>>

\* The last put of fulfillPaidOrder sets fulfilledAt; no put when nothing is new.
CloseOrder(d) ==
  /\ At(d, "close")
  /\ IF jobs[d].changed \/ ~jobs[d].order.done
     THEN order' = [jobs[d].order EXCEPT !.done = TRUE]
     ELSE UNCHANGED order
  /\ Enter(d, "mark")
  /\ UNCHANGED <<webhooks, flows, lock, access, checkout, admins, now, answered, faults>>

\* A line failed: the lines before it are recorded.
PersistProgress(d) ==
  /\ At(d, "progress")
  /\ order' = jobs[d].order
  /\ Go(d, "fail_flow")
  /\ UNCHANGED <<webhooks, flows, lock, access, checkout, admins, now, answered, faults>>

MarkProcessed(d) ==
  /\ At(d, "mark")
  /\ webhooks' = [webhooks EXCEPT ![Event(d)] = "processed"]
  /\ Returns(d, IF Event(d) \in Paid THEN "complete" ELSE "release", "processed")
  /\ UNCHANGED <<flows, lock, order, access, checkout, admins, now, answered, faults>>

\* The event could not be linked to a checkout, or the refund to an order.
Reject(d) ==
  /\ At(d, "reject")
  /\ webhooks' = [webhooks EXCEPT ![Event(d)] = "failed"]
  /\ Returns(d, IF Event(d) \in Paid THEN "fail_flow" ELSE "release", "failed")
  /\ UNCHANGED <<flows, lock, order, access, checkout, admins, now, answered, faults>>

----------------------------------------------------------------------------
(* processPaymentReversalWebhook *)

FindReversal(d) ==
  /\ At(d, "find_reversal")
  /\ GoWith(d, CASE order = NoOrder -> "reject"
                 [] order.payment = "refunded" -> "revoke"
                 [] OTHER -> "reverse", order)
  /\ UNCHANGED <<stores, admins, now, answered, faults>>

ReverseOrder(d) ==
  /\ At(d, "reverse")
  /\ LET w == Event(d)
         o == jobs[d].order
         updated == applyOrderRefund(o, Reversed[w] = Total, ReversalAmount(o, w))
     IN  /\ order' = updated
         /\ GoWith(d, IF updated.status = "refunded" THEN "revoke" ELSE "mark", updated)
  /\ UNCHANGED <<webhooks, flows, lock, access, checkout, admins, now, answered, faults>>

\* revokeOrderFulfillmentAccess, line by line.
RevokeAccess(l) ==
  access' = IF access[l] = "active" THEN [access EXCEPT ![l] = "revoked"] ELSE access

RevokeLine(d) ==
  /\ At(d, "revoke")
  /\ RevokeAccess(jobs[d].line)
  /\ IF jobs[d].line = LineCount
     THEN Go(d, "mark")
     ELSE jobs' = [jobs EXCEPT ![d].line = @ + 1]
  /\ UNCHANGED <<webhooks, flows, lock, order, checkout, admins, now, answered, faults>>

----------------------------------------------------------------------------
(* Faults *)

\* Seeded fault: a line that cannot be fulfilled does not fail the workflow.
AfterThrowGoesOn(d) ==
  IF At(d, "lock") THEN "mark_failed"
  ELSE IF At(d, "fulfil") THEN "mark"
  ELSE IF Event(d) \in Refunds \/ jobs[d].step \in {"lease", "fail_flow"} THEN "release"
  ELSE "fail_flow"

\* Where an await that throws leads: the catch blocks of fulfillPaidOrder, of
\* runPaymentWebhookWorkflow and of processStoredWebhook.
AfterThrow(d) ==
  IF At(d, "lock") THEN "mark_failed"
  ELSE IF Event(d) \in Refunds \/ jobs[d].step \in {"lease", "fail_flow"} THEN "release"
  ELSE IF jobs[d].changed /\ jobs[d].step \in {"fulfil", "grant", "record"} THEN "progress"
  ELSE "fail_flow"

Throw(d) ==
  /\ jobs[d] # Idle /\ jobs[d].step \notin {"store", "release", "mark_failed"}
  /\ At(d, "fail_flow") => now + LeaseTime <= MaxTime  \* bound: the clock reaches the lease's end
  /\ faults < MaxFaults /\ faults' = faults + 1
  /\ Returns(d, AfterThrow(d), "error")
  /\ UNCHANGED <<stores, admins, now, answered>>

\* The failure to release the lock is only observed: the lock stays.
ReleaseThrows(d) ==
  /\ At(d, "release")
  /\ now + LeaseTime <= MaxTime  \* bound: the clock reaches the end of the lock
  /\ faults < MaxFaults /\ faults' = faults + 1
  /\ IF jobs[d].result = "error"
     THEN Go(d, "mark_failed") /\ UNCHANGED answered
     ELSE Answer(d, jobs[d].result)
  /\ UNCHANGED <<stores, admins, now>>

\* The request dies, or throws where nothing catches: no answer.
Crash(d) ==
  /\ jobs[d] # Idle
  /\ now + LeaseTime <= MaxTime  \* bound: the clock reaches the end of the lock
  /\ faults < MaxFaults /\ faults' = faults + 1
  /\ jobs' = [jobs EXCEPT ![d] = Idle]
  /\ UNCHANGED <<stores, admins, now, answered>>

----------------------------------------------------------------------------
(* refundOrder and cancelOrder take no lock *)

\* The order is read and judged, then the provider is called.  Amount 0 stands
\* for a refund without an amount: all that is left.
BeginRefund(a, amount) ==
  /\ admins[a] = Rest /\ order # NoOrder /\ order.status # "cancelled"
  /\ order.reversed < Total /\ amount <= Total - order.reversed
  /\ admins' = [admins EXCEPT ![a] = [Rest EXCEPT !.step = "put", !.op = "refund",
                                                  !.order = order, !.amount = amount]]
  /\ UNCHANGED <<stores, jobs, now, answered, faults>>

BeginCancel(a) ==
  /\ admins[a] = Rest /\ order # NoOrder /\ order.status \notin Terminal
  /\ admins' = [admins EXCEPT ![a] = [Rest EXCEPT !.step = "put", !.op = "cancel",
                                                  !.order = order]]
  /\ UNCHANGED <<stores, jobs, now, answered, faults>>

\* Seeded fault: a cancellation leaves the access.
PutAdminKeepsAccess(a) ==
  /\ admins[a].step = "put"
  /\ LET o == admins[a].order
         updated == IF admins[a].op = "cancel" THEN applyOrderCancel(o)
                    ELSE applyOrderRefund(o, admins[a].amount = 0, admins[a].amount)
     IN  /\ order' = updated
         /\ admins' = [admins EXCEPT ![a] = IF updated.status = "refunded"
                                            THEN [Rest EXCEPT !.step = "revoke", !.line = 1]
                                            ELSE Rest]
  /\ UNCHANGED <<webhooks, flows, lock, access, checkout, jobs, now, answered, faults>>

\* The provider has acted: the order that was read is put, changed.
PutAdmin(a) ==
  /\ admins[a].step = "put"
  /\ LET o == admins[a].order
         updated == IF admins[a].op = "cancel" THEN applyOrderCancel(o)
                    ELSE applyOrderRefund(o, admins[a].amount = 0, admins[a].amount)
     IN  /\ order' = updated
         /\ admins' = [admins EXCEPT ![a] = IF orderBlocksFulfillment(updated)
                                            THEN [Rest EXCEPT !.step = "revoke", !.line = 1]
                                            ELSE Rest]
  /\ UNCHANGED <<webhooks, flows, lock, access, checkout, jobs, now, answered, faults>>

RevokeAdmin(a) ==
  /\ admins[a].step = "revoke"
  /\ RevokeAccess(admins[a].line)
  /\ admins' = [admins EXCEPT ![a] = IF @.line = LineCount THEN Rest
                                     ELSE [admins[a] EXCEPT !.line = admins[a].line + 1]]
  /\ UNCHANGED <<webhooks, flows, lock, order, checkout, jobs, now, answered, faults>>

\* The provider refuses, or the request dies before it puts the order.  (One
\* that dies after its put is not modelled.)
AdminStops(a) ==
  /\ admins[a].step = "put"
  /\ admins' = [admins EXCEPT ![a] = Rest]
  /\ UNCHANGED <<stores, jobs, now, answered, faults>>

----------------------------------------------------------------------------
(* The rest of the world *)

\* persistCheckoutStart, which Checkout.tla models.
PersistCheckout ==
  /\ checkout = "absent"
  /\ checkout' = "created"
  /\ UNCHANGED <<webhooks, flows, lock, order, access, jobs, admins, now, answered, faults>>

Tick ==
  /\ now < MaxTime
  /\ \/ "slow" \in Conditions
     \/ \A d \in Deliveries : jobs[d] = Idle \/ now + 1 < jobs[d].at + LeaseTime
  /\ now' = now + 1
  /\ UNCHANGED <<stores, jobs, admins, answered, faults>>

\* One await of a delivery.
Step(d) ==
  \/ Store(d) \/ AcquireLock(d) \/ ReleaseLock(d) \/ MarkFailed(d)
  \/ LeaseWorkflow(d) \/ LeaseEnds(d) \/ CompleteWorkflow(d) \/ FailWorkflow(d)
  \/ FindOrder(d) \/ PersistOrder(d) \/ CompleteCheckout(d)
  \/ FulfilLine(d) \/ GrantLine(d) \/ RecordLine(d) \/ CloseOrder(d) \/ PersistProgress(d)
  \/ MarkProcessed(d) \/ Reject(d)
  \/ FindReversal(d) \/ ReverseOrder(d) \/ RevokeLine(d)

Fault(d) == Throw(d) \/ ReleaseThrows(d) \/ Crash(d)

Admin(a) ==
  \/ \E amount \in 0..Total : BeginRefund(a, amount)
  \/ BeginCancel(a) \/ PutAdmin(a) \/ RevokeAdmin(a) \/ AdminStops(a)

Next ==
  \/ \E d \in {e \in Deliveries : jobs[e] = Idle}, w \in Webhooks : \E s \in Stamps(d) : Deliver(d, w, s)
  \/ \E d \in Deliveries, w \in Webhooks : Replay(d, w)
  \/ \E d \in Deliveries : Step(d) \/ Fault(d)
  \/ \E a \in Admins : Admin(a)
  \/ PersistCheckout \/ Tick

Spec == Init /\ [][Next]_vars

\* The provider delivers again until it is answered 200.
Redeliver(w) ==
  /\ answered[w] = "no"
  /\ \E d \in Deliveries : jobs[d] = Idle /\ Deliver(d, w, NewStamp(d))

\* retryDuePaymentWebhooks: maintenance replays the workflows that are due.
WorkflowIsDue(w) ==
  flows[w].status \in {"running", "failed"} /\ flows[w].ends <= now

RetryDue(w) == WorkflowIsDue(w) /\ \E d \in Deliveries : Replay(d, w)

Fairness ==
  /\ \A d \in Deliveries : WF_vars(Step(d))
  /\ \A w \in Webhooks : SF_vars(Redeliver(w))
  /\ \A w \in Paid : SF_vars(RetryDue(w))
  /\ \A a \in Admins : WF_vars(PutAdmin(a) \/ RevokeAdmin(a))
  /\ WF_vars(PersistCheckout) /\ WF_vars(Tick)

FairSpec == Spec /\ Fairness

----------------------------------------------------------------------------
(* Properties *)

OrderType ==
  [status : {"none", "paid", "partially_refunded", "refunded", "cancelled"},
   payment : {"none", "paid", "partially_refunded", "refunded"},
   reversed : 0..Total, filled : SUBSET Lines, done : BOOLEAN]

Statuses == {"absent", "received", "processed", "failed", "failed_retryable"}

Steps == WorkflowSteps \cup
  {"idle", "persist_again", "store", "lock", "lease", "find", "grant", "record", "close", "progress", "complete",
   "fail_flow", "release", "mark_failed", "find_reversal", "reverse", "revoke"}

JobType ==
  [step : Steps, event : Webhooks \cup {Nobody},
   stamp : AllStamps \cup {Nobody}, at : 0..MaxTime, asked : BOOLEAN, copy : Statuses,
   result : Statuses \cup {"error"}, order : OrderType, line : 0..(LineCount + 1),
   changed : BOOLEAN]

AdminType ==
  [step : {"idle", "put", "revoke"}, op : {"none", "refund", "cancel"}, order : OrderType,
   amount : 0..Total, line : 0..LineCount]

\* Every document, lock and request in flight keeps its shape.
TypeOK ==
  /\ webhooks \in [Webhooks -> Statuses]
  /\ flows \in [Paid -> [status : {"absent", "running", "failed", "completed"},
                         lease : AllStamps \cup {Nobody}, ends : 0..(MaxTime + LeaseTime)]]
  /\ lock \in [owner : (Webhooks \cup {Nobody}) \X (AllStamps \cup {Nobody}),
               ends : 0..(MaxTime + LeaseTime)]
  /\ order \in OrderType
  /\ access \in [Lines -> {"none", "active", "revoked"}]
  /\ checkout \in {"absent", "created", "completed"}
  /\ jobs \in [Deliveries -> JobType]
  /\ admins \in [Admins -> AdminType]
  /\ now \in 0..MaxTime /\ faults \in 0..MaxFaults
  /\ answered \in [Webhooks -> {"no", "duplicate", "receipt"}]

\* What an event asks for is done: a paid order is fulfilled unless it must not
\* be, a refund is counted and, when it is whole, no access is left.
Done(w) ==
  /\ order # NoOrder
  /\ w \in Paid => orderBlocksFulfillment(order) \/ \A l \in Lines : access[l] # "none"
  /\ w \in Refunds => /\ order.reversed >= Reversed[w]
                      /\ Reversed[w] = Total => /\ order.status = "refunded"
                                                /\ \A l \in Lines : access[l] # "active"

\* A webhook that is marked processed stays true of the order and of the
\* access it gave, whatever deliveries of other events of the payment do
\* meanwhile or put back later; and so does the answer 200 to a delivery that was
\* not a duplicate, on which the provider forgets the event.
SettledIsDone ==
  \A w \in Webhooks : webhooks[w] = "processed" \/ answered[w] = "receipt" => Done(w)

\* What has been refunded is never forgotten, neither by a late or repeated paid
\* event nor by an older refund that arrives after a newer one.
RefundIsFinal == [][order'.reversed >= order.reversed]_vars

\* Revoked access never comes back: fulfilment that runs again, or that looked
\* before the revocation and puts after it, does not restore it, not even when
\* the administrator refunds or cancels in between.
RevocationIsFinal == [][\A l \in Lines : access[l] = "revoked" => access'[l] = "revoked"]_vars

\* When nobody works on the payment and nothing has failed on the way, an order
\* that is refunded or cancelled has no access left, although the
\* administrator's actions take no lock.
Quiet == (\A d \in Deliveries : jobs[d] = Idle) /\ (\A a \in Admins : admins[a] = Rest)

BlockedHasNoAccess ==
  orderBlocksFulfillment(order) /\ Quiet /\ faults = 0 => \A l \in Lines : access[l] # "active"

\* Every event the store has received is processed in the end, although
\* requests die holding the lock and the lease, throw half way, or outlive both.
EventsSettle == \A w \in Webhooks : webhooks[w] = "received" ~> webhooks[w] = "processed"

\* Only a workflow whose goods were granted is completed, even when another
\* runner took over the lease.
CompletedIsGranted ==
  \A w \in Paid : flows[w].status = "completed" => \A l \in Lines : access[l] # "none"

\* lifecycle.ts: "Terminal payment states are preserved across duplicate
\* webhook delivery": an order that is refunded or cancelled is not paid again.
TerminalIsPreserved == [][order.status \in Terminal => order'.status # "paid"]_vars

\* An event that was not processed asks for another delivery ("was not
\* processed; retry delivery"): once the provider has been answered 200 the
\* event is done, being worked on, or due for the maintenance.
AnsweredIsHandled ==
  \A w \in Webhooks :
    answered[w] # "no" =>
      \/ Done(w)
      \/ \E d \in Deliveries : Event(d) = w
      \/ w \in Paid /\ flows[w].status \in {"running", "failed"}
=============================================================================

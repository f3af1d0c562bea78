------------------------------ MODULE Workflow ------------------------------
(***************************************************************************)
(* The workflow engine and its two users: the workflow of a payment event, *)
(* run step by step under a lease, and the markers that let the events of  *)
(* one order tell the customer once that it is confirmed and can be        *)
(* downloaded.  The maintenance replays workflows that are due and gives   *)
(* up those whose last attempt died.                                       *)
(*                                                                         *)
(* One action is one call of a repository.  What the steps do to the       *)
(* order, the access and the checkout is in PaymentWebhook.tla; the locks  *)
(* of the payment are left out, since events of one order may take         *)
(* different ones.                                                         *)
(***************************************************************************)
EXTENDS Integers, FiniteSets

CONSTANTS
  Events,         \* paid events of one order
  Strays,         \* those that name no checkout: they need the order of another event
  Handlers,       \* requests and replays that may be at work at one time
  MaxTries,       \* maxAttempts of a workflow and of a marker
  Lease,          \* 300 000 ms: the life of a lease
  FirstRetry,     \* 60 000 ms: the first delay before the next attempt
  LastRetry,      \* 900 000 ms: the longest
  ClockEnd,       \* bound: the clock stops here
  MaxDeliveries,  \* bound: deliveries of an event by the provider
  MaxTroubles     \* bound: events delivered, calls that throw, handlers that die or
                  \* outlive their leases, all together

\* What the constants must satisfy.
WorkflowAssumption ==
  /\ Strays \subseteq Events
  /\ {MaxTries, Lease, FirstRetry, LastRetry, ClockEnd} \subseteq Nat \ {0}
  /\ {MaxDeliveries, MaxTroubles} \subseteq Nat

VARIABLES
  received,   \* Events -> status of the webhook document
  flows,      \* Events -> the event's workflow document
  markers,    \* Kinds -> the workflow document that marks the notification
  order,      \* the order: whether its download is recorded, and fulfilledAt
  email,      \* the default order confirmation: "absent", "queued" or "sent"
  handlers,   \* Handlers -> what a handler remembers
  clock,      \* the wall clock
  delivered,  \* history: Events -> deliveries so far
  errors,     \* history: calls that threw and handlers that died
  late,       \* history: how often handlers outlived their leases
  told,       \* history: Kinds -> how often the customer or the host was told
  stranded    \* history: kinds whose marker could not be given back

documents == <<received, flows, markers, order, email>>
histories == <<delivered, errors, late, told, stranded>>
workflowVars == <<documents, handlers, clock, histories>>

Kinds == {"confirmed", "download"}

Never == 0   \* keys and times are moments of the clock, which starts at 1

\* complete_checkout, which only touches what Checkout.tla models, is left out.
Steps == {"link_checkout", "persist_order", "fulfill_order", "mark_webhook"}

Absent == [status |-> "absent", tries |-> 0, next |-> Never, key |-> Never, ends |-> Never,
           steps |-> <<>>]

AbsentFlow == [Absent EXCEPT !.steps = [s \in Steps |-> "queued"]]

NoOrder == [status |-> "none", ref |-> FALSE, done |-> FALSE]

Idle == [pc |-> "idle", event |-> Never, at |-> Never, step |-> "none",
         kind |-> "confirmed", order |-> NoOrder, failed |-> FALSE, lost |-> FALSE]

WorkflowInit ==
  /\ received = [e \in Events |-> "absent"]
  /\ flows = [e \in Events |-> AbsentFlow]
  /\ markers = [k \in Kinds |-> Absent]
  /\ order = NoOrder /\ email = "absent"
  /\ handlers = [h \in Handlers |-> Idle]
  /\ clock = 1
  /\ delivered = [e \in Events |-> 0]
  /\ errors = 0 /\ late = 0
  /\ told = [k \in Kinds |-> 0] /\ stranded = {}

----------------------------------------------------------------------------
(* The repository: one atomic update of one workflow document *)

createWorkflow(flow, at) ==
  IF flow.status = "absent" THEN [flow EXCEPT !.status = "queued", !.next = at] ELSE flow

workflowIsDueForLease(flow, at, force) ==
  /\ flow.ends <= at
  /\ ~(flow.status = "running" /\ flow.ends = Never)
  /\ \/ force /\ flow.status # "completed"
     \/ ~force /\ flow.tries < MaxTries /\ flow.next <= at

Leasable(flow, at, force) ==
  flow.status \notin {"absent", "completed"} /\ workflowIsDueForLease(flow, at, force)

tryLeaseWorkflow(flow, at) ==
  [flow EXCEPT !.status = "running", !.tries = @ + 1, !.next = Never, !.key = at,
               !.ends = at + Lease]

workflowHasActiveLease(flow, key, t) ==
  flow.status = "running" /\ flow.key = key /\ flow.ends > t

Ended(flow, status, next) ==
  [flow EXCEPT !.status = status, !.next = next, !.key = Never, !.ends = Never]

OneStep(flow, s, status) ==
  [flow EXCEPT !.steps[s] = IF @ = "completed" THEN @ ELSE status]

startWorkflowStep(flow, s) == [OneStep(flow, s, "running") EXCEPT !.next = Never]

completeWorkflowStep(flow, s) == [OneStep(flow, s, "completed") EXCEPT !.next = Never]

failWorkflowStep(flow, s, next) == OneStep(Ended(flow, "failed", next), s, "failed")

AllSteps(flow, from, status) ==
  [flow EXCEPT !.steps = [s \in DOMAIN @ |-> IF @[s] = from THEN status ELSE @[s]]]

completeWorkflow(flow) == AllSteps(Ended(flow, "completed", Never), "queued", "skipped")

failWorkflow(flow, next) == AllSteps(Ended(flow, "failed", next), "running", "failed")

\* Seeded fault: the last attempt is not counted as the last.
ExhaustedBeyond(flow) ==
  /\ flow.status = "running"
  /\ flow.ends # Never /\ flow.ends <= clock
  /\ flow.tries > MaxTries

workflowIsExhausted(flow) ==
  /\ flow.status = "running"
  /\ flow.ends # Never /\ flow.ends <= clock
  /\ flow.tries >= MaxTries

\* Twice the delay with every attempt, and never more than LastRetry.
nextWorkflowAttemptAt(flow) ==
  LET delay == FirstRetry * 2 ^ (flow.tries - 1)
  IN  clock + (IF delay > LastRetry THEN LastRetry ELSE delay)

----------------------------------------------------------------------------
(* A handler: processStoredWebhook and runPaymentWebhookWorkflow *)

At(h, pc) == handlers[h].pc = pc

Flow(h) == flows[handlers[h].event]

SetFlow(h, flow) == flows' = [flows EXCEPT ![handlers[h].event] = flow]

HoldsFlow(h) == workflowHasActiveLease(Flow(h), handlers[h].at, clock)

Go(h, pc) == handlers' = [handlers EXCEPT ![h].pc = pc]

AtRest == \A g \in Handlers : handlers[g] = Idle

Return(h) == handlers' = [handlers EXCEPT ![h] = Idle]

Begin(h, e) == handlers' = [handlers EXCEPT ![h] = [Idle EXCEPT !.pc = "start", !.event = e,
                                                                !.at = clock]]

\* Bound.
Bounded == Cardinality({e \in Events : delivered[e] > 0}) + errors + late < MaxTroubles

\* A delivery of the provider, or an administrator's replay.
Deliver(h, e) ==
  /\ Bounded /\ handlers[h] = Idle /\ received[e] # "processed"
  /\ clock + Lease <= ClockEnd  \* bound: the clock reaches the end of the lease
  /\ delivered[e] < MaxDeliveries
  /\ delivered' = [delivered EXCEPT ![e] = @ + 1]
  /\ received' = [received EXCEPT ![e] = IF @ = "absent" THEN "received" ELSE @]
  /\ Begin(h, e)
  /\ UNCHANGED <<flows, markers, order, email, clock, errors, late, told, stranded>>

\* listDueWorkflows of the maintenance.
IsDue(e) ==
  /\ flows[e].status \in {"queued", "failed", "running"}
  /\ workflowIsDueForLease(flows[e], clock, FALSE)

\* retryDuePaymentWebhooks: the replay of a processed webhook does nothing.
RetryDue(h, e) ==
  /\ handlers[h] = Idle /\ IsDue(e) /\ received[e] # "processed"
  /\ Begin(h, e)
  /\ UNCHANGED <<documents, clock, histories>>

\* startPaymentWebhookWorkflow: the document is created when absent and leased; a
\* lease is forced on one that was there.
StartFlow(h) ==
  /\ At(h, "start")
  /\ LET flow == createWorkflow(Flow(h), handlers[h].at)
     IN  IF Leasable(flow, handlers[h].at, Flow(h).status # "absent")
         THEN SetFlow(h, tryLeaseWorkflow(flow, handlers[h].at)) /\ Go(h, "find")
         ELSE SetFlow(h, flow) /\ Return(h)
  /\ UNCHANGED <<received, markers, order, email, clock, histories>>

\* findExistingPaymentOrder: an event whose order is known is not linked.
FindOrder(h) ==
  /\ At(h, "find")
  /\ handlers' = [handlers EXCEPT ![h].pc = "begin", ![h].order = order,
                    ![h].step = IF order = NoOrder THEN "link_checkout" ELSE "persist_order"]
  /\ UNCHANGED <<documents, clock, histories>>

\* A lost lease ends the handler; the webhook stays as it was.
BeginStep(h) ==
  /\ At(h, "begin")
  /\ IF HoldsFlow(h)
     THEN SetFlow(h, startWorkflowStep(Flow(h), handlers[h].step)) /\ Go(h, "do")
     ELSE Return(h) /\ UNCHANGED flows
  /\ UNCHANGED <<received, markers, order, email, clock, histories>>

NextStep(s) ==
  CASE s = "link_checkout" -> "persist_order"
    [] s = "persist_order" -> "fulfill_order"
    [] s = "fulfill_order" -> "mark_webhook"

\* runStep ends one step and begins the next, one call right after the other.
Advance(h, next) ==
  /\ IF HoldsFlow(h)
     THEN /\ SetFlow(h, startWorkflowStep(completeWorkflowStep(Flow(h), handlers[h].step), next))
          /\ handlers' = [handlers EXCEPT ![h].pc = "do", ![h].step = next,
                             ![h].failed = (next = "mark_webhook" /\ handlers[h].step = "link_checkout")]
     ELSE Return(h) /\ UNCHANGED flows
  /\ UNCHANGED <<received, markers, order, email, clock, histories>>

EndStep(h) ==
  /\ At(h, "end") /\ handlers[h].step # "mark_webhook"
  /\ Advance(h, NextStep(handlers[h].step))

\* findPaymentEventCheckout: without a checkout the event can only be marked failed.
LinkCheckout(h) ==
  /\ At(h, "do") /\ handlers[h].step = "link_checkout"
  /\ Advance(h, IF handlers[h].event \in Strays THEN "mark_webhook" ELSE "persist_order")

\* Seeded fault: the workflow of an event that found no order ends like any other.
EndAsDone(h) ==
  /\ At(h, "end") /\ handlers[h].step = "mark_webhook"
  /\ IF HoldsFlow(h)
     THEN SetFlow(h, completeWorkflowStep(Flow(h), "mark_webhook")) /\ Go(h, "finish")
     ELSE Return(h) /\ UNCHANGED flows
  /\ UNCHANGED <<received, markers, order, email, clock, histories>>

\* The last step.
EndWorkflow(h) ==
  /\ At(h, "end") /\ handlers[h].step = "mark_webhook"
  /\ IF HoldsFlow(h)
     THEN /\ SetFlow(h, completeWorkflowStep(Flow(h), "mark_webhook"))
          /\ Go(h, IF handlers[h].failed THEN "fail_flow" ELSE "finish")
     ELSE Return(h) /\ UNCHANGED flows
  /\ UNCHANGED <<received, markers, order, email, clock, histories>>

----------------------------------------------------------------------------
(* What the steps do *)

Do(h, s) == At(h, "do") /\ handlers[h].step = s

\* The put of a new order loses to another order of the payment, which is read
\* then; an order that was read is put as it was.
PersistOrder(h) ==
  /\ Do(h, "persist_order")
  /\ IF handlers[h].order = NoOrder /\ order # NoOrder
     THEN handlers' = [handlers EXCEPT ![h].order = order] /\ UNCHANGED order
     ELSE /\ order' = [handlers[h].order EXCEPT !.status = "paid"]
          /\ handlers' = [handlers EXCEPT ![h].pc = "end", ![h].order = order']
  /\ UNCHANGED <<received, flows, markers, email, clock, histories>>

\* fulfillPaidOrder: the line is put when its download is new ...
RecordLine(h) ==
  /\ Do(h, "fulfill_order")
  /\ order' = IF handlers[h].order.ref THEN order ELSE [handlers[h].order EXCEPT !.ref = TRUE]
  /\ handlers' = [handlers EXCEPT ![h].pc = IF handlers[h].order.ref /\ handlers[h].order.done
                                            THEN "acquire" ELSE "close",
                                  ![h].order.ref = TRUE]
  /\ UNCHANGED <<received, flows, markers, email, clock, histories>>

\* ... and the order when it is new or has no fulfilledAt.
CloseOrder(h) ==
  /\ At(h, "close")
  /\ order' = [handlers[h].order EXCEPT !.done = TRUE]
  /\ handlers' = [handlers EXCEPT ![h].pc = "acquire", ![h].order.done = TRUE]
  /\ UNCHANGED <<received, flows, markers, email, clock, histories>>

MarkWebhook(h) ==
  /\ Do(h, "mark_webhook")
  /\ received' = [received EXCEPT ![handlers[h].event] =
                    IF handlers[h].failed THEN "failed" ELSE "processed"]
  /\ Go(h, "end")
  /\ UNCHANGED <<flows, markers, order, email, clock, histories>>

----------------------------------------------------------------------------
(* The notifications: queueOrderConfirmationEmail, emitFulfillmentNotificationOnce *)

\* The handler is about to call for marker k.
Call(h, k, pc) == handlers[h].pc = pc /\ handlers[h].kind = k

\* After a notification: the next one, or the end of the step.
After(h, k) ==
  handlers' = [handlers EXCEPT ![h].pc = IF k = "confirmed" THEN "acquire" ELSE "end",
                               ![h].kind = "download"]

HoldsMarker(h, k) == workflowHasActiveLease(markers[k], handlers[h].at, handlers[h].at)

SetMarker(k, marker) == markers' = [markers EXCEPT ![k] = marker]

\* acquireNotificationMarker: created when absent, leased without force.  A
\* marker that cannot be leased is left to whoever has it.
AcquireMarker(h, k) ==
  /\ Call(h, k, "acquire")
  /\ LET marker == createWorkflow(markers[k], handlers[h].at)
     IN  IF Leasable(marker, handlers[h].at, FALSE)
         THEN SetMarker(k, tryLeaseWorkflow(marker, handlers[h].at)) /\ Go(h, IF k = "confirmed" THEN "look" ELSE "hook")
         ELSE SetMarker(k, marker) /\ After(h, k)
  /\ UNCHANGED <<received, flows, order, email, clock, histories>>

\* The default e-mail of a confirmation may be queued already.
LookForEmail(h, k) ==
  /\ Call(h, k, "look")
  /\ Go(h, IF email # "absent" THEN "complete" ELSE "hook")
  /\ UNCHANGED <<documents, clock, histories>>

\* emitMikaNotification: the host handles the confirmation, or does not, or its
\* hook throws, which is swallowed.  Nothing follows the hook of a download.
Emit(h, k, handled) ==
  /\ Call(h, k, "hook")
  /\ Go(h, IF k = "confirmed" /\ ~handled THEN "check" ELSE "complete")
  /\ told' = IF k = "confirmed" /\ ~handled THEN told ELSE [told EXCEPT ![k] = @ + 1]
  /\ UNCHANGED <<documents, clock, delivered, errors, late, stranded>>

\* queueDefaultOrderConfirmedEmail looks again, and then puts.
CheckEmail(h, k) ==
  /\ Call(h, k, "check")
  /\ Go(h, IF email = "absent" THEN "queue" ELSE "complete")
  /\ UNCHANGED <<documents, clock, histories>>

QueueEmail(h, k) ==
  /\ Call(h, k, "queue")
  /\ email' = "queued"
  /\ Go(h, "complete")
  /\ UNCHANGED <<received, flows, markers, order, clock, histories>>

\* The marker's runner has ctx.now for its clock: only another key takes its lease.
CompleteMarker(h, k) ==
  /\ Call(h, k, "complete")
  /\ IF HoldsMarker(h, k)
     THEN SetMarker(k, completeWorkflow(markers[k])) /\ After(h, k)
     ELSE /\ handlers' = [handlers EXCEPT ![h].pc = "fail_step", ![h].lost = TRUE]
          /\ UNCHANGED markers
  /\ UNCHANGED <<received, flows, order, email, clock, histories>>

\* runner.fail of the marker, due again at once; then the error goes on.
FailMarker(h, k) ==
  /\ Call(h, k, "fail")
  /\ IF HoldsMarker(h, k)
     THEN SetMarker(k, failWorkflow(markers[k], handlers[h].at)) /\ Go(h, "fail_step")
     ELSE /\ handlers' = [handlers EXCEPT ![h].pc = "fail_step", ![h].lost = TRUE]
          /\ UNCHANGED markers
  /\ UNCHANGED <<received, flows, order, email, clock, histories>>

----------------------------------------------------------------------------
(* The end of a workflow *)

CompleteFlow(h) ==
  /\ At(h, "finish")
  /\ IF HoldsFlow(h) THEN SetFlow(h, completeWorkflow(Flow(h))) ELSE UNCHANGED flows
  /\ Return(h)
  /\ UNCHANGED <<received, markers, order, email, clock, histories>>

\* The catch of runStep.  An error other than a lost lease fails the webhook.
FailStep(h) ==
  /\ At(h, "fail_step")
  /\ IF HoldsFlow(h)
     THEN /\ SetFlow(h, failWorkflowStep(Flow(h), handlers[h].step,
                                         nextWorkflowAttemptAt(Flow(h))))
          /\ IF handlers[h].lost THEN Return(h) ELSE Go(h, "mark_failed")
     ELSE Return(h) /\ UNCHANGED flows
  /\ UNCHANGED <<received, markers, order, email, clock, histories>>

\* runner.fail, of a run that returned a failed webhook or that threw.
FailFlow(h) ==
  /\ At(h, "fail_flow")
  /\ IF HoldsFlow(h)
     THEN /\ SetFlow(h, failWorkflow(Flow(h), nextWorkflowAttemptAt(Flow(h))))
          /\ IF handlers[h].failed THEN Return(h) ELSE Go(h, "mark_failed")
     ELSE Return(h) /\ UNCHANGED flows
  /\ UNCHANGED <<received, markers, order, email, clock, histories>>

\* markWebhookFailed of processStoredWebhook.
MarkFailed(h) ==
  /\ At(h, "mark_failed")
  /\ received' = [received EXCEPT ![handlers[h].event] = "failed"]
  /\ Return(h)
  /\ UNCHANGED <<flows, markers, order, email, clock, histories>>

----------------------------------------------------------------------------
(* Faults *)

\* While the clock can reach the end of a lease.
Trouble == Bounded /\ clock + Lease <= ClockEnd

\* Where a call that throws leads: the catch of the marker, of the step, of the
\* workflow and of processStoredWebhook.
Catch(h) ==
  CASE handlers[h].pc = "start" -> "mark_failed"
    [] handlers[h].pc \in {"find", "begin", "finish", "fail_step"} -> "fail_flow"
    [] handlers[h].pc = "fail_flow" -> IF handlers[h].failed THEN "fail_flow" ELSE "mark_failed"
    [] handlers[h].pc \in {"do", "end", "close", "acquire", "fail"} -> "fail_step"
    [] handlers[h].pc \in {"look", "check", "queue", "complete"} -> "fail"

\* A failure whose error is a lost lease is not caught beyond the step.
CallThrows(h) ==
  /\ handlers[h].pc \notin {"idle", "hook", "mark_failed"}
  /\ Trouble /\ errors' = errors + 1
  /\ IF handlers[h].lost THEN Return(h)
     ELSE handlers' = [handlers EXCEPT ![h].pc = Catch(h), ![h].failed = FALSE]
  /\ stranded' = stranded \cup {k \in Kinds : Call(h, k, "fail")}
  /\ UNCHANGED <<documents, clock, delivered, late, told>>

\* The process dies, or nothing catches.
Die(h) ==
  /\ handlers[h] # Idle
  /\ Trouble /\ errors' = errors + 1
  /\ Return(h)
  /\ UNCHANGED <<documents, clock, delivered, late, told, stranded>>

----------------------------------------------------------------------------
(* The others *)

\* reclaimExhaustedWorkflows, of every kind.
ReclaimFlow(e) ==
  /\ workflowIsExhausted(flows[e])
  /\ flows' = [flows EXCEPT ![e] = Ended(@, "failed", Never)]
  /\ UNCHANGED <<received, markers, order, email, handlers, clock, histories>>

ReclaimMarker(k) ==
  /\ workflowIsExhausted(markers[k])
  /\ SetMarker(k, Ended(markers[k], "failed", Never))
  /\ UNCHANGED <<received, flows, order, email, handlers, clock, histories>>

\* The outbox, which EmailOutbox.tla models.
SendConfirmation ==
  /\ email = "queued"
  /\ email' = "sent"
  /\ told' = [told EXCEPT !["confirmed"] = @ + 1]
  /\ UNCHANGED <<received, flows, markers, order, handlers, clock, delivered, errors, late,
                 stranded>>

\* The clock moves when no handler is at work, or on beyond the leases of all
\* that are: within its lease a handler sees no difference.
ClockTicks ==
  /\ clock < ClockEnd
  /\ IF AtRest THEN clock' = clock + 1 /\ UNCHANGED late
                ELSE Trouble /\ clock' = clock + Lease /\ late' = late + 1
  /\ UNCHANGED <<documents, handlers, delivered, errors, told, stranded>>

----------------------------------------------------------------------------
\* One await of a handler.
Handle(h) ==
  \/ StartFlow(h) \/ FindOrder(h) \/ BeginStep(h) \/ EndStep(h) \/ EndWorkflow(h)
  \/ LinkCheckout(h) \/ PersistOrder(h) \/ RecordLine(h) \/ CloseOrder(h) \/ MarkWebhook(h)
  \/ \E k \in Kinds : \/ AcquireMarker(h, k) \/ LookForEmail(h, k) \/ CheckEmail(h, k)
                      \/ QueueEmail(h, k) \/ CompleteMarker(h, k) \/ FailMarker(h, k)
                      \/ \E handled \in BOOLEAN : Emit(h, k, handled)
  \/ CompleteFlow(h) \/ FailStep(h) \/ FailFlow(h) \/ MarkFailed(h)

Maintain ==
  \/ \E h \in Handlers, e \in Events : RetryDue(h, e)
  \/ \E e \in Events : ReclaimFlow(e)
  \/ \E k \in Kinds : ReclaimMarker(k)

WorkflowNext ==
  \/ \E h \in Handlers : Handle(h) \/ CallThrows(h) \/ Die(h)
                         \/ \E e \in Events : Deliver(h, e)
  \/ Maintain \/ SendConfirmation \/ ClockTicks

\* The host runs the maintenance again and again; a handler that does not die goes on.
WorkflowFairness ==
  /\ \A h \in Handlers : WF_workflowVars(Handle(h))
  /\ WF_workflowVars(Maintain) /\ WF_workflowVars(ClockTicks)

WorkflowSpec == WorkflowInit /\ [][WorkflowNext]_workflowVars /\ WorkflowFairness

----------------------------------------------------------------------------
(* Properties *)

Doc == [status : {"absent", "queued", "running", "failed", "completed"},
        tries : 0..(MaxTries + MaxDeliveries), next : 0..(ClockEnd + LastRetry),
        key : 0..ClockEnd, ends : 0..(ClockEnd + Lease),
        steps : [Steps -> {"queued", "running", "completed", "failed", "skipped"}] \cup {<<>>}]

OrderDoc == [status : {"none", "paid"}, ref : BOOLEAN, done : BOOLEAN]

\* Documents have their shape, and a lease has a key and an end.
WorkflowTypeOK ==
  /\ received \in [Events -> {"absent", "received", "failed", "processed"}]
  /\ flows \in [Events -> Doc] /\ markers \in [Kinds -> Doc]
  /\ \A flow \in {flows[e] : e \in Events} \cup {markers[k] : k \in Kinds} :
       /\ (flow.key # Never) = (flow.ends # Never)
       /\ (flow.status = "running") = (flow.key # Never)
  /\ order \in OrderDoc /\ email \in {"absent", "queued", "sent"}
  /\ clock \in 1..ClockEnd /\ stranded \subseteq Kinds

\* However many events tell of an order, and however often they are delivered
\* and replayed, its customer is told once: a second time takes a call that
\* failed, a handler that died or one that outlived its lease.
ToldOnce == \A k \in Kinds : told[k] <= 1 + errors + late

Announced(k) == told[k] > 0 \/ (k = "confirmed" /\ email # "absent")

\* A handler that finds the marker taken leaves the notification to another one.
\* When all workflows of an order are completed none of them has relied on one
\* that died or failed: the customer is told, or the marker used up its attempts
\* or could not be given back.
CompletedIsTold ==
  (/\ AtRest
   /\ \E e \in Events : flows[e].status = "completed"
   /\ \A e \in Events : flows[e].status \in {"absent", "completed"})
  => \A k \in Kinds : Announced(k) \/ markers[k].tries >= MaxTries \/ k \in stranded

\* However many events tell of an order, and whoever gives up on the way, its customer is
\* told, and once.
CustomerIsTold == ToldOnce /\ CompletedIsTold

\* A workflow is run until it is completed or has used up its attempts, although
\* handlers die at any step and the provider may not send the event again.  One
\* whose handler died between the last step and the end is never closed: its
\* event is processed and its replay does nothing.
FlowsEnd ==
  <>[](\A e \in Events :
         \/ flows[e].status \in {"absent", "completed"} \/ received[e] = "processed"
         \/ flows[e].status = "failed" /\ flows[e].tries >= MaxTries)

=============================================================================

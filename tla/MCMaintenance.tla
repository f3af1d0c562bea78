---------------------------- MODULE MCMaintenance ----------------------------
(***************************************************************************)
(* Small instances of three maintenance tasks, EmailOutbox,                *)
(* AccountDeletion and the retries of Workflow, for TLC.  They share no    *)
(* document whose state one of them waits for, so they are put side by     *)
(* side and not composed: the first state chooses the task that runs, and  *)
(* the others rest.                                                        *)
(***************************************************************************)
EXTENDS EmailOutbox

CONSTANTS
  e1, r1, r2, j1, j2, w1,
  Requests, Jobs, Writers, Written, MaxWrites, MaxPurchases, MaxFailures,
  ev1, ev2, h1, h2,
  Paid, Strays, Replayers, MaxTries, Lease, FirstRetry, LastRetry, ClockEnd, MaxDeliveries,
  MaxTroubles

VARIABLES
  task,  \* "outbox", "deletion" or "retries"
  requests, left, jobs, writers, active, purchases, writes, failures, erased, carried, overlapped,
  received, flows, markers, order, email, handlers, clock, delivered, errors, late, told, stranded

Deletion == INSTANCE AccountDeletion
Flow == INSTANCE Workflow WITH Events <- Paid, Handlers <- Replayers

ASSUME MaintenanceAssumption == Deletion!DeletionAssumption /\ Flow!WorkflowAssumption

deletionVars == <<requests, left, jobs, writers, active, purchases, writes, failures, erased,
                  carried, overlapped>>

flowVars == <<received, flows, markers, order, email, handlers, clock, delivered, errors, late,
              told, stranded>>

allVars == <<task, vars, deletionVars, flowVars>>

InOutbox == task = "outbox"
InDeletion == task = "deletion"
InRetries == task = "retries"

OnlyOutbox == UNCHANGED <<task, deletionVars, flowVars>>
OnlyDeletion == UNCHANGED <<task, vars, flowVars>>
OnlyRetries == UNCHANGED <<task, vars, deletionVars>>

MaintenanceInit ==
  task \in {"outbox", "deletion", "retries"} /\ Init /\ Deletion!DeletionInit /\ Flow!WorkflowInit

MaintenanceNext ==
  \/ \E r \in Runs :
       \/ InOutbox /\ BeginRun(r) /\ OnlyOutbox
       \/ InOutbox /\ LeaseEmail(r) /\ OnlyOutbox
       \/ InOutbox /\ Prepare(r) /\ OnlyOutbox
       \/ InOutbox /\ Send(r) /\ OnlyOutbox
       \/ InOutbox /\ CompleteEmail(r) /\ OnlyOutbox
       \/ InOutbox /\ MarkEmailDelivered(r) /\ OnlyOutbox
       \/ InOutbox /\ FailEmail(r) /\ OnlyOutbox
       \/ InOutbox /\ SkipEmail(r) /\ OnlyOutbox
       \/ InOutbox /\ CompleteThrows(r) /\ OnlyOutbox
       \/ InOutbox /\ RunDies(r) /\ OnlyOutbox
       \/ InOutbox /\ (\E taken \in BOOLEAN : SendThrows(r, taken)) /\ OnlyOutbox
  \/ \E e \in Emails :
       \/ InOutbox /\ ReclaimExhausted(e) /\ OnlyOutbox
       \/ InOutbox /\ Redact(e) /\ OnlyOutbox
       \/ InOutbox /\ BeginResend(e) /\ OnlyOutbox
       \/ InOutbox /\ PutResend(e) /\ OnlyOutbox
       \/ InOutbox /\ QueueLate(e) /\ OnlyOutbox
       \/ InOutbox /\ RefundOrder(e) /\ OnlyOutbox
  \/ InOutbox /\ Tick /\ OnlyOutbox
  \/ \E q \in Requests :
       \/ InDeletion /\ Deletion!AskDeletion(q) /\ OnlyDeletion
       \/ InDeletion /\ Deletion!PutRequest(q) /\ OnlyDeletion
  \/ InDeletion /\ Deletion!BeginPurchase /\ OnlyDeletion
  \/ InDeletion /\ Deletion!EndPurchase /\ OnlyDeletion
  \/ \E j \in Jobs :
       \/ InDeletion /\ Deletion!BeginMaintenance(j) /\ OnlyDeletion
       \/ InDeletion /\ Deletion!CheckAllowed(j) /\ OnlyDeletion
       \/ InDeletion /\ Deletion!RunStep(j) /\ OnlyDeletion
       \/ InDeletion /\ Deletion!RecordStep(j) /\ OnlyDeletion
       \/ InDeletion /\ Deletion!CompleteRequest(j) /\ OnlyDeletion
       \/ InDeletion /\ Deletion!RecordFailure(j) /\ OnlyDeletion
       \/ InDeletion /\ Deletion!CallThrows(j) /\ OnlyDeletion
       \/ InDeletion /\ Deletion!MaintenanceDies(j) /\ OnlyDeletion
  \/ \E w \in Writers :
       \/ InDeletion /\ Deletion!PutWrite(w) /\ OnlyDeletion
       \/ InDeletion /\ (\E k \in Written : Deletion!BeginWrite(w, k)) /\ OnlyDeletion
  \/ \E h \in Replayers :
       \/ InRetries /\ Flow!StartFlow(h) /\ OnlyRetries
       \/ InRetries /\ Flow!FindOrder(h) /\ OnlyRetries
       \/ InRetries /\ Flow!BeginStep(h) /\ OnlyRetries
       \/ InRetries /\ Flow!EndStep(h) /\ OnlyRetries
       \/ InRetries /\ Flow!EndWorkflow(h) /\ OnlyRetries
       \/ InRetries /\ Flow!LinkCheckout(h) /\ OnlyRetries
       \/ InRetries /\ Flow!PersistOrder(h) /\ OnlyRetries
       \/ InRetries /\ Flow!RecordLine(h) /\ OnlyRetries
       \/ InRetries /\ Flow!CloseOrder(h) /\ OnlyRetries
       \/ InRetries /\ Flow!MarkWebhook(h) /\ OnlyRetries
       \/ InRetries /\ Flow!CompleteFlow(h) /\ OnlyRetries
       \/ InRetries /\ Flow!FailStep(h) /\ OnlyRetries
       \/ InRetries /\ Flow!FailFlow(h) /\ OnlyRetries
       \/ InRetries /\ Flow!MarkFailed(h) /\ OnlyRetries
       \/ InRetries /\ Flow!CallThrows(h) /\ OnlyRetries
       \/ InRetries /\ Flow!Die(h) /\ OnlyRetries
  \/ \E h \in Replayers, k \in Flow!Kinds :
       \/ InRetries /\ Flow!AcquireMarker(h, k) /\ OnlyRetries
       \/ InRetries /\ Flow!LookForEmail(h, k) /\ OnlyRetries
       \/ InRetries /\ Flow!CheckEmail(h, k) /\ OnlyRetries
       \/ InRetries /\ Flow!QueueEmail(h, k) /\ OnlyRetries
       \/ InRetries /\ Flow!CompleteMarker(h, k) /\ OnlyRetries
       \/ InRetries /\ Flow!FailMarker(h, k) /\ OnlyRetries
       \/ InRetries /\ (\E handled \in BOOLEAN : Flow!Emit(h, k, handled)) /\ OnlyRetries
  \/ \E h \in Replayers, e \in Paid :
       \/ InRetries /\ Flow!Deliver(h, e) /\ OnlyRetries
       \/ InRetries /\ Flow!RetryDue(h, e) /\ OnlyRetries
  \/ InRetries /\ (\E e \in Paid : Flow!ReclaimFlow(e)) /\ OnlyRetries
  \/ InRetries /\ (\E k \in Flow!Kinds : Flow!ReclaimMarker(k)) /\ OnlyRetries
  \/ InRetries /\ Flow!SendConfirmation /\ OnlyRetries
  \/ InRetries /\ Flow!ClockTicks /\ OnlyRetries

\* What the host keeps going: runs of both tasks, the handlers and the clock.
Progress ==
  \/ InOutbox /\ (\E r \in Runs : BeginRun(r) \/ Deliver(r)) /\ OnlyOutbox
  \/ InOutbox /\ (\E e \in Emails : ReclaimExhausted(e) \/ PutResend(e)) /\ OnlyOutbox
  \/ InOutbox /\ Tick /\ OnlyOutbox
  \/ /\ InDeletion /\ OnlyDeletion
     /\ \E j \in Jobs : Deletion!BeginMaintenance(j) \/ Deletion!Maintain(j)
  \/ /\ InRetries /\ OnlyRetries
     /\ Flow!Maintain \/ Flow!ClockTicks \/ \E h \in Replayers : Flow!Handle(h)

\* Less than the fairness of the three modules, and enough.
MaintenanceSpec == MaintenanceInit /\ [][MaintenanceNext]_allVars /\ WF_allVars(Progress)

----------------------------------------------------------------------------
\* OutboxDrains, when the outbox is at work.
Drains == task = "outbox" => OutboxDrains

\* After a completed deletion nothing of the customer is stored, but for what a handler
\* had read before, or was given by a visitor or a payment event
\* (AccountDeletion!CompletedIsErased).
CompletedIsErased == Deletion!CompletedIsErased

\* A deletion with a recorded step is resumed and not given up
\* (AccountDeletion!HalfErasedIsResumed).
HalfErasedIsResumed == Deletion!HalfErasedIsResumed

\* A queued deletion ends (AccountDeletion!DeletionsEnd).
DeletionsEnd == Deletion!DeletionsEnd

\* The workflow of a payment event ends, although handlers die (Workflow!FlowsEnd).
FlowsEnd == Flow!FlowsEnd
=============================================================================

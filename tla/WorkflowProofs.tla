--------------------------- MODULE WorkflowProofs ---------------------------
(***************************************************************************)
(* Theorems about Workflow, for every set of events and handlers, every    *)
(* lease, number of attempts and bound, as MCServices uses it.             *)
(***************************************************************************)
EXTENDS MCServices, FiniteSets, FiniteSetTheorems, TLAPS

servicesVars == <<service, subVars, cartVars, auditVars, tokenVars, flowVars>>

\* The service that is used stays the one that is used.
LEMMA ServiceStays ==
  ASSUME [ServicesNext]_servicesVars
  PROVE  service' = service
<1>1. ASSUME ServicesNext
      PROVE  OnlySubscription \/ OnlyCart \/ OnlyAudit \/ OnlyToken \/ OnlyWorkflow
  BY <1>1 DEF ServicesNext
<1> QED
  BY <1>1 DEF servicesVars, OnlySubscription, OnlyCart, OnlyAudit, OnlyToken, OnlyWorkflow

----------------------------------------------------------------------------
(* The workflows: their inductive invariant *)

\* The steps of a handler, those within a notification, and all of the workflows' steps that
\* the services take: the maintenance that gives up on a workflow is not one of them.
WorkflowRuns(h) ==
  \/ Flow!StartFlow(h) \/ Flow!FindOrder(h) \/ Flow!BeginStep(h) \/ Flow!EndStep(h) \/ Flow!EndWorkflow(h)
  \/ Flow!LinkCheckout(h) \/ Flow!PersistOrder(h) \/ Flow!RecordLine(h) \/ Flow!CloseOrder(h)
  \/ Flow!MarkWebhook(h) \/ Flow!CompleteFlow(h) \/ Flow!FailStep(h) \/ Flow!FailFlow(h)
  \/ Flow!MarkFailed(h) \/ Flow!CallThrows(h) \/ Flow!Die(h)

WorkflowCalls(h, k) ==
  \/ Flow!AcquireMarker(h, k) \/ Flow!LookForEmail(h, k) \/ Flow!CheckEmail(h, k) \/ Flow!QueueEmail(h, k)
  \/ Flow!CompleteMarker(h, k) \/ Flow!FailMarker(h, k) \/ \E handled \in BOOLEAN : Flow!Emit(h, k, handled)

WorkflowSteps ==
  \/ \E h \in Replayers : WorkflowRuns(h)
  \/ \E h \in Replayers, k \in Flow!Kinds : WorkflowCalls(h, k)
  \/ \E h \in Replayers, e \in Paid : Flow!Deliver(h, e) \/ Flow!RetryDue(h, e)
  \/ Flow!SendConfirmation \/ Flow!ClockTicks

\* A step of the services is one of them, when the workflows are used.
LEMMA WorkflowAlone ==
  ASSUME InWorkflow, [ServicesNext]_servicesVars
  PROVE  WorkflowSteps \/ UNCHANGED flowVars
<1>1. ASSUME ServicesNext
      PROVE  WorkflowSteps
  BY <1>1 DEF ServicesNext, InAudit, InCart, InSubscription, InToken, InWorkflow,
              WorkflowSteps, WorkflowRuns, WorkflowCalls
<1> QED
  BY <1>1 DEF servicesVars
\* A workflow document, and the marker of a notification, whose lease lasts Lease.
Fields == {"status", "tries", "next", "key", "ends", "steps"}

FlowDoc(flow) ==
  /\ Fields \subseteq DOMAIN flow
  /\ flow.status \in {"absent", "queued", "running", "failed", "completed"}
  /\ flow.tries \in Nat /\ flow.key \in Nat /\ flow.ends \in Nat
  /\ IF flow.status = "running" THEN flow.ends = flow.key + Lease ELSE flow.ends = 0
  /\ flow.status = "absent" => flow.tries = 0

MarkerDoc(marker) ==
  /\ FlowDoc(marker) /\ marker.status # "queued"
  /\ marker.status = "failed" => marker.next \in Nat
  /\ marker.status = "running" => marker.next = 0

Places == {"idle", "start", "find", "begin", "do", "end", "close", "acquire", "look", "hook", "check",
           "queue", "complete", "fail", "finish", "fail_step", "fail_flow", "mark_failed"}

Runner == [pc : Places, event : Paid \cup {0}, at : Nat, step : Flow!Steps \cup {"none"}, kind : Flow!Kinds,
           order : Flow!OrderDoc, failed : BOOLEAN, lost : BOOLEAN]

WorkflowTypes ==
  /\ DOMAIN flows = Paid /\ \A e \in Paid : FlowDoc(flows[e])
  /\ DOMAIN markers = Flow!Kinds /\ \A k \in Flow!Kinds : MarkerDoc(markers[k])
  /\ runners \in [Replayers -> Runner] /\ order \in Flow!OrderDoc
  /\ email \in {"absent", "queued", "sent"} /\ notified \in [Flow!Kinds -> Nat]
  /\ clock \in Nat \ {0} /\ errors \in Nat /\ late \in Nat

\* A handler at work, one that may still hold the lease of its workflow, one that leased
\* the marker of k, and one that may still tell of k.
Busy(row) == row.pc # "idle"
Active(row) == row.pc \notin {"idle", "start", "mark_failed"}
Works(row, k) == row.kind = k /\ row.pc \in {"look", "hook", "check", "queue", "complete", "fail"}
Tells(row, k) == row.kind = k /\ row.pc \in {"look", "hook", "check", "queue"}

\* A handler on its way to complete the workflow that has the marker of k behind it.
Past(row, k) == row.kind = "download" /\ (k = "download" => row.pc \in {"do", "end", "finish"})

\* The course of a handler: the notifications come within fulfill_order, and only after
\* the second one a workflow is completed.
Course(row) ==
  /\ row.pc = "idle" => row = Flow!Idle
  /\ Busy(row) => row.event \in Paid
  /\ row.pc \in {"look", "check", "queue"} => row.kind = "confirmed"
  /\ row.pc \in {"begin", "do", "end"} => row.step \in Flow!Steps
  /\ row.pc = "begin" => row.step \in {"link_checkout", "persist_order"}
  /\ row.pc \in {"close", "acquire"} \/ Works(row, row.kind) => row.step = "fulfill_order"
  /\ row.kind = "download" =>
       /\ row.pc \notin {"idle", "start", "find", "begin", "close"}
       /\ row.pc = "do" => row.step = "mark_webhook"
       /\ row.pc = "end" => row.step \in {"fulfill_order", "mark_webhook"}
  /\ \/ row.pc = "finish"
     \/ row.pc = "end" /\ row.step = "fulfill_order"
     \/ row.pc \in {"do", "end"} /\ row.step = "mark_webhook" /\ ~row.failed
     => row.kind = "download"

\* A handler outlived as many leases as the clock jumped since it began.
Outlived(row, j) == clock = row.at + Lease * j

RowsInv ==
  \A h \in Replayers : /\ Course(runners[h])
                       /\ Busy(runners[h]) => \E j \in 0..late : Outlived(runners[h], j)

\* A handler within its lease.
Leads(h) == Active(runners[h]) /\ runners[h].at = clock

LeaseInv ==
  /\ \A h \in Replayers : Active(runners[h]) => flows[runners[h].event].status # "absent"
  /\ \A h \in Replayers : Leads(h) => /\ flows[runners[h].event].status = "running"
                                      /\ flows[runners[h].event].key = runners[h].at
  /\ \A h, g \in Replayers : Leads(h) /\ Leads(g) /\ runners[h].event = runners[g].event => h = g

\* When a marker was leased, or may be leased again.
Since(k) == IF markers[k].status = "running" THEN markers[k].key ELSE markers[k].next

Keeps(h, k) == markers[k].status = "running" /\ Works(runners[h], k) /\ runners[h].at = markers[k].key

\* Who leased a marker before lost it to a later key, or gave it back.
KeeperInv(k) ==
  /\ markers[k].status \in {"running", "failed"} => Since(k) <= clock
  /\ \A h \in Replayers : Works(runners[h], k) =>
       /\ markers[k].status # "absent"
       /\ markers[k].status = "running" => runners[h].at <= markers[k].key
       /\ markers[k].status = "failed" => runners[h].at < markers[k].next
  /\ \A h, g \in Replayers : Keeps(h, k) /\ Keeps(g, k) => h = g

\* Every lease of a marker but the first is paid for by an error or an outlived lease.
PaidFor(k) ==
  /\ markers[k].tries <= 1 + errors + late
  /\ markers[k].status = "failed" \/ (markers[k].status = "running" /\ \A h \in Replayers : ~Keeps(h, k)) =>
       /\ markers[k].tries <= errors + late
       /\ \A h \in Replayers, j \in 0..late :
            Busy(runners[h]) /\ runners[h].at >= Since(k) /\ Outlived(runners[h], j)
              => markers[k].tries + j <= errors + late
  /\ \A h \in Replayers, j \in 0..late :
       Keeps(h, k) /\ Outlived(runners[h], j)
         => /\ markers[k].tries + j <= 1 + errors + late
            /\ runners[h].pc = "fail" => markers[k].tries + j <= errors + late

\* Who was told, or may yet be told, was so by a lease of the marker.
Tellers(k) == {h \in Replayers : Tells(runners[h], k)}

Queued(k) == IF k = "confirmed" /\ email = "queued" THEN 1 ELSE 0

TellInv(k) ==
  IsFiniteSet(Tellers(k)) /\ notified[k] + Cardinality(Tellers(k)) + Queued(k) <= markers[k].tries

\* A marker that a handler has behind it was made, and is completed when it was told.
BehindInv(k) ==
  /\ \A h \in Replayers : Past(runners[h], k) => markers[k].status # "absent"
  /\ \A e \in Paid : flows[e].status = "completed" => markers[k].status # "absent"
  /\ markers[k].status = "completed" => Flow!Announced(k)
  /\ \A h \in Replayers : runners[h].pc = "complete" /\ runners[h].kind = k => Flow!Announced(k)

\* An open workflow that can only be completed by way of the marker of k.
Owes(e, k) ==
  /\ flows[e].status \notin {"absent", "completed"}
  /\ \A h \in Replayers : Leads(h) /\ runners[h].event = e => ~Past(runners[h], k)
  /\ markers[k].status = "running" /\ clock < markers[k].ends =>
       /\ flows[e].status = "running" /\ flows[e].key = markers[k].key
       /\ \A h \in Replayers : Leads(h) /\ runners[h].event = e => Works(runners[h], k)

\* A marker that was taken and not completed is owed by a workflow, unless it used up its
\* attempts or could not be given back.
OwedInv(k) ==
  \/ markers[k].status \in {"absent", "completed"}
  \/ Flow!Announced(k) \/ markers[k].tries >= MaxTries \/ k \in stranded
  \/ \E e \in Paid : Owes(e, k)

\* All that is so of the marker of k.
KindInv(k) == KeeperInv(k) /\ PaidFor(k) /\ TellInv(k) /\ BehindInv(k) /\ OwedInv(k)

WorkflowInv == RowsInv /\ LeaseInv /\ \A k \in Flow!Kinds : KindInv(k)

----------------------------------------------------------------------------
(* The workflows: proofs *)

CreatedAs(flow, at, made) ==
  /\ FlowDoc(made) /\ made.tries = flow.tries /\ made.key = flow.key /\ made.ends = flow.ends
  /\ flow.status # "absent" => made = flow
  /\ flow.status = "absent" => made.status = "queued" /\ made.next = at

TakenUp(flow, at, leased) ==
  /\ FlowDoc(leased) /\ leased.status = "running" /\ leased.tries = flow.tries + 1
  /\ leased.key = at /\ leased.ends = at + Lease /\ leased.next = 0

\* What creating and leasing do to a document; neither changes the set of its fields.
LEMMA DocLeased ==
  ASSUME NEW flow, FlowDoc(flow), NEW at \in Nat
  PROVE  /\ CreatedAs(flow, at, Flow!createWorkflow(flow, at))
         /\ TakenUp(flow, at, Flow!tryLeaseWorkflow(Flow!createWorkflow(flow, at), at))
<1>1. Lease \in Nat \ {0}
  BY ServicesAssumption DEF Flow!WorkflowAssumption
<1> DEFINE made == Flow!createWorkflow(flow, at)
<1>2. PICK doc : doc = made
  OBVIOUS
<1>3. /\ FlowDoc(doc) /\ doc.tries = flow.tries /\ doc.key = flow.key /\ doc.ends = flow.ends
      /\ flow.status # "absent" => doc = flow
      /\ flow.status = "absent" => doc.status = "queued" /\ doc.next = at
  BY <1>2 DEF Flow!createWorkflow, FlowDoc, Fields
<1>4. PICK leased : leased = Flow!tryLeaseWorkflow(doc, at)
  OBVIOUS
<1>5. /\ FlowDoc(leased) /\ leased.status = "running" /\ leased.tries = doc.tries + 1
      /\ leased.key = at /\ leased.ends = at + Lease /\ leased.next = 0
  BY <1>1, <1>3, <1>4 DEF Flow!tryLeaseWorkflow, Flow!Never, FlowDoc, Fields
<1> QED
  BY <1>2, <1>3, <1>4, <1>5 DEF CreatedAs, TakenUp

SameLease(flow, other) ==
  /\ other.status = flow.status /\ other.tries = flow.tries
  /\ other.key = flow.key /\ other.ends = flow.ends

\* Steps that begin or end leave the lease.
LEMMA DocSteps ==
  ASSUME NEW flow, FlowDoc(flow), NEW s
  PROVE  /\ FlowDoc(Flow!startWorkflowStep(flow, s)) /\ SameLease(flow, Flow!startWorkflowStep(flow, s))
         /\ FlowDoc(Flow!completeWorkflowStep(flow, s)) /\ SameLease(flow, Flow!completeWorkflowStep(flow, s))
<1>1. ASSUME NEW status
      PROVE  /\ FlowDoc(Flow!OneStep(flow, s, status)) /\ SameLease(flow, Flow!OneStep(flow, s, status))
  BY DEF Flow!OneStep, FlowDoc, Fields, SameLease
<1>2. ASSUME NEW doc, FlowDoc(doc)
      PROVE  FlowDoc([doc EXCEPT !.next = Flow!Never]) /\ SameLease(doc, [doc EXCEPT !.next = Flow!Never])
  BY <1>2 DEF FlowDoc, Fields, SameLease
<1> QED
  BY <1>1, <1>2 DEF Flow!startWorkflowStep, Flow!completeWorkflowStep, SameLease

\* The end of a lease.
LEMMA DocEnds ==
  ASSUME NEW flow, FlowDoc(flow), NEW next, NEW s
  PROVE  /\ LET done == Flow!completeWorkflow(flow)
            IN  FlowDoc(done) /\ done.status = "completed" /\ done.tries = flow.tries
         /\ LET failed == Flow!failWorkflow(flow, next)
            IN  FlowDoc(failed) /\ failed.status = "failed" /\ failed.tries = flow.tries /\ failed.next = next
         /\ LET failed == Flow!failWorkflowStep(flow, s, next)
            IN  FlowDoc(failed) /\ failed.status = "failed" /\ failed.tries = flow.tries
<1>1. ASSUME NEW status \in {"completed", "failed"}, NEW at
      PROVE  /\ FlowDoc(Flow!Ended(flow, status, at)) /\ Flow!Ended(flow, status, at).status = status
             /\ Flow!Ended(flow, status, at).tries = flow.tries /\ Flow!Ended(flow, status, at).next = at
  BY DEF Flow!Ended, Flow!Never, FlowDoc, Fields
<1>2. ASSUME NEW doc, FlowDoc(doc), NEW from, NEW status
      PROVE  /\ FlowDoc(Flow!AllSteps(doc, from, status))
             /\ Flow!AllSteps(doc, from, status).status = doc.status
             /\ Flow!AllSteps(doc, from, status).tries = doc.tries
             /\ Flow!AllSteps(doc, from, status).next = doc.next
  BY <1>2 DEF Flow!AllSteps, FlowDoc, Fields
<1>3. ASSUME NEW doc, FlowDoc(doc), NEW status
      PROVE  /\ FlowDoc(Flow!OneStep(doc, s, status)) /\ Flow!OneStep(doc, s, status).status = doc.status
             /\ Flow!OneStep(doc, s, status).tries = doc.tries
  BY <1>3 DEF Flow!OneStep, FlowDoc, Fields
<1> QED
  BY <1>1, <1>2, <1>3 DEF Flow!completeWorkflow, Flow!failWorkflow, Flow!failWorkflowStep

\* What the handlers become: rows of the same event and the same moment.
Same(old, row) == row.event = old.event /\ row.at = old.at

Moves(h, row) == runners' = [runners EXCEPT ![h] = row]

\* The ways a row is rewritten.
LEMMA RunnerGoes ==
  ASSUME NEW old \in Runner, NEW pc \in Places
  PROVE  \E row \in Runner : /\ row = [old EXCEPT !.pc = pc] /\ Same(old, row) /\ row.pc = pc
                             /\ row.step = old.step /\ row.kind = old.kind /\ row.failed = old.failed
<1> DEFINE row == [old EXCEPT !.pc = pc]
<1>1. row \in Runner /\ Same(old, row) /\ row.pc = pc
  BY DEF Runner, Same
<1>2. row.step = old.step /\ row.kind = old.kind /\ row.failed = old.failed
  BY DEF Runner
<1> QED
  BY <1>1, <1>2, Zenon

\* What a handler becomes, at place pc: it goes on to another step, with another order,
\* turns to another notification, lost the lease of a marker, or caught an error.
Advanced(old, pc, step, failed) == [old EXCEPT !.pc = pc, !.step = step, !.failed = failed]
Ordered(old, pc, o, step) == [old EXCEPT !.pc = pc, !.order = o, !.step = step]
Holding(old, pc, o) == [old EXCEPT !.pc = pc, !.order = o]
Turned(old, pc, k) == [old EXCEPT !.pc = pc, !.kind = k]
Losing(old, pc, l) == [old EXCEPT !.pc = pc, !.lost = l]
Caught(old, pc, f) == [old EXCEPT !.pc = pc, !.failed = f]

\* A row with one field rewritten: its order ...
LEMMA RunnerOrder ==
  ASSUME NEW old \in Runner, NEW o \in Flow!OrderDoc
  PROVE  \E row \in Runner : /\ row = [old EXCEPT !.order = o] /\ Same(old, row) /\ row.pc = old.pc
                             /\ row.step = old.step /\ row.kind = old.kind /\ row.failed = old.failed
<1> DEFINE row == [old EXCEPT !.order = o]
<1>1. row \in Runner /\ Same(old, row) /\ row.pc = old.pc
  BY DEF Runner, Same
<1>2. row.step = old.step /\ row.kind = old.kind /\ row.failed = old.failed
  BY DEF Runner
<1> QED
  BY <1>1, <1>2, Zenon

\* ... its step ...
LEMMA RunnerStep ==
  ASSUME NEW old \in Runner, NEW step \in Flow!Steps
  PROVE  \E row \in Runner : /\ row = [old EXCEPT !.step = step] /\ Same(old, row) /\ row.pc = old.pc
                             /\ row.step = step /\ row.kind = old.kind /\ row.failed = old.failed
<1> DEFINE row == [old EXCEPT !.step = step]
<1>1. row \in Runner /\ Same(old, row) /\ row.pc = old.pc
  BY DEF Runner, Same
<1>2. row.step = step /\ row.kind = old.kind /\ row.failed = old.failed
  BY DEF Runner
<1> QED
  BY <1>1, <1>2, Zenon

\* ... its notification ...
LEMMA RunnerKind ==
  ASSUME NEW old \in Runner, NEW k \in Flow!Kinds
  PROVE  \E row \in Runner : /\ row = [old EXCEPT !.kind = k] /\ Same(old, row) /\ row.pc = old.pc
                             /\ row.step = old.step /\ row.kind = k /\ row.failed = old.failed
<1> DEFINE row == [old EXCEPT !.kind = k]
<1>1. row \in Runner /\ Same(old, row) /\ row.pc = old.pc
  BY DEF Runner, Same
<1>2. row.step = old.step /\ row.kind = k /\ row.failed = old.failed
  BY DEF Runner
<1> QED
  BY <1>1, <1>2, Zenon

\* ... that its lease is lost ...
LEMMA RunnerLost ==
  ASSUME NEW old \in Runner, NEW l \in BOOLEAN
  PROVE  \E row \in Runner : /\ row = [old EXCEPT !.lost = l] /\ Same(old, row) /\ row.pc = old.pc
                             /\ row.step = old.step /\ row.kind = old.kind /\ row.failed = old.failed
<1> DEFINE row == [old EXCEPT !.lost = l]
<1>1. row \in Runner /\ Same(old, row) /\ row.pc = old.pc
  BY DEF Runner, Same
<1>2. row.step = old.step /\ row.kind = old.kind /\ row.failed = old.failed
  BY DEF Runner
<1> QED
  BY <1>1, <1>2, Zenon

\* ... that its webhook failed, is a row again.
LEMMA RunnerFailed ==
  ASSUME NEW old \in Runner, NEW f \in BOOLEAN
  PROVE  \E row \in Runner : /\ row = [old EXCEPT !.failed = f] /\ Same(old, row) /\ row.pc = old.pc
                             /\ row.step = old.step /\ row.kind = old.kind /\ row.failed = f
<1> DEFINE row == [old EXCEPT !.failed = f]
<1>1. row \in Runner /\ Same(old, row) /\ row.pc = old.pc
  BY DEF Runner, Same
<1>2. row.step = old.step /\ row.kind = old.kind /\ row.failed = f
  BY DEF Runner
<1> QED
  BY <1>1, <1>2, Zenon

\* ... and with its place: another step,
LEMMA RunnerAdvances ==
  ASSUME NEW old \in Runner, NEW pc \in Places, NEW step \in Flow!Steps, NEW failed \in BOOLEAN
  PROVE  LET row == Advanced(old, pc, step, failed)
         IN  row \in Runner /\ Same(old, row) /\ row.pc = pc /\ row.step = step /\ row.kind = old.kind /\ row.failed = failed
<1>1. PICK one \in Runner : /\ one = [old EXCEPT !.pc = pc] /\ Same(old, one) /\ one.pc = pc
                            /\ one.step = old.step /\ one.kind = old.kind /\ one.failed = old.failed
  BY RunnerGoes
<1>2. PICK two \in Runner : /\ two = [one EXCEPT !.step = step] /\ Same(one, two) /\ two.pc = one.pc
                            /\ two.step = step /\ two.kind = one.kind /\ two.failed = one.failed
  BY RunnerStep
<1>3. PICK row \in Runner : /\ row = [two EXCEPT !.failed = failed] /\ Same(two, row) /\ row.pc = two.pc
                            /\ row.step = two.step /\ row.kind = two.kind /\ row.failed = failed
  BY RunnerFailed
<1>4. row = [old EXCEPT !.pc = pc, !.step = step, !.failed = failed]
  BY <1>1, <1>2, <1>3
<1>5. Same(old, row)
  BY <1>1, <1>2, <1>3 DEF Same
<1> QED
  BY <1>1, <1>2, <1>3, <1>4, <1>5 DEF Advanced

\* another order and another step,
LEMMA RunnerOrders ==
  ASSUME NEW old \in Runner, NEW pc \in Places, NEW o \in Flow!OrderDoc, NEW step \in Flow!Steps
  PROVE  LET row == Ordered(old, pc, o, step)
         IN  row \in Runner /\ Same(old, row) /\ row.pc = pc /\ row.step = step /\ row.kind = old.kind /\ row.failed = old.failed
<1>1. PICK one \in Runner : /\ one = [old EXCEPT !.pc = pc] /\ Same(old, one) /\ one.pc = pc
                            /\ one.step = old.step /\ one.kind = old.kind /\ one.failed = old.failed
  BY RunnerGoes
<1>2. PICK two \in Runner : /\ two = [one EXCEPT !.order = o] /\ Same(one, two) /\ two.pc = one.pc
                            /\ two.step = one.step /\ two.kind = one.kind /\ two.failed = one.failed
  BY RunnerOrder
<1>3. PICK row \in Runner : /\ row = [two EXCEPT !.step = step] /\ Same(two, row) /\ row.pc = two.pc
                            /\ row.step = step /\ row.kind = two.kind /\ row.failed = two.failed
  BY RunnerStep
<1>4. row = [old EXCEPT !.pc = pc, !.order = o, !.step = step]
  BY <1>1, <1>2, <1>3
<1>5. Same(old, row)
  BY <1>1, <1>2, <1>3 DEF Same
<1> QED
  BY <1>1, <1>2, <1>3, <1>4, <1>5 DEF Ordered

\* another order,
LEMMA RunnerPuts ==
  ASSUME NEW old \in Runner, NEW pc \in Places, NEW o \in Flow!OrderDoc
  PROVE  LET row == Holding(old, pc, o)
         IN  row \in Runner /\ Same(old, row) /\ row.pc = pc /\ row.step = old.step /\ row.kind = old.kind /\ row.failed = old.failed
<1>1. PICK one \in Runner : /\ one = [old EXCEPT !.pc = pc] /\ Same(old, one) /\ one.pc = pc
                            /\ one.step = old.step /\ one.kind = old.kind /\ one.failed = old.failed
  BY RunnerGoes
<1>2. PICK row \in Runner : /\ row = [one EXCEPT !.order = o] /\ Same(one, row) /\ row.pc = one.pc
                            /\ row.step = one.step /\ row.kind = one.kind /\ row.failed = one.failed
  BY RunnerOrder
<1>3. row = [old EXCEPT !.pc = pc, !.order = o]
  BY <1>1, <1>2
<1>4. Same(old, row)
  BY <1>1, <1>2 DEF Same
<1> QED
  BY <1>1, <1>2, <1>3, <1>4 DEF Holding

\* another notification,
LEMMA RunnerTurns ==
  ASSUME NEW old \in Runner, NEW pc \in Places, NEW k \in Flow!Kinds
  PROVE  LET row == Turned(old, pc, k)
         IN  row \in Runner /\ Same(old, row) /\ row.pc = pc /\ row.step = old.step /\ row.kind = k /\ row.failed = old.failed
<1>1. PICK one \in Runner : /\ one = [old EXCEPT !.pc = pc] /\ Same(old, one) /\ one.pc = pc
                            /\ one.step = old.step /\ one.kind = old.kind /\ one.failed = old.failed
  BY RunnerGoes
<1>2. PICK row \in Runner : /\ row = [one EXCEPT !.kind = k] /\ Same(one, row) /\ row.pc = one.pc
                            /\ row.step = one.step /\ row.kind = k /\ row.failed = one.failed
  BY RunnerKind
<1>3. row = [old EXCEPT !.pc = pc, !.kind = k]
  BY <1>1, <1>2
<1>4. Same(old, row)
  BY <1>1, <1>2 DEF Same
<1> QED
  BY <1>1, <1>2, <1>3, <1>4 DEF Turned

\* a lost lease,
LEMMA RunnerLoses ==
  ASSUME NEW old \in Runner, NEW pc \in Places, NEW l \in BOOLEAN
  PROVE  LET row == Losing(old, pc, l)
         IN  row \in Runner /\ Same(old, row) /\ row.pc = pc /\ row.step = old.step /\ row.kind = old.kind /\ row.failed = old.failed
<1>1. PICK one \in Runner : /\ one = [old EXCEPT !.pc = pc] /\ Same(old, one) /\ one.pc = pc
                            /\ one.step = old.step /\ one.kind = old.kind /\ one.failed = old.failed
  BY RunnerGoes
<1>2. PICK row \in Runner : /\ row = [one EXCEPT !.lost = l] /\ Same(one, row) /\ row.pc = one.pc
                            /\ row.step = one.step /\ row.kind = one.kind /\ row.failed = one.failed
  BY RunnerLost
<1>3. row = [old EXCEPT !.pc = pc, !.lost = l]
  BY <1>1, <1>2
<1>4. Same(old, row)
  BY <1>1, <1>2 DEF Same
<1> QED
  BY <1>1, <1>2, <1>3, <1>4 DEF Losing

\* or an error that was caught.
LEMMA RunnerCatches ==
  ASSUME NEW old \in Runner, NEW pc \in Places, NEW f \in BOOLEAN
  PROVE  LET row == Caught(old, pc, f)
         IN  row \in Runner /\ Same(old, row) /\ row.pc = pc /\ row.step = old.step /\ row.kind = old.kind /\ row.failed = f
<1>1. PICK one \in Runner : /\ one = [old EXCEPT !.pc = pc] /\ Same(old, one) /\ one.pc = pc
                            /\ one.step = old.step /\ one.kind = old.kind /\ one.failed = old.failed
  BY RunnerGoes
<1>2. PICK row \in Runner : /\ row = [one EXCEPT !.failed = f] /\ Same(one, row) /\ row.pc = one.pc
                            /\ row.step = one.step /\ row.kind = one.kind /\ row.failed = f
  BY RunnerFailed
<1>3. row = [old EXCEPT !.pc = pc, !.failed = f]
  BY <1>1, <1>2
<1>4. Same(old, row)
  BY <1>1, <1>2 DEF Same
<1> QED
  BY <1>1, <1>2, <1>3, <1>4 DEF Caught

\* A row of a handler that is put, and of the others.
LEMMA RunnerMoves ==
  ASSUME WorkflowTypes, NEW h \in Replayers, NEW row \in Runner, Moves(h, row)
  PROVE  /\ runners' \in [Replayers -> Runner] /\ runners'[h] = row
         /\ \A g \in Replayers \ {h} : runners'[g] = runners[g]
BY DEF WorkflowTypes, Moves

\* Lease is positive, and so are the attempts.
LEMMA LeaseIs == Lease \in Nat \ {0} /\ MaxTries \in Nat \ {0}
BY ServicesAssumption DEF Flow!WorkflowAssumption

\* Lease by lease.
LEMMA TimesCancels ==
  ASSUME NEW l \in Nat \ {0}, NEW i \in Nat, NEW j \in Nat, l * i = l * j
  PROVE  i = j
<1>1. l * (i - j) = 0
  OBVIOUS
<1>2. i - j >= 1 => l * (i - j) >= l
  OBVIOUS
<1>3. i - j <= -1 => l * (i - j) <= -l
  OBVIOUS
<1> QED
  BY <1>1, <1>2, <1>3

\* Who began later outlived fewer leases, and a lease less if it began after a lease.
LEMMA OutlivedOrder ==
  ASSUME NEW a \in Nat, NEW b \in Nat, NEW i \in Nat, NEW j \in Nat, a + Lease * i = b + Lease * j
  PROVE  /\ a <= b => j <= i
         /\ a + Lease <= b => j + 1 <= i
         /\ a < b => a + Lease <= b
<1>1. Lease \in Nat \ {0}
  BY LeaseIs
<1>2. PICK l \in Nat \ {0} : l = Lease
  BY <1>1
<1>3. PICK d \in Int : d = i - j
  OBVIOUS
<1>4. l * i - l * j = l * d /\ i = j + d
  BY <1>2, <1>3
<1>5. b - a = l * d
  BY <1>2, <1>4
<1>6. d >= 1 => l * d >= l
  BY <1>2
<1>7. d <= -1 => l * d <= -l
  BY <1>2
<1>8. d = 0 => l * d = 0
  BY <1>2
<1>9. d >= 1 \/ d <= -1 \/ d = 0
  OBVIOUS
<1>10. PICK m \in Int : m = l * d
  BY <1>2
<1>11. /\ b - a = m /\ (d >= 1 => m >= l) /\ (d <= -1 => m <= -l) /\ (d = 0 => m = 0)
  BY <1>5, <1>6, <1>7, <1>8, <1>10
<1>12. /\ a <= b => j <= i
       /\ a + l <= b => j + 1 <= i
       /\ a < b => a + l <= b
  BY <1>2, <1>4, <1>9, <1>11
<1> QED
  BY <1>2, <1>12

\* The same of two handlers, or of one that begins now.
LEMMA OutlivedRows ==
  ASSUME clock \in Nat, NEW old \in Runner, NEW row \in Runner, NEW i \in Nat, NEW j \in Nat,
         Outlived(old, i), Outlived(row, j)
  PROVE  /\ old.at <= row.at => j <= i
         /\ old.at + Lease <= row.at => j + 1 <= i
         /\ row.at = old.at => i = j
         /\ row.at = clock => j = 0
         /\ old.at < row.at => old.at + Lease <= row.at
         /\ row.at <= clock
<1>1. PICK a \in Nat, b \in Nat : a = old.at /\ b = row.at
  BY DEF Runner
<1>2. PICK p \in Nat, q \in Nat, l \in Nat \ {0} : p = Lease * i /\ q = Lease * j /\ l = Lease
  BY LeaseIs
<1>3. clock = a + Lease * i /\ clock = b + Lease * j
  BY <1>1 DEF Outlived
<1>4. /\ a <= b => j <= i
      /\ a + Lease <= b => j + 1 <= i
      /\ a < b => a + Lease <= b
  BY <1>3, OutlivedOrder
<1>5. b <= a => i <= j
  BY <1>3, OutlivedOrder
<1>6. b = clock => j = 0
  <2>1. clock + Lease * 0 = b + Lease * j
    BY <1>2, <1>3
  <2>2. clock <= b => j <= 0
    BY <2>1, OutlivedOrder
  <2> QED
    BY <2>2, <1>1
<1>7. b <= clock
  BY <1>2, <1>3
<1> QED
  BY <1>1, <1>4, <1>5, <1>6, <1>7

----------------------------------------------------------------------------
(* The workflows: the markers' leases are paid for *)

\* A step that leaves the marker of k alone, unless a handler that holds it goes.
LEMMA MarkerRests ==
  ASSUME WorkflowTypes, RowsInv, NEW k \in Flow!Kinds, KeeperInv(k), PaidFor(k),
         NEW h \in Replayers, NEW row \in Runner, Moves(h, row), markers'[k] = markers[k],
         clock' = clock, late' = late, errors' = errors \/ errors' = errors + 1,
         Busy(row) => row.at = clock \/ (Busy(runners[h]) /\ row.at = runners[h].at),
         Works(row, k) => Works(runners[h], k) /\ row.at = runners[h].at,
         Keeps(h, k) => \/ errors' = errors + 1
                        \/ Works(row, k) /\ (row.pc = "fail" => runners[h].pc = "fail")
  PROVE  KeeperInv(k)' /\ PaidFor(k)'
<1>1. /\ runners'[h] = row /\ (\A g \in Replayers \ {h} : runners'[g] = runners[g])
      /\ \A g \in Replayers : runners[g] \in Runner
      /\ errors \in Nat /\ late \in Nat /\ clock \in Nat /\ markers[k].tries \in Nat
  BY RunnerMoves DEF WorkflowTypes, MarkerDoc, FlowDoc
<1>2. PICK t \in Nat : t = markers[k].tries
  BY <1>1
<1>3. Since(k)' = Since(k) /\ markers'[k].status = markers[k].status /\ markers'[k].tries = t
  BY <1>2 DEF Since
<1>4. \A g \in Replayers : Works(runners[g], k)' => Works(runners[g], k) /\ runners'[g].at = runners[g].at
  BY <1>1 DEF Works
<1>5. \A g \in Replayers : Keeps(g, k)' => Keeps(g, k)
  BY <1>3, <1>4 DEF Keeps
<1>6. KeeperInv(k)'
  BY <1>3, <1>4, <1>5 DEF KeeperInv
<1>7. \A g \in Replayers : Busy(runners[g]) => \E j \in 0..late : Outlived(runners[g], j)
  BY DEF RowsInv
<1>8. ASSUME markers[k].status = "failed" \/ (markers[k].status = "running" /\ \A g \in Replayers : ~Keeps(g, k)')
      PROVE  t <= errors' + late'
             /\ \A g \in Replayers, j \in 0..late :
                  Busy(runners'[g]) /\ runners'[g].at >= Since(k) /\ clock = runners'[g].at + Lease * j
                    => t + j <= errors' + late'
  <2>1. CASE \E g \in Replayers : markers[k].status = "running" /\ Keeps(g, k)
    <3>1. Keeps(h, k) /\ markers[k].status = "running" /\ ~Keeps(h, k)'
      BY <2>1, <1>1, <1>3, <1>8 DEF Keeps
    <3>2. errors' = errors + 1 /\ Works(runners[h], k) /\ Busy(runners[h]) /\ runners[h].at = Since(k)
      BY <3>1, <1>1, <1>3 DEF Keeps, Works, Busy, Since
    <3>3. PICK i \in 0..late : Outlived(runners[h], i)
      BY <3>2, <1>7
    <3>4. t + i <= 1 + errors + late
      BY <3>1, <3>3, <1>2 DEF PaidFor
    <3>5. ASSUME NEW g \in Replayers, NEW j \in 0..late, Busy(runners'[g]), runners'[g].at >= Since(k),
                 clock = runners'[g].at + Lease * j
          PROVE  j <= i
      <4>1. PICK old \in Runner, new \in Runner : old = runners[h] /\ new = runners'[g]
        BY <1>1
      <4>2. Outlived(old, i) /\ Outlived(new, j) /\ old.at <= new.at
        <5>1. old.at \in Nat /\ new.at \in Nat
          BY DEF Runner
        <5> QED
          BY <5>1, <4>1, <3>2, <3>3, <3>5 DEF Outlived
      <4> QED
        BY <4>2, <1>1, OutlivedRows
    <3> QED
      BY <3>2, <3>4, <3>5, <1>1
  <2>2. CASE ~\E g \in Replayers : markers[k].status = "running" /\ Keeps(g, k)
    <3>1. /\ t <= errors + late
          /\ \A g \in Replayers, j \in 0..late :
               Busy(runners[g]) /\ runners[g].at >= Since(k) /\ Outlived(runners[g], j)
                 => t + j <= errors + late
      BY <2>2, <1>2, <1>8 DEF PaidFor
    <3>2. ASSUME NEW g \in Replayers, NEW j \in 0..late, Busy(runners'[g]), runners'[g].at >= Since(k),
                 clock = runners'[g].at + Lease * j
          PROVE  t + j <= errors + late
      <4>1. CASE Busy(runners[g]) /\ runners'[g].at = runners[g].at
        BY <4>1, <3>1, <3>2 DEF Outlived
      <4>2. CASE runners'[g].at = clock
        <5>1. PICK new \in Runner : new = runners'[g]
          BY <1>1
        <5>2. j = 0
          BY <5>1, <4>2, <3>2, <1>1, OutlivedRows DEF Outlived
        <5> QED
          BY <5>2, <3>1
      <4> QED
        BY <4>1, <4>2, <3>2, <1>1
    <3> QED
      BY <3>1, <3>2, <1>1
  <2> QED
    BY <2>1, <2>2
<1>9. ASSUME NEW g \in Replayers, NEW j \in 0..late, Keeps(g, k)', clock = runners'[g].at + Lease * j
      PROVE  /\ t + j <= 1 + errors' + late'
             /\ runners'[g].pc = "fail" => t + j <= errors' + late'
  <2>1. Keeps(g, k) /\ runners'[g].at = runners[g].at
    BY <1>4, <1>5, <1>9 DEF Keeps
  <2>2. /\ t + j <= 1 + errors + late
        /\ runners[g].pc = "fail" => t + j <= errors + late
    BY <2>1, <1>2, <1>9 DEF PaidFor, Outlived
  <2>3. errors' = errors + 1 \/ (runners'[g].pc = "fail" => runners[g].pc = "fail")
    BY <2>1, <1>1
  <2> QED
    BY <2>2, <2>3, <1>1
<1>10. t <= 1 + errors' + late'
  BY <1>1, <1>2 DEF PaidFor
<1>11. PaidFor(k)'
  BY <1>1, <1>3, <1>8, <1>9, <1>10 DEF PaidFor, Outlived
<1> QED
  BY <1>6, <1>11

\* A handler takes the lease of the marker of k.
LEMMA MarkerLeased ==
  ASSUME WorkflowTypes, RowsInv, NEW k \in Flow!Kinds, KeeperInv(k), PaidFor(k),
         NEW h \in Replayers, NEW row \in Runner, Moves(h, row), Same(runners[h], row),
         Busy(runners[h]), ~Works(runners[h], k), Works(row, k), row.pc # "fail",
         markers[k].status # "completed", markers[k].ends <= row.at,
         markers[k].status = "failed" => markers[k].next <= row.at,
         markers'[k].status = "running", markers'[k].key = row.at,
         markers'[k].tries = markers[k].tries + 1,
         clock' = clock, late' = late, errors' = errors
  PROVE  KeeperInv(k)' /\ PaidFor(k)'
<1>1. /\ runners'[h] = row /\ (\A g \in Replayers \ {h} : runners'[g] = runners[g])
      /\ \A g \in Replayers : runners[g] \in Runner
      /\ errors \in Nat /\ late \in Nat /\ clock \in Nat /\ MarkerDoc(markers[k])
      /\ \A g \in Replayers : runners[g].at \in Nat
  BY RunnerMoves DEF WorkflowTypes, Runner
<1>2. PICK t \in Nat : t = markers[k].tries
  BY <1>1 DEF MarkerDoc, FlowDoc
<1>3. PICK i \in 0..late : Outlived(runners[h], i)
  BY DEF RowsInv
<1>4. row.at \in Nat /\ row.at = runners[h].at /\ Since(k)' = row.at
  BY <1>1 DEF Same, Since
<1>5. /\ markers[k].status = "absent" => t = 0
      /\ markers[k].status \in {"absent", "running", "failed"}
      /\ markers[k].status = "running" => markers[k].key + Lease <= row.at /\ markers[k].key \in Nat
      /\ Lease \in Nat \ {0}
  BY <1>1, <1>2, LeaseIs DEF MarkerDoc, FlowDoc
<1>6. row.at <= clock
  <2>1. PICK old \in Runner : old = runners[h]
    BY <1>1
  <2> QED
    BY <2>1, <1>1, <1>3, <1>4, OutlivedRows
<1>7. \A g \in Replayers \ {h} : Works(runners[g], k) => runners[g].at < row.at
  <2>1. ASSUME NEW g \in Replayers \ {h}, Works(runners[g], k)
        PROVE  runners[g].at < row.at
    <3>1. /\ markers[k].status # "absent"
          /\ markers[k].status = "running" => runners[g].at <= markers[k].key
          /\ markers[k].status = "failed" => runners[g].at < markers[k].next
      BY <2>1 DEF KeeperInv
    <3>2. markers[k].status = "failed" => markers[k].next \in Nat
      BY <1>1 DEF MarkerDoc
    <3> QED
      BY <3>1, <3>2, <1>1, <1>4, <1>5
  <2> QED
    BY <2>1
<1>8. \A g \in Replayers \ {h} : Works(runners[g], k)' => Works(runners[g], k) /\ runners'[g].at = runners[g].at
  BY <1>1
<1>9. KeeperInv(k)'
  <2>1. \A g \in Replayers : Works(runners[g], k)' => runners'[g].at <= row.at
    BY <1>1, <1>4, <1>7, <1>8
  <2>2. \A g \in Replayers : Keeps(g, k)' => g = h
    BY <1>1, <1>4, <1>7, <1>8 DEF Keeps
  <2> QED
    BY <2>1, <2>2, <1>1, <1>4, <1>6 DEF KeeperInv
<1>10. t + i <= errors + late
  <2>1. CASE markers[k].status = "absent"
    BY <2>1, <1>1, <1>5
  <2>2. CASE \E g \in Replayers : Keeps(g, k)
    <3>1. PICK g \in Replayers : Keeps(g, k)
      BY <2>2
    <3>2. markers[k].status = "running" /\ Busy(runners[g]) /\ runners[g].at = markers[k].key
      BY <3>1 DEF Keeps, Works, Busy
    <3>3. PICK j \in 0..late : Outlived(runners[g], j)
      BY <3>2 DEF RowsInv
    <3>4. t + j <= 1 + errors + late
      BY <3>1, <3>3, <1>2 DEF PaidFor
    <3>5. PICK old \in Runner : old = runners[g]
      BY <1>1
    <3>6. Outlived(old, j) /\ Outlived(row, i) /\ old.at + Lease <= row.at
      BY <3>2, <3>3, <3>5, <1>3, <1>4, <1>5 DEF Outlived
    <3>7. i + 1 <= j
      BY <3>6, <1>1, OutlivedRows
    <3> QED
      BY <3>4, <3>7, <1>1
  <2>3. CASE markers[k].status # "absent" /\ ~\E g \in Replayers : Keeps(g, k)
    <3>1. runners[h].at >= Since(k)
      <4>1. markers[k].status = "running" => markers[k].key <= row.at
        BY <1>5, <1>4
      <4> QED
        BY <4>1, <2>3, <1>4, <1>5 DEF Since
    <3> QED
      BY <3>1, <2>3, <1>2, <1>3, <1>5 DEF PaidFor
  <2> QED
    BY <2>1, <2>2, <2>3
<1>11. Keeps(h, k)'
  BY <1>1 DEF Keeps
<1>12. ASSUME NEW g \in Replayers, NEW j \in 0..late, Keeps(g, k)', clock = runners'[g].at + Lease * j
       PROVE  t + 1 + j <= 1 + errors' + late' /\ runners'[g].pc # "fail"
  <2>1. g = h
    BY <1>9, <1>11, <1>12 DEF KeeperInv
  <2>2. Outlived(row, j) /\ Outlived(row, i)
    BY <2>1, <1>1, <1>3, <1>4, <1>12 DEF Outlived
  <2>3. j = i
    BY <2>2, <1>1, OutlivedRows
  <2> QED
    BY <2>1, <2>3, <1>1, <1>10
<1>13. PaidFor(k)'
  BY <1>1, <1>2, <1>10, <1>11, <1>12 DEF PaidFor, Outlived
<1> QED
  BY <1>9, <1>13

\* The handler that holds the marker of k completes it, or gives it back.
LEMMA MarkerEnds ==
  ASSUME WorkflowTypes, RowsInv, NEW k \in Flow!Kinds, KeeperInv(k), PaidFor(k),
         NEW h \in Replayers, NEW row \in Runner, Moves(h, row), Same(runners[h], row),
         Keeps(h, k), ~Works(row, k), markers'[k].tries = markers[k].tries,
         \/ markers'[k].status = "completed"
         \/ /\ markers'[k].status = "failed" /\ markers'[k].next = runners[h].at
            /\ runners[h].pc = "fail",
         clock' = clock, late' = late, errors' = errors
  PROVE  KeeperInv(k)' /\ PaidFor(k)'
<1>1. /\ runners'[h] = row /\ (\A g \in Replayers \ {h} : runners'[g] = runners[g])
      /\ \A g \in Replayers : runners[g] \in Runner
      /\ errors \in Nat /\ late \in Nat /\ clock \in Nat
      /\ \A g \in Replayers : runners[g].at \in Nat
  BY RunnerMoves DEF WorkflowTypes, Runner
<1>2. PICK t \in Nat : t = markers[k].tries
  BY DEF WorkflowTypes, MarkerDoc, FlowDoc
<1>3. /\ runners[h].at = markers[k].key /\ markers[k].status = "running" /\ Busy(runners[h])
  BY DEF Keeps, Works, Busy
<1>4. PICK i \in 0..late : Outlived(runners[h], i)
  BY <1>3 DEF RowsInv
<1>5. t <= 1 + errors + late
  BY <1>2 DEF PaidFor
<1>6. \A g \in Replayers : ~Keeps(g, k)'
  BY DEF Keeps
<1>7. CASE markers'[k].status = "completed"
  <2>1. KeeperInv(k)'
    <3>1. \A g \in Replayers : Works(runners[g], k)' => Works(runners[g], k)
      BY <1>1
    <3> QED
      BY <3>1, <1>6, <1>7 DEF KeeperInv
  <2>2. PaidFor(k)'
    BY <1>1, <1>2, <1>5, <1>6, <1>7 DEF PaidFor
  <2> QED
    BY <2>1, <2>2
<1>8. CASE markers'[k].status = "failed" /\ markers'[k].next = runners[h].at /\ runners[h].pc = "fail"
  <2>1. t + i <= errors + late
    BY <1>2, <1>4, <1>8 DEF PaidFor
  <2>2. Since(k)' = runners[h].at
    BY <1>8 DEF Since
  <2>3. ASSUME NEW g \in Replayers, Works(runners[g], k)'
        PROVE  runners'[g].at < runners[h].at
    <3>1. g # h /\ Works(runners[g], k) /\ runners'[g].at = runners[g].at
      BY <2>3, <1>1
    <3>2. runners[g].at <= markers[k].key /\ ~Keeps(g, k)
      BY <3>1, <1>3 DEF KeeperInv
    <3> QED
      BY <3>1, <3>2, <1>1, <1>3 DEF Keeps
  <2>4. runners[h].at <= clock
    <3>1. PICK old \in Runner : old = runners[h]
      BY <1>1
    <3> QED
      BY <3>1, <1>1, <1>4, OutlivedRows
  <2>5. KeeperInv(k)'
    BY <2>2, <2>3, <2>4, <1>6, <1>8 DEF KeeperInv
  <2>6. ASSUME NEW g \in Replayers, NEW j \in 0..late, Busy(runners'[g]), runners'[g].at >= runners[h].at,
               clock = runners'[g].at + Lease * j
        PROVE  t + j <= errors + late
    <3>1. PICK old \in Runner, new \in Runner : old = runners[h] /\ new = runners'[g]
      BY <1>1
    <3>2. Outlived(old, i) /\ Outlived(new, j) /\ old.at <= new.at
      <4>1. old.at \in Nat /\ new.at \in Nat
        BY DEF Runner
      <4> QED
        BY <4>1, <3>1, <1>4, <2>6 DEF Outlived
    <3>3. j <= i
      BY <3>2, <1>1, OutlivedRows
    <3> QED
      BY <3>3, <2>1, <1>1
  <2>7. PaidFor(k)'
    BY <1>1, <1>2, <1>5, <1>6, <1>8, <2>1, <2>2, <2>6 DEF PaidFor, Outlived
  <2> QED
    BY <2>5, <2>7
<1> QED
  BY <1>7, <1>8

\* The clock moves: with all handlers at rest, or on beyond the leases of all.
LEMMA MarkerTicks ==
  ASSUME WorkflowTypes, RowsInv, NEW k \in Flow!Kinds, KeeperInv(k), PaidFor(k),
         runners' = runners, markers' = markers, errors' = errors,
         \/ clock' = clock + 1 /\ late' = late /\ \A h \in Replayers : ~Busy(runners[h])
         \/ clock' = clock + Lease /\ late' = late + 1
  PROVE  KeeperInv(k)' /\ PaidFor(k)'
<1>1. /\ errors \in Nat /\ late \in Nat /\ clock \in Nat /\ Lease \in Nat \ {0} /\ MarkerDoc(markers[k])
  BY LeaseIs DEF WorkflowTypes
<1>2. PICK t \in Nat : t = markers[k].tries
  BY <1>1 DEF MarkerDoc, FlowDoc
<1>3. PICK l \in Nat \ {0} : l = Lease
  BY <1>1
<1>4. Since(k)' = Since(k) /\ \A h \in Replayers : Keeps(h, k)' <=> Keeps(h, k)
  BY DEF Since, Keeps
<1>5. KeeperInv(k)'
  <2>1. markers[k].status \in {"running", "failed"} => Since(k) \in Nat
    BY <1>1 DEF Since, MarkerDoc, FlowDoc
  <2>2. clock <= clock'
    BY <1>1
  <2> QED
    BY <2>1, <2>2, <1>1, <1>4 DEF KeeperInv
<1>6. ASSUME NEW h \in Replayers, Busy(runners[h]), NEW j \in 0..late', clock' = runners[h].at + Lease * j
      PROVE  late' = late + 1 /\ \E i \in 0..late : j = i + 1 /\ Outlived(runners[h], i)
  <2>1. late' = late + 1 /\ clock' = clock + l
    BY <1>3, <1>6
  <2>2. PICK i \in 0..late : clock = runners[h].at + Lease * i
    BY <1>6 DEF RowsInv, Outlived
  <2>3. PICK a \in Nat : a = runners[h].at
    BY DEF WorkflowTypes, Runner
  <2>4. PICK m \in Nat, n \in Nat : m = l * i /\ n = l * j
    BY <1>1, <1>3, <2>1
  <2>5. a + n = a + m + l
    BY <2>1, <2>2, <2>3, <2>4, <1>3, <1>6
  <2>6. l * (i + 1) = m + l
    BY <2>4, <1>3
  <2>7. l * j = l * (i + 1)
    BY <2>4, <2>5, <2>6
  <2>8. j = i + 1
    BY <2>7, <1>1, <1>3, <2>1, TimesCancels
  <2> QED
    BY <2>1, <2>2, <2>8 DEF Outlived
<1>7. PaidFor(k)'
  <2>1. t <= 1 + errors' + late'
    BY <1>1, <1>2 DEF PaidFor
  <2>2. ASSUME markers[k].status = "failed" \/ (markers[k].status = "running" /\ \A h \in Replayers : ~Keeps(h, k))
        PROVE  t <= errors' + late'
               /\ \A h \in Replayers, j \in 0..late' :
                    Busy(runners[h]) /\ runners[h].at >= Since(k) /\ clock' = runners[h].at + Lease * j
                      => t + j <= errors' + late'
    <3>1. /\ t <= errors + late
          /\ \A h \in Replayers, j \in 0..late :
               Busy(runners[h]) /\ runners[h].at >= Since(k) /\ Outlived(runners[h], j)
                 => t + j <= errors + late
      BY <2>2, <1>2 DEF PaidFor
    <3>2. ASSUME NEW h \in Replayers, NEW j \in 0..late', Busy(runners[h]), runners[h].at >= Since(k),
                 clock' = runners[h].at + Lease * j
          PROVE  t + j <= errors' + late'
      <4>1. PICK i \in 0..late : late' = late + 1 /\ j = i + 1 /\ Outlived(runners[h], i)
        BY <3>2, <1>6
      <4>2. t + i <= errors + late
        BY <4>1, <3>1, <3>2
      <4> QED
        BY <4>1, <4>2, <1>1
    <3> QED
      BY <3>1, <3>2, <1>1
  <2>3. ASSUME NEW h \in Replayers, NEW j \in 0..late', Keeps(h, k), clock' = runners[h].at + Lease * j
        PROVE  /\ t + j <= 1 + errors' + late'
               /\ runners[h].pc = "fail" => t + j <= errors' + late'
    <3>1. Busy(runners[h])
      BY <2>3 DEF Keeps, Works, Busy
    <3>2. PICK i \in 0..late : late' = late + 1 /\ j = i + 1 /\ Outlived(runners[h], i)
      BY <2>3, <3>1, <1>6
    <3>3. /\ t + i <= 1 + errors + late
          /\ runners[h].pc = "fail" => t + i <= errors + late
      BY <2>3, <3>2, <1>2 DEF PaidFor
    <3> QED
      BY <3>2, <3>3, <1>1
  <2> QED
    BY <1>2, <1>4, <2>1, <2>2, <2>3 DEF PaidFor, Outlived
<1> QED
  BY <1>5, <1>7

----------------------------------------------------------------------------
(* The workflows: rows and leases *)

\* The workflows keep their leases.
CalmFlows ==
  /\ DOMAIN flows' = Paid
  /\ \A e \in Paid : FlowDoc(flows'[e]) /\ SameLease(flows[e], flows'[e])

\* A handler begins, or goes on from where it was.
GoesOn(old, row) == Busy(row) => row.at = clock \/ (Busy(old) /\ row.at = old.at)
KeepsOn(old, row) == Active(row) => Active(old) /\ Same(old, row)

\* A row that is on its course.
LEMMA RowsStay ==
  ASSUME WorkflowTypes, RowsInv, NEW h \in Replayers, NEW row \in Runner, Moves(h, row), Course(row),
         GoesOn(runners[h], row), clock' = clock, late' = late
  PROVE  RowsInv'
<1>1. /\ runners'[h] = row /\ (\A g \in Replayers \ {h} : runners'[g] = runners[g])
      /\ late \in Nat /\ clock \in Nat
  BY RunnerMoves DEF WorkflowTypes
<1>2. \A g \in Replayers \ {h} : Course(runners[g])'
  BY <1>1 DEF RowsInv, Course
<1>3. Course(runners[h])'
  BY <1>1 DEF Course
<1>4. ASSUME NEW g \in Replayers, Busy(runners[g])'
      PROVE  \E j \in 0..late : clock = runners'[g].at + Lease * j
  <2>1. CASE Busy(runners[g]) /\ runners'[g].at = runners[g].at
    BY <2>1 DEF RowsInv, Outlived
  <2>2. CASE runners'[g].at = clock
    <3>1. PICK l \in Nat : l = Lease
      BY LeaseIs
    <3>2. clock = clock + l * 0 /\ 0 \in 0..late
      BY <1>1
    <3> QED
      BY <2>2, <3>1, <3>2
  <2>3. CASE g = h
    <3>1. Busy(row)
      BY <2>3, <1>1, <1>4 DEF Busy
    <3> QED
      BY <3>1, <2>1, <2>2, <2>3, <1>1 DEF GoesOn
  <2>4. CASE g # h
    BY <2>4, <2>1, <1>1, <1>4 DEF Busy
  <2> QED
    BY <2>3, <2>4
<1> QED
  BY <1>1, <1>2, <1>3, <1>4 DEF RowsInv, Outlived

\* Who holds the lease of its workflow is within it.
LEMMA FlowHolds ==
  ASSUME WorkflowTypes, RowsInv, NEW h \in Replayers, Active(runners[h]), Flow!HoldsFlow(h)
  PROVE  Leads(h) /\ runners[h].event \in Paid
<1>1. PICK old \in Runner : old = runners[h]
  BY DEF WorkflowTypes
<1>2. PICK a \in Nat, e \in Paid : a = old.at /\ e = old.event
  BY <1>1 DEF Runner, RowsInv, Course, Active, Busy
<1>3. flows[e].status = "running" /\ flows[e].key = a /\ flows[e].ends > clock
  BY <1>1, <1>2 DEF Flow!HoldsFlow, Flow!workflowHasActiveLease, Flow!Flow
<1>4. flows[e].ends = a + Lease /\ clock \in Nat
  BY <1>3 DEF WorkflowTypes, FlowDoc
<1>5. PICK l \in Nat \ {0} : l = Lease
  BY LeaseIs
<1>6. late \in Nat
  BY DEF WorkflowTypes
<1>7. PICK j \in 0..late : clock = a + Lease * j
  BY <1>1, <1>2 DEF RowsInv, Busy, Active, Outlived
<1>8. j >= 1 => l * j >= l
  BY <1>5, <1>6
<1>9. PICK m \in Nat : m = l * j
  BY <1>5, <1>6
<1>10. j = 0 => m = 0
  BY <1>5, <1>9
<1>11. a = clock
  BY <1>3, <1>4, <1>5, <1>6, <1>7, <1>8, <1>9, <1>10
<1> QED
  BY <1>1, <1>2, <1>11 DEF Leads

\* A handler that goes on keeps its lease.
LEMMA LeaseRests ==
  ASSUME WorkflowTypes, RowsInv, LeaseInv, NEW h \in Replayers, NEW row \in Runner, Moves(h, row),
         KeepsOn(runners[h], row), CalmFlows, clock' = clock
  PROVE  LeaseInv' /\ \A g \in Replayers : Leads(g)' => Leads(g) /\ Same(runners[g], runners'[g])
<1>1. runners'[h] = row /\ (\A g \in Replayers \ {h} : runners'[g] = runners[g])
  BY RunnerMoves
<1>2. \A g \in Replayers : Active(runners[g])' => Active(runners[g]) /\ Same(runners[g], runners'[g])
  BY <1>1 DEF KeepsOn, Same, Active
<1>3. \A g \in Replayers : Leads(g)' => Leads(g) /\ Same(runners[g], runners'[g])
  BY <1>2 DEF Leads, Same
<1>4. \A g \in Replayers : Active(runners[g]) => runners[g].event \in Paid
  BY DEF RowsInv, Course, Active, Busy
<1>5. \A g \in Replayers : Active(runners[g])' => flows'[runners'[g].event].status # "absent"
  BY <1>2, <1>4 DEF LeaseInv, Same, CalmFlows, SameLease
<1>6. \A g \in Replayers : Leads(g)' => /\ flows'[runners'[g].event].status = "running"
                                        /\ flows'[runners'[g].event].key = runners'[g].at
  <2>1. ASSUME NEW g \in Replayers, Leads(g)'
        PROVE  /\ flows'[runners'[g].event].status = "running"
               /\ flows'[runners'[g].event].key = runners'[g].at
    <3>1. /\ flows[runners[g].event].status = "running" /\ runners[g].event \in Paid
          /\ flows[runners[g].event].key = runners[g].at /\ Same(runners[g], runners'[g])
      BY <2>1, <1>3, <1>4 DEF LeaseInv, Leads
    <3> QED
      BY <3>1 DEF Same, CalmFlows, SameLease
  <2> QED
    BY <2>1
<1>7. \A g, f \in Replayers : Leads(g)' /\ Leads(f)' /\ runners'[g].event = runners'[f].event => g = f
  BY <1>3 DEF LeaseInv, Same
<1> QED
  BY <1>3, <1>5, <1>6, <1>7 DEF LeaseInv

\* The event of h gets another document.
Rewritten(h) ==
  /\ DOMAIN flows' = Paid /\ FlowDoc(flows'[runners[h].event])
  /\ \A e \in Paid \ {runners[h].event} : flows'[e] = flows[e]

\* A handler takes the lease of a workflow, which nobody within its lease has.
LEMMA LeaseTaken ==
  ASSUME WorkflowTypes, RowsInv, LeaseInv, NEW h \in Replayers, NEW row \in Runner, Moves(h, row),
         Busy(runners[h]), Same(runners[h], row), Rewritten(h),
         flows[runners[h].event].ends <= row.at,
         flows'[runners[h].event].status = "running", flows'[runners[h].event].key = row.at,
         clock' = clock
  PROVE  LeaseInv' /\ \A g \in Replayers \ {h} : Leads(g)' => Leads(g) /\ runners[g].event # row.event
<1>1. runners'[h] = row /\ (\A g \in Replayers \ {h} : runners'[g] = runners[g])
  BY RunnerMoves
<1>2. PICK e \in Paid, a \in Nat : e = row.event /\ a = row.at /\ e = runners[h].event /\ a = runners[h].at
  BY DEF Runner, RowsInv, Course, Same
<1>3. a <= clock
  <2>1. PICK old \in Runner, j \in 0..late : old = runners[h] /\ Outlived(old, j)
    BY DEF WorkflowTypes, RowsInv
  <2>2. clock \in Nat /\ j \in Nat
    BY DEF WorkflowTypes
  <2> QED
    BY <2>1, <2>2, <1>2, OutlivedRows
<1>4. \A g \in Replayers : Active(runners[g]) => runners[g].event \in Paid
  BY DEF RowsInv, Course, Active, Busy
<1>5. ASSUME NEW g \in Replayers \ {h}, Leads(g)
      PROVE  runners[g].event # e
  <2>1. SUFFICES ASSUME runners[g].event = e
                 PROVE  FALSE
    OBVIOUS
  <2>2. flows[e].status = "running" /\ flows[e].key = clock
    BY <2>1, <1>5 DEF LeaseInv, Leads
  <2>3. flows[e].ends = clock + Lease /\ Lease \in Nat \ {0} /\ clock \in Nat
    BY <2>2, LeaseIs DEF WorkflowTypes, FlowDoc
  <2> QED
    BY <2>3, <1>2, <1>3
<1>6. \A g \in Replayers \ {h} : /\ Active(runners[g])' <=> Active(runners[g])
                                 /\ Leads(g)' <=> Leads(g)
  BY <1>1 DEF Active, Leads
<1>7. ASSUME NEW g \in Replayers, Active(runners[g])'
      PROVE  flows'[runners'[g].event].status # "absent"
  <2>1. CASE g = h
    BY <2>1, <1>1, <1>2
  <2>2. CASE g # h
    <3>1. CASE runners[g].event = e
      BY <3>1, <2>2, <1>1, <1>2
    <3>2. CASE runners[g].event # e
      BY <3>2, <2>2, <1>1, <1>2, <1>4, <1>6, <1>7 DEF LeaseInv, Rewritten
    <3> QED
      BY <3>1, <3>2
  <2> QED
    BY <2>1, <2>2
<1>8. ASSUME NEW g \in Replayers, Leads(g)'
      PROVE  /\ flows'[runners'[g].event].status = "running"
             /\ flows'[runners'[g].event].key = runners'[g].at
  <2>1. CASE g = h
    BY <2>1, <1>1, <1>2
  <2>2. CASE g # h
    <3>1. Leads(g) /\ runners[g].event # e /\ runners[g].event \in Paid
      BY <2>2, <1>4, <1>5, <1>6, <1>8 DEF Leads
    <3> QED
      BY <3>1, <2>2, <1>1, <1>2 DEF LeaseInv, Rewritten
  <2> QED
    BY <2>1, <2>2
<1>9. ASSUME NEW g \in Replayers, NEW f \in Replayers, Leads(g)', Leads(f)', runners'[g].event = runners'[f].event
      PROVE  g = f
  BY <1>1, <1>2, <1>5, <1>6, <1>9 DEF LeaseInv
<1> QED
  BY <1>2, <1>5, <1>6, <1>7, <1>8, <1>9 DEF LeaseInv

\* A handler ends the lease of its workflow, and nobody else had it.
LEMMA LeaseEnds ==
  ASSUME WorkflowTypes, RowsInv, LeaseInv, NEW h \in Replayers, NEW row \in Runner, Moves(h, row),
         Leads(h), ~Active(row), Rewritten(h), flows'[runners[h].event].status # "absent",
         clock' = clock
  PROVE  LeaseInv' /\ \A g \in Replayers : Leads(g)' => Leads(g) /\ runners[g].event # runners[h].event
                                                       /\ runners'[g] = runners[g]
<1>1. runners'[h] = row /\ (\A g \in Replayers \ {h} : runners'[g] = runners[g])
  BY RunnerMoves
<1>2. \A g \in Replayers : Active(runners[g]) => runners[g].event \in Paid
  BY DEF RowsInv, Course, Active, Busy
<1>3. \A g \in Replayers : Active(runners[g])' => g # h /\ Active(runners[g]) /\ runners'[g] = runners[g]
  BY <1>1 DEF Active
<1>4. \A g \in Replayers : Leads(g)' => /\ g # h /\ Leads(g) /\ runners'[g] = runners[g]
                                        /\ runners[g].event # runners[h].event
  BY <1>3 DEF Leads, LeaseInv
<1>5. ASSUME NEW g \in Replayers, Active(runners[g])'
      PROVE  flows'[runners'[g].event].status # "absent"
  <2>1. CASE runners[g].event = runners[h].event
    BY <2>1, <1>3, <1>5
  <2>2. CASE runners[g].event # runners[h].event
    BY <2>2, <1>2, <1>3, <1>5 DEF LeaseInv, Rewritten
  <2> QED
    BY <2>1, <2>2
<1>6. ASSUME NEW g \in Replayers, Leads(g)'
      PROVE  /\ flows'[runners'[g].event].status = "running"
             /\ flows'[runners'[g].event].key = runners'[g].at
  <2>1. /\ Leads(g) /\ runners'[g] = runners[g] /\ runners[g].event # runners[h].event
        /\ runners[g].event \in Paid
    BY <1>2, <1>4, <1>6 DEF Leads
  <2> QED
    BY <2>1 DEF LeaseInv, Rewritten
<1>7. \A g, f \in Replayers : Leads(g)' /\ Leads(f)' /\ runners'[g].event = runners'[f].event => g = f
  BY <1>4 DEF LeaseInv
<1> QED
  BY <1>4, <1>5, <1>6, <1>7 DEF LeaseInv

\* When the clock moved nobody is within a lease.
LEMMA RowsTick ==
  ASSUME WorkflowTypes, RowsInv, LeaseInv, runners' = runners, flows' = flows,
         \/ clock' = clock + 1 /\ late' = late /\ \A h \in Replayers : ~Busy(runners[h])
         \/ clock' = clock + Lease /\ late' = late + 1
  PROVE  RowsInv' /\ LeaseInv' /\ \A h \in Replayers : ~Leads(h)'
<1>1. late \in Nat /\ clock \in Nat /\ Lease \in Nat \ {0}
  BY LeaseIs DEF WorkflowTypes
<1>2. \A h \in Replayers : Course(runners[h])'
  BY DEF RowsInv, Course
<1>3. ASSUME NEW h \in Replayers, Busy(runners[h])
      PROVE  runners[h].at < clock' /\ \E j \in 0..late' : clock' = runners[h].at + Lease * j
  <2>1. PICK j \in 0..late : clock = runners[h].at + Lease * j
    BY <1>3 DEF RowsInv, Outlived
  <2>2. clock' = clock + Lease /\ late' = late + 1
    BY <1>3
  <2>3. PICK l \in Nat \ {0}, a \in Nat : l = Lease /\ a = runners[h].at
    BY <1>1 DEF WorkflowTypes, Runner
  <2>4. l * (j + 1) = l * j + l /\ j + 1 \in 0..late' /\ l * j \in Nat
    BY <1>1, <2>2, <2>3
  <2>5. PICK m \in Nat : m = l * j
    BY <2>4
  <2>6. clock' = a + l * (j + 1) /\ a < clock'
    BY <2>1, <2>2, <2>3, <2>4, <2>5
  <2> QED
    BY <2>3, <2>4, <2>6
<1>4. \A h \in Replayers : ~Leads(h)'
  <2>1. ASSUME NEW h \in Replayers, Leads(h)'
        PROVE  FALSE
    <3>1. Busy(runners[h]) /\ runners[h].at = clock'
      BY <2>1 DEF Leads, Active, Busy
    <3>2. PICK a \in Nat : a = runners[h].at
      BY DEF WorkflowTypes, Runner
    <3> QED
      BY <3>1, <3>2, <1>3
  <2> QED
    BY <2>1
<1>5. RowsInv'
  BY <1>2, <1>3 DEF RowsInv, Busy, Outlived
<1>6. LeaseInv'
  <2>1. \A h \in Replayers : Active(runners[h])' => flows'[runners'[h].event].status # "absent"
    BY DEF LeaseInv, Active
  <2> QED
    BY <2>1, <1>4 DEF LeaseInv
<1> QED
  BY <1>4, <1>5, <1>6

----------------------------------------------------------------------------
(* The workflows: who is told, and what is behind a handler *)

\* A handler may still tell only if it could before.
LEMMA TellsRest ==
  ASSUME WorkflowTypes, NEW k \in Flow!Kinds, TellInv(k), notified'[k] \in Nat,
         \A g \in Replayers : Tells(runners'[g], k) => Tells(runners[g], k),
         notified'[k] + Queued(k)' <= notified[k] + Queued(k),
         markers'[k].tries = markers[k].tries
  PROVE  TellInv(k)'
<1>1. Tellers(k)' \subseteq Tellers(k)
  BY DEF Tellers
<1>2. IsFiniteSet(Tellers(k)) /\ IsFiniteSet(Tellers(k)')
  BY <1>1, FS_Subset DEF TellInv
<1>3. PICK m \in Nat, n \in Nat : m = Cardinality(Tellers(k)) /\ n = Cardinality(Tellers(k)')
  BY <1>2, FS_CardinalityType
<1>4. n <= m
  BY <1>1, <1>2, <1>3, FS_Subset
<1>5. PICK t \in Nat, s \in Nat, r \in Nat : t = markers[k].tries /\ s = notified[k] /\ r = notified'[k]
  BY DEF WorkflowTypes, MarkerDoc, FlowDoc
<1>6. PICK p \in Nat, q \in Nat : p = Queued(k) /\ q = Queued(k)'
  BY DEF Queued
<1>7. s + m + p <= t
  BY <1>3, <1>5, <1>6 DEF TellInv
<1>8. r + n + q <= t
  BY <1>4, <1>5, <1>6, <1>7
<1> QED
  BY <1>2, <1>3, <1>5, <1>6, <1>8 DEF TellInv

\* A handler that leased the marker may tell.
LEMMA TellsLeased ==
  ASSUME WorkflowTypes, NEW k \in Flow!Kinds, TellInv(k), NEW h \in Replayers,
         \A g \in Replayers \ {h} : runners'[g] = runners[g],
         notified' = notified, email' = email, markers'[k].tries = markers[k].tries + 1
  PROVE  TellInv(k)'
<1>1. Tellers(k)' \subseteq Tellers(k) \cup {h}
  BY DEF Tellers
<1>2. /\ IsFiniteSet(Tellers(k) \cup {h})
      /\ Cardinality(Tellers(k) \cup {h}) \in {Cardinality(Tellers(k)), Cardinality(Tellers(k)) + 1}
  BY FS_AddElement DEF TellInv
<1>3. IsFiniteSet(Tellers(k)')
  BY <1>1, <1>2, FS_Subset
<1>4. PICK m \in Nat, n \in Nat : m = Cardinality(Tellers(k)) /\ n = Cardinality(Tellers(k)')
  BY <1>3, FS_CardinalityType DEF TellInv
<1>5. n <= m + 1
  <2>1. PICK c \in Nat : c = Cardinality(Tellers(k) \cup {h})
    BY <1>2, FS_CardinalityType
  <2>2. n <= c
    BY <2>1, <1>1, <1>2, <1>4, FS_Subset
  <2> QED
    BY <2>1, <2>2, <1>2, <1>4
<1>6. PICK t \in Nat, s \in Nat, q \in Nat :
        /\ t = markers[k].tries /\ s = notified[k] /\ q = Queued(k) /\ q = Queued(k)'
  BY DEF WorkflowTypes, MarkerDoc, FlowDoc, Queued
<1>7. s + m + q <= t
  BY <1>4, <1>6 DEF TellInv
<1>8. s + n + q <= t + 1
  BY <1>4, <1>5, <1>6, <1>7
<1> QED
  BY <1>3, <1>4, <1>6, <1>8 DEF TellInv

\* A handler that may tell does, once.
LEMMA TellsOnce ==
  ASSUME WorkflowTypes, NEW k \in Flow!Kinds, TellInv(k), NEW h \in Replayers, notified'[k] \in Nat,
         \A g \in Replayers \ {h} : runners'[g] = runners[g],
         Tells(runners[h], k), ~Tells(runners'[h], k),
         notified'[k] + Queued(k)' <= notified[k] + Queued(k) + 1,
         markers'[k].tries = markers[k].tries
  PROVE  TellInv(k)'
<1>1. Tellers(k)' = Tellers(k) \ {h} /\ h \in Tellers(k)
  BY DEF Tellers
<1>2. /\ IsFiniteSet(Tellers(k)')
      /\ Cardinality(Tellers(k)') = Cardinality(Tellers(k)) - 1
  BY <1>1, FS_RemoveElement DEF TellInv
<1>3. PICK m \in Nat, n \in Nat : m = Cardinality(Tellers(k)) /\ n = Cardinality(Tellers(k)')
  BY <1>2, FS_CardinalityType DEF TellInv
<1>4. PICK t \in Nat, s \in Nat, r \in Nat : t = markers[k].tries /\ s = notified[k] /\ r = notified'[k]
  BY DEF WorkflowTypes, MarkerDoc, FlowDoc
<1>5. PICK p \in Nat, q \in Nat : p = Queued(k) /\ q = Queued(k)'
  BY DEF Queued
<1>6. s + m + p <= t /\ n = m - 1
  BY <1>2, <1>3, <1>4, <1>5 DEF TellInv
<1>7. r + n + q <= t
  BY <1>3, <1>4, <1>5, <1>6
<1> QED
  BY <1>2, <1>3, <1>4, <1>5, <1>7 DEF TellInv

\* A marker that is behind a handler was made; one that was completed was told.
LEMMA BehindStays ==
  ASSUME NEW k \in Flow!Kinds, BehindInv(k),
         \A g \in Replayers : Past(runners'[g], k) => Past(runners[g], k) \/ markers'[k].status # "absent",
         markers'[k].status = "absent" => markers[k].status = "absent",
         \A e \in Paid : flows'[e].status = "completed" =>
           flows[e].status = "completed" \/ markers'[k].status # "absent",
         markers'[k].status = "completed" => markers[k].status = "completed" \/ Flow!Announced(k)',
         Flow!Announced(k) => Flow!Announced(k)',
         \A g \in Replayers : runners'[g].pc = "complete" /\ runners'[g].kind = k =>
           Flow!Announced(k)' \/ (runners[g].pc = "complete" /\ runners[g].kind = k)
  PROVE  BehindInv(k)'
<1>1. Flow!Announced(k)' <=> (notified'[k] > 0 \/ (k = "confirmed" /\ email' # "absent"))
  BY DEF Flow!Announced
<1>2. \A g \in Replayers : Past(runners[g], k)' <=> Past(runners'[g], k)
  BY DEF Past
<1> QED
  BY <1>1, <1>2 DEF BehindInv

\* What keeps a marker from being owed.
Excused(k) == Flow!Announced(k) \/ markers[k].tries >= MaxTries \/ k \in stranded

\* A handler that goes on leaves the marker owed, unless it passes the marker when another
\* one has it, or stops working on it without giving it back.
LEMMA OwedRests ==
  ASSUME WorkflowTypes, LeaseInv, NEW k \in Flow!Kinds, OwedInv(k), Excused(k) => Excused(k)',
         NEW h \in Replayers, NEW row \in Runner, Moves(h, row), markers'[k] = markers[k],
         KeepsOn(runners[h], row), CalmFlows, clock' = clock,
         \A g \in Replayers : Leads(g)' => Leads(g) /\ Same(runners[g], runners'[g]),
         Leads(h) /\ Past(row, k) => \/ Past(runners[h], k) \/ Excused(k)'
                                     \/ markers[k].status = "completed"
                                     \/ /\ markers[k].status = "running" /\ clock < markers[k].ends
                                        /\ ~Works(runners[h], k),
         Leads(h) /\ Works(runners[h], k) /\ Active(row) =>
           \/ Works(row, k) \/ Excused(k)'
           \/ ~(markers[k].status = "running" /\ markers[k].key = runners[h].at /\ clock < markers[k].ends)
  PROVE  OwedInv(k)'
<1>1. runners'[h] = row /\ (\A g \in Replayers \ {h} : runners'[g] = runners[g])
  BY RunnerMoves
<1>2. SUFFICES ASSUME ~Excused(k)', markers[k].status \notin {"absent", "completed"}
               PROVE  \E e \in Paid : Owes(e, k)'
  BY DEF OwedInv, Excused
<1>3. PICK e \in Paid : Owes(e, k)
  BY <1>2 DEF OwedInv, Excused
<1>4. /\ flows'[e].status = flows[e].status /\ flows'[e].key = flows[e].key
      /\ flows[e].status \notin {"absent", "completed"}
  BY <1>3 DEF CalmFlows, SameLease, Owes
<1>5. ASSUME NEW g \in Replayers, Leads(g)', runners'[g].event = e
      PROVE  /\ Leads(g) /\ runners[g].event = e /\ ~Past(runners[g], k)
             /\ markers[k].status = "running" /\ clock < markers[k].ends =>
                  Works(runners[g], k) /\ runners[g].at = markers[k].key
  <2>1. Leads(g) /\ runners[g].event = e
    BY <1>5 DEF Same
  <2> QED
    BY <2>1, <1>3 DEF Owes, LeaseInv
<1>6. ASSUME NEW g \in Replayers, Leads(g)', runners'[g].event = e
      PROVE  ~Past(runners'[g], k) /\ (markers[k].status = "running" /\ clock < markers[k].ends
                                         => Works(runners'[g], k))
  <2>1. CASE g # h
    BY <2>1, <1>1, <1>5, <1>6
  <2>2. CASE g = h
    <3>1. Active(row)
      BY <2>2, <1>1, <1>6 DEF Leads
    <3> QED
      BY <3>1, <2>2, <1>1, <1>2, <1>5, <1>6
  <2> QED
    BY <2>1, <2>2
<1>7. Owes(e, k)'
  <2>1. \A g \in Replayers : Leads(g)' /\ runners'[g].event = e => ~Past(runners[g], k)'
    BY <1>6 DEF Past
  <2>2. markers'[k].status = "running" /\ clock' < markers'[k].ends =>
          /\ flows'[e].status = "running" /\ flows'[e].key = markers'[k].key
          /\ \A g \in Replayers : Leads(g)' /\ runners'[g].event = e => Works(runners[g], k)'
    BY <1>3, <1>4, <1>6 DEF Owes, Works
  <2> QED
    BY <2>1, <2>2, <1>4 DEF Owes
<1> QED
  BY <1>7

\* The clock moves, or the outbox sends: no handler gets a lease, no marker is touched.
LEMMA OwedStays ==
  ASSUME NEW k \in Flow!Kinds, OwedInv(k), Excused(k) => Excused(k)',
         runners' = runners, flows' = flows, markers' = markers,
         clock' >= clock, clock \in Nat, clock' \in Nat, markers[k].ends \in Nat,
         \A g \in Replayers : Leads(g)' => Leads(g)
  PROVE  OwedInv(k)'
<1>1. SUFFICES ASSUME ~Excused(k)', markers[k].status \notin {"absent", "completed"}
               PROVE  \E e \in Paid : Owes(e, k)'
  BY DEF OwedInv, Excused
<1>2. PICK e \in Paid : Owes(e, k)
  BY <1>1 DEF OwedInv, Excused
<1>3. clock' < markers[k].ends => clock < markers[k].ends
  OBVIOUS
<1>4. \A g \in Replayers : (Past(runners[g], k)' <=> Past(runners[g], k))
                           /\ (Works(runners[g], k)' <=> Works(runners[g], k))
  BY DEF Past, Works
<1>5. Owes(e, k)'
  BY <1>2, <1>3, <1>4 DEF Owes
<1> QED
  BY <1>5

\* A handler takes the lease of a workflow: another one, or one whose lease had ended.
LEMMA OwedLeased ==
  ASSUME WorkflowTypes, NEW k \in Flow!Kinds, OwedInv(k), Excused(k) => Excused(k)',
         NEW h \in Replayers, NEW row \in Runner, Moves(h, row), markers'[k] = markers[k],
         Rewritten(h), row.event = runners[h].event, ~Past(row, k), row.at \in Nat, row.at <= clock,
         flows[row.event].ends <= row.at, flows'[row.event].status = "running",
         \A g \in Replayers \ {h} : Leads(g)' => Leads(g) /\ runners[g].event # row.event,
         clock' = clock
  PROVE  OwedInv(k)'
<1>1. runners'[h] = row /\ (\A g \in Replayers \ {h} : runners'[g] = runners[g])
  BY RunnerMoves
<1>2. SUFFICES ASSUME ~Excused(k)', markers[k].status \notin {"absent", "completed"}
               PROVE  \E e \in Paid : Owes(e, k)'
  BY DEF OwedInv, Excused
<1>3. PICK e \in Paid : Owes(e, k)
  BY <1>2 DEF OwedInv, Excused
<1>4. ~Past(runners[h], k)'
  BY <1>1 DEF Past
<1>5. CASE e # row.event
  <2>1. flows'[e] = flows[e]
    BY <1>5 DEF Rewritten
  <2>2. \A g \in Replayers : Leads(g)' /\ runners'[g].event = e =>
          g # h /\ Leads(g) /\ runners[g].event = e /\ runners'[g] = runners[g]
    BY <1>1, <1>5
  <2>3. \A g \in Replayers : Leads(g)' /\ runners'[g].event = e =>
          /\ ~Past(runners[g], k)'
          /\ Works(runners[g], k) => Works(runners[g], k)'
    BY <2>2, <1>3 DEF Owes, Past, Works
  <2>4. Owes(e, k)'
    BY <2>1, <2>2, <2>3, <1>3 DEF Owes
  <2> QED
    BY <2>4
<1>6. CASE e = row.event
  <2>1. ~(markers[k].status = "running" /\ clock < markers[k].ends)
    <3>1. SUFFICES ASSUME markers[k].status = "running", clock < markers[k].ends
                   PROVE  FALSE
      OBVIOUS
    <3>2. flows[e].status = "running" /\ flows[e].key = markers[k].key
      BY <3>1, <1>3 DEF Owes
    <3>3. flows[e].ends = markers[k].ends /\ clock \in Nat /\ flows[e].ends \in Nat
      BY <3>1, <3>2 DEF WorkflowTypes, FlowDoc, MarkerDoc
    <3> QED
      BY <3>1, <3>3, <1>6
  <2>2. \A g \in Replayers : Leads(g)' /\ runners'[g].event = e => g = h
    BY <1>1, <1>6
  <2>3. Owes(e, k)'
    BY <2>1, <2>2, <1>4, <1>6 DEF Owes
  <2> QED
    BY <2>3
<1> QED
  BY <1>5, <1>6

\* A handler ends its workflow: it completes one that owes nothing, or fails it.
LEMMA OwedEnds ==
  ASSUME WorkflowTypes, NEW k \in Flow!Kinds, OwedInv(k), Excused(k) => Excused(k)',
         NEW h \in Replayers, Leads(h), markers'[k] = markers[k], Rewritten(h),
         flows'[runners[h].event].status \in {"failed", "completed"},
         flows'[runners[h].event].status = "completed" => Past(runners[h], k),
         ~Works(runners[h], k),
         \A g \in Replayers : Leads(g)' => Leads(g) /\ runners[g].event # runners[h].event
                                           /\ runners'[g] = runners[g],
         clock' = clock
  PROVE  OwedInv(k)'
<1>1. SUFFICES ASSUME ~Excused(k)', markers[k].status \notin {"absent", "completed"}
               PROVE  \E e \in Paid : Owes(e, k)'
  BY DEF OwedInv, Excused
<1>2. PICK e \in Paid : Owes(e, k)
  BY <1>1 DEF OwedInv, Excused
<1>3. CASE e # runners[h].event
  <2>1. flows'[e] = flows[e]
    BY <1>3 DEF Rewritten
  <2>2. \A g \in Replayers : Leads(g)' /\ runners'[g].event = e =>
          /\ ~Past(runners[g], k)'
          /\ Works(runners[g], k) => Works(runners[g], k)'
    BY <1>2 DEF Owes, Past, Works
  <2>3. \A g \in Replayers : Leads(g)' /\ runners'[g].event = e => Leads(g) /\ runners[g].event = e
    OBVIOUS
  <2>4. Owes(e, k)'
    BY <2>1, <2>2, <2>3, <1>2 DEF Owes
  <2> QED
    BY <2>4
<1>4. CASE e = runners[h].event
  <2>1. ~Past(runners[h], k) /\ ~(markers[k].status = "running" /\ clock < markers[k].ends)
    BY <1>2, <1>4 DEF Owes
  <2>2. \A g \in Replayers : ~(Leads(g)' /\ runners'[g].event = e)
    BY <1>4
  <2>3. Owes(e, k)'
    BY <2>1, <2>2, <1>4 DEF Owes
  <2> QED
    BY <2>3
<1> QED
  BY <1>3, <1>4

\* A handler takes the lease of the marker: within its own lease its workflow owes the
\* marker; beyond it the marker is owed as before, or was new and is owed by its workflow.
LEMMA OwedMarked ==
  ASSUME WorkflowTypes, RowsInv, LeaseInv, NEW k \in Flow!Kinds, OwedInv(k), BehindInv(k),
         Excused(k) => Excused(k)',
         NEW h \in Replayers, NEW row \in Runner, Moves(h, row), Active(runners[h]), Active(row),
         Same(runners[h], row), Works(row, k), ~Past(row, k), markers[k].status # "completed",
         markers'[k].status = "running", markers'[k].key = row.at, markers'[k].ends = row.at + Lease,
         CalmFlows, clock' = clock,
         \A g \in Replayers : Leads(g)' => Leads(g) /\ Same(runners[g], runners'[g])
  PROVE  OwedInv(k)'
<1>1. runners'[h] = row /\ (\A g \in Replayers \ {h} : runners'[g] = runners[g])
  BY RunnerMoves
<1>2. PICK own \in Paid, a \in Nat : own = row.event /\ a = row.at /\ own = runners[h].event
                                     /\ a = runners[h].at
  BY DEF Runner, RowsInv, Course, Same, Active, Busy
<1>3. \A e \in Paid : flows'[e].status = flows[e].status /\ flows'[e].key = flows[e].key
  BY DEF CalmFlows, SameLease
<1>4. ~Past(runners[h], k)' /\ Works(runners[h], k)'
  BY <1>1 DEF Past, Works
<1>5. CASE a = clock
  <2>1. Leads(h) /\ flows[own].status = "running" /\ flows[own].key = a
    BY <1>2, <1>5 DEF Leads, LeaseInv
  <2>2. \A g \in Replayers : Leads(g)' /\ runners'[g].event = own => g = h
    BY <2>1, <1>2 DEF LeaseInv, Same
  <2>3. Owes(own, k)'
    BY <2>1, <2>2, <1>2, <1>3, <1>4 DEF Owes
  <2> QED
    BY <2>3 DEF OwedInv
<1>6. CASE a # clock
  <2>1. ~(clock < a + Lease) /\ ~Leads(h)'
    <3>1. PICK old \in Runner, j \in 0..late : old = runners[h] /\ Outlived(old, j)
      BY DEF WorkflowTypes, RowsInv, Active, Busy
    <3>2. PICK l \in Nat \ {0} : l = Lease
      BY LeaseIs
    <3>3. clock \in Nat /\ clock = a + l * j /\ j \in Nat
      BY <3>1, <3>2, <1>2 DEF WorkflowTypes, Outlived
    <3>4. PICK m \in Nat : m = l * j
      BY <3>2, <3>3
    <3>5. (j >= 1 => m >= l) /\ (j = 0 => m = 0)
      BY <3>2, <3>3, <3>4
    <3>6. ~(clock < a + l)
      BY <3>2, <3>3, <3>4, <3>5, <1>6
    <3> QED
      BY <3>2, <3>6, <1>1, <1>2, <1>6 DEF Leads
  <2>2. ~(clock' < markers'[k].ends)
    BY <2>1, <1>2
  <2>3. ASSUME NEW g \in Replayers, Leads(g)'
        PROVE  g # h /\ Leads(g) /\ runners'[g].event = runners[g].event
               /\ (Past(runners[g], k)' <=> Past(runners[g], k))
    BY <2>1, <2>3, <1>1 DEF Past, Same
  <2>4. CASE markers[k].status = "absent"
    <3>1. flows[own].status \notin {"absent", "completed"}
      BY <2>4, <1>2 DEF LeaseInv, BehindInv
    <3>2. \A g \in Replayers : Leads(g)' => ~Past(runners[g], k)'
      BY <2>3, <2>4 DEF BehindInv
    <3>3. Owes(own, k)'
      BY <3>1, <3>2, <2>2, <1>3 DEF Owes
    <3> QED
      BY <3>3 DEF OwedInv
  <2>5. CASE markers[k].status # "absent"
    <3>1. SUFFICES ASSUME ~Excused(k)'
                   PROVE  \E e \in Paid : Owes(e, k)'
      BY DEF OwedInv, Excused
    <3>2. PICK e \in Paid : Owes(e, k)
      BY <3>1, <2>5 DEF OwedInv, Excused
    <3>3. Owes(e, k)'
      BY <3>2, <2>2, <2>3, <1>3 DEF Owes
    <3> QED
      BY <3>3
  <2> QED
    BY <2>4, <2>5
<1> QED
  BY <1>5, <1>6

\* A handler gives the marker back, for its own workflow or another one to come.
LEMMA OwedGiven ==
  ASSUME WorkflowTypes, NEW k \in Flow!Kinds, OwedInv(k), Excused(k) => Excused(k)',
         NEW h \in Replayers, NEW row \in Runner, Moves(h, row), ~Past(row, k),
         markers[k].status = "running", markers'[k].status = "failed",
         CalmFlows, clock' = clock,
         \A g \in Replayers : Leads(g)' => Leads(g) /\ Same(runners[g], runners'[g])
  PROVE  OwedInv(k)'
<1>1. runners'[h] = row /\ (\A g \in Replayers \ {h} : runners'[g] = runners[g])
  BY RunnerMoves
<1>2. SUFFICES ASSUME ~Excused(k)'
               PROVE  \E e \in Paid : Owes(e, k)'
  BY DEF OwedInv, Excused
<1>3. PICK e \in Paid : Owes(e, k)
  BY <1>2 DEF OwedInv, Excused
<1>4. flows'[e].status \notin {"absent", "completed"}
  BY <1>3 DEF CalmFlows, SameLease, Owes
<1>5. \A g \in Replayers : Leads(g)' /\ runners'[g].event = e => ~Past(runners[g], k)'
  <2>1. \A g \in Replayers \ {h} : Past(runners[g], k)' <=> Past(runners[g], k)
    BY <1>1 DEF Past
  <2>2. ~Past(runners[h], k)'
    BY <1>1 DEF Past
  <2> QED
    BY <2>1, <2>2, <1>3 DEF Owes, Same
<1>6. Owes(e, k)'
  BY <1>4, <1>5 DEF Owes
<1> QED
  BY <1>6

----------------------------------------------------------------------------
(* The workflows: a handler that goes on *)

\* A handler that becomes row tells at most what it might tell ...
TellsFairly(h, row, k) ==
  /\ notified'[k] \in Nat
  /\ Tells(row, k) => Tells(runners[h], k)
  /\ \/ notified'[k] + Queued(k)' <= notified[k] + Queued(k)
     \/ /\ Tells(runners[h], k) /\ ~Tells(row, k)
        /\ notified'[k] + Queued(k)' <= notified[k] + Queued(k) + 1
  /\ Flow!Announced(k) => Flow!Announced(k)'
  /\ k \in stranded => k \in stranded'
  /\ row.pc = "complete" /\ row.kind = k =>
       Flow!Announced(k)' \/ (runners[h].pc = "complete" /\ runners[h].kind = k)

\* ... stops working on a marker it holds only by an error ...
WorksOn(h, row, k) ==
  /\ Works(row, k) => Works(runners[h], k)
  /\ Keeps(h, k) => \/ errors' = errors + 1
                    \/ Works(row, k) /\ (row.pc = "fail" => runners[h].pc = "fail")
  /\ Leads(h) /\ Works(runners[h], k) /\ Active(row) =>
       \/ Works(row, k) \/ Excused(k)'
       \/ ~(markers[k].status = "running" /\ markers[k].key = runners[h].at /\ clock < markers[k].ends)

\* ... and passes a marker only when another handler has it, or nobody can.
PassesBy(h, row, k) ==
  Past(row, k) =>
    \/ Past(runners[h], k)
    \/ /\ markers[k].status # "absent"
       /\ Leads(h) => \/ Excused(k)' \/ markers[k].status = "completed"
                      \/ /\ markers[k].status = "running" /\ clock < markers[k].ends
                         /\ ~Works(runners[h], k)

GoesFairly(h, row, k) == TellsFairly(h, row, k) /\ WorksOn(h, row, k) /\ PassesBy(h, row, k)

\* Such a handler leaves a marker that it does not write as it has to be.
LEMMA KindRests ==
  ASSUME WorkflowTypes, RowsInv, LeaseInv, NEW k \in Flow!Kinds, KindInv(k),
         NEW h \in Replayers, NEW row \in Runner, Moves(h, row), markers'[k] = markers[k],
         KeepsOn(runners[h], row), GoesOn(runners[h], row), GoesFairly(h, row, k), CalmFlows,
         clock' = clock, late' = late, errors' = errors \/ errors' = errors + 1
  PROVE  KindInv(k)'
<1>1. runners'[h] = row /\ (\A g \in Replayers \ {h} : runners'[g] = runners[g])
  BY RunnerMoves
<1>2. \A g \in Replayers : Leads(g)' => Leads(g) /\ Same(runners[g], runners'[g])
  BY LeaseRests
<1>3. KeeperInv(k)' /\ PaidFor(k)'
  <2>1. Works(row, k) => Works(runners[h], k) /\ row.at = runners[h].at
    BY DEF GoesFairly, WorksOn, KeepsOn, Works, Active, Same
  <2>2. Keeps(h, k) => \/ errors' = errors + 1
                       \/ Works(row, k) /\ (row.pc = "fail" => runners[h].pc = "fail")
    BY DEF GoesFairly, WorksOn
  <2> QED
    BY <2>1, <2>2, MarkerRests DEF KindInv, GoesOn
<1>4. TellInv(k)'
  <2>1. CASE notified'[k] + Queued(k)' <= notified[k] + Queued(k)
    <3>1. \A g \in Replayers : Tells(runners'[g], k) => Tells(runners[g], k)
      BY <1>1 DEF GoesFairly, TellsFairly
    <3> QED
      BY <3>1, <2>1, TellsRest DEF KindInv, GoesFairly, TellsFairly
  <2>2. CASE Tells(runners[h], k) /\ ~Tells(row, k) /\ notified'[k] + Queued(k)' <= notified[k] + Queued(k) + 1
    BY <2>2, <1>1, TellsOnce DEF KindInv, GoesFairly, TellsFairly
  <2> QED
    BY <2>1, <2>2 DEF GoesFairly, TellsFairly
<1>5. Excused(k) => Excused(k)'
  BY DEF Excused, GoesFairly, TellsFairly
<1>6. BehindInv(k)'
  <2>1. \A e \in Paid : flows'[e].status = flows[e].status
    BY DEF CalmFlows, SameLease
  <2>2. \A g \in Replayers : Past(runners'[g], k) => Past(runners[g], k) \/ markers'[k].status # "absent"
    BY <1>1 DEF GoesFairly, PassesBy
  <2>3. \A g \in Replayers : runners'[g].pc = "complete" /\ runners'[g].kind = k =>
          Flow!Announced(k)' \/ (runners[g].pc = "complete" /\ runners[g].kind = k)
    BY <1>1 DEF GoesFairly, TellsFairly
  <2>4. Flow!Announced(k) => Flow!Announced(k)'
    BY DEF GoesFairly, TellsFairly
  <2> QED
    BY <2>1, <2>2, <2>3, <2>4, BehindStays DEF KindInv
<1>7. OwedInv(k)'
  BY <1>2, <1>5, OwedRests DEF KindInv, GoesFairly, PassesBy, WorksOn
<1> QED
  BY <1>3, <1>4, <1>6, <1>7 DEF KindInv

\* Documents that keep their types while a handler goes on.
LEMMA TypesStay ==
  ASSUME WorkflowTypes, NEW h \in Replayers, NEW row \in Runner, Moves(h, row),
         DOMAIN flows' = Paid, \A e \in Paid : FlowDoc(flows'[e]),
         DOMAIN markers' = Flow!Kinds, \A k \in Flow!Kinds : MarkerDoc(markers'[k]),
         clock' = clock, late' = late, errors' = errors \/ errors' = errors + 1,
         order' \in Flow!OrderDoc, email' \in {"absent", "queued", "sent"},
         notified' \in [Flow!Kinds -> Nat]
  PROVE  WorkflowTypes'
<1>1. \A e \in Paid : FlowDoc(flows[e])'
  BY DEF FlowDoc
<1>2. \A k \in Flow!Kinds : MarkerDoc(markers[k])'
  BY DEF MarkerDoc, FlowDoc
<1> QED
  BY <1>1, <1>2, RunnerMoves DEF WorkflowTypes

\* A step of a handler that writes no lease and no marker.
LEMMA WorkflowGoes ==
  ASSUME WorkflowTypes, WorkflowInv, NEW h \in Replayers, NEW row \in Runner, Moves(h, row), Course(row),
         KeepsOn(runners[h], row), GoesOn(runners[h], row), \A k \in Flow!Kinds : GoesFairly(h, row, k),
         CalmFlows, markers' = markers, clock' = clock, late' = late,
         errors' = errors \/ errors' = errors + 1,
         order' \in Flow!OrderDoc, email' \in {"absent", "queued", "sent"},
         notified' \in [Flow!Kinds -> Nat]
  PROVE  WorkflowTypes' /\ WorkflowInv'
<1>1. WorkflowTypes'
  <2>1. DOMAIN flows' = Paid /\ \A e \in Paid : FlowDoc(flows'[e])
    BY DEF CalmFlows
  <2>2. DOMAIN markers' = Flow!Kinds /\ \A k \in Flow!Kinds : MarkerDoc(markers'[k])
    BY DEF WorkflowTypes
  <2> QED
    BY <2>1, <2>2, TypesStay
<1>2. RowsInv' /\ LeaseInv'
  BY RowsStay, LeaseRests DEF WorkflowInv
<1>3. ASSUME NEW k \in Flow!Kinds
      PROVE  KindInv(k)'
  BY KindRests DEF WorkflowInv
<1> QED
  BY <1>1, <1>2, <1>3 DEF WorkflowInv

NothingTold == email' = email /\ notified' = notified /\ stranded' = stranded

WorkPlaces == {"look", "hook", "check", "queue", "complete", "fail"}

\* A handler away from the markers goes on along its way, or leaves it.
OnItsWay(old, row) ==
  row.kind = "download" => /\ old.kind = "download"
                           /\ row.pc \in {"do", "end", "finish"} => old.pc \in {"do", "end", "finish"}

\* A step of a handler that is away from the markers, or that dies.
LEMMA WorkflowWalks ==
  ASSUME WorkflowTypes, WorkflowInv, NEW h \in Replayers, NEW row \in Runner, Moves(h, row), Course(row),
         KeepsOn(runners[h], row), GoesOn(runners[h], row), OnItsWay(runners[h], row),
         row.pc \notin WorkPlaces, runners[h].pc \notin WorkPlaces \/ (errors' = errors + 1 /\ ~Active(row)),
         CalmFlows, markers' = markers, NothingTold, clock' = clock, late' = late,
         errors' = errors \/ errors' = errors + 1, order' \in Flow!OrderDoc
  PROVE  WorkflowTypes' /\ WorkflowInv'
<1>1. ASSUME NEW k \in Flow!Kinds
      PROVE  GoesFairly(h, row, k)
  <2>1. /\ ~Works(row, k) /\ ~Tells(row, k) /\ row.pc # "complete"
        /\ Works(runners[h], k) => errors' = errors + 1 /\ ~Active(row)
        /\ Past(row, k) => Past(runners[h], k)
    BY DEF Works, Tells, WorkPlaces, Past, OnItsWay
  <2>2. Queued(k)' = Queued(k) /\ Flow!Announced(k)' = Flow!Announced(k)
    BY DEF NothingTold, Queued, Flow!Announced
  <2>3. PICK s \in Nat, q \in Nat : s = notified[k] /\ q = Queued(k)
    BY DEF WorkflowTypes, Queued
  <2>4. TellsFairly(h, row, k)
    BY <2>1, <2>2, <2>3 DEF TellsFairly, NothingTold
  <2>5. WorksOn(h, row, k)
    BY <2>1 DEF WorksOn, Keeps
  <2>6. PassesBy(h, row, k)
    BY <2>1 DEF PassesBy
  <2> QED
    BY <2>4, <2>5, <2>6 DEF GoesFairly
<1>2. email' \in {"absent", "queued", "sent"} /\ notified' \in [Flow!Kinds -> Nat]
  BY DEF WorkflowTypes, NothingTold
<1> QED
  BY <1>1, <1>2, WorkflowGoes

----------------------------------------------------------------------------
(* The workflows: their actions *)

\* The rows of the actions.
LEMMA GoesTo ==
  ASSUME WorkflowTypes, NEW h \in Replayers, NEW pc \in Places, Flow!Go(h, pc)
  PROVE  \E row \in Runner : /\ Moves(h, row) /\ Same(runners[h], row) /\ row.pc = pc
                             /\ row.step = runners[h].step /\ row.kind = runners[h].kind
                             /\ row.failed = runners[h].failed
<1>1. PICK old \in Runner : old = runners[h]
  BY DEF WorkflowTypes
<1>2. PICK row \in Runner : /\ row = [old EXCEPT !.pc = pc] /\ Same(old, row) /\ row.pc = pc
                            /\ row.step = old.step /\ row.kind = old.kind /\ row.failed = old.failed
  BY RunnerGoes
<1>3. Moves(h, row)
  BY <1>1, <1>2 DEF Flow!Go, Moves
<1> QED
  BY <1>1, <1>2, <1>3

\* A handler that rests.
LEMMA IdleIs ==
  Flow!Idle \in Runner /\ Course(Flow!Idle) /\ Flow!Idle.pc = "idle" /\ Flow!Idle.kind = "confirmed"
BY DEF Flow!Idle, Flow!NoOrder, Flow!OrderDoc, Flow!Kinds, Flow!Never, Runner, Places, Course, Busy, Works

\* The event of a workflow gets another document.
LEMMA FlowSet ==
  ASSUME WorkflowTypes, NEW h \in Replayers, runners[h].event \in Paid, NEW doc, Flow!SetFlow(h, doc), FlowDoc(doc)
  PROVE  /\ Rewritten(h) /\ flows'[runners[h].event] = doc
         /\ SameLease(Flow!Flow(h), doc) => CalmFlows
<1>1. PICK e \in Paid : e = runners[h].event
  OBVIOUS
<1>2. flows' = [flows EXCEPT ![e] = doc] /\ DOMAIN flows = Paid
  BY <1>1 DEF Flow!SetFlow, WorkflowTypes
<1>3. DOMAIN flows' = Paid /\ flows'[e] = doc /\ \A d \in Paid \ {e} : flows'[d] = flows[d]
  BY <1>2
<1>4. SameLease(flows[e], doc) => CalmFlows
  <2>1. \A d \in Paid \ {e} : FlowDoc(flows'[d]) /\ SameLease(flows[d], flows'[d])
    BY <1>3 DEF WorkflowTypes, SameLease
  <2> QED
    BY <2>1, <1>3 DEF CalmFlows
<1> QED
  BY <1>1, <1>3, <1>4 DEF Rewritten, Flow!Flow

\* Workflows that nobody wrote are calm.
LEMMA FlowsSame ==
  ASSUME WorkflowTypes, flows' = flows
  PROVE  CalmFlows
BY DEF WorkflowTypes, CalmFlows, SameLease

\* A handler ends.
LEMMA WorkflowReturns ==
  ASSUME WorkflowTypes, WorkflowInv, NEW h \in Replayers, Flow!Return(h),
         runners[h].pc \notin WorkPlaces \/ errors' = errors + 1,
         CalmFlows, markers' = markers, NothingTold, clock' = clock, late' = late,
         errors' = errors \/ errors' = errors + 1, order' = order
  PROVE  WorkflowTypes' /\ WorkflowInv'
<1>1. PICK row \in Runner : /\ row = Flow!Idle /\ Course(row) /\ row.pc = "idle" /\ row.kind = "confirmed"
                            /\ Moves(h, row)
  BY IdleIs DEF Flow!Return, Moves
<1>2. /\ ~Active(row) /\ ~Busy(row) /\ row.pc \notin WorkPlaces /\ OnItsWay(runners[h], row)
      /\ order' \in Flow!OrderDoc
  BY <1>1 DEF Active, Busy, WorkPlaces, OnItsWay, WorkflowTypes
<1>3. KeepsOn(runners[h], row) /\ GoesOn(runners[h], row)
  BY <1>2 DEF KeepsOn, GoesOn
<1> QED
  BY <1>1, <1>2, <1>3, WorkflowWalks

\* A handler begins: a delivery, or a replay.
LEMMA WorkflowBegins ==
  ASSUME WorkflowTypes, WorkflowInv, NEW h \in Replayers, NEW e \in Paid,
         Flow!Deliver(h, e) \/ Flow!RetryDue(h, e)
  PROVE  WorkflowTypes' /\ WorkflowInv'
<1>1. /\ runners[h] = Flow!Idle /\ Flow!Begin(h, e) /\ flows' = flows /\ markers' = markers /\ order' = order
      /\ NothingTold /\ clock' = clock /\ errors' = errors /\ late' = late
  BY DEF Flow!Deliver, Flow!RetryDue, Flow!documents, Flow!histories, NothingTold
<1>2. clock \in Nat /\ order' \in Flow!OrderDoc
  BY <1>1 DEF WorkflowTypes
<1>3. PICK row : row = [Flow!Idle EXCEPT !.pc = "start", !.event = e, !.at = clock]
  OBVIOUS
<1>4. row \in Runner
  BY <1>2, <1>3, IdleIs DEF Runner, Places
<1>5. row.pc = "start" /\ row.event = e /\ row.at = clock /\ row.kind = "confirmed"
  BY <1>3 DEF Flow!Idle
<1>6. Moves(h, row)
  BY <1>1, <1>3 DEF Flow!Begin, Moves
<1>7. Course(row) /\ ~Active(row) /\ row.pc \notin WorkPlaces /\ runners[h].pc \notin WorkPlaces
  BY <1>1, <1>5, IdleIs DEF Course, Active, Busy, Works, WorkPlaces
<1>8. KeepsOn(runners[h], row) /\ GoesOn(runners[h], row) /\ OnItsWay(runners[h], row) /\ CalmFlows
  BY <1>1, <1>5, <1>7, FlowsSame DEF KeepsOn, GoesOn, OnItsWay
<1> QED
  BY <1>1, <1>2, <1>4, <1>6, <1>7, <1>8, WorkflowWalks

\* A handler that goes on away from the markers.
LEMMA WorkflowOnward ==
  ASSUME WorkflowTypes, WorkflowInv, NEW h \in Replayers, NEW row \in Runner, Moves(h, row), Course(row),
         Active(runners[h]), Same(runners[h], row), OnItsWay(runners[h], row),
         row.pc \notin WorkPlaces, runners[h].pc \notin WorkPlaces,
         CalmFlows, markers' = markers, NothingTold, clock' = clock, late' = late,
         errors' = errors, order' \in Flow!OrderDoc
  PROVE  WorkflowTypes' /\ WorkflowInv'
<1>1. KeepsOn(runners[h], row) /\ GoesOn(runners[h], row)
  BY DEF KeepsOn, GoesOn, Active, Busy, Same
<1> QED
  BY <1>1, WorkflowWalks

\* The order is read, and the first step begins.
LEMMA WorkflowFinds ==
  ASSUME WorkflowTypes, WorkflowInv, NEW h \in Replayers, Flow!FindOrder(h)
  PROVE  WorkflowTypes' /\ WorkflowInv'
<1>1. /\ flows' = flows /\ markers' = markers /\ order' = order
      /\ NothingTold /\ clock' = clock /\ errors' = errors /\ late' = late
  BY DEF Flow!FindOrder, Flow!documents, Flow!histories, NothingTold
<1>2. PICK old \in Runner : old = runners[h] /\ old.pc = "find" /\ Course(old)
  BY DEF WorkflowTypes, WorkflowInv, RowsInv, Flow!FindOrder, Flow!At
<1>3. PICK o \in Flow!OrderDoc, step \in {"link_checkout", "persist_order"} :
        o = order /\ runners' = [runners EXCEPT ![h].pc = "begin", ![h].order = o, ![h].step = step]
  BY DEF WorkflowTypes, Flow!FindOrder
<1>9. PICK pc \in Places : pc = "begin"
  BY DEF Places
<1>10. step \in Flow!Steps
  BY DEF Flow!Steps
<1>4. PICK row \in Runner :
        /\ row = Ordered(old, pc, o, step) /\ Same(old, row)
        /\ row.pc = pc /\ row.step = step /\ row.kind = old.kind /\ row.failed = old.failed
  BY <1>10, RunnerOrders
<1>5. Moves(h, row)
  BY <1>2, <1>3, <1>4, <1>9 DEF Moves, Ordered
<1>6. row.kind = "confirmed" /\ row.event \in Paid
  <2>1. row.kind \in {"confirmed", "download"}
    BY DEF Runner, Flow!Kinds
  <2> QED
    BY <2>1, <1>2, <1>4 DEF Course, Busy, Same
<1>7. Course(row) /\ row.pc \notin WorkPlaces /\ old.pc \notin WorkPlaces /\ Active(old) /\ OnItsWay(old, row)
  BY <1>2, <1>4, <1>6, <1>9 DEF Course, Busy, Works, WorkPlaces, Active, OnItsWay, Flow!Steps
<1>8. CalmFlows /\ order' \in Flow!OrderDoc
  BY <1>1, FlowsSame DEF WorkflowTypes
<1> QED
  BY <1>1, <1>2, <1>4, <1>5, <1>7, <1>8, WorkflowOnward

\* A step begins, unless the lease is lost.
LEMMA WorkflowBeginsStep ==
  ASSUME WorkflowTypes, WorkflowInv, NEW h \in Replayers, Flow!BeginStep(h)
  PROVE  WorkflowTypes' /\ WorkflowInv'
<1>1. /\ markers' = markers /\ order' = order
      /\ NothingTold /\ clock' = clock /\ errors' = errors /\ late' = late
  BY DEF Flow!BeginStep, Flow!histories, NothingTold
<1>2. PICK old \in Runner : old = runners[h] /\ old.pc = "begin" /\ Course(old)
  BY DEF WorkflowTypes, WorkflowInv, RowsInv, Flow!BeginStep, Flow!At
<1>3. CASE Flow!Return(h) /\ flows' = flows
  BY <1>1, <1>2, <1>3, FlowsSame, WorkflowReturns DEF WorkPlaces
<1>4. CASE Flow!SetFlow(h, Flow!startWorkflowStep(Flow!Flow(h), runners[h].step)) /\ Flow!Go(h, "do")
  <2>1. PICK row \in Runner : /\ Moves(h, row) /\ Same(runners[h], row) /\ row.pc = "do"
                              /\ row.step = runners[h].step /\ row.kind = runners[h].kind
    BY <1>4, GoesTo DEF Places
  <2>2. runners[h].event \in Paid
    BY <1>2 DEF Course, Busy
  <2>3. FlowDoc(Flow!Flow(h))
    BY <2>2 DEF WorkflowTypes, Flow!Flow
  <2>4. CalmFlows
    BY <2>2, <2>3, <1>4, DocSteps, FlowSet
  <2>5. Course(row) /\ row.pc \notin WorkPlaces /\ old.pc \notin WorkPlaces /\ Active(old) /\ OnItsWay(old, row)
    BY <1>2, <2>1 DEF Course, Busy, Works, WorkPlaces, Active, OnItsWay, Same
  <2> QED
    BY <1>1, <1>2, <2>1, <2>4, <2>5, WorkflowOnward DEF WorkflowTypes
<1> QED
  BY <1>3, <1>4 DEF Flow!BeginStep

\* One step ends and the next begins.
LEMMA WorkflowAdvances ==
  ASSUME WorkflowTypes, WorkflowInv, NEW h \in Replayers, NEW next \in Flow!Steps,
         runners[h].pc \in {"do", "end"}, Flow!Advance(h, next),
         runners[h].kind = "download" => next = "mark_webhook",
         next = "mark_webhook" => runners[h].kind = "download" \/ runners[h].step = "link_checkout"
  PROVE  WorkflowTypes' /\ WorkflowInv'
<1>1. /\ markers' = markers /\ order' = order
      /\ NothingTold /\ clock' = clock /\ errors' = errors /\ late' = late
  BY DEF Flow!Advance, Flow!histories, NothingTold
<1>2. PICK old \in Runner : old = runners[h] /\ Course(old)
  BY DEF WorkflowTypes, WorkflowInv, RowsInv
<1>3. CASE Flow!Return(h) /\ flows' = flows
  BY <1>1, <1>3, FlowsSame, WorkflowReturns DEF WorkPlaces
<1>4. CASE /\ Flow!SetFlow(h, Flow!startWorkflowStep(Flow!completeWorkflowStep(Flow!Flow(h), runners[h].step), next))
           /\ runners' = [runners EXCEPT ![h].pc = "do", ![h].step = next,
                             ![h].failed = (next = "mark_webhook" /\ runners[h].step = "link_checkout")]
  <2>1. PICK failed \in BOOLEAN : failed = (next = "mark_webhook" /\ runners[h].step = "link_checkout")
    OBVIOUS
  <2>13. PICK pc \in Places : pc = "do"
    BY DEF Places
  <2>2. PICK row \in Runner : /\ row = Advanced(old, pc, next, failed)
                              /\ Same(old, row) /\ row.pc = pc
                              /\ row.step = next /\ row.kind = old.kind /\ row.failed = failed
    BY RunnerAdvances
  <2>3. Moves(h, row)
    BY <1>2, <1>4, <2>1, <2>2, <2>13 DEF Moves, Advanced
  <2>4. runners[h].event \in Paid
    BY <1>2 DEF Course, Busy
  <2>5. FlowDoc(Flow!Flow(h))
    BY <2>4 DEF WorkflowTypes, Flow!Flow
  <2>6. PICK doc : doc = Flow!completeWorkflowStep(Flow!Flow(h), runners[h].step)
    OBVIOUS
  <2>7. FlowDoc(doc) /\ SameLease(Flow!Flow(h), doc)
    BY <2>5, <2>6, DocSteps
  <2>8. PICK last : last = Flow!startWorkflowStep(doc, next)
    OBVIOUS
  <2>9. FlowDoc(last) /\ SameLease(doc, last)
    BY <2>7, <2>8, DocSteps
  <2>10. SameLease(Flow!Flow(h), last)
    BY <2>7, <2>9 DEF SameLease
  <2>11. CalmFlows
    BY <1>4, <2>4, <2>6, <2>8, <2>9, <2>10, FlowSet
  <2>12. Course(row) /\ row.pc \notin WorkPlaces /\ old.pc \notin WorkPlaces /\ Active(old) /\ OnItsWay(old, row)
    BY <1>2, <2>1, <2>2, <2>13 DEF Course, Busy, Works, WorkPlaces, Active, OnItsWay, Same
  <2> QED
    BY <1>1, <1>2, <2>2, <2>3, <2>11, <2>12, WorkflowOnward DEF WorkflowTypes
<1> QED
  BY <1>3, <1>4 DEF Flow!Advance

\* A step ends and the next one begins, for a stray event the last one.
LEMMA WorkflowEndsStep ==
  ASSUME WorkflowTypes, WorkflowInv, NEW h \in Replayers, Flow!EndStep(h) \/ Flow!LinkCheckout(h)
  PROVE  WorkflowTypes' /\ WorkflowInv'
<1>1. PICK old \in Runner : old = runners[h] /\ Course(old)
  BY DEF WorkflowTypes, WorkflowInv, RowsInv
<1>2. CASE Flow!EndStep(h)
  <2>1. old.pc = "end" /\ old.step \in Flow!Steps \ {"mark_webhook"}
    BY <1>1, <1>2 DEF Flow!EndStep, Flow!At, Course
  <2>2. PICK next \in Flow!Steps : /\ next = Flow!NextStep(old.step)
                                   /\ old.step = "fulfill_order" => next = "mark_webhook"
                                   /\ next = "mark_webhook" => old.step = "fulfill_order"
    BY <2>1 DEF Flow!NextStep, Flow!Steps
  <2>3. /\ old.kind = "download" => next = "mark_webhook"
        /\ next = "mark_webhook" => old.kind = "download"
    BY <1>1, <2>1, <2>2 DEF Course
  <2> QED
    BY <1>1, <1>2, <2>1, <2>2, <2>3, WorkflowAdvances DEF Flow!EndStep
<1>3. CASE Flow!LinkCheckout(h)
  <2>1. old.pc = "do" /\ old.step = "link_checkout"
    BY <1>1, <1>3 DEF Flow!LinkCheckout, Flow!At
  <2>2. PICK next \in Flow!Steps : Flow!Advance(h, next)
    BY <1>3 DEF Flow!LinkCheckout, Flow!Steps
  <2>3. old.kind # "download"
    BY <1>1, <2>1 DEF Course
  <2> QED
    BY <1>1, <2>1, <2>2, <2>3, WorkflowAdvances
<1> QED
  BY <1>2, <1>3

\* The last step ends: a workflow that failed did not come by the notifications.
LEMMA WorkflowEndsLast ==
  ASSUME WorkflowTypes, WorkflowInv, NEW h \in Replayers, Flow!EndWorkflow(h)
  PROVE  WorkflowTypes' /\ WorkflowInv'
<1>1. /\ markers' = markers /\ order' = order
      /\ NothingTold /\ clock' = clock /\ errors' = errors /\ late' = late
  BY DEF Flow!EndWorkflow, Flow!histories, NothingTold
<1>2. PICK old \in Runner : old = runners[h] /\ old.pc = "end" /\ old.step = "mark_webhook" /\ Course(old)
  BY DEF WorkflowTypes, WorkflowInv, RowsInv, Flow!EndWorkflow, Flow!At
<1>3. CASE Flow!Return(h) /\ flows' = flows
  BY <1>1, <1>2, <1>3, FlowsSame, WorkflowReturns DEF WorkPlaces
<1>4. CASE /\ Flow!SetFlow(h, Flow!completeWorkflowStep(Flow!Flow(h), "mark_webhook"))
           /\ Flow!Go(h, IF runners[h].failed THEN "fail_flow" ELSE "finish")
  <2>1. PICK pc \in {"fail_flow", "finish"} : Flow!Go(h, pc) /\ (pc = "finish" => ~old.failed)
    BY <1>2, <1>4
  <2>2. PICK row \in Runner : /\ Moves(h, row) /\ Same(runners[h], row) /\ row.pc = pc
                              /\ row.step = runners[h].step /\ row.kind = runners[h].kind
    BY <2>1, GoesTo DEF Places
  <2>3. runners[h].event \in Paid
    BY <1>2 DEF Course, Busy
  <2>4. FlowDoc(Flow!Flow(h))
    BY <2>3 DEF WorkflowTypes, Flow!Flow
  <2>5. CalmFlows
    BY <2>3, <2>4, <1>4, DocSteps, FlowSet
  <2>6. Course(row) /\ row.pc \notin WorkPlaces /\ old.pc \notin WorkPlaces /\ Active(old) /\ OnItsWay(old, row)
    BY <1>2, <2>1, <2>2 DEF Course, Busy, Works, WorkPlaces, Active, OnItsWay, Same
  <2> QED
    BY <1>1, <1>2, <2>2, <2>5, <2>6, WorkflowOnward DEF WorkflowTypes
<1> QED
  BY <1>3, <1>4 DEF Flow!EndWorkflow

\* The order is put, or another one is found.
LEMMA WorkflowPersists ==
  ASSUME WorkflowTypes, WorkflowInv, NEW h \in Replayers, Flow!PersistOrder(h)
  PROVE  WorkflowTypes' /\ WorkflowInv'
<1>1. /\ flows' = flows /\ markers' = markers
      /\ NothingTold /\ clock' = clock /\ errors' = errors /\ late' = late
  BY DEF Flow!PersistOrder, Flow!histories, NothingTold
<1>2. PICK old \in Runner : old = runners[h] /\ old.pc = "do" /\ old.step = "persist_order" /\ Course(old)
  BY DEF WorkflowTypes, WorkflowInv, RowsInv, Flow!PersistOrder, Flow!Do, Flow!At
<1>3. CalmFlows /\ old.order \in Flow!OrderDoc /\ order \in Flow!OrderDoc
  BY <1>1, FlowsSame DEF WorkflowTypes, Runner
<1>4. old.kind # "download"
  BY <1>2 DEF Course
<1>5. CASE runners' = [runners EXCEPT ![h].order = order] /\ order' = order
  <2>1. PICK o \in Flow!OrderDoc : o = order
    BY <1>3
  <2>2. PICK row \in Runner : /\ row = [old EXCEPT !.order = o] /\ Same(old, row) /\ row.pc = old.pc
                              /\ row.step = old.step /\ row.kind = old.kind /\ row.failed = old.failed
    BY RunnerOrder
  <2>3. Moves(h, row)
    BY <1>2, <1>5, <2>1, <2>2 DEF Moves
  <2>4. Course(row) /\ row.pc \notin WorkPlaces /\ old.pc \notin WorkPlaces /\ Active(old) /\ OnItsWay(old, row)
    BY <1>2, <1>4, <2>2 DEF Course, Busy, Works, WorkPlaces, Active, OnItsWay, Same
  <2> QED
    BY <1>1, <1>2, <1>3, <1>5, <2>2, <2>3, <2>4, WorkflowOnward
<1>6. CASE /\ order' = [runners[h].order EXCEPT !.status = "paid"]
           /\ runners' = [runners EXCEPT ![h].pc = "end", ![h].order = order']
  <2>1. PICK o \in Flow!OrderDoc : o = order'
    BY <1>2, <1>3, <1>6 DEF Flow!OrderDoc
  <2>2. PICK pc \in Places : pc = "end"
    BY DEF Places
  <2>3. PICK row \in Runner : /\ row = Holding(old, pc, o) /\ Same(old, row) /\ row.pc = pc
                              /\ row.step = old.step /\ row.kind = old.kind /\ row.failed = old.failed
    BY RunnerPuts
  <2>4. Moves(h, row)
    BY <1>2, <1>6, <2>1, <2>2, <2>3 DEF Moves, Holding
  <2>5. Course(row) /\ row.pc \notin WorkPlaces /\ old.pc \notin WorkPlaces /\ Active(old) /\ OnItsWay(old, row)
    BY <1>2, <1>4, <2>2, <2>3 DEF Course, Busy, Works, WorkPlaces, Active, OnItsWay, Same, Flow!Steps
  <2> QED
    BY <1>1, <1>2, <1>3, <2>1, <2>3, <2>4, <2>5, WorkflowOnward
<1> QED
  BY <1>5, <1>6 DEF Flow!PersistOrder

\* The download is recorded in the line, or the order is closed.
LEMMA WorkflowFulfils ==
  ASSUME WorkflowTypes, WorkflowInv, NEW h \in Replayers, Flow!RecordLine(h) \/ Flow!CloseOrder(h)
  PROVE  WorkflowTypes' /\ WorkflowInv'
<1>1. /\ flows' = flows /\ markers' = markers
      /\ NothingTold /\ clock' = clock /\ errors' = errors /\ late' = late
  BY DEF Flow!RecordLine, Flow!CloseOrder, Flow!histories, NothingTold
<1>2. PICK old \in Runner : /\ old = runners[h] /\ Course(old)
                            /\ (old.pc = "do" /\ old.step = "fulfill_order") \/ old.pc = "close"
  BY DEF WorkflowTypes, WorkflowInv, RowsInv, Flow!RecordLine, Flow!CloseOrder, Flow!Do, Flow!At
<1>3. CalmFlows /\ old.order \in Flow!OrderDoc /\ order \in Flow!OrderDoc
  BY <1>1, FlowsSame DEF WorkflowTypes, Runner
<1>4. old.kind # "download" /\ old.step = "fulfill_order"
  BY <1>2 DEF Course
<1>5. PICK pc \in Places, o \in Flow!OrderDoc :
        /\ pc \in {"acquire", "close"} /\ runners' = [runners EXCEPT ![h].pc = pc, ![h].order = o]
        /\ order' \in Flow!OrderDoc
  <2>1. CASE Flow!RecordLine(h)
    <3>1. PICK pc \in Places : /\ pc = IF old.order.ref /\ old.order.done THEN "acquire" ELSE "close"
                               /\ pc \in {"acquire", "close"}
      BY DEF Places
    <3>2. PICK o \in Flow!OrderDoc : o = [old.order EXCEPT !.ref = TRUE]
      BY <1>3 DEF Flow!OrderDoc
    <3>3. runners' = [runners EXCEPT ![h].pc = pc, ![h].order = o]
      BY <1>2, <2>1, <3>1, <3>2 DEF Flow!RecordLine
    <3>4. order' = order \/ order' = o
      BY <1>2, <2>1, <3>2 DEF Flow!RecordLine
    <3> QED
      BY <1>3, <3>1, <3>3, <3>4
  <2>2. CASE Flow!CloseOrder(h)
    <3>1. PICK pc \in Places : pc = "acquire"
      BY DEF Places
    <3>2. PICK o \in Flow!OrderDoc : o = [old.order EXCEPT !.done = TRUE]
      BY <1>3 DEF Flow!OrderDoc
    <3>3. runners' = [runners EXCEPT ![h].pc = pc, ![h].order = o] /\ order' = o
      BY <1>2, <2>2, <3>1, <3>2 DEF Flow!CloseOrder
    <3> QED
      BY <3>1, <3>3
  <2> QED
    BY <2>1, <2>2
<1>6. PICK row \in Runner : /\ row = Holding(old, pc, o) /\ Same(old, row) /\ row.pc = pc
                            /\ row.step = old.step /\ row.kind = old.kind /\ row.failed = old.failed
  BY RunnerPuts
<1>7. Moves(h, row)
  BY <1>2, <1>5, <1>6 DEF Moves, Holding
<1>8. Course(row) /\ row.pc \notin WorkPlaces /\ old.pc \notin WorkPlaces /\ Active(old) /\ OnItsWay(old, row)
  BY <1>2, <1>4, <1>5, <1>6 DEF Course, Busy, Works, WorkPlaces, Active, OnItsWay, Same
<1> QED
  BY <1>1, <1>2, <1>3, <1>5, <1>6, <1>7, <1>8, WorkflowOnward

\* The webhook is marked: in the last step, or after a failure.
LEMMA WorkflowMarks ==
  ASSUME WorkflowTypes, WorkflowInv, NEW h \in Replayers, Flow!MarkWebhook(h) \/ Flow!MarkFailed(h)
  PROVE  WorkflowTypes' /\ WorkflowInv'
<1>1. /\ flows' = flows /\ markers' = markers /\ order' = order
      /\ NothingTold /\ clock' = clock /\ errors' = errors /\ late' = late
  BY DEF Flow!MarkWebhook, Flow!MarkFailed, Flow!histories, NothingTold
<1>2. CalmFlows /\ order' \in Flow!OrderDoc
  BY <1>1, FlowsSame DEF WorkflowTypes
<1>3. CASE Flow!MarkFailed(h)
  BY <1>1, <1>2, <1>3, WorkflowReturns DEF Flow!MarkFailed, Flow!At, WorkPlaces
<1>4. CASE Flow!MarkWebhook(h)
  <2>1. PICK old \in Runner : old = runners[h] /\ old.pc = "do" /\ old.step = "mark_webhook" /\ Course(old)
    BY <1>4 DEF WorkflowTypes, WorkflowInv, RowsInv, Flow!MarkWebhook, Flow!Do, Flow!At
  <2>2. PICK row \in Runner : /\ Moves(h, row) /\ Same(runners[h], row) /\ row.pc = "end"
                              /\ row.step = runners[h].step /\ row.kind = runners[h].kind
                              /\ row.failed = runners[h].failed
    <3>1. Flow!Go(h, "end") /\ "end" \in Places
      BY <1>4 DEF Flow!MarkWebhook, Places
    <3> QED
      BY <3>1, GoesTo
  <2>3. Course(row) /\ row.pc \notin WorkPlaces /\ old.pc \notin WorkPlaces /\ Active(old) /\ OnItsWay(old, row)
    BY <2>1, <2>2 DEF Course, Busy, Works, WorkPlaces, Active, OnItsWay, Same
  <2> QED
    BY <1>1, <1>2, <2>1, <2>2, <2>3, WorkflowOnward
<1> QED
  BY <1>3, <1>4

\* A handler dies.
LEMMA WorkflowDies ==
  ASSUME WorkflowTypes, WorkflowInv, NEW h \in Replayers, Flow!Die(h)
  PROVE  WorkflowTypes' /\ WorkflowInv'
<1>1. /\ flows' = flows /\ markers' = markers /\ order' = order /\ errors' = errors + 1
      /\ NothingTold /\ clock' = clock /\ late' = late /\ Flow!Return(h)
  BY DEF Flow!Die, Flow!documents, NothingTold
<1> QED
  BY <1>1, FlowsSame, WorkflowReturns

\* A call throws: whoever works on a marker goes on to give it back, and if that fails the
\* marker is stranded.
LEMMA WorkflowThrows ==
  ASSUME WorkflowTypes, WorkflowInv, NEW h \in Replayers, Flow!CallThrows(h)
  PROVE  WorkflowTypes' /\ WorkflowInv'
<1>1. /\ flows' = flows /\ markers' = markers /\ order' = order /\ errors' = errors + 1
      /\ email' = email /\ notified' = notified /\ clock' = clock /\ late' = late
      /\ stranded' = stranded \cup {k \in Flow!Kinds : Flow!Call(h, k, "fail")}
  BY DEF Flow!CallThrows, Flow!documents
<1>2. PICK old \in Runner : /\ old = runners[h] /\ Course(old)
                            /\ old.pc \notin {"idle", "hook", "mark_failed"}
  BY DEF WorkflowTypes, WorkflowInv, RowsInv, Flow!CallThrows
<1>3. /\ CalmFlows /\ order' \in Flow!OrderDoc /\ email' \in {"absent", "queued", "sent"}
      /\ notified' \in [Flow!Kinds -> Nat]
  BY <1>1, FlowsSame DEF WorkflowTypes
<1>4. PICK row \in Runner :
        /\ Moves(h, row) /\ Course(row) /\ KeepsOn(old, row) /\ GoesOn(old, row)
        /\ row.pc \notin {"look", "hook", "check", "queue", "complete", "do", "end", "finish"}
        /\ row.pc = "fail" => Works(old, row.kind)
        /\ Active(row) /\ Works(old, old.kind) /\ old.pc # "fail" => row.pc = "fail" /\ row.kind = old.kind
        /\ row.pc # "idle" => row.kind = old.kind
        /\ row.pc = "idle" => row.kind = "confirmed"
  <2>1. CASE Flow!Return(h)
    <3>1. PICK row \in Runner : /\ row = Flow!Idle /\ Course(row) /\ row.pc = "idle" /\ row.kind = "confirmed"
                                /\ Moves(h, row)
      BY <2>1, IdleIs DEF Flow!Return, Moves
    <3>2. KeepsOn(old, row) /\ GoesOn(old, row) /\ ~Active(row)
      BY <3>1 DEF KeepsOn, GoesOn, Active, Busy
    <3> QED
      BY <3>1, <3>2
  <2>2. CASE runners' = [runners EXCEPT ![h].pc = Flow!Catch(h), ![h].failed = FALSE]
    <3>1. PICK pc \in Places : /\ pc = Flow!Catch(h)
                               /\ old.pc = "start" => pc = "mark_failed"
                               /\ old.pc \in {"look", "check", "queue", "complete"} => pc = "fail"
                               /\ old.pc \notin {"start", "look", "check", "queue", "complete"} =>
                                    pc \in {"fail_flow", "mark_failed", "fail_step"}
      <4>1. old.pc \in Places \ {"idle", "hook", "mark_failed"}
        BY <1>2 DEF Runner
      <4> QED
        BY <4>1, <1>2 DEF Flow!Catch, Places
    <3>2. PICK f \in BOOLEAN : f = FALSE
      OBVIOUS
    <3>3. PICK row \in Runner : /\ row = Caught(old, pc, f) /\ Same(old, row) /\ row.pc = pc
                                /\ row.step = old.step /\ row.kind = old.kind /\ row.failed = f
      BY RunnerCatches
    <3>4. Moves(h, row)
      BY <1>2, <2>2, <3>1, <3>2, <3>3 DEF Moves, Caught
    <3>5. pc \in {"fail", "fail_flow", "mark_failed", "fail_step"}
      BY <3>1
    <3>6. /\ row.pc = "fail" => Works(old, row.kind)
          /\ Active(row) /\ Works(old, old.kind) /\ old.pc # "fail" /\ old.pc # "hook" => row.pc = "fail"
      BY <3>1, <3>3 DEF Works, Active
    <3>7. Course(row)
      <4>1. row.event \in Paid /\ (row.pc = "fail" => row.step = "fulfill_order")
        BY <1>2, <3>3, <3>6 DEF Course, Busy, Same
      <4> QED
        BY <4>1, <3>3, <3>5 DEF Course, Busy, Works
    <3>8. KeepsOn(old, row) /\ GoesOn(old, row)
      <4>1. Active(row) => Active(old)
        BY <1>2, <3>1, <3>3 DEF Active
      <4> QED
        BY <4>1, <1>2, <3>3 DEF KeepsOn, GoesOn, Busy, Same
    <3>9. row.pc # "idle" /\ row.pc \notin {"look", "hook", "check", "queue", "complete", "do", "end", "finish"}
      BY <3>3, <3>5
    <3> QED
      BY <1>2, <3>3, <3>4, <3>6, <3>7, <3>8, <3>9
  <2> QED
    BY <2>1, <2>2 DEF Flow!CallThrows
<1>5. ASSUME NEW k \in Flow!Kinds
      PROVE  GoesFairly(h, row, k)
  <2>1. Queued(k)' = Queued(k) /\ Flow!Announced(k)' = Flow!Announced(k)
    BY <1>1 DEF Queued, Flow!Announced
  <2>2. PICK s \in Nat, q \in Nat : s = notified[k] /\ q = Queued(k)
    BY DEF WorkflowTypes, Queued
  <2>3. TellsFairly(h, row, k)
    <3>1. ~Tells(row, k) /\ row.pc # "complete"
      BY <1>4 DEF Tells
    <3>2. k \in stranded => k \in stranded'
      BY <1>1
    <3>3. notified'[k] = s /\ Queued(k)' = q
      BY <1>1, <2>1, <2>2
    <3> QED
      BY <2>1, <2>2, <3>1, <3>2, <3>3 DEF TellsFairly
  <2>4. WorksOn(h, row, k)
    <3>1. Works(row, k) => Works(old, k)
      BY <1>4 DEF Works
    <3>2. Works(old, k) /\ Active(row) => Works(row, k) \/ old.pc = "fail"
      BY <1>4 DEF Works
    <3>3. Works(old, k) /\ old.pc = "fail" => k \in stranded'
      BY <1>1, <1>2 DEF Works, Flow!Call
    <3> QED
      BY <1>1, <1>2, <3>1, <3>2, <3>3 DEF WorksOn, Excused
  <2>5. PassesBy(h, row, k)
    <3>1. Past(row, k) => Past(old, k)
      BY <1>4 DEF Past
    <3> QED
      BY <3>1, <1>2 DEF PassesBy
  <2> QED
    BY <2>3, <2>4, <2>5 DEF GoesFairly
<1> QED
  BY <1>1, <1>2, <1>3, <1>4, <1>5, WorkflowGoes

\* A handler that works on the marker of k goes on within the notification.
LEMMA WorkflowNotifies ==
  ASSUME WorkflowTypes, WorkflowInv, NEW h \in Replayers, NEW k \in Flow!Kinds,
         NEW pc \in Places, Flow!Go(h, pc), Works(runners[h], k), pc \in WorkPlaces \ {"fail"},
         pc \in {"look", "check", "queue"} => k = "confirmed",
         flows' = flows, markers' = markers, order' = order, stranded' = stranded,
         clock' = clock, errors' = errors, late' = late,
         email' \in {"absent", "queued", "sent"}, notified' \in [Flow!Kinds -> Nat],
         \A l \in Flow!Kinds \ {k} : notified'[l] = notified[l] /\ Queued(l)' = Queued(l),
         Flow!Announced(k) => Flow!Announced(k)',
         email # "absent" => email' # "absent",
         pc = "complete" => Flow!Announced(k)',
         \/ /\ notified'[k] + Queued(k)' <= notified[k] + Queued(k)
            /\ pc # "complete" => Tells(runners[h], k)
         \/ /\ pc = "complete" /\ Tells(runners[h], k)
            /\ notified'[k] + Queued(k)' <= notified[k] + Queued(k) + 1
  PROVE  WorkflowTypes' /\ WorkflowInv'
<1>1. PICK old \in Runner : old = runners[h] /\ Course(old) /\ Active(old) /\ old.kind = k
  BY DEF WorkflowTypes, WorkflowInv, RowsInv, Works, Active
<1>2. PICK row \in Runner : /\ Moves(h, row) /\ Same(old, row) /\ row.pc = pc
                            /\ row.step = old.step /\ row.kind = k
  BY <1>1, GoesTo
<1>3. Course(row)
  <2>1. row.event \in Paid /\ row.step = "fulfill_order"
    BY <1>1, <1>2 DEF Course, Same, Busy, Active, Works
  <2> QED
    BY <2>1, <1>2 DEF Course, Busy, Works, WorkPlaces
<1>4. KeepsOn(old, row) /\ GoesOn(old, row) /\ CalmFlows /\ order' \in Flow!OrderDoc
  BY <1>1, <1>2, FlowsSame DEF KeepsOn, GoesOn, Busy, Active, Same, WorkflowTypes
<1>5. ASSUME NEW l \in Flow!Kinds
      PROVE  GoesFairly(h, row, l)
  <2>1. PICK s \in Nat, q \in Nat, r \in Nat, p \in Nat :
          s = notified[l] /\ q = Queued(l) /\ r = notified'[l] /\ p = Queued(l)'
    BY DEF WorkflowTypes, Queued
  <2>2. Works(row, l) <=> l = k
    BY <1>2 DEF Works, WorkPlaces
  <2>3. Works(old, l) <=> l = k
    BY <1>1 DEF Works
  <2>4. ~Past(row, l) \/ Past(old, l)
    BY <1>1, <1>2 DEF Past, WorkPlaces
  <2>5. CASE l = k
    <3>1. Tells(row, l) <=> pc # "complete"
      BY <2>5, <1>2 DEF Tells, WorkPlaces
    <3>2. row.pc = "complete" <=> pc = "complete"
      BY <1>2
    <3>3. TellsFairly(h, row, l)
      BY <2>1, <2>5, <3>1, <3>2, <1>1 DEF TellsFairly
    <3>4. WorksOn(h, row, l) /\ PassesBy(h, row, l)
      BY <2>2, <2>3, <2>4, <2>5, <1>1, <1>2 DEF WorksOn, PassesBy
    <3> QED
      BY <3>3, <3>4 DEF GoesFairly
  <2>6. CASE l # k
    <3>1. ~Tells(row, l) /\ row.kind # l
      BY <2>6, <1>2 DEF Tells
    <3>2. notified'[l] = s /\ r = s /\ p = q
      BY <2>1, <2>6
    <3>3. Flow!Announced(l) => Flow!Announced(l)'
      BY <2>1, <3>2 DEF Flow!Announced
    <3>4. TellsFairly(h, row, l)
      BY <2>1, <3>1, <3>2, <3>3 DEF TellsFairly
    <3>5. WorksOn(h, row, l) /\ PassesBy(h, row, l)
      BY <2>2, <2>3, <2>4, <2>6, <1>1 DEF WorksOn, PassesBy, Keeps
    <3> QED
      BY <3>4, <3>5 DEF GoesFairly
  <2> QED
    BY <2>5, <2>6
<1> QED
  BY <1>1, <1>2, <1>3, <1>4, <1>5, WorkflowGoes

\* The notifications of a marker: the e-mail is looked for, the hook called, the e-mail
\* looked for again, and queued.
LEMMA WorkflowTells ==
  ASSUME WorkflowTypes, WorkflowInv, NEW h \in Replayers, NEW k \in Flow!Kinds,
         \/ Flow!LookForEmail(h, k) \/ Flow!CheckEmail(h, k) \/ Flow!QueueEmail(h, k)
         \/ \E handled \in BOOLEAN : Flow!Emit(h, k, handled)
  PROVE  WorkflowTypes' /\ WorkflowInv'
<1>1. PICK old \in Runner : old = runners[h] /\ Course(old)
  BY DEF WorkflowTypes, WorkflowInv, RowsInv
<1>2. /\ email \in {"absent", "queued", "sent"} /\ notified \in [Flow!Kinds -> Nat]
      /\ {"hook", "check", "queue", "complete"} \subseteq Places
      /\ {"hook", "check", "queue", "complete"} \subseteq WorkPlaces \ {"fail"}
  BY DEF WorkflowTypes, Places, WorkPlaces
<1>3. \A l \in Flow!Kinds : notified[l] \in Nat /\ Queued(l) \in Nat
  BY <1>2 DEF Queued
<1>4. CASE Flow!LookForEmail(h, k)
  <2>1. /\ flows' = flows /\ markers' = markers /\ order' = order /\ email' = email /\ stranded' = stranded
        /\ notified' = notified /\ clock' = clock /\ errors' = errors /\ late' = late
    BY <1>4 DEF Flow!LookForEmail, Flow!documents, Flow!histories
  <2>2. old.pc = "look" /\ old.kind = k /\ Works(old, k) /\ Tells(old, k) /\ k = "confirmed"
    BY <1>1, <1>4 DEF Flow!LookForEmail, Flow!Call, Works, Tells, Course
  <2>3. PICK pc \in {"hook", "complete"} : Flow!Go(h, pc) /\ (pc = "complete" => email # "absent")
    BY <1>4 DEF Flow!LookForEmail
  <2>4. \A l \in Flow!Kinds : Queued(l)' = Queued(l) /\ Flow!Announced(l)' = Flow!Announced(l)
    BY <2>1 DEF Queued, Flow!Announced
  <2>5. pc = "complete" => Flow!Announced(k)'
    BY <2>1, <2>2, <2>3 DEF Flow!Announced
  <2>6. notified'[k] + Queued(k)' <= notified[k] + Queued(k)
    BY <2>1, <2>4, <1>3
  <2> QED
    BY <1>1, <1>2, <2>1, <2>2, <2>3, <2>4, <2>5, <2>6, WorkflowNotifies
<1>5. CASE Flow!CheckEmail(h, k)
  <2>1. /\ flows' = flows /\ markers' = markers /\ order' = order /\ email' = email /\ stranded' = stranded
        /\ notified' = notified /\ clock' = clock /\ errors' = errors /\ late' = late
    BY <1>5 DEF Flow!CheckEmail, Flow!documents, Flow!histories
  <2>2. old.pc = "check" /\ old.kind = k /\ Works(old, k) /\ Tells(old, k) /\ k = "confirmed"
    BY <1>1, <1>5 DEF Flow!CheckEmail, Flow!Call, Works, Tells, Course
  <2>3. PICK pc \in {"queue", "complete"} : Flow!Go(h, pc) /\ (pc = "complete" => email # "absent")
    BY <1>5 DEF Flow!CheckEmail
  <2>4. \A l \in Flow!Kinds : Queued(l)' = Queued(l) /\ Flow!Announced(l)' = Flow!Announced(l)
    BY <2>1 DEF Queued, Flow!Announced
  <2>5. pc = "complete" => Flow!Announced(k)'
    BY <2>1, <2>2, <2>3 DEF Flow!Announced
  <2>6. notified'[k] + Queued(k)' <= notified[k] + Queued(k)
    BY <2>1, <2>4, <1>3
  <2> QED
    BY <1>1, <1>2, <2>1, <2>2, <2>3, <2>4, <2>5, <2>6, WorkflowNotifies
<1>6. CASE Flow!QueueEmail(h, k)
  <2>1. /\ flows' = flows /\ markers' = markers /\ order' = order /\ email' = "queued" /\ stranded' = stranded
        /\ notified' = notified /\ clock' = clock /\ errors' = errors /\ late' = late
        /\ Flow!Go(h, "complete")
    BY <1>6 DEF Flow!QueueEmail, Flow!histories
  <2>2. old.pc = "queue" /\ old.kind = k /\ Works(old, k) /\ Tells(old, k) /\ k = "confirmed"
    BY <1>1, <1>6 DEF Flow!QueueEmail, Flow!Call, Works, Tells, Course
  <2>3. \A l \in Flow!Kinds \ {k} : Queued(l)' = Queued(l)
    BY <2>2 DEF Queued
  <2>4. Flow!Announced(k)'
    BY <2>1, <2>2 DEF Flow!Announced
  <2>5. notified'[k] + Queued(k)' <= notified[k] + Queued(k) + 1
    <3>1. Queued(k)' = 1
      BY <2>1, <2>2 DEF Queued
    <3> QED
      BY <3>1, <2>1, <1>3
  <2> QED
    BY <1>1, <1>2, <2>1, <2>2, <2>3, <2>4, <2>5, WorkflowNotifies
<1>7. CASE \E handled \in BOOLEAN : Flow!Emit(h, k, handled)
  <2>1. PICK handled \in BOOLEAN : Flow!Emit(h, k, handled)
    BY <1>7
  <2>2. /\ flows' = flows /\ markers' = markers /\ order' = order /\ email' = email /\ stranded' = stranded
        /\ clock' = clock /\ errors' = errors /\ late' = late
    BY <2>1 DEF Flow!Emit, Flow!documents
  <2>3. old.pc = "hook" /\ old.kind = k /\ Works(old, k) /\ Tells(old, k)
    BY <1>1, <2>1 DEF Flow!Emit, Flow!Call, Works, Tells
  <2>4. \A l \in Flow!Kinds : Queued(l)' = Queued(l)
    BY <2>2 DEF Queued
  <2>5. CASE k = "confirmed" /\ ~handled
    <3>1. Flow!Go(h, "check") /\ notified' = notified
      BY <2>1, <2>5 DEF Flow!Emit
    <3>2. Flow!Announced(k)' = Flow!Announced(k)
      BY <2>2, <3>1 DEF Flow!Announced
    <3>3. notified'[k] + Queued(k)' <= notified[k] + Queued(k)
      BY <3>1, <2>4, <1>3
    <3> QED
      BY <1>1, <1>2, <2>2, <2>3, <2>4, <2>5, <3>1, <3>2, <3>3, WorkflowNotifies
  <2>6. CASE ~(k = "confirmed" /\ ~handled)
    <3>1. Flow!Go(h, "complete") /\ notified' = [notified EXCEPT ![k] = @ + 1]
      BY <2>1, <2>6 DEF Flow!Emit
    <3>2. /\ notified' \in [Flow!Kinds -> Nat] /\ notified'[k] = notified[k] + 1
          /\ \A l \in Flow!Kinds \ {k} : notified'[l] = notified[l]
      BY <3>1, <1>2
    <3>3. Flow!Announced(k)'
      BY <3>2, <1>3 DEF Flow!Announced
    <3>4. notified'[k] + Queued(k)' <= notified[k] + Queued(k) + 1
      BY <3>2, <2>4, <1>3
    <3> QED
      BY <1>1, <1>2, <2>2, <2>3, <2>4, <3>1, <3>2, <3>3, <3>4, WorkflowNotifies
  <2> QED
    BY <2>5, <2>6
<1> QED
  BY <1>4, <1>5, <1>6, <1>7

\* Who calls for a marker that it lost leaves the step; its lease of the workflow is over,
\* or the marker's lease is not its own.
LEMMA WorkflowLoses ==
  ASSUME WorkflowTypes, WorkflowInv, NEW h \in Replayers, NEW k \in Flow!Kinds,
         Works(runners[h], k), ~Flow!HoldsMarker(h, k),
         runners' = [runners EXCEPT ![h].pc = "fail_step", ![h].lost = TRUE],
         flows' = flows, markers' = markers, order' = order, NothingTold,
         clock' = clock, errors' = errors, late' = late
  PROVE  WorkflowTypes' /\ WorkflowInv'
<1>1. PICK old \in Runner : old = runners[h] /\ Course(old) /\ Active(old) /\ old.kind = k
  BY DEF WorkflowTypes, WorkflowInv, RowsInv, Works, Active
<1>2. PICK pc \in Places : pc = "fail_step"
  BY DEF Places
<1>3. PICK l \in BOOLEAN : l = TRUE
  OBVIOUS
<1>4. PICK row \in Runner : /\ row = Losing(old, pc, l) /\ Same(old, row) /\ row.pc = pc
                            /\ row.step = old.step /\ row.kind = old.kind /\ row.failed = old.failed
  BY RunnerLoses
<1>5. Moves(h, row)
  BY <1>1, <1>2, <1>3, <1>4 DEF Moves, Losing
<1>6. Course(row) /\ KeepsOn(old, row) /\ GoesOn(old, row)
  BY <1>1, <1>2, <1>4 DEF Course, Busy, Works, Active, KeepsOn, GoesOn, Same
<1>7. CalmFlows /\ order' \in Flow!OrderDoc /\ email' \in {"absent", "queued", "sent"}
      /\ notified' \in [Flow!Kinds -> Nat]
  BY FlowsSame DEF WorkflowTypes, NothingTold
<1>8. ~(markers[k].status = "running" /\ markers[k].key = runners[h].at)
  <2>1. SUFFICES ASSUME markers[k].status = "running", markers[k].key = runners[h].at
                 PROVE  FALSE
    OBVIOUS
  <2>2. markers[k].ends = markers[k].key + Lease /\ markers[k].key \in Nat /\ Lease \in Nat \ {0}
    BY <2>1, LeaseIs DEF WorkflowTypes, MarkerDoc, FlowDoc
  <2>3. markers[k].ends > runners[h].at
    BY <2>1, <2>2
  <2> QED
    BY <2>1, <2>3 DEF Flow!HoldsMarker, Flow!workflowHasActiveLease
<1>9. ASSUME NEW j \in Flow!Kinds
      PROVE  GoesFairly(h, row, j)
  <2>1. Queued(j)' = Queued(j) /\ Flow!Announced(j)' = Flow!Announced(j)
    BY DEF NothingTold, Queued, Flow!Announced
  <2>2. PICK s \in Nat, q \in Nat : s = notified[j] /\ q = Queued(j)
    BY DEF WorkflowTypes, Queued
  <2>3. ~Works(row, j) /\ ~Tells(row, j) /\ row.pc # "complete" /\ (Works(old, j) => j = k)
    BY <1>1, <1>2, <1>4 DEF Works, Tells
  <2>4. Past(row, j) => Past(old, j)
    BY <1>1, <1>2, <1>4 DEF Past
  <2>5. TellsFairly(h, row, j)
    BY <2>1, <2>2, <2>3 DEF TellsFairly, NothingTold
  <2>6. WorksOn(h, row, j)
    BY <2>3, <1>1, <1>8 DEF WorksOn, Keeps
  <2>7. PassesBy(h, row, j)
    BY <2>4, <1>1 DEF PassesBy
  <2> QED
    BY <2>5, <2>6, <2>7 DEF GoesFairly
<1> QED
  BY <1>1, <1>4, <1>5, <1>6, <1>7, <1>9, WorkflowGoes

----------------------------------------------------------------------------
(* The workflows: a handler leases a marker, completes it or gives it back *)

\* What a handler does with another notification leaves the marker of k.
LEMMA GoesElsewhere ==
  ASSUME WorkflowTypes, NEW h \in Replayers, NEW row \in Runner, NEW k \in Flow!Kinds, NothingTold,
         ~Works(row, k), ~Works(runners[h], k), PassesBy(h, row, k)
  PROVE  GoesFairly(h, row, k)
<1>1. Queued(k)' = Queued(k) /\ Flow!Announced(k)' = Flow!Announced(k)
  BY DEF NothingTold, Queued, Flow!Announced
<1>2. PICK s \in Nat, q \in Nat : s = notified[k] /\ q = Queued(k)
  BY DEF WorkflowTypes, Queued
<1>3. ~Tells(row, k) /\ ~(row.pc = "complete" /\ row.kind = k)
  BY DEF Works, Tells
<1>4. TellsFairly(h, row, k)
  BY <1>1, <1>2, <1>3 DEF TellsFairly, NothingTold
<1>5. WorksOn(h, row, k)
  BY DEF WorksOn, Keeps
<1> QED
  BY <1>4, <1>5 DEF GoesFairly

\* The marker of k gets another document, and nothing else is written.
Marks(k, doc) ==
  /\ Flow!SetMarker(k, doc) /\ flows' = flows /\ order' = order /\ NothingTold
  /\ clock' = clock /\ errors' = errors /\ late' = late

\* It is all there is to show for that marker.
LEMMA WorkflowMarked ==
  ASSUME WorkflowTypes, WorkflowInv, NEW h \in Replayers, NEW row \in Runner, Moves(h, row), Course(row),
         KeepsOn(runners[h], row), GoesOn(runners[h], row),
         NEW k \in Flow!Kinds, NEW doc, Marks(k, doc), MarkerDoc(doc),
         \A l \in Flow!Kinds \ {k} : ~Works(row, l) /\ ~Works(runners[h], l) /\ PassesBy(h, row, l),
         KindInv(k)'
  PROVE  WorkflowTypes' /\ WorkflowInv'
<1>1. /\ DOMAIN markers' = Flow!Kinds /\ markers'[k] = doc
      /\ \A l \in Flow!Kinds \ {k} : markers'[l] = markers[l]
  BY DEF Marks, Flow!SetMarker, WorkflowTypes
<1>2. \A l \in Flow!Kinds : MarkerDoc(markers'[l])
  BY <1>1 DEF WorkflowTypes
<1>3. CalmFlows /\ clock' = clock /\ errors' = errors /\ late' = late /\ NothingTold
  BY FlowsSame DEF Marks
<1>4. WorkflowTypes'
  <2>1. /\ DOMAIN flows' = Paid /\ (\A e \in Paid : FlowDoc(flows'[e])) /\ order' \in Flow!OrderDoc
        /\ email' \in {"absent", "queued", "sent"} /\ notified' \in [Flow!Kinds -> Nat]
    BY <1>3 DEF CalmFlows, Marks, NothingTold, WorkflowTypes
  <2> QED
    BY <2>1, <1>1, <1>2, <1>3, TypesStay
<1>5. RowsInv' /\ LeaseInv'
  BY <1>3, RowsStay, LeaseRests DEF WorkflowInv
<1>6. ASSUME NEW l \in Flow!Kinds \ {k}
      PROVE  KindInv(l)'
  <2>1. GoesFairly(h, row, l)
    BY <1>3, GoesElsewhere
  <2>2. markers'[l] = markers[l] /\ KindInv(l) /\ RowsInv /\ LeaseInv
    BY <1>1 DEF WorkflowInv
  <2> QED
    BY <2>1, <2>2, <1>3, KindRests
<1> QED
  BY <1>4, <1>5, <1>6 DEF WorkflowInv

\* A handler that has done with a marker turns to the next one, or ends the step.
LEMMA TurnsAfter ==
  ASSUME WorkflowTypes, WorkflowInv, NEW h \in Replayers, NEW k \in Flow!Kinds, Flow!After(h, k),
         runners[h].kind = k, runners[h].pc \in {"acquire", "complete"}
  PROVE  \E row \in Runner :
           /\ Moves(h, row) /\ Course(row) /\ KeepsOn(runners[h], row) /\ GoesOn(runners[h], row)
           /\ Same(runners[h], row) /\ row.pc \in {"acquire", "end"} /\ row.kind = "download"
           /\ \A l \in Flow!Kinds : ~Works(row, l)
           /\ \A l \in Flow!Kinds \ {k} : ~Works(runners[h], l) /\ PassesBy(h, row, l)
<1>1. PICK old \in Runner : old = runners[h] /\ Course(old) /\ Active(old) /\ old.kind = k /\ old.event \in Paid
  BY DEF WorkflowTypes, WorkflowInv, RowsInv, Active, Course, Busy
<1>2. old.step = "fulfill_order"
  BY <1>1 DEF Course, Works
<1>3. PICK pc \in Places, d \in Flow!Kinds :
        pc = (IF k = "confirmed" THEN "acquire" ELSE "end") /\ d = "download"
  BY DEF Places, Flow!Kinds
<1>4. PICK row \in Runner : /\ row = Turned(old, pc, d) /\ Same(old, row) /\ row.pc = pc
                            /\ row.step = old.step /\ row.kind = d /\ row.failed = old.failed
  BY RunnerTurns
<1>5. Moves(h, row)
  BY <1>1, <1>3, <1>4 DEF Moves, Turned, Flow!After
<1>6. Course(row) /\ KeepsOn(old, row) /\ GoesOn(old, row)
  BY <1>1, <1>2, <1>3, <1>4 DEF Course, Busy, Works, Active, KeepsOn, GoesOn, Same, Flow!Steps
<1>7. \A l \in Flow!Kinds : ~Works(row, l)
  BY <1>3, <1>4 DEF Works
<1>8. ASSUME NEW l \in Flow!Kinds \ {k}
      PROVE  ~Works(old, l) /\ (Past(row, l) => Past(old, l))
  <2>1. ~Works(old, l)
    BY <1>1 DEF Works
  <2>2. l = "download" => k = "confirmed"
    BY DEF Flow!Kinds
  <2>3. l # "download" => k = "download"
    BY DEF Flow!Kinds
  <2>4. Past(row, l) => Past(old, l)
    BY <2>2, <2>3, <1>1, <1>3, <1>4 DEF Past
  <2> QED
    BY <2>1, <2>4
<1>9. \A l \in Flow!Kinds \ {k} : ~Works(runners[h], l) /\ PassesBy(h, row, l)
  BY <1>1, <1>8 DEF PassesBy
<1>10. row.pc \in {"acquire", "end"} /\ row.kind = "download"
  BY <1>3, <1>4
<1> QED
  BY <1>1, <1>4, <1>5, <1>6, <1>7, <1>9, <1>10

\* The holder of a marker completes it.
LEMMA WorkflowCompletes ==
  ASSUME WorkflowTypes, WorkflowInv, NEW h \in Replayers, NEW k \in Flow!Kinds, Flow!CompleteMarker(h, k)
  PROVE  WorkflowTypes' /\ WorkflowInv'
<1>1. Works(runners[h], k) /\ runners[h].pc = "complete" /\ runners[h].kind = k
  BY DEF Flow!CompleteMarker, Flow!Call, Works
<1>2. CASE ~Flow!HoldsMarker(h, k)
  <2>1. /\ runners' = [runners EXCEPT ![h].pc = "fail_step", ![h].lost = TRUE]
        /\ flows' = flows /\ markers' = markers /\ order' = order /\ NothingTold
        /\ clock' = clock /\ errors' = errors /\ late' = late
    BY <1>2 DEF Flow!CompleteMarker, NothingTold, Flow!histories
  <2> QED
    BY <1>1, <1>2, <2>1, WorkflowLoses
<1>3. CASE Flow!HoldsMarker(h, k)
  <2>1. Flow!After(h, k) /\ Marks(k, Flow!completeWorkflow(markers[k]))
    BY <1>3 DEF Flow!CompleteMarker, Marks, NothingTold, Flow!histories
  <2>2. PICK row \in Runner :
           /\ Moves(h, row) /\ Course(row) /\ KeepsOn(runners[h], row) /\ GoesOn(runners[h], row)
           /\ Same(runners[h], row) /\ row.pc \in {"acquire", "end"} /\ row.kind = "download"
           /\ \A l \in Flow!Kinds : ~Works(row, l)
           /\ \A l \in Flow!Kinds \ {k} : ~Works(runners[h], l) /\ PassesBy(h, row, l)
    BY <1>1, <2>1, TurnsAfter
  <2>3. Keeps(h, k)
    BY <1>1, <1>3 DEF Keeps, Flow!HoldsMarker, Flow!workflowHasActiveLease
  <2>4. PICK doc : doc = Flow!completeWorkflow(markers[k])
    OBVIOUS
  <2>5. FlowDoc(doc) /\ doc.status = "completed" /\ doc.tries = markers[k].tries
    BY <2>4, DocEnds DEF WorkflowTypes, MarkerDoc
  <2>6. MarkerDoc(doc) /\ Marks(k, doc)
    BY <2>1, <2>4, <2>5 DEF MarkerDoc
  <2>7. markers'[k] = doc
    BY <2>6 DEF Marks, Flow!SetMarker, WorkflowTypes
  <2>8. /\ flows' = flows /\ NothingTold /\ clock' = clock /\ errors' = errors /\ late' = late
        /\ CalmFlows
    BY <2>6, FlowsSame DEF Marks
  <2>9. runners'[h] = row /\ \A g \in Replayers \ {h} : runners'[g] = runners[g]
    BY <2>2, RunnerMoves
  <2>10. RowsInv /\ LeaseInv /\ KeeperInv(k) /\ PaidFor(k) /\ TellInv(k) /\ BehindInv(k) /\ OwedInv(k)
    BY DEF WorkflowInv, KindInv
  <2>11. KeeperInv(k)' /\ PaidFor(k)'
    BY <2>2, <2>3, <2>5, <2>7, <2>8, <2>10, MarkerEnds
  <2>12. TellInv(k)'
    <3>1. \A g \in Replayers : Tells(runners'[g], k) => Tells(runners[g], k)
      BY <2>2, <2>9 DEF Tells, Works
    <3>2. PICK s \in Nat, q \in Nat : s = notified[k] /\ q = Queued(k) /\ q = Queued(k)' /\ s = notified'[k]
      BY <2>8 DEF WorkflowTypes, Queued, NothingTold
    <3>3. notified'[k] \in Nat /\ notified'[k] + Queued(k)' <= notified[k] + Queued(k)
      BY <3>2
    <3> QED
      BY <3>1, <3>3, <2>5, <2>7, <2>10, TellsRest
  <2>13. BehindInv(k)'
    <3>1. Flow!Announced(k)' = Flow!Announced(k) /\ Flow!Announced(k)
      BY <1>1, <2>8, <2>10 DEF NothingTold, Flow!Announced, BehindInv
    <3>2. \A g \in Replayers : runners'[g].pc = "complete" /\ runners'[g].kind = k =>
            runners[g].pc = "complete" /\ runners[g].kind = k
      BY <2>2, <2>9
    <3> QED
      BY <3>1, <3>2, <2>5, <2>7, <2>8, <2>10, BehindStays
  <2>14. KindInv(k)'
    BY <2>5, <2>7, <2>11, <2>12, <2>13 DEF KindInv, OwedInv
  <2> QED
    BY <2>2, <2>6, <2>14, WorkflowMarked
<1> QED
  BY <1>2, <1>3

\* The holder of a marker gives it back.
LEMMA WorkflowGivesBack ==
  ASSUME WorkflowTypes, WorkflowInv, NEW h \in Replayers, NEW k \in Flow!Kinds, Flow!FailMarker(h, k)
  PROVE  WorkflowTypes' /\ WorkflowInv'
<1>1. Works(runners[h], k) /\ runners[h].pc = "fail" /\ runners[h].kind = k
  BY DEF Flow!FailMarker, Flow!Call, Works
<1>2. CASE ~Flow!HoldsMarker(h, k)
  <2>1. /\ runners' = [runners EXCEPT ![h].pc = "fail_step", ![h].lost = TRUE]
        /\ flows' = flows /\ markers' = markers /\ order' = order /\ NothingTold
        /\ clock' = clock /\ errors' = errors /\ late' = late
    BY <1>2 DEF Flow!FailMarker, NothingTold, Flow!histories
  <2> QED
    BY <1>1, <1>2, <2>1, WorkflowLoses
<1>3. CASE Flow!HoldsMarker(h, k)
  <2>1. Flow!Go(h, "fail_step") /\ Marks(k, Flow!failWorkflow(markers[k], runners[h].at))
    BY <1>3 DEF Flow!FailMarker, Marks, NothingTold, Flow!histories
  <2>2. PICK old \in Runner : old = runners[h] /\ Course(old) /\ Active(old) /\ old.kind = k /\ old.event \in Paid
    BY <1>1 DEF WorkflowTypes, WorkflowInv, RowsInv, Active, Course, Busy
  <2>3. PICK row \in Runner : /\ Moves(h, row) /\ Same(old, row) /\ row.pc = "fail_step"
                              /\ row.step = old.step /\ row.kind = old.kind
    <3>1. "fail_step" \in Places
      BY DEF Places
    <3> QED
      BY <2>1, <2>2, <3>1, GoesTo
  <2>4. Course(row) /\ KeepsOn(old, row) /\ GoesOn(old, row)
    BY <2>2, <2>3 DEF Course, Busy, Works, Active, KeepsOn, GoesOn, Same
  <2>5. \A l \in Flow!Kinds : ~Works(row, l) /\ (Past(row, l) => Past(old, l)) /\ (Works(old, l) => l = k)
    BY <2>2, <2>3 DEF Works, Past
  <2>6. ~Past(row, k)
    BY <2>2, <2>3 DEF Past, Flow!Kinds
  <2>7. Keeps(h, k)
    BY <1>1, <1>3 DEF Keeps, Flow!HoldsMarker, Flow!workflowHasActiveLease
  <2>8. PICK at \in Nat : at = runners[h].at
    BY <2>2 DEF Runner
  <2>9. PICK doc : doc = Flow!failWorkflow(markers[k], at)
    OBVIOUS
  <2>10. FlowDoc(doc) /\ doc.status = "failed" /\ doc.tries = markers[k].tries /\ doc.next = at
    BY <2>9, DocEnds DEF WorkflowTypes, MarkerDoc
  <2>11. MarkerDoc(doc) /\ Marks(k, doc)
    BY <2>1, <2>8, <2>9, <2>10 DEF MarkerDoc
  <2>12. markers'[k] = doc
    BY <2>11 DEF Marks, Flow!SetMarker, WorkflowTypes
  <2>13. /\ flows' = flows /\ NothingTold /\ clock' = clock /\ errors' = errors /\ late' = late
         /\ CalmFlows
    BY <2>11, FlowsSame DEF Marks
  <2>14. runners'[h] = row /\ \A g \in Replayers \ {h} : runners'[g] = runners[g]
    BY <2>3, RunnerMoves
  <2>15. RowsInv /\ LeaseInv /\ KeeperInv(k) /\ PaidFor(k) /\ TellInv(k) /\ BehindInv(k) /\ OwedInv(k)
    BY DEF WorkflowInv, KindInv
  <2>16. KeeperInv(k)' /\ PaidFor(k)'
    BY <1>1, <2>2, <2>3, <2>5, <2>7, <2>8, <2>10, <2>12, <2>13, <2>15, MarkerEnds
  <2>17. TellInv(k)'
    <3>1. \A g \in Replayers : Tells(runners'[g], k) => Tells(runners[g], k)
      BY <2>5, <2>14 DEF Tells, Works
    <3>2. PICK s \in Nat, q \in Nat : s = notified[k] /\ q = Queued(k) /\ q = Queued(k)' /\ s = notified'[k]
      BY <2>13 DEF WorkflowTypes, Queued, NothingTold
    <3>3. notified'[k] \in Nat /\ notified'[k] + Queued(k)' <= notified[k] + Queued(k)
      BY <3>2
    <3> QED
      BY <3>1, <3>3, <2>10, <2>12, <2>15, TellsRest
  <2>18. Flow!Announced(k)' = Flow!Announced(k)
    BY <2>13 DEF NothingTold, Flow!Announced
  <2>19. BehindInv(k)'
    <3>1. \A g \in Replayers : runners'[g].pc = "complete" /\ runners'[g].kind = k =>
            runners[g].pc = "complete" /\ runners[g].kind = k
      BY <2>3, <2>14
    <3> QED
      BY <3>1, <2>10, <2>12, <2>13, <2>15, <2>18, BehindStays
  <2>20. OwedInv(k)'
    <3>1. Excused(k) => Excused(k)'
      BY <2>10, <2>12, <2>13, <2>18 DEF Excused, NothingTold
    <3>2. \A g \in Replayers : Leads(g)' => Leads(g) /\ Same(runners[g], runners'[g])
      BY <2>2, <2>3, <2>4, <2>13, <2>15, LeaseRests
    <3>3. markers[k].status = "running" /\ markers'[k].status = "failed"
      BY <2>7, <2>10, <2>12 DEF Keeps
    <3> QED
      BY <3>1, <3>2, <3>3, <2>3, <2>6, <2>13, <2>15, OwedGiven
  <2>21. KindInv(k)'
    BY <2>16, <2>17, <2>19, <2>20 DEF KindInv
  <2>22. \A l \in Flow!Kinds \ {k} : ~Works(row, l) /\ ~Works(runners[h], l) /\ PassesBy(h, row, l)
    BY <2>2, <2>5 DEF PassesBy
  <2> QED
    BY <2>2, <2>3, <2>4, <2>11, <2>21, <2>22, WorkflowMarked
<1> QED
  BY <1>2, <1>3

\* A handler acquires a marker.
LEMMA WorkflowLeasesMarker ==
  ASSUME WorkflowTypes, WorkflowInv, NEW h \in Replayers, NEW k \in Flow!Kinds,
         runners[h].pc = "acquire", runners[h].kind = k, NEW made,
         made = Flow!createWorkflow(markers[k], runners[h].at),
         Flow!Leasable(made, runners[h].at, FALSE),
         Marks(k, Flow!tryLeaseWorkflow(made, runners[h].at)),
         Flow!Go(h, IF k = "confirmed" THEN "look" ELSE "hook")
  PROVE  WorkflowTypes' /\ WorkflowInv'
<1>1. PICK old \in Runner : old = runners[h] /\ Course(old) /\ Active(old) /\ old.kind = k /\ old.event \in Paid
  BY DEF WorkflowTypes, WorkflowInv, RowsInv, Active, Course, Busy
<1>2. PICK pc \in Places : pc = IF k = "confirmed" THEN "look" ELSE "hook"
  BY DEF Places
<1>3. PICK row \in Runner : /\ Moves(h, row) /\ Same(old, row) /\ row.pc = pc
                            /\ row.step = old.step /\ row.kind = old.kind
  BY <1>1, <1>2, GoesTo
<1>4. Course(row) /\ KeepsOn(old, row) /\ GoesOn(old, row) /\ Active(row)
  <2>1. old.step = "fulfill_order"
    BY <1>1 DEF Course
  <2> QED
    BY <2>1, <1>1, <1>2, <1>3 DEF Course, Busy, Works, Active, KeepsOn, GoesOn, Same
<1>5. /\ Works(row, k) /\ ~Past(row, k) /\ ~Works(old, k) /\ row.pc # "fail" /\ row.pc # "complete"
      /\ \A l \in Flow!Kinds \ {k} : ~Works(row, l) /\ ~Works(old, l) /\ (Past(row, l) => Past(old, l))
  BY <1>1, <1>2, <1>3 DEF Works, Past, Flow!Kinds
<1>6. PICK at \in Nat : at = runners[h].at /\ at = row.at /\ at = old.at
  BY <1>1, <1>3 DEF Runner, Same
<1>7. PICK old_doc : old_doc = markers[k] /\ MarkerDoc(old_doc) /\ FlowDoc(old_doc)
  BY DEF WorkflowTypes, MarkerDoc
<1>8. PICK doc : doc = Flow!tryLeaseWorkflow(made, at)
  OBVIOUS
<1>23. made = Flow!createWorkflow(old_doc, at)
  BY <1>6, <1>7
<1>9. /\ FlowDoc(made) /\ made.tries = old_doc.tries /\ made.ends = old_doc.ends
      /\ old_doc.status # "absent" => made = old_doc
      /\ FlowDoc(doc) /\ doc.status = "running" /\ doc.tries = old_doc.tries + 1
      /\ doc.key = at /\ doc.ends = at + Lease /\ doc.next = 0
  <2>1. CreatedAs(old_doc, at, made) /\ TakenUp(old_doc, at, doc)
    BY <1>7, <1>8, <1>23, DocLeased, Zenon
  <2> QED
    BY <2>1 DEF CreatedAs, TakenUp
<1>10. MarkerDoc(doc) /\ Marks(k, doc)
  BY <1>6, <1>8, <1>9 DEF MarkerDoc
<1>11. markers'[k] = doc
  BY <1>10 DEF Marks, Flow!SetMarker, WorkflowTypes
<1>12. /\ old_doc.ends <= at /\ old_doc.status # "completed"
       /\ old_doc.status = "failed" => old_doc.next <= at
  <2>1. made.status \notin {"absent", "completed"} /\ made.ends <= at /\ made.next <= at
    BY <1>6 DEF Flow!Leasable, Flow!workflowIsDueForLease
  <2> QED
    BY <2>1, <1>9
<1>13. /\ flows' = flows /\ NothingTold /\ clock' = clock /\ errors' = errors /\ late' = late
       /\ CalmFlows
  BY <1>10, FlowsSame DEF Marks
<1>14. runners'[h] = row /\ \A g \in Replayers \ {h} : runners'[g] = runners[g]
  BY <1>3, RunnerMoves
<1>15. RowsInv /\ LeaseInv /\ KeeperInv(k) /\ PaidFor(k) /\ TellInv(k) /\ BehindInv(k) /\ OwedInv(k)
  BY DEF WorkflowInv, KindInv
<1>16. KeeperInv(k)' /\ PaidFor(k)'
  <2>1. /\ Same(runners[h], row) /\ Busy(runners[h]) /\ ~Works(runners[h], k)
        /\ markers[k].status # "completed" /\ markers[k].ends <= row.at
        /\ markers[k].status = "failed" => markers[k].next <= row.at
        /\ markers'[k].status = "running" /\ markers'[k].key = row.at
        /\ markers'[k].tries = markers[k].tries + 1
    BY <1>1, <1>3, <1>5, <1>6, <1>7, <1>9, <1>11, <1>12 DEF Busy, Active
  <2> QED
    BY <2>1, <1>3, <1>5, <1>13, <1>15, MarkerLeased
<1>17. TellInv(k)'
  BY <1>7, <1>9, <1>11, <1>13, <1>14, <1>15, TellsLeased DEF NothingTold
<1>18. Flow!Announced(k)' = Flow!Announced(k)
  BY <1>13 DEF NothingTold, Flow!Announced
<1>19. BehindInv(k)'
  <2>1. \A g \in Replayers : runners'[g].pc = "complete" /\ runners'[g].kind = k =>
          runners[g].pc = "complete" /\ runners[g].kind = k
    BY <1>5, <1>14
  <2> QED
    BY <2>1, <1>9, <1>11, <1>13, <1>15, <1>18, BehindStays
<1>20. OwedInv(k)'
  <2>1. Excused(k) => Excused(k)'
    <3>1. PICK t \in Nat : t = markers[k].tries
      BY <1>7 DEF FlowDoc
    <3>2. MaxTries \in Nat /\ markers'[k].tries = t + 1
      BY <3>1, <1>7, <1>9, <1>11, LeaseIs
    <3> QED
      BY <3>1, <3>2, <1>13, <1>18 DEF Excused, NothingTold
  <2>2. \A g \in Replayers : Leads(g)' => Leads(g) /\ Same(runners[g], runners'[g])
    BY <1>1, <1>3, <1>4, <1>13, <1>15, LeaseRests
  <2>3. /\ Active(runners[h]) /\ Same(runners[h], row) /\ markers[k].status # "completed"
        /\ markers'[k].status = "running" /\ markers'[k].key = row.at /\ markers'[k].ends = row.at + Lease
    BY <1>1, <1>3, <1>6, <1>7, <1>9, <1>11, <1>12
  <2> QED
    BY <2>1, <2>2, <2>3, <1>3, <1>4, <1>5, <1>13, <1>15, OwedMarked
<1>21. KindInv(k)'
  BY <1>16, <1>17, <1>19, <1>20 DEF KindInv
<1>22. \A l \in Flow!Kinds \ {k} : ~Works(row, l) /\ ~Works(runners[h], l) /\ PassesBy(h, row, l)
  BY <1>1, <1>5 DEF PassesBy
<1> QED
  BY <1>1, <1>3, <1>4, <1>10, <1>21, <1>22, WorkflowMarked

\* A handler that cannot lease a marker passes it: another one has it, or nobody can.
LEMMA WorkflowPasses ==
  ASSUME WorkflowTypes, WorkflowInv, NEW h \in Replayers, NEW k \in Flow!Kinds,
         runners[h].pc = "acquire", runners[h].kind = k, NEW made,
         made = Flow!createWorkflow(markers[k], runners[h].at),
         ~Flow!Leasable(made, runners[h].at, FALSE),
         Marks(k, made), Flow!After(h, k)
  PROVE  WorkflowTypes' /\ WorkflowInv'
<1>1. PICK row \in Runner :
        /\ Moves(h, row) /\ Course(row) /\ KeepsOn(runners[h], row) /\ GoesOn(runners[h], row)
        /\ Same(runners[h], row) /\ row.pc \in {"acquire", "end"} /\ row.kind = "download"
        /\ \A l \in Flow!Kinds : ~Works(row, l)
        /\ \A l \in Flow!Kinds \ {k} : ~Works(runners[h], l) /\ PassesBy(h, row, l)
  BY TurnsAfter
<1>2. PICK at \in Nat : at = runners[h].at
  BY DEF WorkflowTypes, Runner
<1>3. PICK doc : doc = markers[k] /\ MarkerDoc(doc) /\ FlowDoc(doc)
  BY DEF WorkflowTypes, MarkerDoc
<1>10. made = Flow!createWorkflow(doc, at)
  BY <1>2, <1>3
<1>4. /\ FlowDoc(made) /\ made.tries = doc.tries /\ made.ends = doc.ends
      /\ doc.status # "absent" => made = doc
      /\ doc.status = "absent" => made.status = "queued" /\ made.next = at
  <2>1. CreatedAs(doc, at, made)
    BY <1>3, <1>10, DocLeased, Zenon
  <2> QED
    BY <2>1 DEF CreatedAs
<1>5. doc.status # "absent"
  <2>1. SUFFICES ASSUME doc.status = "absent"
                 PROVE  FALSE
    OBVIOUS
  <2>2. made.status = "queued" /\ made.next = at /\ made.tries = 0 /\ made.ends = 0 /\ MaxTries \in Nat \ {0}
    BY <2>1, <1>3, <1>4, LeaseIs DEF FlowDoc
  <2>3. made.tries < MaxTries /\ made.ends <= at /\ made.next <= at
    BY <2>2
  <2> QED
    BY <2>2, <2>3, <1>2 DEF Flow!Leasable, Flow!workflowIsDueForLease
<1>6. made = doc /\ markers'[k] = markers[k] /\ CalmFlows /\ NothingTold /\ clock' = clock
      /\ errors' = errors /\ late' = late
  BY <1>3, <1>4, <1>5, FlowsSame DEF Marks, Flow!SetMarker, WorkflowTypes
<1>7. PassesBy(h, row, k)
  <2>1. SUFFICES ASSUME Leads(h), ~Excused(k)', doc.status # "completed"
                 PROVE  doc.status = "running" /\ clock < doc.ends
    BY <1>3, <1>5 DEF PassesBy, Works
  <2>2. at = clock /\ doc.tries \in Nat /\ MaxTries \in Nat /\ ~(doc.tries >= MaxTries)
    BY <2>1, <1>2, <1>3, <1>6, LeaseIs DEF Leads, Excused, FlowDoc
  <2>3. doc.ends > at \/ doc.next > at \/ (doc.status = "running" /\ doc.ends = 0)
    <3>1. doc.ends \in Nat /\ (doc.next \in Nat)
      BY <1>3, <1>5, <2>1 DEF MarkerDoc, FlowDoc
    <3>2. doc.tries < MaxTries
      BY <2>2
    <3> QED
      BY <3>1, <3>2, <1>2, <1>5, <1>6, <2>1 DEF Flow!Leasable, Flow!workflowIsDueForLease, Flow!Never
  <2>4. CASE doc.status = "failed"
    <3>1. doc.next <= clock /\ doc.ends = 0 /\ doc.next \in Nat
      BY <2>4, <1>3 DEF WorkflowInv, KindInv, KeeperInv, Since, MarkerDoc, FlowDoc
    <3> QED
      BY <3>1, <2>2, <2>3, <2>4
  <2>5. CASE doc.status = "running"
    <3>1. doc.next = 0 /\ doc.ends = doc.key + Lease /\ doc.key \in Nat /\ Lease \in Nat \ {0}
      BY <2>5, <1>3, LeaseIs DEF MarkerDoc, FlowDoc
    <3>2. doc.ends > at
      BY <3>1, <2>3
    <3> QED
      BY <3>2, <2>2, <2>5, <3>1
  <2> QED
    BY <2>1, <2>4, <2>5, <1>3, <1>5 DEF MarkerDoc, FlowDoc
<1>8. GoesFairly(h, row, k)
  <2>1. ~Works(row, k) /\ ~Works(runners[h], k)
    BY <1>1 DEF Works
  <2> QED
    BY <2>1, <1>6, <1>7, GoesElsewhere
<1>9. KindInv(k)'
  BY <1>1, <1>6, <1>8, KindRests DEF WorkflowInv
<1> QED
  BY <1>1, <1>3, <1>6, <1>9, WorkflowMarked

\* A handler is about to tell of something.
LEMMA WorkflowAcquires ==
  ASSUME WorkflowTypes, WorkflowInv, NEW h \in Replayers, NEW k \in Flow!Kinds, Flow!AcquireMarker(h, k)
  PROVE  WorkflowTypes' /\ WorkflowInv'
<1>1. PICK made : made = Flow!createWorkflow(markers[k], runners[h].at)
  OBVIOUS
<1>2. runners[h].pc = "acquire" /\ runners[h].kind = k
  BY DEF Flow!AcquireMarker, Flow!Call
<1>3. CASE Flow!Leasable(made, runners[h].at, FALSE)
  <2>1. /\ Marks(k, Flow!tryLeaseWorkflow(made, runners[h].at))
        /\ Flow!Go(h, IF k = "confirmed" THEN "look" ELSE "hook")
    BY <1>1, <1>3 DEF Flow!AcquireMarker, Marks, NothingTold, Flow!histories
  <2> QED
    BY <1>1, <1>2, <1>3, <2>1, WorkflowLeasesMarker
<1>4. CASE ~Flow!Leasable(made, runners[h].at, FALSE)
  <2>1. Marks(k, made) /\ Flow!After(h, k)
    BY <1>1, <1>4 DEF Flow!AcquireMarker, Marks, NothingTold, Flow!histories
  <2> QED
    BY <1>1, <1>2, <1>4, <2>1, WorkflowPasses
<1> QED
  BY <1>3, <1>4

\* A handler gives the lease of its workflow back.
LEMMA WorkflowLets ==
  ASSUME WorkflowTypes, WorkflowInv, NEW h \in Replayers, NEW row \in Runner, Moves(h, row), Course(row),
         Leads(h), row.pc \in {"idle", "mark_failed"}, GoesOn(runners[h], row), runners[h].pc \notin WorkPlaces,
         row.kind = "download" => runners[h].kind = "download",
         NEW doc, FlowDoc(doc), Flow!SetFlow(h, doc), doc.status \in {"failed", "completed"},
         doc.status = "completed" => runners[h].kind = "download" /\ runners[h].pc = "finish",
         markers' = markers, order' = order, NothingTold,
         clock' = clock, errors' = errors, late' = late
  PROVE  WorkflowTypes' /\ WorkflowInv'
<1>1. runners[h].event \in Paid /\ Active(runners[h])
  BY DEF Leads, WorkflowInv, RowsInv, Active, Course, Busy
<1>2. Rewritten(h) /\ flows'[runners[h].event] = doc
  BY <1>1, FlowSet
<1>3. WorkflowTypes'
  <2>1. DOMAIN flows' = Paid /\ \A e \in Paid : FlowDoc(flows'[e])
    BY <1>2 DEF Rewritten, WorkflowTypes
  <2>2. /\ DOMAIN markers' = Flow!Kinds /\ \A k \in Flow!Kinds : MarkerDoc(markers'[k])
        /\ order' \in Flow!OrderDoc /\ email' \in {"absent", "queued", "sent"}
        /\ notified' \in [Flow!Kinds -> Nat]
    BY DEF WorkflowTypes, NothingTold
  <2> QED
    BY <2>1, <2>2, TypesStay
<1>4. RowsInv'
  BY RowsStay DEF WorkflowInv
<1>5. ~Active(row) /\ row.pc \notin WorkPlaces
  BY DEF Active, WorkPlaces
<1>6. LeaseInv' /\ \A g \in Replayers : Leads(g)' => /\ Leads(g) /\ runners[g].event # runners[h].event
                                                     /\ runners'[g] = runners[g]
  BY <1>2, <1>5, LeaseEnds DEF WorkflowInv
<1>7. runners'[h] = row /\ \A g \in Replayers \ {h} : runners'[g] = runners[g]
  BY RunnerMoves
<1>8. ASSUME NEW k \in Flow!Kinds
      PROVE  KindInv(k)'
  <2>1. KeeperInv(k) /\ PaidFor(k) /\ TellInv(k) /\ BehindInv(k) /\ OwedInv(k) /\ RowsInv
    BY DEF WorkflowInv, KindInv
  <2>2. ~Works(row, k) /\ ~Works(runners[h], k) /\ ~Keeps(h, k) /\ ~Tells(row, k)
    BY <1>5 DEF Works, Keeps, Tells, WorkPlaces
  <2>3. KeeperInv(k)' /\ PaidFor(k)'
    BY <2>1, <2>2, MarkerRests DEF GoesOn
  <2>4. notified'[k] \in Nat /\ notified'[k] + Queued(k)' <= notified[k] + Queued(k)
    BY DEF WorkflowTypes, NothingTold, Queued
  <2>5. TellInv(k)'
    <3>1. \A g \in Replayers : Tells(runners'[g], k) => Tells(runners[g], k)
      BY <1>7, <2>2
    <3> QED
      BY <3>1, <2>1, <2>4, TellsRest
  <2>6. (Flow!Announced(k)' <=> Flow!Announced(k)) /\ (Excused(k) => Excused(k)')
    BY DEF NothingTold, Flow!Announced, Excused
  <2>7. Past(row, k) => Past(runners[h], k)
    BY DEF Past
  <2>8. doc.status = "completed" => Past(runners[h], k)
    BY DEF Past
  <2>9. BehindInv(k)'
    <3>1. \A g \in Replayers : Past(runners'[g], k) => Past(runners[g], k)
      BY <1>7, <2>7
    <3>2. \A e \in Paid : flows'[e].status = "completed" =>
            flows[e].status = "completed" \/ markers'[k].status # "absent"
      BY <1>1, <1>2, <2>1, <2>8 DEF Rewritten, BehindInv
    <3>3. \A g \in Replayers : runners'[g].pc = "complete" /\ runners'[g].kind = k =>
            runners[g].pc = "complete" /\ runners[g].kind = k
      BY <1>7, <1>5 DEF WorkPlaces
    <3> QED
      BY <3>1, <3>2, <3>3, <2>1, <2>6, BehindStays
  <2>10. OwedInv(k)'
    BY <1>2, <1>6, <2>1, <2>2, <2>6, <2>8, OwedEnds
  <2> QED
    BY <2>3, <2>5, <2>9, <2>10 DEF KindInv
<1> QED
  BY <1>3, <1>4, <1>6, <1>8 DEF WorkflowInv

\* The rows that have given it back.
LEMMA IdlesOrMarks ==
  ASSUME WorkflowTypes, WorkflowInv, NEW h \in Replayers, Active(runners[h]),
         Flow!Return(h) \/ Flow!Go(h, "mark_failed")
  PROVE  \E row \in Runner :
           /\ Moves(h, row) /\ Course(row) /\ GoesOn(runners[h], row) /\ row.pc \in {"idle", "mark_failed"}
           /\ row.kind = "download" => runners[h].kind = "download"
<1>1. CASE Flow!Return(h)
  <2>1. PICK row \in Runner : /\ row = Flow!Idle /\ Course(row) /\ row.pc = "idle" /\ row.kind = "confirmed"
                              /\ Moves(h, row)
    BY <1>1, IdleIs DEF Flow!Return, Moves
  <2> QED
    BY <2>1 DEF GoesOn, Busy
<1>2. CASE Flow!Go(h, "mark_failed")
  <2>1. PICK pc \in Places : pc = "mark_failed"
    BY DEF Places
  <2>2. PICK row \in Runner : Moves(h, row) /\ Same(runners[h], row) /\ row.pc = pc /\ row.kind = runners[h].kind
    BY <1>2, <2>1, GoesTo
  <2>3. runners[h].event \in Paid /\ Busy(runners[h])
    BY DEF WorkflowInv, RowsInv, Active, Course, Busy
  <2>4. Course(row) /\ GoesOn(runners[h], row)
    BY <2>1, <2>2, <2>3 DEF Course, Busy, Works, GoesOn, Same
  <2> QED
    BY <2>1, <2>2, <2>4
<1> QED
  BY <1>1, <1>2

\* A workflow is completed or failed by who holds its lease; who lost it just ends.
LEMMA WorkflowStops ==
  ASSUME WorkflowTypes, WorkflowInv, NEW h \in Replayers,
         Flow!CompleteFlow(h) \/ Flow!FailStep(h) \/ Flow!FailFlow(h)
  PROVE  WorkflowTypes' /\ WorkflowInv'
<1>1. /\ markers' = markers /\ order' = order /\ NothingTold
      /\ clock' = clock /\ errors' = errors /\ late' = late
  BY DEF Flow!CompleteFlow, Flow!FailStep, Flow!FailFlow, Flow!histories, NothingTold
<1>2. runners[h].pc \in {"finish", "fail_step", "fail_flow"}
  BY DEF Flow!CompleteFlow, Flow!FailStep, Flow!FailFlow, Flow!At
<1>3. Active(runners[h]) /\ runners[h].pc \notin WorkPlaces /\ Course(runners[h]) /\ runners[h].event \in Paid
  BY <1>2 DEF Active, WorkPlaces, WorkflowInv, RowsInv, Course, Busy
<1>4. CASE ~Flow!HoldsFlow(h)
  <2>1. Flow!Return(h) /\ flows' = flows
    BY <1>4 DEF Flow!CompleteFlow, Flow!FailStep, Flow!FailFlow
  <2> QED
    BY <2>1, <1>1, <1>3, FlowsSame, WorkflowReturns
<1>5. CASE Flow!HoldsFlow(h)
  <2>1. Leads(h)
    BY <1>3, <1>5, FlowHolds DEF WorkflowInv
  <2>2. PICK flow : flow = Flow!Flow(h) /\ FlowDoc(flow)
    BY <1>3 DEF WorkflowTypes, Flow!Flow
  <2>3. \E doc : /\ Flow!SetFlow(h, doc) /\ FlowDoc(doc) /\ doc.status \in {"failed", "completed"}
                 /\ doc.status = "completed" => runners[h].kind = "download" /\ runners[h].pc = "finish"
    <3>1. CASE Flow!CompleteFlow(h)
      <4>1. Flow!SetFlow(h, Flow!completeWorkflow(flow)) /\ runners[h].pc = "finish"
        BY <3>1, <1>5, <2>2 DEF Flow!CompleteFlow, Flow!At
      <4>2. runners[h].kind = "download"
        BY <4>1, <1>3 DEF Course
      <4>3. FlowDoc(Flow!completeWorkflow(flow)) /\ Flow!completeWorkflow(flow).status = "completed"
        BY <2>2, DocEnds
      <4> QED
        BY <4>1, <4>2, <4>3
    <3>2. CASE Flow!FailStep(h)
      <4>1. PICK s, next : Flow!SetFlow(h, Flow!failWorkflowStep(flow, s, next))
        BY <3>2, <1>5, <2>2 DEF Flow!FailStep
      <4>2. FlowDoc(Flow!failWorkflowStep(flow, s, next)) /\ Flow!failWorkflowStep(flow, s, next).status = "failed"
        BY <2>2, DocEnds
      <4> QED
        BY <4>1, <4>2
    <3>3. CASE Flow!FailFlow(h)
      <4>1. PICK next : Flow!SetFlow(h, Flow!failWorkflow(flow, next))
        BY <3>3, <1>5, <2>2 DEF Flow!FailFlow
      <4>2. FlowDoc(Flow!failWorkflow(flow, next)) /\ Flow!failWorkflow(flow, next).status = "failed"
        BY <2>2, DocEnds
      <4> QED
        BY <4>1, <4>2
    <3> QED
      BY <3>1, <3>2, <3>3
  <2>4. Flow!Return(h) \/ Flow!Go(h, "mark_failed")
    BY <1>5 DEF Flow!CompleteFlow, Flow!FailStep, Flow!FailFlow
  <2>5. PICK row \in Runner :
          /\ Moves(h, row) /\ Course(row) /\ GoesOn(runners[h], row) /\ row.pc \in {"idle", "mark_failed"}
          /\ row.kind = "download" => runners[h].kind = "download"
    BY <2>4, <1>3, IdlesOrMarks
  <2> QED
    BY <1>1, <1>3, <2>1, <2>3, <2>5, WorkflowLets
<1> QED
  BY <1>4, <1>5

\* A handler leases the workflow of its event, or finds another one at work on it.
LEMMA WorkflowStarts ==
  ASSUME WorkflowTypes, WorkflowInv, NEW h \in Replayers, Flow!StartFlow(h)
  PROVE  WorkflowTypes' /\ WorkflowInv'
<1>1. /\ markers' = markers /\ order' = order /\ NothingTold
      /\ clock' = clock /\ errors' = errors /\ late' = late
  BY DEF Flow!StartFlow, Flow!histories, NothingTold
<1>2. PICK old \in Runner : /\ old = runners[h] /\ old.pc = "start" /\ Course(old) /\ old.event \in Paid
                            /\ old.kind = "confirmed" /\ Busy(old)
  <2>1. runners[h] \in Runner /\ runners[h].pc = "start" /\ Course(runners[h])
    BY DEF WorkflowTypes, WorkflowInv, RowsInv, Flow!StartFlow, Flow!At
  <2>2. runners[h].kind \in {"confirmed", "download"}
    BY <2>1 DEF Runner, Flow!Kinds
  <2> QED
    BY <2>1, <2>2 DEF Course, Busy
<1>3. PICK at \in Nat : at = runners[h].at /\ at = old.at
  BY <1>2 DEF Runner
<1>4. PICK flow : flow = Flow!Flow(h) /\ FlowDoc(flow) /\ flow = flows[runners[h].event]
  BY <1>2 DEF WorkflowTypes, Flow!Flow
<1>5. PICK made : made = Flow!createWorkflow(flow, at)
  OBVIOUS
<1>6. PICK doc : doc = Flow!tryLeaseWorkflow(made, at)
  OBVIOUS
<1>7. CreatedAs(flow, at, made) /\ TakenUp(flow, at, doc)
  BY <1>4, <1>5, <1>6, DocLeased, Zenon
<1>8. CASE Flow!Leasable(made, at, flow.status # "absent")
  <2>1. Flow!SetFlow(h, doc) /\ Flow!Go(h, "find")
    BY <1>3, <1>4, <1>5, <1>6, <1>8 DEF Flow!StartFlow
  <2>2. PICK pc \in Places : pc = "find"
    BY DEF Places
  <2>3. PICK row \in Runner : /\ Moves(h, row) /\ Same(old, row) /\ row.pc = pc
                              /\ row.step = old.step /\ row.kind = old.kind
    BY <2>1, <2>2, <1>2, GoesTo
  <2>4. /\ Course(row) /\ GoesOn(runners[h], row) /\ row.at = at /\ Active(row)
        /\ \A k \in Flow!Kinds : ~Works(row, k) /\ ~Works(old, k) /\ ~Past(row, k)
    BY <2>2, <2>3, <1>2, <1>3 DEF Course, Busy, Works, GoesOn, Same, Past, Active
  <2>5. Rewritten(h) /\ flows'[runners[h].event] = doc
    BY <2>1, <1>2, <1>7, FlowSet DEF TakenUp
  <2>6. flow.ends <= at
    BY <1>7, <1>8 DEF Flow!Leasable, Flow!workflowIsDueForLease, CreatedAs
  <2>7. WorkflowTypes'
    <3>1. DOMAIN flows' = Paid /\ \A e \in Paid : FlowDoc(flows'[e])
      BY <2>5, <1>7 DEF Rewritten, WorkflowTypes
    <3>2. /\ DOMAIN markers' = Flow!Kinds /\ \A k \in Flow!Kinds : MarkerDoc(markers'[k])
          /\ order' \in Flow!OrderDoc /\ email' \in {"absent", "queued", "sent"}
          /\ notified' \in [Flow!Kinds -> Nat]
      BY <1>1 DEF WorkflowTypes, NothingTold
    <3> QED
      BY <3>1, <3>2, <2>3, <1>1, TypesStay
  <2>8. RowsInv'
    BY <2>3, <2>4, <1>1, RowsStay DEF WorkflowInv
  <2>9. LeaseInv' /\ \A g \in Replayers \ {h} : Leads(g)' => Leads(g) /\ runners[g].event # row.event
    <3>1. /\ Busy(runners[h]) /\ Same(runners[h], row) /\ flows[runners[h].event].ends <= row.at
          /\ flows'[runners[h].event].status = "running" /\ flows'[runners[h].event].key = row.at
      BY <1>2, <1>4, <1>7, <2>3, <2>4, <2>5, <2>6 DEF TakenUp
    <3> QED
      BY <3>1, <2>3, <2>5, <1>1, LeaseTaken DEF WorkflowInv
  <2>10. runners'[h] = row /\ \A g \in Replayers \ {h} : runners'[g] = runners[g]
    BY <2>3, RunnerMoves
  <2>11. at <= clock
    <3>1. clock \in Nat /\ late \in Nat
      BY DEF WorkflowTypes
    <3>2. PICK j \in 0..late : Outlived(old, j)
      BY <1>2 DEF WorkflowInv, RowsInv
    <3>3. j \in Nat
      BY <3>1
    <3> QED
      BY <3>1, <3>2, <3>3, <1>3, OutlivedRows
  <2>12. ASSUME NEW k \in Flow!Kinds
         PROVE  KindInv(k)'
    <3>1. KeeperInv(k) /\ PaidFor(k) /\ TellInv(k) /\ BehindInv(k) /\ OwedInv(k) /\ RowsInv
      BY DEF WorkflowInv, KindInv
    <3>2. /\ ~Works(row, k) /\ ~Works(runners[h], k) /\ ~Keeps(h, k) /\ ~Tells(row, k) /\ ~Past(row, k)
          /\ row.pc # "complete"
      BY <1>2, <2>2, <2>3, <2>4 DEF Keeps, Tells
    <3>3. KeeperInv(k)' /\ PaidFor(k)'
      BY <3>1, <3>2, <2>3, <2>4, <1>1, MarkerRests DEF GoesOn
    <3>4. TellInv(k)'
      <4>1. notified'[k] \in Nat /\ notified'[k] + Queued(k)' <= notified[k] + Queued(k)
        BY <1>1 DEF WorkflowTypes, NothingTold, Queued
      <4>2. \A g \in Replayers : Tells(runners'[g], k) => Tells(runners[g], k)
        BY <2>10, <3>2
      <4> QED
        BY <4>1, <4>2, <3>1, <1>1, TellsRest
    <3>5. (Flow!Announced(k)' <=> Flow!Announced(k)) /\ (Excused(k) => Excused(k)')
      BY <1>1 DEF NothingTold, Flow!Announced, Excused
    <3>6. BehindInv(k)'
      <4>1. \A g \in Replayers : Past(runners'[g], k) => Past(runners[g], k)
        BY <2>10, <3>2
      <4>2. \A e \in Paid : flows'[e].status = "completed" => flows[e].status = "completed"
        BY <2>5, <1>7 DEF Rewritten, TakenUp
      <4>3. \A g \in Replayers : runners'[g].pc = "complete" /\ runners'[g].kind = k =>
              runners[g].pc = "complete" /\ runners[g].kind = k
        BY <2>10, <3>2
      <4> QED
        BY <4>1, <4>2, <4>3, <3>1, <3>5, <1>1, BehindStays
    <3>7. OwedInv(k)'
      <4>1. /\ row.event = runners[h].event /\ row.at \in Nat /\ row.at <= clock
            /\ flows[row.event].ends <= row.at /\ flows'[row.event].status = "running"
        BY <1>2, <1>4, <1>7, <2>3, <2>4, <2>5, <2>6, <2>11 DEF Same, TakenUp
      <4> QED
        BY <4>1, <3>1, <3>2, <3>5, <2>3, <2>5, <2>9, <1>1, OwedLeased
    <3> QED
      BY <3>3, <3>4, <3>6, <3>7 DEF KindInv
  <2> QED
    BY <2>7, <2>8, <2>9, <2>12 DEF WorkflowInv
<1>9. CASE ~Flow!Leasable(made, at, flow.status # "absent")
  <2>1. Flow!SetFlow(h, made) /\ Flow!Return(h)
    BY <1>3, <1>4, <1>5, <1>9 DEF Flow!StartFlow
  <2>2. flow.status # "absent"
    <3>1. SUFFICES ASSUME flow.status = "absent"
                   PROVE  FALSE
      OBVIOUS
    <3>2. made.status = "queued" /\ made.next = at /\ made.tries = 0 /\ made.ends = 0 /\ MaxTries \in Nat \ {0}
      BY <3>1, <1>4, <1>7, LeaseIs DEF FlowDoc, CreatedAs
    <3>3. made.tries < MaxTries /\ made.ends <= at /\ made.next <= at
      BY <3>2
    <3> QED
      BY <3>1, <3>2, <3>3, <1>9 DEF Flow!Leasable, Flow!workflowIsDueForLease
  <2>3. SameLease(Flow!Flow(h), made) /\ FlowDoc(made)
    BY <2>2, <1>4, <1>7 DEF CreatedAs, SameLease
  <2>4. CalmFlows
    BY <2>1, <2>3, <1>2, FlowSet
  <2>5. runners[h].pc \notin WorkPlaces
    BY <1>2 DEF WorkPlaces
  <2> QED
    BY <2>1, <2>4, <2>5, <1>1, WorkflowReturns
<1> QED
  BY <1>8, <1>9

\* The queue sends the confirmation.
LEMMA WorkflowSends ==
  ASSUME WorkflowTypes, WorkflowInv, Flow!SendConfirmation
  PROVE  WorkflowTypes' /\ WorkflowInv'
<1>1. /\ email = "queued" /\ email' = "sent" /\ notified' = [notified EXCEPT !["confirmed"] = @ + 1]
      /\ runners' = runners /\ flows' = flows /\ markers' = markers /\ order' = order
      /\ clock' = clock /\ errors' = errors /\ late' = late /\ stranded' = stranded
  BY DEF Flow!SendConfirmation
<1>2. "confirmed" \in Flow!Kinds /\ notified' \in [Flow!Kinds -> Nat]
  BY <1>1 DEF WorkflowTypes, Flow!Kinds
<1>3. WorkflowTypes'
  BY <1>1, <1>2 DEF WorkflowTypes
<1>4. RowsInv' /\ LeaseInv'
  BY <1>1 DEF WorkflowInv, RowsInv, LeaseInv, Leads, Outlived
<1>5. ASSUME NEW k \in Flow!Kinds
      PROVE  KindInv(k)'
  <2>1. KeeperInv(k) /\ PaidFor(k) /\ TellInv(k) /\ BehindInv(k) /\ OwedInv(k)
    BY DEF WorkflowInv, KindInv
  <2>2. KeeperInv(k)' /\ PaidFor(k)'
    BY <1>1, <2>1 DEF KeeperInv, PaidFor, Since, Keeps, Outlived
  <2>3. notified'[k] \in Nat /\ notified'[k] + Queued(k)' <= notified[k] + Queued(k)
    <3>1. PICK n \in Nat : n = notified[k]
      BY DEF WorkflowTypes
    <3>2. CASE k = "confirmed"
      BY <3>1, <3>2, <1>1 DEF WorkflowTypes, Queued
    <3>3. CASE k # "confirmed"
      BY <3>1, <3>3, <1>1 DEF WorkflowTypes, Queued
    <3> QED
      BY <3>2, <3>3
  <2>4. TellInv(k)'
    BY <2>1, <2>3, <1>1, TellsRest
  <2>5. Flow!Announced(k) => Flow!Announced(k)'
    <3>1. notified[k] \in Nat /\ (notified[k] > 0 => notified'[k] > 0)
      BY <1>1 DEF WorkflowTypes
    <3> QED
      BY <3>1, <1>1 DEF Flow!Announced
  <2>6. BehindInv(k)'
    BY <2>1, <2>5, <1>1, BehindStays
  <2>7. OwedInv(k)'
    <3>1. Excused(k) => Excused(k)'
      BY <2>5, <1>1 DEF Excused
    <3>2. clock \in Nat /\ clock' \in Nat /\ clock' >= clock /\ markers[k].ends \in Nat
      BY <1>1 DEF WorkflowTypes, MarkerDoc, FlowDoc
    <3>3. \A g \in Replayers : Leads(g)' => Leads(g)
      BY <1>1 DEF Leads
    <3> QED
      BY <3>1, <3>2, <3>3, <2>1, <1>1, OwedStays
  <2> QED
    BY <2>2, <2>4, <2>6, <2>7 DEF KindInv
<1> QED
  BY <1>3, <1>4, <1>5 DEF WorkflowInv

\* Time passes: a little while nobody is at work, or past a lease.
LEMMA WorkflowTicks ==
  ASSUME WorkflowTypes, WorkflowInv, Flow!ClockTicks
  PROVE  WorkflowTypes' /\ WorkflowInv'
<1>1. /\ runners' = runners /\ flows' = flows /\ markers' = markers /\ order' = order /\ email' = email
      /\ notified' = notified /\ errors' = errors /\ stranded' = stranded
  BY DEF Flow!ClockTicks, Flow!documents
<1>2. \/ clock' = clock + 1 /\ late' = late /\ \A h \in Replayers : ~Busy(runners[h])
      \/ clock' = clock + Lease /\ late' = late + 1
  BY IdleIs DEF Flow!ClockTicks, Flow!AtRest, Busy
<1>3. clock \in Nat \ {0} /\ clock' \in Nat \ {0} /\ late' \in Nat /\ clock' >= clock
  BY <1>2, LeaseIs DEF WorkflowTypes
<1>4. WorkflowTypes'
  BY <1>1, <1>3 DEF WorkflowTypes
<1>5. RowsInv' /\ LeaseInv' /\ \A h \in Replayers : ~Leads(h)'
  BY <1>1, <1>2, RowsTick DEF WorkflowInv
<1>6. ASSUME NEW k \in Flow!Kinds
      PROVE  KindInv(k)'
  <2>1. KeeperInv(k) /\ PaidFor(k) /\ TellInv(k) /\ BehindInv(k) /\ OwedInv(k) /\ RowsInv
    BY DEF WorkflowInv, KindInv
  <2>2. KeeperInv(k)' /\ PaidFor(k)'
    BY <2>1, <1>1, <1>2, MarkerTicks
  <2>3. notified'[k] \in Nat /\ notified'[k] + Queued(k)' <= notified[k] + Queued(k)
    BY <1>1 DEF WorkflowTypes, Queued
  <2>4. TellInv(k)'
    BY <2>1, <2>3, <1>1, TellsRest
  <2>5. (Flow!Announced(k)' <=> Flow!Announced(k)) /\ (Excused(k) => Excused(k)')
    BY <1>1 DEF Flow!Announced, Excused
  <2>6. BehindInv(k)'
    BY <2>1, <2>5, <1>1, BehindStays
  <2>7. OwedInv(k)'
    <3>1. markers[k].ends \in Nat
      BY DEF WorkflowTypes, MarkerDoc, FlowDoc
    <3> QED
      BY <3>1, <2>1, <2>5, <1>1, <1>3, <1>5, OwedStays
  <2> QED
    BY <2>2, <2>4, <2>6, <2>7 DEF KindInv
<1> QED
  BY <1>4, <1>5, <1>6 DEF WorkflowInv

\* At first there is no order, no lease and nobody to tell.
LEMMA WorkflowInitHolds ==
  ASSUME Flow!WorkflowInit
  PROVE  WorkflowTypes /\ WorkflowInv
<1>1. /\ flows = [e \in Paid |-> Flow!AbsentFlow] /\ markers = [k \in Flow!Kinds |-> Flow!Absent]
      /\ order = Flow!NoOrder /\ email = "absent" /\ runners = [h \in Replayers |-> Flow!Idle]
      /\ clock = 1 /\ errors = 0 /\ late = 0 /\ notified = [k \in Flow!Kinds |-> 0]
  BY DEF Flow!WorkflowInit
<1>2. FlowDoc(Flow!AbsentFlow) /\ Flow!AbsentFlow.status = "absent"
  BY DEF Flow!AbsentFlow, Flow!Absent, Flow!Never, FlowDoc, Fields
<1>3. MarkerDoc(Flow!Absent) /\ Flow!Absent.status = "absent" /\ Flow!Absent.tries = 0
  BY DEF Flow!AbsentFlow, Flow!Absent, Flow!Never, MarkerDoc, FlowDoc, Fields
<1>4. WorkflowTypes
  <2>1. Flow!NoOrder \in Flow!OrderDoc
    BY DEF Flow!NoOrder, Flow!OrderDoc
  <2> QED
    BY <2>1, <1>1, <1>2, <1>3, IdleIs DEF WorkflowTypes
<1>5. \A h \in Replayers : /\ runners[h] = Flow!Idle /\ Course(runners[h]) /\ ~Busy(runners[h])
                           /\ ~Active(runners[h]) /\ ~Leads(h) /\ runners[h].pc = "idle"
                           /\ runners[h].kind = "confirmed"
  BY <1>1, IdleIs DEF Busy, Active, Leads
<1>6. RowsInv /\ LeaseInv
  BY <1>5 DEF RowsInv, LeaseInv
<1>7. ASSUME NEW k \in Flow!Kinds
      PROVE  KindInv(k)
  <2>1. markers[k].status = "absent" /\ markers[k].tries = 0 /\ notified[k] = 0
    BY <1>1, <1>3
  <2>2. \A h \in Replayers : ~Works(runners[h], k) /\ ~Tells(runners[h], k) /\ ~Past(runners[h], k) /\ ~Keeps(h, k)
    BY <1>5 DEF Works, Tells, Past, Keeps
  <2>3. KeeperInv(k)
    BY <2>1, <2>2 DEF KeeperInv
  <2>4. PaidFor(k)
    BY <2>1, <2>2, <1>1 DEF PaidFor
  <2>5. TellInv(k)
    <3>1. Tellers(k) = {}
      BY <2>2 DEF Tellers
    <3>2. IsFiniteSet({}) /\ Cardinality({}) = 0
      BY FS_EmptySet
    <3>3. Queued(k) = 0
      BY <1>1 DEF Queued
    <3> QED
      BY <3>1, <3>2, <3>3, <2>1 DEF TellInv
  <2>6. BehindInv(k)
    BY <2>1, <2>2, <1>1, <1>2, <1>5 DEF BehindInv
  <2>7. OwedInv(k)
    BY <2>1 DEF OwedInv
  <2> QED
    BY <2>3, <2>4, <2>5, <2>6, <2>7 DEF KindInv
<1> QED
  BY <1>4, <1>6, <1>7 DEF WorkflowInv

\* A step of the services preserves the workflows' inductive invariant.
LEMMA WorkflowStep ==
  ASSUME WorkflowTypes, WorkflowInv, WorkflowSteps \/ UNCHANGED flowVars
  PROVE  WorkflowTypes' /\ WorkflowInv'
<1>1. ASSUME NEW h \in Replayers, WorkflowRuns(h)
      PROVE  WorkflowTypes' /\ WorkflowInv'
  BY <1>1, WorkflowStarts, WorkflowFinds, WorkflowBeginsStep, WorkflowEndsStep, WorkflowEndsLast,
     WorkflowPersists, WorkflowFulfils, WorkflowMarks, WorkflowStops, WorkflowThrows, WorkflowDies
     DEF WorkflowRuns
<1>2. ASSUME NEW h \in Replayers, NEW k \in Flow!Kinds, WorkflowCalls(h, k)
      PROVE  WorkflowTypes' /\ WorkflowInv'
  BY <1>2, WorkflowAcquires, WorkflowTells, WorkflowCompletes, WorkflowGivesBack DEF WorkflowCalls
<1>3. CASE UNCHANGED flowVars
  <2>1. /\ flows' = flows /\ markers' = markers /\ order' = order /\ email' = email /\ runners' = runners
        /\ clock' = clock /\ errors' = errors /\ late' = late /\ notified' = notified /\ stranded' = stranded
    BY <1>3 DEF flowVars
  <2>2. WorkflowTypes'
    BY <2>1 DEF WorkflowTypes
  <2>3. RowsInv' /\ LeaseInv'
    BY <2>1 DEF WorkflowInv, RowsInv, LeaseInv, Leads, Outlived
  <2>4. ASSUME NEW k \in Flow!Kinds
        PROVE  KindInv(k)'
    BY <2>1, <2>4 DEF WorkflowInv, KindInv, KeeperInv, PaidFor, TellInv, BehindInv, OwedInv, Owes, Since,
                      Keeps, Outlived, Tellers, Queued, Leads, Flow!Announced
  <2> QED
    BY <2>2, <2>3, <2>4 DEF WorkflowInv
<1> QED
  BY <1>1, <1>2, <1>3, WorkflowBegins, WorkflowSends, WorkflowTicks DEF WorkflowSteps

\* However deliveries and replays of a payment's events interleave, handlers die, outlive
\* their leases and throw: a customer is told of an order at most once more than something
\* went wrong, and when a workflow completed and none is open, everything was told that
\* did not use up its attempts and whose marker could be given back
\* (queueOrderConfirmationEmail, emitFulfillmentNotificationOnce).
THEOREM CustomerIsToldOfIt == ServicesSpec => []CustomerIsTold
<1> DEFINE Working == InWorkflow => WorkflowTypes /\ WorkflowInv
<1>1. ServicesInit => Working
  BY WorkflowInitHolds DEF ServicesInit, InWorkflow
<1>2. ASSUME Working, [ServicesNext]_servicesVars
      PROVE  Working'
  <2> SUFFICES ASSUME InWorkflow'
               PROVE  (WorkflowTypes /\ WorkflowInv)'
    OBVIOUS
  <2>1. InWorkflow
    BY <1>2, ServiceStays DEF InWorkflow
  <2> QED
    BY <2>1, <1>2, WorkflowAlone, WorkflowStep
<1>3. ASSUME Working
      PROVE  CustomerIsTold
  <2> SUFFICES ASSUME InWorkflow
               PROVE  Flow!ToldOnce /\ Flow!CompletedIsTold
    BY DEF CustomerIsTold, Flow!CustomerIsTold
  <2>1. WorkflowTypes /\ WorkflowInv
    BY <1>3
  <2>2. ASSUME NEW k \in Flow!Kinds
        PROVE  notified[k] <= 1 + errors + late
    <3>1. PICK n \in Nat, t \in Nat : n = notified[k] /\ t = markers[k].tries
      BY <2>1 DEF WorkflowTypes, MarkerDoc, FlowDoc
    <3>2. IsFiniteSet(Tellers(k)) /\ n + Cardinality(Tellers(k)) + Queued(k) <= t /\ t <= 1 + errors + late
      BY <2>1, <3>1 DEF WorkflowInv, KindInv, TellInv, PaidFor
    <3>3. PICK m \in Nat, q \in Nat : m = Cardinality(Tellers(k)) /\ q = Queued(k)
      BY <3>2, FS_CardinalityType DEF Queued
    <3>4. errors \in Nat /\ late \in Nat
      BY <2>1 DEF WorkflowTypes
    <3> QED
      BY <3>1, <3>2, <3>3, <3>4
  <2>3. ASSUME Flow!AtRest, NEW e \in Paid, flows[e].status = "completed",
               \A d \in Paid : flows[d].status \in {"absent", "completed"}, NEW k \in Flow!Kinds
        PROVE  Flow!Announced(k) \/ markers[k].tries >= MaxTries \/ k \in stranded
    <3>1. BehindInv(k) /\ OwedInv(k)
      BY <2>1 DEF WorkflowInv, KindInv
    <3>2. markers[k].status # "absent" /\ (markers[k].status = "completed" => Flow!Announced(k))
      BY <3>1, <2>3 DEF BehindInv
    <3>3. ~\E d \in Paid : Owes(d, k)
      BY <2>3 DEF Owes
    <3> QED
      BY <3>1, <3>2, <3>3 DEF OwedInv
  <2> QED
    BY <2>2, <2>3 DEF Flow!ToldOnce, Flow!CompletedIsTold
<1> QED
  BY <1>1, <1>2, <1>3, PTL DEF ServicesSpec, servicesVars

=============================================================================

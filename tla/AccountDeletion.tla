--------------------------- MODULE AccountDeletion ---------------------------
(***************************************************************************)
(* Account deletion: the customer's request, and the maintenance runs that *)
(* erase what is stored about the customer in eight recorded steps, while  *)
(* other handlers write such data from what they read before.              *)
(*                                                                         *)
(* All requests are of one customer.  What a step erases is one kind of    *)
(* data, which is there or not: a sweep lists documents and then puts or   *)
(* deletes each, and a writer that meets it ends like one that comes after *)
(* the sweep.                                                              *)
(***************************************************************************)
EXTENDS Integers, FiniteSets, Sequences

CONSTANTS
  Requests,      \* numbers of the requests, in the order of their making
  Jobs,          \* maintenance runs that may be at work at one time
  Writers,       \* handlers that may write the customer's data at one time
  Written,       \* bound: the kinds of data they write
  MaxWrites,     \* bound: how often they do
  MaxPurchases,  \* bound: subscriptions and checkouts that begin
  MaxFailures    \* bound: runs that die, calls that throw

\* The order in which processQueuedAccountDeleteRequests runs the steps.
StepOrder == <<"tokens", "reservations", "emails", "exports", "orders", "entitlements",
               "licenses", "customer">>

Kinds == {StepOrder[n] : n \in 1..Len(StepOrder)}

DeletionAssumption ==
  /\ Requests \subseteq Nat \ {0} /\ IsFiniteSet(Requests)
  /\ {MaxWrites, MaxPurchases, MaxFailures} \subseteq Nat
  /\ Written \subseteq Kinds

VARIABLES
  requests,   \* Requests -> the document: its status and the recorded steps
  left,       \* Kinds -> whether such data of the customer is stored
  jobs,       \* Jobs -> what a maintenance run remembers
  writers,    \* Writers -> what another handler is about to write
  active,     \* whether a subscription is active or a checkout pending
  purchases,  \* history: how many subscriptions and checkouts began
  writes,     \* history: how many writes began
  failures,   \* history: how many failures there were
  erased,     \* history: the kinds a step erased
  carried,    \* history: the kinds put by a handler that did not read them after the deletion ended
  overlapped  \* history: whether two runs were at work at one time

deletionVars == <<requests, left, jobs, writers, active, purchases, writes, failures, erased,
                  carried, overlapped>>

world == <<active, purchases>>
history == <<erased, carried, overlapped>>

Absent == [status |-> "none", recorded |-> {}]

Resting == [at |-> "rest", todo |-> {}, copies |-> [q \in Requests |-> {}], applied |-> FALSE]

NoWrite == [kind |-> "none", carries |-> FALSE]

DeletionInit ==
  /\ requests = [q \in Requests |-> Absent]
  /\ left = [k \in Kinds |-> TRUE]
  /\ jobs = [j \in Jobs |-> Resting]
  /\ writers = [w \in Writers |-> NoWrite]
  /\ active = FALSE
  /\ purchases = 0 /\ writes = 0 /\ failures = 0
  /\ erased = {} /\ carried = {} /\ overlapped = FALSE

----------------------------------------------------------------------------
(* The customer *)

\* resolveAccountIdentity finds no anonymized customer.
Known == left["customer"]

\* requestAccountDelete: accountDeleteBlocked, and then the put of the request.
AskDeletion(q) ==
  /\ requests[q].status = "none" /\ Known /\ ~active
  /\ \A p \in Requests : p < q => requests[p].status # "none"
  /\ requests' = [requests EXCEPT ![q].status = "asked"]
  /\ UNCHANGED <<left, jobs, writers, world, writes, failures, history>>

PutRequest(q) ==
  /\ requests[q].status = "asked"
  /\ requests' = [requests EXCEPT ![q].status = "queued"]
  /\ UNCHANGED <<left, jobs, writers, world, writes, failures, history>>

\* The customer's subscriptions and checkouts; none begins for an anonymized customer.
BeginPurchase ==
  /\ Known /\ ~active /\ purchases < MaxPurchases
  /\ active' = TRUE /\ purchases' = purchases + 1
  /\ UNCHANGED <<requests, left, jobs, writers, writes, failures, history>>

EndPurchase ==
  /\ active /\ active' = FALSE
  /\ UNCHANGED <<requests, left, jobs, writers, purchases, writes, failures, history>>

----------------------------------------------------------------------------
(* A maintenance run *)

Queued == {q \in Requests : requests[q].status = "queued"}

Current(j) == CHOOSE q \in jobs[j].todo : \A p \in jobs[j].todo : q <= p

\* runStep skips what is recorded in the copy of the request.
NextStep(done) ==
  LET n == CHOOSE n \in 1..Len(StepOrder) :
             /\ StepOrder[n] \notin done
             /\ \A m \in 1..(n - 1) : StepOrder[m] \in done
  IN  StepOrder[n]

Step(j) == NextStep(jobs[j].copies[Current(j)])

\* The copies of the requests are the ones of the listing.
BeginMaintenance(j) ==
  /\ jobs[j] = Resting /\ Queued # {}
  /\ jobs' = [jobs EXCEPT ![j] =
                [at |-> "check", todo |-> Queued, applied |-> FALSE,
                 copies |-> [q \in Requests |-> IF q \in Queued THEN requests[q].recorded ELSE {}]]]
  /\ overlapped' = (overlapped \/ \E i \in Jobs : jobs[i] # Resting)
  /\ UNCHANGED <<requests, left, writers, world, writes, failures, erased, carried>>

Goto(j, at) == jobs' = [jobs EXCEPT ![j].at = at]

NextRequest(j) ==
  LET q == Current(j)
      others == jobs[j].todo \ {q}
      next == [jobs[j] EXCEPT !.at = "check", !.todo = others, !.applied = FALSE, !.copies[q] = {}]
  IN  jobs' = [jobs EXCEPT ![j] = IF others = {} THEN Resting ELSE next]

\* What is next for a copy with these recorded steps.
Ahead(done) == IF done = Kinds THEN "complete" ELSE "run"

\* assertAccountDeleteMaintenanceAllowed, once for each request.
CheckAllowed(j) ==
  /\ jobs[j].at = "check"
  /\ Goto(j, IF active THEN "error" ELSE Ahead(jobs[j].copies[Current(j)]))
  /\ UNCHANGED <<requests, left, writers, world, writes, failures, history>>

RunStep(j) ==
  /\ jobs[j].at = "run"
  /\ left' = [left EXCEPT ![Step(j)] = FALSE]
  /\ erased' = erased \cup {Step(j)}
  /\ jobs' = [jobs EXCEPT ![j].at = "record", ![j].applied = TRUE]
  /\ UNCHANGED <<requests, writers, world, writes, failures, carried, overlapped>>

\* Seeded fault: the recorded step takes the place of the ones before.
RecordUnmerged(j) ==
  LET q == Current(j)
      done == {Step(j)}
  IN  /\ jobs[j].at = "record"
      /\ IF requests[q].status = "queued"
         THEN /\ requests' = [requests EXCEPT ![q].recorded = done]
              /\ jobs' = [jobs EXCEPT ![j].at = Ahead(done), ![j].copies[q] = done]
         ELSE UNCHANGED requests /\ Goto(j, "error")
      /\ UNCHANGED <<left, writers, world, writes, failures, history>>

\* recordAccountDeleteMaintenanceStep; the copy becomes the updated document.
RecordStep(j) ==
  LET q == Current(j)
      done == requests[q].recorded \cup {Step(j)}
  IN  /\ jobs[j].at = "record"
      /\ IF requests[q].status = "queued"
         THEN /\ requests' = [requests EXCEPT ![q].recorded = done]
              /\ jobs' = [jobs EXCEPT ![j].at = Ahead(done), ![j].copies[q] = done]
         ELSE UNCHANGED requests /\ Goto(j, "error")
      /\ UNCHANGED <<left, writers, world, writes, failures, history>>

\* Seeded fault: completion does not wait for the steps of the copy.
CompleteEarly(j) ==
  LET q == Current(j)
  IN  /\ jobs[j].at \in {"run", "complete"}
      /\ IF requests[q].status = "queued"
         THEN requests' = [requests EXCEPT ![q].status = "completed"] /\ NextRequest(j)
         ELSE UNCHANGED requests /\ Goto(j, "error")
      /\ UNCHANGED <<left, writers, world, writes, failures, history>>

CompleteRequest(j) ==
  LET q == Current(j)
  IN  /\ jobs[j].at = "complete"
      /\ IF requests[q].status = "queued"
         THEN requests' = [requests EXCEPT ![q].status = "completed"] /\ NextRequest(j)
         ELSE UNCHANGED requests /\ Goto(j, "error")
      /\ UNCHANGED <<left, writers, world, writes, failures, history>>

\* Seeded fault: only what this run did makes a request one to try again.
AppliedNow(j) == jobs[j].applied

Retryable(j) == jobs[j].applied \/ jobs[j].copies[Current(j)] # {}

\* recordAccountDeleteRequestFailure: the request stays queued, or fails for good.
RecordFailure(j) ==
  LET q == Current(j)
      fails == ~Retryable(j) /\ requests[q].status = "queued"
  IN  /\ jobs[j].at = "error"
      /\ requests' = [requests EXCEPT ![q].status = IF fails THEN "failed" ELSE @]
      /\ NextRequest(j)
      /\ UNCHANGED <<left, writers, world, writes, failures, history>>

\* A call of a step, of its recording or of the completion throws.
CallThrows(j) ==
  /\ jobs[j].at \in {"check", "run", "record", "complete"}
  /\ failures < MaxFailures /\ failures' = failures + 1
  /\ Goto(j, "error")
  /\ UNCHANGED <<requests, left, writers, world, writes, history>>

\* The process dies, or the failing of the request throws and ends the task.
MaintenanceDies(j) ==
  /\ jobs[j] # Resting
  /\ failures < MaxFailures /\ failures' = failures + 1
  /\ jobs' = [jobs EXCEPT ![j] = Resting]
  /\ UNCHANGED <<requests, left, writers, world, writes, history>>

----------------------------------------------------------------------------
(* The other handlers *)

\* What a handler must read of the customer to write such data: the customer of
\* the session, an order's customer, or the document itself.
Sources ==
  [tokens |-> {"customer"}, reservations |-> {"customer"}, exports |-> {"customer"},
   orders |-> {"orders", "customer"}, emails |-> {"orders", "emails"},
   entitlements |-> {"orders", "entitlements"}, licenses |-> {"orders", "licenses"},
   customer |-> {}]

\* What a handler also writes of what it is given, whatever is stored: requestMagicLink
\* puts the address that the visitor typed into a token and an e-mail, and
\* paymentCustomerSnapshot the one of the payment event into the order, although the
\* customer is anonymized.
Given == {"tokens", "emails", "orders"}

\* Bound: what is written before a deletion is asked for is there anyway.
Asked == \E q \in Requests : requests[q].status # "none"

Ended == \E q \in Requests : requests[q].status = "completed"

BeginWrite(w, k) ==
  /\ writers[w] = NoWrite /\ writes < MaxWrites /\ Asked
  /\ writes' = writes + 1
  /\ \E given \in BOOLEAN :
       /\ IF given THEN k \in Given ELSE \E s \in Sources[k] : left[s]
       /\ writers' = [writers EXCEPT ![w] =
                        [kind |-> k,
                         carries |-> \/ given \/ ~Ended
                                     \/ \E s \in Sources[k] : left[s] /\ s \in carried]]
  /\ UNCHANGED <<requests, left, jobs, world, failures, history>>

PutWrite(w) ==
  /\ writers[w] # NoWrite
  /\ left' = [left EXCEPT ![writers[w].kind] = TRUE]
  /\ carried' = IF writers[w].carries THEN carried \cup {writers[w].kind} ELSE carried
  /\ writers' = [writers EXCEPT ![w] = NoWrite]
  /\ UNCHANGED <<requests, jobs, world, writes, failures, erased, overlapped>>

----------------------------------------------------------------------------
Maintain(j) ==
  CheckAllowed(j) \/ RunStep(j) \/ RecordStep(j) \/ CompleteRequest(j) \/ RecordFailure(j)

DeletionNext ==
  \/ \E q \in Requests : AskDeletion(q) \/ PutRequest(q)
  \/ BeginPurchase \/ EndPurchase
  \/ \E j \in Jobs : BeginMaintenance(j) \/ Maintain(j) \/ CallThrows(j) \/ MaintenanceDies(j)
  \/ \E w \in Writers : PutWrite(w) \/ \E k \in Written : BeginWrite(w, k)

DeletionSpec == DeletionInit /\ [][DeletionNext]_deletionVars

\* The host runs the maintenance again and again, and a run goes on.
DeletionFairness == \A j \in Jobs : WF_deletionVars(BeginMaintenance(j) \/ Maintain(j))

FairDeletionSpec == DeletionSpec /\ DeletionFairness

----------------------------------------------------------------------------
(* Properties *)

\* Documents, runs and writers have their shape; a run at work has a request, and
\* only a run at work does.
DeletionTypeOK ==
  /\ requests \in [Requests -> [status : {"none", "asked", "queued", "completed", "failed"},
                                recorded : SUBSET Kinds]]
  /\ left \in [Kinds -> BOOLEAN]
  /\ jobs \in [Jobs -> [at : {"rest", "check", "run", "record", "complete", "error"},
                        todo : SUBSET Requests, copies : [Requests -> SUBSET Kinds],
                        applied : BOOLEAN]]
  /\ \A j \in Jobs : (jobs[j].at = "rest") = (jobs[j].todo = {})
  /\ writers \in [Writers -> [kind : Kinds \cup {"none"}, carries : BOOLEAN]]
  /\ erased \subseteq Kinds /\ carried \subseteq Kinds
  /\ active \in BOOLEAN /\ overlapped \in BOOLEAN
  /\ purchases \in 0..MaxPurchases /\ writes \in 0..MaxWrites /\ failures \in 0..MaxFailures

\* The customer is anonymized last: nobody is locked out of an account whose data
\* were not erased, whatever runs overlapped, died and were resumed.
CustomerIsLast == ~left["customer"] => Kinds \ {"customer"} \subseteq erased

\* After a completed deletion nothing of the customer is stored, but for what a handler
\* wrote from what it had read before the deletion ended, from what a visitor or a payment
\* event gave it, or from data that was stored in one of these ways: all that was there is
\* erased, and no handler that comes later finds any of it.
CompletedIsErased ==
  \A q \in Requests : requests[q].status = "completed" =>
    \A k \in Kinds : left[k] => k \in carried

\* A request with a recorded step is not given up: it stays queued and is resumed.  Only a
\* run that overlaps another one gives it up, by its stale copy.  What a run erased before
\* it died, and did not come to record, does not count: hasCompletedAccountDeleteMaintenanceSteps
\* looks at the records.
HalfErasedIsResumed ==
  \A q \in Requests :
    requests[q].status = "failed" /\ requests[q].recorded # {} => overlapped

\* A queued deletion ends, unless the customer buys again and again.
DeletionsEnd == \A q \in Requests : (<>[]~active) => <>[](requests[q].status # "queued")

=============================================================================

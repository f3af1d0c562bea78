----------------------------- MODULE EmailOutbox -----------------------------
(***************************************************************************)
(* The e-mail outbox: runs of the outbox runner that lease, prepare, send  *)
(* and settle messages one by one, the reclaiming of exhausted leases, the *)
(* redaction by an account deletion, the administrator's resend and the    *)
(* payment handler that queues a message another one has queued before.    *)
(*                                                                         *)
(* A call of the repository is one atomic update of one document; only the *)
(* resend puts back a document it read earlier, and the late handler a new *)
(* one.                                                                    *)
(***************************************************************************)
EXTENDS Integers, Sequences, FiniteSets

CONSTANTS
  Emails,       \* messages that were queued
  Runs,         \* runners that may be at work at one time
  Nobody,       \* no lease
  MaxAttempts,  \* maxAttempts of a message
  LeaseTime,    \* leaseMs
  RetryDelay,   \* retryDelayMs
  MaxTime,      \* bound: the clock stops here
  MaxSlow,      \* bound: how often the clock overtakes work that is due
  MaxFaults,    \* bound: runs that die, calls that throw
  MaxResends    \* bound: how often a message is queued again, by a resend or late

ASSUME OutboxAssumption ==
  /\ {MaxAttempts, LeaseTime, RetryDelay} \subseteq Nat \ {0}
  /\ {MaxTime, MaxSlow, MaxFaults, MaxResends} \subseteq Nat
  /\ Nobody \notin Runs /\ IsFiniteSet(Runs) /\ IsFiniteSet(Emails)

VARIABLES
  emails,   \* Emails -> the document
  orders,   \* Emails -> the order the message is about: "paid" or "refunded"
  runs,     \* Runs -> what a run of the runner remembers
  resends,  \* Emails -> what an administrator's resend remembers
  requeued, \* Emails -> how many handlers queued the message after another one had
  now,      \* the wall clock
  slow,     \* history: how often the clock overtook work that was due
  faults,   \* history: how many faults there were
  sends     \* history: Emails -> how often the provider took the message

vars == <<emails, orders, runs, resends, requeued, now, slow, faults, sends>>

None == 0  \* a time that is not set; the clock starts at 1

Queued == [status |-> "queued", attempts |-> 0, next |-> 1, key |-> Nobody, ends |-> None,
           error |-> FALSE, redacted |-> FALSE]

Idle == [step |-> "idle", at |-> None, todo |-> <<>>, email |-> Queued]

Init ==
  /\ emails = [e \in Emails |-> Queued]
  /\ orders = [e \in Emails |-> "paid"]
  /\ runs = [r \in Runs |-> Idle]
  /\ resends = [e \in Emails |-> [count |-> 0, open |-> FALSE, email |-> Queued]]
  /\ requeued = [e \in Emails |-> 0]
  /\ now = 1 /\ slow = 0 /\ faults = 0
  /\ sends = [e \in Emails |-> 0]

----------------------------------------------------------------------------
(* The repository *)

Due(email, t) ==
  /\ email.status \in {"queued", "failed"}
  /\ email.ends <= t
  /\ email.attempts < MaxAttempts
  /\ email.next <= t

\* Seeded fault: the last attempt is not counted as the last.
ExhaustedBeyond(email, t) ==
  /\ email.status = "queued"
  /\ email.ends # None /\ email.ends <= t
  /\ email.attempts > MaxAttempts
  /\ ~email.error

\* A lease that ended with the last attempt, of a message never given a verdict.
ExhaustedLeaseLoss(email, t) ==
  /\ email.status = "queued"
  /\ email.ends # None /\ email.ends <= t
  /\ email.attempts >= MaxAttempts
  /\ ~email.error

\* Seeded fault: the lease is not looked at.
AnyLease(email, r) == TRUE

\* A run compares the end of its lease with its own start, so only another key
\* takes the lease away.
HasLease(email, r) == email.key = r /\ email.ends > runs[r].at

\* Seeded fault: a lease is not counted as an attempt.
LeasedUncounted(email, r) ==
  [email EXCEPT !.next = runs[r].at + LeaseTime, !.error = FALSE, !.key = r,
                !.ends = runs[r].at + LeaseTime]

Leased(email, r) ==
  [email EXCEPT !.attempts = @ + 1, !.next = runs[r].at + LeaseTime, !.error = FALSE,
                !.key = r, !.ends = runs[r].at + LeaseTime]

Settled(email, status, next, error) ==
  [email EXCEPT !.status = status, !.next = next, !.key = Nobody, !.ends = None, !.error = error]

Update(e, email) == emails' = [emails EXCEPT ![e] = email]

----------------------------------------------------------------------------
(* The runner: runOnce and deliverLeasedEmail *)

\* The message a run is at.
Current(r) == Head(runs[r].todo)

Go(r, step) == runs' = [runs EXCEPT ![r].step = step]

\* On with the next message, or the end of the run.
Proceed(r) ==
  LET others == Tail(runs[r].todo)
      next == [runs[r] EXCEPT !.step = "lease", !.todo = others, !.email = Queued]
  IN  runs' = [runs EXCEPT ![r] = IF others = <<>> THEN Idle ELSE next]

At(r, e, step) == runs[r].step = step /\ e = Current(r)

DueEmails == {e \in Emails : Due(emails[e], now)}

\* What is due, in the order in which it fell due when it was listed.
Listings ==
  {s \in [1..Cardinality(DueEmails) -> DueEmails] :
     \A m, n \in DOMAIN s : m < n => s[m] # s[n] /\ emails[s[m]].next <= emails[s[n]].next}

\* The clock is read once, for all messages of the run.
BeginRun(r) ==
  /\ runs[r] = Idle /\ DueEmails # {}
  /\ \E listing \in Listings :
       runs' = [runs EXCEPT ![r] = [Idle EXCEPT !.step = "lease", !.at = now, !.todo = listing]]
  /\ UNCHANGED <<emails, orders, resends, requeued, now, slow, faults, sends>>

LeaseEmail(r) ==
  \E e \in Emails :
    /\ At(r, e, "lease")
    /\ IF Due(emails[e], runs[r].at)
       THEN /\ Update(e, Leased(emails[e], r))
            /\ runs' = [runs EXCEPT ![r].step = "prepare", ![r].email = Leased(emails[e], r)]
       ELSE UNCHANGED emails /\ Proceed(r)
    /\ UNCHANGED <<orders, resends, requeued, now, slow, faults, sends>>

\* prepareEmailDelivery: the confirmation of a refunded order is skipped.
Prepare(r) ==
  \E e \in Emails :
    /\ At(r, e, "prepare")
    /\ Go(r, IF orders[e] = "refunded" THEN "skip" ELSE "send")
    /\ UNCHANGED <<emails, orders, resends, requeued, now, slow, faults, sends>>

\* The message is the one that was leased, to the address it had then.
Send(r) ==
  \E e \in Emails :
    /\ At(r, e, "send")
    /\ sends' = [sends EXCEPT ![e] = @ + 1]
    /\ Go(r, "complete")
    /\ UNCHANGED <<emails, orders, resends, requeued, now, slow, faults>>

\* The sender throws, before or after the provider took the message.
SendThrows(r, taken) ==
  \E e \in Emails :
    /\ At(r, e, "send")
    /\ faults < MaxFaults /\ faults' = faults + 1
    /\ sends' = [sends EXCEPT ![e] = IF taken THEN @ + 1 ELSE @]
    /\ Go(r, "fail")
    /\ UNCHANGED <<emails, orders, resends, requeued, now, slow>>

CompleteEmail(r) ==
  \E e \in Emails :
    /\ At(r, e, "complete")
    /\ IF HasLease(emails[e], r)
       THEN Update(e, Settled(emails[e], "sent", None, FALSE)) /\ Proceed(r)
       ELSE UNCHANGED emails /\ Go(r, "recover")
    /\ UNCHANGED <<orders, resends, requeued, now, slow, faults, sends>>

\* The lease was lost while the provider took the message.
MarkEmailDelivered(r) ==
  \E e \in Emails :
    /\ At(r, e, "recover")
    /\ IF emails[e].status = "sent" THEN UNCHANGED emails
       ELSE Update(e, Settled(emails[e], "sent", None, FALSE))
    /\ Proceed(r)
    /\ UNCHANGED <<orders, resends, requeued, now, slow, faults, sends>>

\* completeEmail and markEmailDelivered may throw: the run goes on.
CompleteThrows(r) ==
  \E e \in Emails :
    /\ faults < MaxFaults /\ faults' = faults + 1
    /\ \/ At(r, e, "complete") /\ Go(r, "recover")
       \/ At(r, e, "recover") /\ Proceed(r)
    /\ UNCHANGED <<emails, orders, resends, requeued, now, slow, sends>>

\* The attempts of the leased copy decide whether it is due again.
nextEmailAttemptAt(email, at) ==
  IF email.attempts >= MaxAttempts THEN None ELSE at + RetryDelay

\* failLeasedEmail
FailEmail(r) ==
  \E e \in Emails :
    /\ At(r, e, "fail")
    /\ IF HasLease(emails[e], r)
       THEN Update(e, Settled(emails[e], "failed", nextEmailAttemptAt(runs[r].email, runs[r].at), TRUE))
       ELSE UNCHANGED emails
    /\ Proceed(r)
    /\ UNCHANGED <<orders, resends, requeued, now, slow, faults, sends>>

SkipEmail(r) ==
  \E e \in Emails :
    /\ At(r, e, "skip")
    /\ IF HasLease(emails[e], r)
       THEN Update(e, Settled(emails[e], "skipped", None, TRUE)) ELSE UNCHANGED emails
    /\ Proceed(r)
    /\ UNCHANGED <<orders, resends, requeued, now, slow, faults, sends>>

\* The process dies, or a call that is not caught throws: the run is over.
RunDies(r) ==
  /\ runs[r] # Idle /\ faults < MaxFaults
  /\ faults' = faults + 1
  /\ runs' = [runs EXCEPT ![r] = Idle]
  /\ UNCHANGED <<emails, orders, resends, requeued, now, slow, sends>>

----------------------------------------------------------------------------
(* The others *)

ReclaimExhausted(e) ==
  /\ ExhaustedLeaseLoss(emails[e], now)
  /\ Update(e, Settled(emails[e], "failed", None, TRUE))
  /\ UNCHANGED <<orders, runs, resends, requeued, now, slow, faults, sends>>

\* redactQueuedFailedEmailsForAccountDelete.
Redact(e) ==
  /\ emails[e].status \in {"queued", "failed"} /\ ~emails[e].redacted
  /\ Update(e, [Settled(emails[e], "skipped", None, TRUE) EXCEPT !.redacted = TRUE])
  /\ UNCHANGED <<orders, runs, resends, requeued, now, slow, faults, sends>>

\* resendEmail reads the message, claims its audit, and puts what it read.
BeginResend(e) ==
  /\ ~resends[e].open /\ resends[e].count + requeued[e] < MaxResends
  /\ resends' = [resends EXCEPT ![e] = [count |-> @.count + 1, open |-> TRUE, email |-> emails[e]]]
  /\ UNCHANGED <<emails, orders, runs, requeued, now, slow, faults, sends>>

PutResend(e) ==
  /\ resends[e].open
  /\ Update(e, [Settled(resends[e].email, "queued", now, FALSE) EXCEPT !.attempts = 0])
  /\ resends' = [resends EXCEPT ![e].open = FALSE, ![e].email = Queued]
  /\ UNCHANGED <<orders, runs, requeued, now, slow, faults, sends>>

\* queueDefaultOrderConfirmedEmail, of a handler that found no message and then met the
\* one that was queued meanwhile: it puts its own over it, unsent, whatever became of it.
QueueLate(e) ==
  /\ resends[e].count + requeued[e] < MaxResends
  /\ requeued' = [requeued EXCEPT ![e] = @ + 1]
  /\ Update(e, Queued)
  /\ UNCHANGED <<orders, runs, resends, now, slow, faults, sends>>

RefundOrder(e) ==
  /\ orders[e] = "paid"
  /\ orders' = [orders EXCEPT ![e] = "refunded"]
  /\ UNCHANGED <<emails, runs, resends, requeued, now, slow, faults, sends>>

\* Bound: the clock moves when a message waits for it, and overtakes a run, or a
\* message that is due, MaxSlow times.
Tick ==
  LET busy == DueEmails # {} \/ \E r \in Runs : runs[r] # Idle
      waiting == \E e \in Emails : emails[e].next > now \/ emails[e].ends > now
  IN  /\ now < MaxTime /\ (IF busy THEN slow < MaxSlow ELSE waiting)
      /\ now' = now + 1
      /\ slow' = IF busy THEN slow + 1 ELSE slow
      /\ UNCHANGED <<emails, orders, runs, resends, requeued, faults, sends>>

----------------------------------------------------------------------------
Deliver(r) ==
  \/ LeaseEmail(r) \/ Prepare(r) \/ Send(r) \/ CompleteEmail(r) \/ MarkEmailDelivered(r)
  \/ FailEmail(r) \/ SkipEmail(r)

Next ==
  \/ \E r \in Runs : \/ BeginRun(r) \/ Deliver(r) \/ CompleteThrows(r) \/ RunDies(r)
                     \/ \E taken \in BOOLEAN : SendThrows(r, taken)
  \/ \E e \in Emails : ReclaimExhausted(e) \/ Redact(e) \/ BeginResend(e) \/ PutResend(e)
                       \/ QueueLate(e) \/ RefundOrder(e)
  \/ Tick

Spec == Init /\ [][Next]_vars

\* The host runs the maintenance again and again; a run that does not die goes on.
Fairness ==
  /\ \A r \in Runs : WF_vars(BeginRun(r)) /\ WF_vars(Deliver(r))
  /\ \A e \in Emails : WF_vars(ReclaimExhausted(e)) /\ WF_vars(PutResend(e))
  /\ WF_vars(Tick)

FairSpec == Spec /\ Fairness

----------------------------------------------------------------------------
(* Properties *)

Email == [status : {"queued", "failed", "sent", "skipped"}, attempts : 0..MaxAttempts,
          next : 0..(MaxTime + LeaseTime + RetryDelay), key : Runs \cup {Nobody},
          ends : 0..(MaxTime + LeaseTime), error : BOOLEAN, redacted : BOOLEAN]

\* Documents have their shape; a lease has a key, an end and a message that is
\* still to be delivered.
TypeOK ==
  /\ emails \in [Emails -> Email]
  /\ \A e \in Emails : /\ (emails[e].key # Nobody) = (emails[e].ends # None)
                       /\ emails[e].key # Nobody => emails[e].status \in {"queued", "failed"}
  /\ \A r \in Runs : /\ Len(runs[r].todo) \in 0..Cardinality(Emails)
                     /\ \A n \in DOMAIN runs[r].todo : runs[r].todo[n] \in Emails
                     /\ runs[r].email \in Email
                     /\ (runs[r] = Idle) = (runs[r].todo = <<>>)
  /\ requeued \in [Emails -> 0..MaxResends] /\ now \in 1..MaxTime

\* However often runs overlap, die and lose their leases, a customer gets a message at most
\* maxAttempts times, and as often again for each resend and for each handler that queued
\* it late.
BoundedSends == \A e \in Emails : sends[e] <= MaxAttempts * (1 + resends[e].count + requeued[e])

\* An administrator's resend or a late handler queues the message again.
QueuedAgain(e) ==
  \/ resends[e].open /\ ~resends'[e].open
  \/ requeued'[e] # requeued[e]

\* A run that lost its lease may send a message once more, but it does not undo a verdict:
\* what is recorded as delivered is not recorded as failed, skipped or queued after that,
\* and a redacted recipient does not come back.  The two puts that queue the message again
\* do undo both.
VerdictsStay ==
  [][\A e \in Emails :
       \/ QueuedAgain(e)
       \/ /\ emails[e].status = "sent" => emails'[e].status = "sent"
          /\ emails[e].redacted => emails'[e].redacted]_vars

\* Every message is in the end sent, skipped or failed for review: none stays
\* queued, or due again, for ever.
OutboxDrains ==
  \A e \in Emails :
    <>[](\/ emails[e].status \in {"sent", "skipped"}
         \/ emails[e].status = "failed" /\ emails[e].attempts = MaxAttempts)

=============================================================================

-------------------------- MODULE MaintenanceProofs --------------------------
(***************************************************************************)
(* Proofs about the e-mail outbox and the account deletion, for every      *)
(* number of messages, runs, requests, writers and failures.               *)
(*                                                                         *)
(* The outbox: every send has a lease before it, and every lease is        *)
(* counted in the message, until a resend counts from zero again.  The     *)
(* deletion: what is recorded was erased, and a request is completed by    *)
(* the copy that has all of it.                                            *)
(***************************************************************************)
EXTENDS MCMaintenance, FiniteSetTheorems, WellFoundedInduction, TLAPS

----------------------------------------------------------------------------
(* The outbox: invariants *)

\* What the proofs need of a document: the time of its next attempt does not matter.
Kept == [status : {"queued", "failed", "sent", "skipped"}, attempts : 0..MaxAttempts,
         next : Int, key : Runs \cup {Nobody}, ends : Int, error : BOOLEAN, redacted : BOOLEAN]

Steps == {"idle", "lease", "prepare", "send", "complete", "recover", "fail", "skip"}

RunRow == [step : Steps, at : Nat, todo : Seq(Emails), email : Kept]

ResendRow == [count : Nat, open : BOOLEAN, email : Kept]

OutboxTypes ==
  /\ emails \in [Emails -> Kept]
  /\ runs \in [Runs -> RunRow]
  /\ resends \in [Emails -> ResendRow]
  /\ requeued \in [Emails -> Nat]
  /\ sends \in [Emails -> Nat]
  /\ now \in Nat
  /\ \A r \in Runs : runs[r].step # "idle" => runs[r].todo # <<>>

\* A leased message has no verdict yet, or one that it may be tried again after.
Leasable == \A e \in Emails : emails[e].key # Nobody => emails[e].status \in {"queued", "failed"}

\* A run that has leased a message and not yet given it to the provider.
Sending(run, e) == run.step \in {"prepare", "send"} /\ e = Head(run.todo)

Senders(e) == {r \in Runs : Sending(runs[r], e)}

\* How often a message was queued again: by the resends that were put, and by late handlers.
Puts(e) ==
  (IF resends[e].open THEN resends[e].count - 1 ELSE resends[e].count) + requeued[e]

\* A send, or one that is about to be, is a counted lease.
Counted ==
  \A e \in Emails :
    /\ resends[e].open => resends[e].count > 0
    /\ sends[e] + Cardinality(Senders(e)) <= emails[e].attempts + MaxAttempts * Puts(e)

OutboxInv == Leasable /\ Counted

----------------------------------------------------------------------------
(* The deletion: invariants *)

RequestRow == [status : {"none", "asked", "queued", "completed", "failed"},
               recorded : SUBSET Deletion!Kinds]

JobRow == [at : {"rest", "check", "run", "record", "complete", "error"}, todo : SUBSET Requests,
           copies : [Requests -> SUBSET Deletion!Kinds], applied : BOOLEAN]

\* The first request of a run, and the first step that a copy of it has not recorded.
Least(todo) == CHOOSE q \in todo : \A p \in todo : q <= p

StepOf(job) == Deletion!NextStep(job.copies[Least(job.todo)])

DeletionTypes ==
  /\ requests \in [Requests -> RequestRow]
  /\ jobs \in [Jobs -> JobRow]
  /\ left \in [Deletion!Kinds -> BOOLEAN]
  /\ writers \in [Writers -> [kind : Deletion!Kinds \cup {"none"}, carries : BOOLEAN]]
  /\ erased \subseteq Deletion!Kinds /\ carried \subseteq Deletion!Kinds
  /\ overlapped \in BOOLEAN
  /\ \A w \in Writers : writers[w] # Deletion!NoWrite => writers[w].kind \in Deletion!Kinds
  /\ \A j \in Jobs : jobs[j].at # "rest" => jobs[j].todo # {}
  /\ \A j \in Jobs : jobs[j].at = "rest" => jobs[j] = Deletion!Resting

\* What a step erased is gone, but for what was put from elsewhere or from before the end.
Erasure == \A k \in Deletion!Kinds : left[k] => k \notin erased \/ k \in carried

\* Who is about to write was given it, or read what was there before the end.
Early == \A w \in Writers : writers[w] # Deletion!NoWrite => writers[w].carries

\* What is recorded, in the document or in a copy, was erased.
Recorded ==
  /\ \A q \in Requests : requests[q].recorded \subseteq erased
  /\ \A j \in Jobs, q \in Requests : jobs[j].copies[q] \subseteq erased
  /\ \A j \in Jobs : jobs[j].at = "record" => StepOf(jobs[j]) \in erased

\* A run is at a step while its copy lacks one, and completes a request when the
\* copy has all of them.
Complete ==
  /\ \A j \in Jobs : jobs[j].at \in {"run", "record"} =>
       jobs[j].copies[Least(jobs[j].todo)] # Deletion!Kinds
  /\ \A j \in Jobs : jobs[j].at = "complete" =>
       jobs[j].copies[Least(jobs[j].todo)] = Deletion!Kinds
  /\ \A q \in Requests : requests[q].status = "completed" => Deletion!Kinds \subseteq erased

ErasureInv == Erasure /\ Early /\ Recorded /\ Complete

\* While runs do not overlap the copies are what is recorded.
Fresh ==
  overlapped = FALSE =>
    /\ \A i, j \in Jobs : jobs[i].at # "rest" /\ jobs[j].at # "rest" => i = j
    /\ \A j \in Jobs : \A q \in jobs[j].todo : jobs[j].copies[q] = requests[q].recorded
    /\ \A q \in Requests : requests[q].status = "failed" => requests[q].recorded = {}

DeletionInv == ErasureInv /\ Fresh

----------------------------------------------------------------------------
(* The least element of a finite set of numbers *)

\* Every non-empty finite set of numbers has a least element: among its initial
\* segments one has no other below it.
LEMMA LeastElement ==
  ASSUME NEW A, A \subseteq Nat, IsFiniteSet(A), A # {}
  PROVE  \E q \in A : \A p \in A : q <= p
<1> DEFINE Segment(n) == {m \in A : m <= n}
           T == {Segment(n) : n \in A}
<1>1. T \subseteq FiniteSubsetsOf(A) /\ T # {}
  <2>1. ASSUME NEW n \in A PROVE Segment(n) \in FiniteSubsetsOf(A)
    <3>1. Segment(n) \subseteq A
      OBVIOUS
    <3>2. IsFiniteSet(Segment(n))
      BY <3>1, FS_Subset
    <3> QED BY <3>1, <3>2 DEF FiniteSubsetsOf
  <2> QED BY <2>1
<1>2. IsWellFoundedOn(StrictSubsetOrdering(A), FiniteSubsetsOf(A))
  BY FS_StrictSubsetOrderingWellFounded
<1>3. PICK x \in T : \A y \in T : ~ (<<y, x>> \in StrictSubsetOrdering(A))
  <2> HIDE DEF T
  <2> QED BY <1>1, <1>2, WFMin
<1>4. PICK q \in A : x = Segment(q)
  BY <1>3
<1>5. ASSUME NEW p \in A, p < q PROVE FALSE
  <2>1. Segment(p) \in T
    OBVIOUS
  <2>2. Segment(p) \subseteq Segment(q)
    <3> SUFFICES ASSUME NEW m \in Segment(p) PROVE m \in Segment(q)
      OBVIOUS
    <3>1. m \in Nat /\ p \in Nat /\ q \in Nat /\ m <= p
      OBVIOUS
    <3> QED BY <1>5, <3>1
  <2>3. q \in Segment(q) /\ q \notin Segment(p)
    BY <1>5
  <2>4. <<Segment(p), Segment(q)>> \in StrictSubsetOrdering(A)
    <3>1. Segment(p) \in SUBSET A /\ Segment(q) \in SUBSET A
      OBVIOUS
    <3>2. Segment(p) # Segment(q)
      BY <2>3
    <3> HIDE DEF Segment
    <3> QED BY <2>2, <3>1, <3>2 DEF StrictSubsetOrdering
  <2> HIDE DEF T, Segment
  <2> QED BY <1>3, <1>4, <2>1, <2>4
<1> QED BY <1>5

\* The first request of a run is one of its requests.
LEMMA LeastIsIn ==
  ASSUME NEW todo \in SUBSET Requests, todo # {}
  PROVE  Least(todo) \in todo
<1>1. IsFiniteSet(Requests) /\ Requests \subseteq Nat
  BY MaintenanceAssumption
     DEF Deletion!DeletionAssumption, Deletion!IsFiniteSet, IsFiniteSet
<1>2. todo \subseteq Nat /\ IsFiniteSet(todo)
  BY <1>1, FS_Subset
<1>3. \E q \in todo : \A p \in todo : q <= p
  BY <1>2, LeastElement
<1> QED BY <1>3 DEF Least

\* What Current and Step choose, as used by the invariants.
LEMMA CurrentIsLeast ==
  ASSUME DeletionTypes, NEW j \in Jobs, jobs[j].at # "rest"
  PROVE  /\ Deletion!Current(j) = Least(jobs[j].todo)
         /\ Deletion!Current(j) \in jobs[j].todo
         /\ Deletion!Current(j) \in Requests
         /\ Deletion!Step(j) = StepOf(jobs[j])
<1>1. jobs[j] \in JobRow /\ jobs[j].todo # {}
  BY DEF DeletionTypes
<1>2. jobs[j].todo \in SUBSET Requests
  BY <1>1 DEF JobRow
<1>3. Deletion!Current(j) = Least(jobs[j].todo)
  BY DEF Deletion!Current, Least
<1>4. Least(jobs[j].todo) \in jobs[j].todo
  BY <1>1, <1>2, LeastIsIn
<1> QED BY <1>2, <1>3, <1>4 DEF Deletion!Step, StepOf

\* A copy that lacks a kind has a next step.
LEMMA StepIsAKind ==
  ASSUME NEW done \in SUBSET Deletion!Kinds, done # Deletion!Kinds
  PROVE  Deletion!NextStep(done) \in Deletion!Kinds
<1> DEFINE listed == Deletion!StepOrder
           Missing == {n \in 1..Len(listed) : listed[n] \notin done}
<1>1. Len(listed) = 8
  BY DEF Deletion!StepOrder
<1>2. Missing \subseteq Nat /\ IsFiniteSet(Missing)
  <2>1. 1 \in Int /\ Len(listed) \in Int
    BY <1>1
  <2>3. IsFiniteSet(1..Len(listed))
    <3> HIDE DEF listed
    <3> QED BY <2>1, FS_Interval
  <2>2. Missing \subseteq 1..Len(listed)
    OBVIOUS
  <2> QED BY <1>1, <2>2, <2>3, FS_Subset
<1>3. Missing # {}
  BY DEF Deletion!Kinds
<1>4. PICK n \in Missing : \A p \in Missing : n <= p
  <2> HIDE DEF Missing
  <2> QED BY <1>2, <1>3, LeastElement
<1>5. \A m \in 1..(n - 1) : listed[m] \in done
  <2> SUFFICES ASSUME NEW m \in 1..(n - 1), listed[m] \notin done PROVE FALSE
    OBVIOUS
  <2>1. m \in Missing
    BY <1>1
  <2>2. n <= m /\ m < n /\ n \in Nat /\ m \in Nat
    BY <1>1, <1>4, <2>1
  <2> QED BY <2>2
<1>6. \E k \in 1..Len(listed) : listed[k] \notin done /\ \A m \in 1..(k - 1) : listed[m] \in done
  BY <1>5
<1> HIDE DEF listed
<1> QED BY <1>6 DEF Deletion!NextStep, Deletion!Kinds, listed

----------------------------------------------------------------------------
(* The deletion: steps *)

\* A step of one run, by the row it leaves and the documents it changes.
LEMMA JobStep ==
  ASSUME DeletionTypes, ErasureInv, NEW j \in Jobs, NEW row \in JobRow,
         jobs' = [jobs EXCEPT ![j] = row],
         requests' \in [Requests -> RequestRow], left' \in [Deletion!Kinds -> BOOLEAN],
         UNCHANGED <<writers, carried>>, overlapped' \in BOOLEAN,
         erased \subseteq erased', erased' \subseteq Deletion!Kinds,
         \A k \in Deletion!Kinds : left'[k] => left[k] /\ (k \in erased' => k \in erased),
         row.at = "rest" => row = Deletion!Resting,
         row.at # "rest" => row.todo # {},
         \A q \in Requests : row.copies[q] \subseteq erased',
         row.at = "record" => StepOf(row) \in erased',
         row.at = "complete" => row.copies[Least(row.todo)] = Deletion!Kinds,
         row.at \in {"run", "record"} => row.copies[Least(row.todo)] # Deletion!Kinds,
         \A q \in Requests : /\ requests'[q].recorded \subseteq erased'
                             /\ requests'[q].status = "completed" => Deletion!Kinds \subseteq erased'
  PROVE  DeletionTypes' /\ ErasureInv'
<1>1. \A i \in Jobs : jobs'[i] = IF i = j THEN row ELSE jobs[i]
  BY DEF DeletionTypes
<1>2. jobs' \in [Jobs -> JobRow]
  BY DEF DeletionTypes
<1>3. DeletionTypes'
  BY <1>1, <1>2 DEF DeletionTypes, Deletion!NoWrite
<1>4. Erasure'
  BY DEF ErasureInv, Erasure
<1>5. Early'
  BY DEF ErasureInv, Early, Deletion!NoWrite
<1>6. Recorded'
  <2>1. \A i \in Jobs, q \in Requests : jobs'[i].copies[q] \subseteq erased'
    BY <1>1 DEF ErasureInv, Recorded
  <2>2. \A i \in Jobs : jobs'[i].at = "record" => StepOf(jobs'[i]) \in erased'
    BY <1>1 DEF ErasureInv, Recorded
  <2>3. \A i \in Jobs : (jobs[i].at = "record" => StepOf(jobs[i]) \in erased)'
    BY <2>2 DEF StepOf, Deletion!NextStep, Deletion!StepOrder, Least
  <2> QED BY <2>1, <2>3 DEF Recorded
<1>7. Complete'
  <2>1. \A i \in Jobs : jobs'[i].at = "complete" =>
          jobs'[i].copies[Least(jobs'[i].todo)] = Deletion!Kinds
    BY <1>1 DEF ErasureInv, Complete
  <2>2. \A i \in Jobs : jobs'[i].at \in {"run", "record"} =>
          jobs'[i].copies[Least(jobs'[i].todo)] # Deletion!Kinds
    BY <1>1 DEF ErasureInv, Complete
  <2>3. \A i \in Jobs : (jobs[i].at = "complete" =>
                           jobs[i].copies[Least(jobs[i].todo)] = Deletion!Kinds)'
    BY <2>1 DEF Least, Deletion!Kinds, Deletion!StepOrder
  <2>4. \A i \in Jobs : (jobs[i].at \in {"run", "record"} =>
                           jobs[i].copies[Least(jobs[i].todo)] # Deletion!Kinds)'
    BY <2>2 DEF Least, Deletion!Kinds, Deletion!StepOrder
  <2> QED BY <2>3, <2>4 DEF Complete, Deletion!Kinds, Deletion!StepOrder
<1> QED BY <1>3, <1>4, <1>5, <1>6, <1>7 DEF ErasureInv

\* The same for the runs that do not overlap.
LEMMA FreshStep ==
  ASSUME DeletionTypes, DeletionTypes', Fresh, NEW j \in Jobs, NEW row \in JobRow,
         jobs' = [jobs EXCEPT ![j] = row], jobs[j].at # "rest", UNCHANGED overlapped,
         overlapped = FALSE => \A q \in row.todo : row.copies[q] = requests'[q].recorded,
         overlapped = FALSE =>
           \A q \in Requests : requests'[q].status = "failed" => requests'[q].recorded = {}
  PROVE  Fresh'
<1> SUFFICES ASSUME overlapped' = FALSE
             PROVE  /\ \A i, k \in Jobs : jobs'[i].at # "rest" /\ jobs'[k].at # "rest" => i = k
                    /\ \A i \in Jobs : \A q \in jobs'[i].todo :
                         jobs'[i].copies[q] = requests'[q].recorded
                    /\ \A q \in Requests :
                         requests'[q].status = "failed" => requests'[q].recorded = {}
  BY DEF Fresh
<1>1. \A i \in Jobs : jobs'[i] = IF i = j THEN row ELSE jobs[i]
  BY DEF DeletionTypes
<1>2. \A i \in Jobs : i # j => jobs[i].at = "rest"
  BY DEF Fresh
<1>3. \A i \in Jobs : i # j => jobs[i].todo = {}
  BY <1>2 DEF DeletionTypes, Deletion!Resting
<1> QED BY <1>1, <1>2, <1>3

\* The customer's request changes its status only.
LEMMA RequestStep ==
  ASSUME DeletionTypes, DeletionInv, NEW q \in Requests,
         Deletion!AskDeletion(q) \/ Deletion!PutRequest(q)
  PROVE  DeletionTypes' /\ DeletionInv'
<1>1. PICK s \in {"asked", "queued"} : requests' = [requests EXCEPT ![q].status = s]
  BY DEF Deletion!AskDeletion, Deletion!PutRequest
<1>2. UNCHANGED <<left, jobs, writers, erased, carried, overlapped>>
  BY DEF Deletion!AskDeletion, Deletion!PutRequest, Deletion!history
<1>3. \A p \in Requests : /\ requests'[p] \in RequestRow
                          /\ requests'[p].recorded = requests[p].recorded
                          /\ requests'[p].status \in {requests[p].status, "asked", "queued"}
  <2>1. requests \in [Requests -> RequestRow]
    BY DEF DeletionTypes
  <2> QED BY <1>1, <2>1 DEF RequestRow
<1>4. requests' \in [Requests -> RequestRow]
  BY <1>1, <1>3 DEF DeletionTypes
<1>5. DeletionTypes'
  BY <1>2, <1>4 DEF DeletionTypes, Deletion!Resting, Deletion!Kinds, Deletion!StepOrder
<1>6. ErasureInv'
  <2>1. Erasure' /\ Early'
    BY <1>2 DEF DeletionInv, ErasureInv, Erasure, Early
  <2>2. Recorded'
    <3>1. \A i \in Jobs : jobs'[i].at = "record" => StepOf(jobs'[i]) \in erased'
      BY <1>2 DEF DeletionInv, ErasureInv, Recorded
    <3>2. \A i \in Jobs : (jobs[i].at = "record" => StepOf(jobs[i]) \in erased)'
      BY <3>1 DEF StepOf, Deletion!NextStep, Deletion!StepOrder, Least
    <3> QED BY <1>2, <1>3, <3>2 DEF DeletionInv, ErasureInv, Recorded
  <2>3. Complete'
    BY <1>2, <1>3 DEF DeletionInv, ErasureInv, Complete, Least
  <2> QED BY <2>1, <2>2, <2>3 DEF ErasureInv
<1>7. Fresh'
  <2>1. \A j \in Jobs : jobs[j].todo \subseteq Requests
    BY DEF DeletionTypes, JobRow
  <2> QED BY <1>2, <1>3, <2>1 DEF DeletionInv, Fresh
<1> QED BY <1>5, <1>6, <1>7 DEF DeletionInv

\* A run that begins copies what is recorded.
LEMMA BeginStep ==
  ASSUME DeletionTypes, DeletionInv, NEW j \in Jobs, Deletion!BeginMaintenance(j)
  PROVE  DeletionTypes' /\ DeletionInv'
<1> DEFINE row == [at |-> "check", todo |-> Deletion!Queued, applied |-> FALSE,
                   copies |-> [q \in Requests |->
                                 IF q \in Deletion!Queued THEN requests[q].recorded ELSE {}]]
<1>1. /\ jobs' = [jobs EXCEPT ![j] = row]
      /\ overlapped' = (overlapped \/ \E i \in Jobs : jobs[i] # Deletion!Resting)
      /\ UNCHANGED <<requests, left, writers, erased, carried>>
      /\ jobs[j] = Deletion!Resting /\ Deletion!Queued # {}
  BY DEF Deletion!BeginMaintenance
<1>2. \A q \in Requests : requests[q].recorded \in SUBSET Deletion!Kinds
  BY DEF DeletionTypes, RequestRow
<1>3. row \in JobRow
  <2>1. Deletion!Queued \in SUBSET Requests
    BY DEF Deletion!Queued
  <2> QED BY <1>2, <2>1 DEF JobRow
<1>4. /\ row.at = "check" /\ row.todo = Deletion!Queued
      /\ \A q \in Requests : row.copies[q] \subseteq requests[q].recorded
      /\ \A q \in Deletion!Queued : row.copies[q] = requests[q].recorded
      /\ Deletion!Queued \subseteq Requests
  BY DEF Deletion!Queued
<1>5. overlapped' \in BOOLEAN
  BY <1>1 DEF DeletionTypes
<1> HIDE DEF row
<1>6. DeletionTypes' /\ ErasureInv'
  <2>1. \A q \in Requests : /\ row.copies[q] \subseteq erased /\ requests[q].recorded \subseteq erased
                            /\ requests[q].status = "completed" => Deletion!Kinds \subseteq erased
    BY <1>4 DEF DeletionInv, ErasureInv, Recorded, Complete
  <2>2. /\ requests' \in [Requests -> RequestRow] /\ left' \in [Deletion!Kinds -> BOOLEAN]
        /\ erased' \subseteq Deletion!Kinds /\ erased \subseteq erased'
    BY <1>1 DEF DeletionTypes
  <2>3. ErasureInv
    BY DEF DeletionInv
  <2> QED BY <1>1, <1>3, <1>4, <1>5, <2>1, <2>2, <2>3, JobStep
<1>7. Fresh'
  <2> SUFFICES ASSUME overlapped' = FALSE
               PROVE  /\ \A i, k \in Jobs : jobs'[i].at # "rest" /\ jobs'[k].at # "rest" => i = k
                      /\ \A i \in Jobs : \A q \in jobs'[i].todo :
                           jobs'[i].copies[q] = requests'[q].recorded
                      /\ \A q \in Requests :
                           requests'[q].status = "failed" => requests'[q].recorded = {}
    BY DEF Fresh
  <2>1. overlapped = FALSE /\ \A i \in Jobs : jobs[i] = Deletion!Resting
    BY <1>1 DEF DeletionTypes
  <2>2. \A i \in Jobs : jobs'[i] = IF i = j THEN row ELSE Deletion!Resting
    BY <1>1, <2>1 DEF DeletionTypes
  <2>3. Deletion!Resting.at = "rest" /\ Deletion!Resting.todo = {}
    BY DEF Deletion!Resting
  <2>4. requests' = requests
    BY <1>1
  <2>5. \A q \in Requests : requests[q].status = "failed" => requests[q].recorded = {}
    BY <2>1 DEF DeletionInv, Fresh
  <2> QED BY <1>4, <2>2, <2>3, <2>4, <2>5
<1> QED BY <1>6, <1>7 DEF DeletionInv

\* A job that goes to a step other than recording and completing.
LEMMA GotoStep ==
  ASSUME DeletionTypes, DeletionInv, NEW j \in Jobs, jobs[j].at # "rest",
         NEW at \in {"check", "run", "complete", "error"}, Deletion!Goto(j, at),
         at = "complete" => jobs[j].copies[Least(jobs[j].todo)] = Deletion!Kinds,
         at = "run" => jobs[j].copies[Least(jobs[j].todo)] # Deletion!Kinds,
         UNCHANGED <<requests, left, writers, erased, carried, overlapped>>
  PROVE  DeletionTypes' /\ DeletionInv'
<1> DEFINE row == [jobs[j] EXCEPT !.at = at]
<1>1. jobs' = [jobs EXCEPT ![j] = row]
  BY DEF Deletion!Goto, DeletionTypes
<1>2. jobs[j] \in JobRow /\ jobs[j].todo # {}
  BY DEF DeletionTypes
<1>3. row \in JobRow /\ row.at = at /\ row.todo = jobs[j].todo /\ row.copies = jobs[j].copies
  BY <1>2 DEF JobRow
<1> HIDE DEF row
<1>4. \A q \in Requests :
        /\ row.copies[q] \subseteq erased /\ requests[q].recorded \subseteq erased
        /\ requests[q].status = "completed" => Deletion!Kinds \subseteq erased
  BY <1>3 DEF DeletionInv, ErasureInv, Recorded, Complete
<1>5. /\ requests' \in [Requests -> RequestRow] /\ left' \in [Deletion!Kinds -> BOOLEAN]
      /\ erased' \subseteq Deletion!Kinds /\ erased \subseteq erased' /\ overlapped' \in BOOLEAN
  BY DEF DeletionTypes
<1>6. ErasureInv /\ Fresh
  BY DEF DeletionInv
<1>7. DeletionTypes' /\ ErasureInv'
  BY <1>1, <1>2, <1>3, <1>4, <1>5, <1>6, JobStep
<1>8. Fresh'
  <2>1. overlapped = FALSE => \A q \in row.todo : row.copies[q] = requests'[q].recorded
    BY <1>3 DEF DeletionInv, Fresh
  <2>2. overlapped = FALSE =>
          \A q \in Requests : requests'[q].status = "failed" => requests'[q].recorded = {}
    BY DEF DeletionInv, Fresh
  <2> QED BY <1>1, <1>3, <1>6, <1>7, <2>1, <2>2, FreshStep
<1> QED BY <1>7, <1>8 DEF DeletionInv

\* The check sends the run on, or to the error.
LEMMA CheckStep ==
  ASSUME DeletionTypes, DeletionInv, NEW j \in Jobs, Deletion!CheckAllowed(j)
  PROVE  DeletionTypes' /\ DeletionInv'
<1>1. jobs[j].at = "check" /\ UNCHANGED <<requests, left, writers, erased, carried, overlapped>>
  BY DEF Deletion!CheckAllowed, Deletion!history
<1>2. Deletion!Current(j) = Least(jobs[j].todo)
  BY <1>1, CurrentIsLeast
<1>3. PICK at \in {"run", "complete", "error"} :
        /\ Deletion!Goto(j, at)
        /\ at = "complete" => jobs[j].copies[Least(jobs[j].todo)] = Deletion!Kinds
        /\ at = "run" => jobs[j].copies[Least(jobs[j].todo)] # Deletion!Kinds
  BY <1>2 DEF Deletion!CheckAllowed, Deletion!Ahead
<1> QED BY <1>1, <1>3, GotoStep

\* A call that throws sends the run to the error.
LEMMA ThrowStep ==
  ASSUME DeletionTypes, DeletionInv, NEW j \in Jobs, Deletion!CallThrows(j)
  PROVE  DeletionTypes' /\ DeletionInv'
<1>1. /\ jobs[j].at # "rest" /\ UNCHANGED <<requests, left, writers, erased, carried, overlapped>>
      /\ Deletion!Goto(j, "error")
  BY DEF Deletion!CallThrows, Deletion!history
<1> QED BY <1>1, GotoStep

\* A step that is run erases its kind.
LEMMA RunStepStep ==
  ASSUME DeletionTypes, DeletionInv, NEW j \in Jobs, Deletion!RunStep(j)
  PROVE  DeletionTypes' /\ DeletionInv'
<1> DEFINE row == [jobs[j] EXCEPT !.at = "record", !.applied = TRUE]
<1>1. jobs[j].at = "run" /\ UNCHANGED <<requests, writers, carried, overlapped>>
  BY DEF Deletion!RunStep
<1>2. jobs[j] \in JobRow /\ jobs[j].todo # {} /\ Least(jobs[j].todo) \in Requests
  <2>1. jobs[j] \in JobRow /\ jobs[j].todo # {}
    BY <1>1 DEF DeletionTypes
  <2> QED BY <1>1, <2>1, CurrentIsLeast
<1>3. jobs' = [jobs EXCEPT ![j] = row]
  BY <1>2 DEF Deletion!RunStep, DeletionTypes
<1>4. row \in JobRow /\ row.at = "record" /\ row.todo = jobs[j].todo /\ row.copies = jobs[j].copies
  BY <1>2 DEF JobRow
<1> HIDE DEF row
<1>5. StepOf(row) = StepOf(jobs[j]) /\ Deletion!Step(j) = StepOf(jobs[j])
  <2>1. StepOf(row) = StepOf(jobs[j])
    BY <1>4 DEF StepOf
  <2> QED BY <1>1, <2>1, CurrentIsLeast
<1>6. PICK step : step = StepOf(jobs[j])
  OBVIOUS
<1>7. jobs[j].copies[Least(jobs[j].todo)] # Deletion!Kinds
  BY <1>1 DEF DeletionInv, ErasureInv, Complete
<1>8. step \in Deletion!Kinds
  <2>1. jobs[j].copies[Least(jobs[j].todo)] \in SUBSET Deletion!Kinds
    BY <1>2 DEF JobRow
  <2> QED BY <1>6, <1>7, <2>1, StepIsAKind DEF StepOf
<1>9. left' = [left EXCEPT ![step] = FALSE] /\ erased' = erased \cup {step}
  BY <1>5, <1>6 DEF Deletion!RunStep
<1>10. \A k \in Deletion!Kinds : left'[k] => left[k] /\ (k \in erased' => k \in erased)
  BY <1>8, <1>9 DEF DeletionTypes
<1>11. /\ requests' \in [Requests -> RequestRow] /\ left' \in [Deletion!Kinds -> BOOLEAN]
       /\ erased' \subseteq Deletion!Kinds /\ erased \subseteq erased' /\ overlapped' \in BOOLEAN
  BY <1>1, <1>8, <1>9 DEF DeletionTypes
<1>12. \A q \in Requests :
         /\ row.copies[q] \subseteq erased' /\ requests'[q].recorded \subseteq erased'
         /\ requests'[q].status = "completed" => Deletion!Kinds \subseteq erased'
  <2>1. \A q \in Requests :
          /\ row.copies[q] \subseteq erased /\ requests'[q].recorded \subseteq erased
          /\ requests'[q].status = "completed" => Deletion!Kinds \subseteq erased
    BY <1>1, <1>4 DEF DeletionInv, ErasureInv, Recorded, Complete
  <2> QED BY <1>11, <2>1
<1>13. StepOf(row) \in erased'
  BY <1>5, <1>6, <1>9
<1>14. ErasureInv /\ Fresh
  BY DEF DeletionInv
<1>15. DeletionTypes' /\ ErasureInv'
  BY <1>1, <1>2, <1>3, <1>4, <1>7, <1>10, <1>11, <1>12, <1>13, <1>14, JobStep
<1>16. Fresh'
  <2>1. overlapped = FALSE => \A q \in row.todo : row.copies[q] = requests'[q].recorded
    BY <1>1, <1>4 DEF DeletionInv, Fresh
  <2>2. overlapped = FALSE =>
          \A q \in Requests : requests'[q].status = "failed" => requests'[q].recorded = {}
    BY <1>1 DEF DeletionInv, Fresh
  <2> QED BY <1>1, <1>3, <1>4, <1>14, <1>15, <2>1, <2>2, FreshStep
<1> QED BY <1>15, <1>16 DEF DeletionInv

\* A step that is recorded was run, and completes the copy when it was the last.
LEMMA RecordStepStep ==
  ASSUME DeletionTypes, DeletionInv, NEW j \in Jobs, Deletion!RecordStep(j)
  PROVE  DeletionTypes' /\ DeletionInv'
<1>1. PICK q : q = Deletion!Current(j)
  OBVIOUS
<1>2. PICK done : done = requests[q].recorded \cup {Deletion!Step(j)}
  OBVIOUS
<1>3. jobs[j].at = "record" /\ UNCHANGED <<left, writers, erased, carried, overlapped>>
  BY DEF Deletion!RecordStep, Deletion!history
<1>4. /\ q \in jobs[j].todo /\ q \in Requests /\ q = Least(jobs[j].todo)
      /\ Deletion!Step(j) = StepOf(jobs[j])
  BY <1>1, <1>3, CurrentIsLeast
<1>5. CASE requests[q].status # "queued"
  <2>1. Deletion!Goto(j, "error") /\ UNCHANGED requests
    BY <1>1, <1>5 DEF Deletion!RecordStep
  <2> QED BY <1>3, <2>1, GotoStep
<1>6. CASE requests[q].status = "queued"
  <2> DEFINE row == [jobs[j] EXCEPT !.at = Deletion!Ahead(done), !.copies[q] = done]
  <2>1. jobs[j] \in JobRow /\ jobs[j].todo # {} /\ requests[q] \in RequestRow
    BY <1>3, <1>4 DEF DeletionTypes
  <2>2. /\ requests' = [requests EXCEPT ![q].recorded = done]
        /\ jobs' = [jobs EXCEPT ![j].at = Deletion!Ahead(done), ![j].copies[q] = done]
    BY <1>1, <1>2, <1>6 DEF Deletion!RecordStep
  <2>3. jobs' = [jobs EXCEPT ![j] = row]
    BY <2>1, <2>2 DEF DeletionTypes
  <2>4. StepOf(jobs[j]) \in erased /\ requests[q].recorded \subseteq erased
    BY <1>3, <1>4 DEF DeletionInv, ErasureInv, Recorded
  <2>5. done \subseteq erased /\ done \in SUBSET Deletion!Kinds
    BY <1>2, <1>4, <2>4 DEF DeletionTypes
  <2>6. /\ row \in JobRow /\ row.todo = jobs[j].todo /\ row.at = Deletion!Ahead(done)
        /\ row.copies = [jobs[j].copies EXCEPT ![q] = done]
        /\ jobs[j].copies \in [Requests -> SUBSET Deletion!Kinds]
    BY <2>1, <2>5 DEF JobRow, Deletion!Ahead
  <2> HIDE DEF row
  <2>7. \A p \in Requests : row.copies[p] = IF p = q THEN done ELSE jobs[j].copies[p]
    BY <2>6
  <2>8. /\ row.at # "rest" /\ row.at # "record"
        /\ row.at = "complete" => row.copies[Least(row.todo)] = Deletion!Kinds
        /\ row.at \in {"run", "record"} => row.copies[Least(row.todo)] # Deletion!Kinds
    BY <1>4, <2>6, <2>7 DEF Deletion!Ahead
  <2>9. \A p \in Requests : /\ requests'[p] \in RequestRow
                            /\ requests'[p].status = requests[p].status
                            /\ requests'[p].recorded =
                                 IF p = q THEN done ELSE requests[p].recorded
    <3>1. requests \in [Requests -> RequestRow]
      BY DEF DeletionTypes
    <3> QED BY <2>2, <2>5, <3>1 DEF RequestRow
  <2>10. requests' \in [Requests -> RequestRow]
    BY <2>2, <2>9 DEF DeletionTypes
  <2>11. \A p \in Requests :
           /\ row.copies[p] \subseteq erased' /\ requests'[p].recorded \subseteq erased'
           /\ requests'[p].status = "completed" => Deletion!Kinds \subseteq erased'
    BY <1>3, <2>5, <2>7, <2>9 DEF DeletionInv, ErasureInv, Recorded, Complete
  <2>12. /\ left' \in [Deletion!Kinds -> BOOLEAN]
         /\ erased' \subseteq Deletion!Kinds /\ erased \subseteq erased' /\ overlapped' \in BOOLEAN
         /\ ErasureInv /\ Fresh
    BY <1>3 DEF DeletionTypes, DeletionInv
  <2>13. DeletionTypes' /\ ErasureInv'
    BY <1>3, <2>1, <2>3, <2>6, <2>8, <2>10, <2>11, <2>12, JobStep
  <2>14. Fresh'
    <3>1. jobs[j].todo \subseteq Requests
      BY <2>1 DEF JobRow
    <3>2. overlapped = FALSE => \A p \in row.todo : row.copies[p] = requests'[p].recorded
      BY <2>6, <2>7, <2>9, <3>1 DEF DeletionInv, Fresh
    <3>3. overlapped = FALSE =>
            \A p \in Requests : requests'[p].status = "failed" => requests'[p].recorded = {}
      BY <1>6, <2>9 DEF DeletionInv, Fresh
    <3> QED BY <1>3, <2>3, <2>6, <2>12, <2>13, <3>2, <3>3, FreshStep
  <2> QED BY <2>13, <2>14 DEF DeletionInv
<1> QED BY <1>5, <1>6

\* A run that is done with its first request, in an order of the requests in which
\* nothing is recorded that was not, and nothing completed by another than it.
LEMMA NextRequestStep ==
  ASSUME DeletionTypes, DeletionInv, NEW j \in Jobs, jobs[j].at # "rest", Deletion!NextRequest(j),
         requests' \in [Requests -> RequestRow],
         UNCHANGED <<left, writers, erased, carried, overlapped>>,
         \A q \in Requests : requests'[q].recorded = requests[q].recorded,
         \A q \in Requests :
           requests'[q].status = "completed" => Deletion!Kinds \subseteq erased,
         overlapped = FALSE => \A q \in Requests :
           requests'[q].status = "failed" => requests'[q].recorded = {}
  PROVE  DeletionTypes' /\ DeletionInv'
<1>1. PICK q : q = Deletion!Current(j)
  OBVIOUS
<1>2. q \in jobs[j].todo /\ q \in Requests
  BY <1>1, CurrentIsLeast
<1>3. jobs[j] \in JobRow /\ jobs[j].todo # {}
  BY DEF DeletionTypes
<1> DEFINE next == [jobs[j] EXCEPT !.at = "check", !.todo = jobs[j].todo \ {q}, !.applied = FALSE,
                                   !.copies[q] = {}]
           row == IF jobs[j].todo \ {q} = {} THEN Deletion!Resting ELSE next
<1>4. jobs' = [jobs EXCEPT ![j] = row]
  BY <1>1 DEF Deletion!NextRequest
<1>5. /\ next \in JobRow /\ next.at = "check" /\ next.todo = jobs[j].todo \ {q}
      /\ next.copies = [jobs[j].copies EXCEPT ![q] = {}]
      /\ jobs[j].copies \in [Requests -> SUBSET Deletion!Kinds]
  BY <1>2, <1>3 DEF JobRow
<1>6. /\ Deletion!Resting \in JobRow /\ Deletion!Resting.at = "rest"
      /\ Deletion!Resting.todo = {} /\ \A p \in Requests : Deletion!Resting.copies[p] = {}
  BY DEF Deletion!Resting, JobRow
<1> HIDE DEF next
<1>7. /\ row \in JobRow /\ row.at \in {"rest", "check"}
      /\ row.at = "rest" => row = Deletion!Resting
      /\ row.at # "rest" => row.todo # {}
      /\ row.todo \subseteq jobs[j].todo \ {q}
      /\ \A p \in Requests : row.copies[p] \subseteq jobs[j].copies[p]
      /\ row.todo # {} => \A p \in Requests : p # q => row.copies[p] = jobs[j].copies[p]
  BY <1>2, <1>3, <1>5, <1>6
<1> HIDE DEF row
<1>8. \A p \in Requests : row.copies[p] \subseteq erased' /\ requests'[p].recorded \subseteq erased'
  BY <1>7 DEF DeletionInv, ErasureInv, Recorded
<1>9. /\ left' \in [Deletion!Kinds -> BOOLEAN] /\ overlapped' \in BOOLEAN
      /\ erased' \subseteq Deletion!Kinds /\ erased \subseteq erased' /\ ErasureInv /\ Fresh
  BY DEF DeletionTypes, DeletionInv
<1>10. DeletionTypes' /\ ErasureInv'
  BY <1>4, <1>7, <1>8, <1>9, JobStep
<1>11. overlapped = FALSE => \A p \in row.todo : row.copies[p] = requests'[p].recorded
  <2>1. jobs[j].todo \subseteq Requests
    BY <1>3 DEF JobRow
  <2> QED BY <1>7, <2>1 DEF DeletionInv, Fresh
<1>12. Fresh'
  BY <1>4, <1>7, <1>9, <1>10, <1>11, FreshStep
<1> QED BY <1>10, <1>12 DEF DeletionInv

\* A request is completed by a copy that has all the steps.
LEMMA CompleteStep ==
  ASSUME DeletionTypes, DeletionInv, NEW j \in Jobs, Deletion!CompleteRequest(j)
  PROVE  DeletionTypes' /\ DeletionInv'
<1>1. PICK q : q = Deletion!Current(j)
  OBVIOUS
<1>2. jobs[j].at = "complete" /\ UNCHANGED <<left, writers, erased, carried, overlapped>>
  BY DEF Deletion!CompleteRequest, Deletion!history
<1>3. q \in Requests /\ q = Least(jobs[j].todo)
  BY <1>1, <1>2, CurrentIsLeast
<1>4. CASE requests[q].status # "queued"
  <2>1. Deletion!Goto(j, "error") /\ UNCHANGED requests
    BY <1>1, <1>4 DEF Deletion!CompleteRequest
  <2> QED BY <1>2, <2>1, GotoStep
<1>5. CASE requests[q].status = "queued"
  <2>1. requests' = [requests EXCEPT ![q].status = "completed"] /\ Deletion!NextRequest(j)
    BY <1>1, <1>5 DEF Deletion!CompleteRequest
  <2>2. \A p \in Requests : /\ requests'[p] \in RequestRow
                            /\ requests'[p].recorded = requests[p].recorded
                            /\ requests'[p].status \in {requests[p].status, "completed"}
    <3>1. requests \in [Requests -> RequestRow]
      BY DEF DeletionTypes
    <3> QED BY <2>1, <3>1 DEF RequestRow
  <2>3. requests' \in [Requests -> RequestRow]
    BY <2>1, <2>2 DEF DeletionTypes
  <2>4. Deletion!Kinds \subseteq erased
    BY <1>2, <1>3 DEF DeletionInv, ErasureInv, Recorded, Complete
  <2>5. overlapped = FALSE => \A p \in Requests :
          requests'[p].status = "failed" => requests'[p].recorded = {}
    BY <2>2 DEF DeletionInv, Fresh
  <2> QED BY <1>2, <2>1, <2>2, <2>3, <2>4, <2>5, NextRequestStep
<1> QED BY <1>4, <1>5

\* A failure gives a request up only when its copy has no step.
LEMMA FailureStep ==
  ASSUME DeletionTypes, DeletionInv, NEW j \in Jobs, Deletion!RecordFailure(j)
  PROVE  DeletionTypes' /\ DeletionInv'
<1>1. PICK q : q = Deletion!Current(j)
  OBVIOUS
<1>2. PICK s : s = IF ~Deletion!Retryable(j) /\ requests[q].status = "queued"
                   THEN "failed" ELSE requests[q].status
  OBVIOUS
<1>3. /\ jobs[j].at = "error" /\ UNCHANGED <<left, writers, erased, carried, overlapped>>
      /\ Deletion!NextRequest(j)
  BY DEF Deletion!RecordFailure, Deletion!history
<1>4. q \in Requests /\ q = Least(jobs[j].todo) /\ q \in jobs[j].todo
  BY <1>1, <1>3, CurrentIsLeast
<1>5. requests[q] \in RequestRow
  BY <1>4 DEF DeletionTypes
<1>6. requests' = [requests EXCEPT ![q].status = s]
  BY <1>1, <1>2, <1>4, <1>5 DEF Deletion!RecordFailure, DeletionTypes
<1>7. \A p \in Requests : /\ requests'[p] \in RequestRow
                          /\ requests'[p].recorded = requests[p].recorded
                          /\ requests'[p].status = IF p = q THEN s ELSE requests[p].status
  <2>1. requests \in [Requests -> RequestRow]
    BY DEF DeletionTypes
  <2>2. s \in {requests[q].status, "failed"}
    BY <1>2
  <2> QED BY <1>4, <1>5, <1>6, <2>1, <2>2 DEF RequestRow
<1>8. requests' \in [Requests -> RequestRow]
  BY <1>6, <1>7 DEF DeletionTypes
<1>9. \A p \in Requests : requests'[p].status = "completed" => Deletion!Kinds \subseteq erased
  BY <1>2, <1>7 DEF DeletionInv, ErasureInv, Complete
<1>10. overlapped = FALSE => \A p \in Requests :
         requests'[p].status = "failed" => requests'[p].recorded = {}
  <2>1. ASSUME overlapped = FALSE, ~Deletion!Retryable(j) PROVE requests[q].recorded = {}
    <3>1. jobs[j].copies[q] = requests[q].recorded
      BY <1>4, <2>1 DEF DeletionInv, Fresh
    <3> QED BY <1>1, <2>1, <3>1 DEF Deletion!Retryable
  <2> QED BY <1>2, <1>7, <2>1 DEF DeletionInv, Fresh
<1> QED BY <1>3, <1>7, <1>8, <1>9, <1>10, NextRequestStep

\* A run that dies leaves the documents.
LEMMA MaintenanceDiesStep ==
  ASSUME DeletionTypes, DeletionInv, NEW j \in Jobs, Deletion!MaintenanceDies(j)
  PROVE  DeletionTypes' /\ DeletionInv'
<1> DEFINE row == Deletion!Resting
<1>1. /\ jobs' = [jobs EXCEPT ![j] = row] /\ jobs[j].at # "rest"
      /\ UNCHANGED <<requests, left, writers, erased, carried, overlapped>>
  BY DEF Deletion!MaintenanceDies, Deletion!history, DeletionTypes
<1>2. /\ row \in JobRow /\ row.at = "rest" /\ row.todo = {}
      /\ \A p \in Requests : row.copies[p] = {}
  BY DEF Deletion!Resting, JobRow
<1>3. row.at = "rest" => row = Deletion!Resting
  OBVIOUS
<1> HIDE DEF row
<1>4. /\ requests' \in [Requests -> RequestRow] /\ left' \in [Deletion!Kinds -> BOOLEAN]
      /\ erased' \subseteq Deletion!Kinds /\ erased \subseteq erased' /\ overlapped' \in BOOLEAN
      /\ ErasureInv /\ Fresh
  BY <1>1 DEF DeletionTypes, DeletionInv
<1>5. \A q \in Requests :
        /\ row.copies[q] \subseteq erased' /\ requests'[q].recorded \subseteq erased'
        /\ requests'[q].status = "completed" => Deletion!Kinds \subseteq erased'
  BY <1>1, <1>2 DEF DeletionInv, ErasureInv, Recorded, Complete
<1>6. DeletionTypes' /\ ErasureInv'
  BY <1>1, <1>2, <1>3, <1>4, <1>5, JobStep
<1>7. overlapped = FALSE =>
        \A q \in Requests : requests'[q].status = "failed" => requests'[q].recorded = {}
  BY <1>1 DEF DeletionInv, Fresh
<1>8. Fresh'
  BY <1>1, <1>2, <1>4, <1>6, <1>7, FreshStep
<1> QED BY <1>6, <1>8 DEF DeletionInv

\* What others do leaves what was recorded.
LEMMA JobsRest ==
  ASSUME DeletionTypes, DeletionInv, UNCHANGED <<requests, jobs, erased, overlapped>>
  PROVE  Recorded' /\ Complete' /\ Fresh'
<1>1. Recorded'
  <2>1. \A i \in Jobs : jobs'[i].at = "record" => StepOf(jobs'[i]) \in erased'
    BY DEF DeletionInv, ErasureInv, Recorded
  <2>2. \A i \in Jobs : (jobs[i].at = "record" => StepOf(jobs[i]) \in erased)'
    BY <2>1 DEF StepOf, Deletion!NextStep, Deletion!StepOrder, Least
  <2> QED BY <2>2 DEF DeletionInv, ErasureInv, Recorded
<1>2. Complete'
  BY DEF DeletionInv, ErasureInv, Complete, Least, Deletion!Kinds, Deletion!StepOrder
<1>3. Fresh'
  BY DEF DeletionInv, Fresh
<1> QED BY <1>1, <1>2, <1>3

\* Who reads for a write reads what was put before the end, or from elsewhere.
LEMMA WriteStep ==
  ASSUME DeletionTypes, DeletionInv, NEW w \in Writers, NEW k \in Written,
         Deletion!BeginWrite(w, k)
  PROVE  DeletionTypes' /\ DeletionInv'
<1>1. PICK given \in BOOLEAN, carries \in BOOLEAN :
        /\ carries = (\/ given \/ ~Deletion!Ended
                      \/ \E s \in Deletion!Sources[k] : left[s] /\ s \in carried)
        /\ writers' = [writers EXCEPT ![w] = [kind |-> k, carries |-> carries]]
        /\ ~given => \E s \in Deletion!Sources[k] : left[s]
  BY DEF Deletion!BeginWrite
<1>2. /\ writers' = [writers EXCEPT ![w] = [kind |-> k, carries |-> carries]]
      /\ UNCHANGED <<requests, left, jobs, erased, carried, overlapped>>
  BY <1>1 DEF Deletion!BeginWrite, Deletion!history
<1>3. k \in Deletion!Kinds
  BY MaintenanceAssumption DEF Deletion!DeletionAssumption
<1>4. carries
  <2> SUFFICES ASSUME ~given
               PROVE  carries
    BY <1>1
  <2>1. PICK s \in Deletion!Sources[k] : left[s]
    BY <1>1
  <2>2. s \in Deletion!Kinds
    <3>1. Deletion!StepOrder = <<"tokens", "reservations", "emails", "exports", "orders",
                                 "entitlements", "licenses", "customer">>
      BY DEF Deletion!StepOrder
    <3>2. Deletion!Kinds = {"tokens", "reservations", "emails", "exports", "orders",
                            "entitlements", "licenses", "customer"}
      BY <3>1 DEF Deletion!Kinds
    <3>3. \A x \in Deletion!Kinds : Deletion!Sources[x] \subseteq Deletion!Kinds
      BY <3>2 DEF Deletion!Sources
    <3> QED BY <1>3, <2>1, <3>3
  <2>3. ASSUME Deletion!Ended PROVE s \in carried
    <3>1. Deletion!Kinds \subseteq erased
      BY <2>3 DEF Deletion!Ended, DeletionInv, ErasureInv, Complete
    <3> QED BY <2>1, <2>2, <3>1 DEF DeletionInv, ErasureInv, Erasure
  <2> QED BY <1>1, <2>1, <2>3
<1>5. DeletionTypes'
  BY <1>2, <1>3, <1>4 DEF DeletionTypes, Deletion!Resting, Deletion!Kinds, Deletion!StepOrder
<1>6. Early'
  BY <1>2, <1>4 DEF DeletionTypes, DeletionInv, ErasureInv, Early, Deletion!NoWrite
<1>7. Erasure' /\ Recorded' /\ Complete' /\ Fresh'
  <2>1. Erasure'
    BY <1>2 DEF DeletionInv, ErasureInv, Erasure
  <2> QED BY <1>2, <2>1, JobsRest
<1> QED BY <1>5, <1>6, <1>7 DEF DeletionInv, ErasureInv

\* What is put is carried.
LEMMA PutWriteStep ==
  ASSUME DeletionTypes, DeletionInv, NEW w \in Writers, Deletion!PutWrite(w)
  PROVE  DeletionTypes' /\ DeletionInv'
<1>1. PICK kind : kind = writers[w].kind
  OBVIOUS
<1>2. writers[w].carries
  BY DEF Deletion!PutWrite, DeletionInv, ErasureInv, Early
<1>3. /\ left' = [left EXCEPT ![kind] = TRUE] /\ carried' = carried \cup {kind}
      /\ writers' = [writers EXCEPT ![w] = Deletion!NoWrite]
      /\ UNCHANGED <<requests, jobs, erased, overlapped>>
  BY <1>1, <1>2 DEF Deletion!PutWrite
<1>4. kind \in Deletion!Kinds
  BY <1>1 DEF Deletion!PutWrite, DeletionTypes
<1>5. \A x \in Writers : writers'[x] = IF x = w THEN Deletion!NoWrite ELSE writers[x]
  BY <1>3 DEF DeletionTypes
<1>6. DeletionTypes'
  <2>1. /\ left' \in [Deletion!Kinds -> BOOLEAN] /\ carried' \subseteq Deletion!Kinds
        /\ requests' \in [Requests -> RequestRow] /\ jobs' \in [Jobs -> JobRow]
        /\ erased' \subseteq Deletion!Kinds /\ overlapped' \in BOOLEAN
    BY <1>3, <1>4 DEF DeletionTypes
  <2>2. /\ \A j \in Jobs : jobs'[j].at # "rest" => jobs'[j].todo # {}
        /\ \A j \in Jobs : jobs'[j].at = "rest" => jobs'[j] = Deletion!Resting
    BY <1>3 DEF DeletionTypes
  <2>3. writers' \in [Writers -> [kind : Deletion!Kinds \cup {"none"}, carries : BOOLEAN]]
    BY <1>3 DEF DeletionTypes, Deletion!NoWrite
  <2>4. \A x \in Writers : writers'[x] # Deletion!NoWrite => writers'[x].kind \in Deletion!Kinds
    BY <1>5 DEF DeletionTypes
  <2> QED BY <2>1, <2>2, <2>3, <2>4 DEF DeletionTypes, Deletion!Resting, Deletion!NoWrite,
             Deletion!Kinds, Deletion!StepOrder
<1>7. Early'
  <2>1. \A x \in Writers : writers'[x] # Deletion!NoWrite => writers'[x].carries
    BY <1>5 DEF DeletionInv, ErasureInv, Early
  <2> QED BY <2>1 DEF Early, Deletion!NoWrite
<1>8. Erasure'
  BY <1>3, <1>4 DEF DeletionTypes, DeletionInv, ErasureInv, Erasure
<1>9. Recorded' /\ Complete' /\ Fresh'
  BY <1>3, JobsRest
<1> QED BY <1>6, <1>7, <1>8, <1>9 DEF DeletionInv, ErasureInv

\* A step of nothing that is erased, recorded or written.
LEMMA OthersStep ==
  ASSUME DeletionTypes, DeletionInv,
         UNCHANGED <<requests, left, jobs, writers, erased, carried, overlapped>>
  PROVE  DeletionTypes' /\ DeletionInv'
<1>1. DeletionTypes'
  BY DEF DeletionTypes, Deletion!Resting, Deletion!NoWrite, Deletion!Kinds, Deletion!StepOrder
<1>2. Erasure' /\ Early'
  BY DEF DeletionInv, ErasureInv, Erasure, Early, Deletion!NoWrite
<1>3. Recorded' /\ Complete' /\ Fresh'
  BY JobsRest
<1> QED BY <1>1, <1>2, <1>3 DEF DeletionInv, ErasureInv

\* Every step of the tasks preserves the invariants of the deletion.
LEMMA DeletionStep ==
  ASSUME DeletionTypes, DeletionInv, [MaintenanceNext]_allVars
  PROVE  DeletionTypes' /\ DeletionInv'
<1>1. CASE UNCHANGED <<requests, left, jobs, writers, erased, carried, overlapped>>
  BY <1>1, OthersStep
<1>2. CASE \E q \in Requests : Deletion!AskDeletion(q) \/ Deletion!PutRequest(q)
  BY <1>2, RequestStep
<1>3. CASE Deletion!BeginPurchase \/ Deletion!EndPurchase
  <2>1. UNCHANGED <<requests, left, jobs, writers, erased, carried, overlapped>>
    BY <1>3 DEF Deletion!BeginPurchase, Deletion!EndPurchase, Deletion!history
  <2> QED BY <2>1, OthersStep
<1>4. CASE \E j \in Jobs :
             \/ Deletion!BeginMaintenance(j) \/ Deletion!CheckAllowed(j) \/ Deletion!RunStep(j)
             \/ Deletion!RecordStep(j) \/ Deletion!CompleteRequest(j)
             \/ Deletion!RecordFailure(j) \/ Deletion!CallThrows(j)
             \/ Deletion!MaintenanceDies(j)
  BY <1>4, BeginStep, CheckStep, RunStepStep, RecordStepStep, CompleteStep, FailureStep,
     ThrowStep, MaintenanceDiesStep
<1>5. CASE \E w \in Writers : Deletion!PutWrite(w) \/ \E k \in Written : Deletion!BeginWrite(w, k)
  BY <1>5, PutWriteStep, WriteStep
<1>6. \/ UNCHANGED deletionVars
      \/ \E q \in Requests : Deletion!AskDeletion(q) \/ Deletion!PutRequest(q)
      \/ Deletion!BeginPurchase \/ Deletion!EndPurchase
      \/ \E j \in Jobs :
           \/ Deletion!BeginMaintenance(j) \/ Deletion!CheckAllowed(j) \/ Deletion!RunStep(j)
           \/ Deletion!RecordStep(j) \/ Deletion!CompleteRequest(j)
           \/ Deletion!RecordFailure(j) \/ Deletion!CallThrows(j)
           \/ Deletion!MaintenanceDies(j)
      \/ \E w \in Writers : Deletion!PutWrite(w) \/ \E k \in Written : Deletion!BeginWrite(w, k)
  BY DEF MaintenanceNext, allVars, OnlyOutbox, OnlyRetries
<1> QED BY <1>1, <1>2, <1>3, <1>4, <1>5, <1>6 DEF deletionVars

\* In the beginning nothing is erased and nobody is at work.
LEMMA DeletionBegins ==
  ASSUME Deletion!DeletionInit
  PROVE  DeletionTypes /\ DeletionInv
<1>1. /\ \A q \in Requests : requests[q] = Deletion!Absent
      /\ \A j \in Jobs : jobs[j] = Deletion!Resting
      /\ \A w \in Writers : writers[w] = Deletion!NoWrite
      /\ erased = {} /\ carried = {} /\ overlapped = FALSE
  BY DEF Deletion!DeletionInit
<1>2. /\ Deletion!Absent \in RequestRow /\ Deletion!Resting \in JobRow
      /\ Deletion!NoWrite \in [kind : Deletion!Kinds \cup {"none"}, carries : BOOLEAN]
  BY DEF Deletion!Absent, Deletion!Resting, Deletion!NoWrite, RequestRow, JobRow
<1>3. /\ Deletion!Absent.recorded = {} /\ Deletion!Absent.status = "none"
      /\ Deletion!Resting.at = "rest" /\ Deletion!Resting.todo = {}
      /\ \A q \in Requests : Deletion!Resting.copies[q] = {}
  BY DEF Deletion!Absent, Deletion!Resting
<1>4. DeletionTypes
  BY <1>1, <1>2, <1>3 DEF Deletion!DeletionInit, DeletionTypes
<1>5. DeletionInv
  BY <1>1, <1>3 DEF DeletionInv, ErasureInv, Erasure, Early, Recorded, Complete, Fresh
<1> QED BY <1>4, <1>5

\* The invariants of the deletion hold.
LEMMA DeletionInvariant == MaintenanceSpec => [](DeletionTypes /\ DeletionInv)
<1>1. MaintenanceInit => DeletionTypes /\ DeletionInv
  BY DeletionBegins DEF MaintenanceInit
<1>2. DeletionTypes /\ DeletionInv /\ [MaintenanceNext]_allVars => (DeletionTypes /\ DeletionInv)'
  BY DeletionStep
<1> QED BY <1>1, <1>2, PTL DEF MaintenanceSpec

\* After a completed deletion nothing of the customer is stored, but for what a handler
\* wrote from what it had read before the deletion ended, from what a visitor or a payment
\* event gave it, or from data that was stored in one of these ways.
THEOREM ErasedWhenCompleted == MaintenanceSpec => []CompletedIsErased
<1>1. DeletionInv => CompletedIsErased
  BY DEF DeletionInv, ErasureInv, Erasure, Complete, CompletedIsErased,
         Deletion!CompletedIsErased
<1> QED BY <1>1, DeletionInvariant, PTL

\* A request with a recorded step is given up only when runs overlapped; what a run erased
\* and did not come to record does not count.
THEOREM ResumedWhenHalfErased == MaintenanceSpec => []HalfErasedIsResumed
<1>1. DeletionTypes /\ DeletionInv => HalfErasedIsResumed
  BY DEF DeletionTypes, DeletionInv, Fresh, HalfErasedIsResumed, Deletion!HalfErasedIsResumed
<1> QED BY <1>1, DeletionInvariant, PTL

----------------------------------------------------------------------------
(* The outbox: steps *)

One(b) == IF b THEN 1 ELSE 0

\* The runs that are about to send a message can be counted.
LEMMA SendersAreFinite ==
  ASSUME NEW e
  PROVE  IsFiniteSet(Senders(e)) /\ Cardinality(Senders(e)) \in Nat
<1>1. Senders(e) \subseteq Runs
  BY DEF Senders
<1>2. IsFiniteSet(Runs)
  BY OutboxAssumption
<1>3. IsFiniteSet(Senders(e))
  BY <1>1, <1>2, FS_Subset
<1> QED BY <1>3, FS_CardinalityType

\* A step of one run changes the count by that run.
LEMMA SendersChange ==
  ASSUME OutboxTypes, NEW r \in Runs, NEW row, runs' = [runs EXCEPT ![r] = row], NEW e
  PROVE  Cardinality(Senders(e)') =
           Cardinality(Senders(e)) - One(Sending(runs[r], e)) + One(Sending(row, e))
<1>1. \A s \in Runs : runs'[s] = IF s = r THEN row ELSE runs[s]
  BY DEF OutboxTypes
<1>2. Senders(e)' = {s \in Runs : Sending(runs'[s], e)}
  BY DEF Senders, Sending
<1>3. IsFiniteSet(Senders(e)) /\ Cardinality(Senders(e)) \in Nat
  BY SendersAreFinite
<1>4. r \in Senders(e) <=> Sending(runs[r], e)
  BY DEF Senders
<1>5. CASE Sending(row, e)
  <2>1. Senders(e)' = Senders(e) \cup {r}
    BY <1>1, <1>2, <1>5 DEF Senders
  <2> QED BY <1>3, <1>4, <1>5, <2>1, FS_AddElement DEF One
<1>6. CASE ~Sending(row, e)
  <2>1. Senders(e)' = Senders(e) \ {r}
    BY <1>1, <1>2, <1>6 DEF Senders
  <2>2. Cardinality(Senders(e) \ {r}) =
          IF r \in Senders(e) THEN Cardinality(Senders(e)) - 1 ELSE Cardinality(Senders(e))
    BY <1>3, FS_RemoveElement
  <2> QED BY <1>3, <1>4, <1>6, <2>1, <2>2 DEF One
<1> QED BY <1>5, <1>6

\* A message has at most maxAttempts attempts.
LEMMA AttemptsAreNat ==
  ASSUME NEW letter \in Kept
  PROVE  MaxAttempts \in Nat /\ letter.attempts \in Nat /\ letter.attempts <= MaxAttempts
<1>1. MaxAttempts \in Nat
  BY OutboxAssumption
<1>2. letter.attempts \in 0..MaxAttempts
  BY DEF Kept
<1> QED BY <1>1, <1>2

\* maxAttempts for one resend more.
LEMMA Product ==
  ASSUME NEW n \in Nat
  PROVE  /\ MaxAttempts * n \in Nat
         /\ MaxAttempts * (n + 1) = MaxAttempts * n + MaxAttempts
<1>1. MaxAttempts \in Nat
  BY OutboxAssumption
<1> QED BY <1>1

\* How often a message was queued again is a number.
LEMMA PutsType ==
  ASSUME OutboxTypes, Counted, NEW e \in Emails
  PROVE  Puts(e) \in Nat
<1>1. resends[e] \in ResendRow
  BY DEF OutboxTypes
<1>2. resends[e].count \in Nat /\ resends[e].open \in BOOLEAN
  BY <1>1 DEF ResendRow
<1>3. (resends[e].open => resends[e].count > 0) /\ requeued[e] \in Nat
  BY DEF Counted, OutboxTypes
<1> QED BY <1>2, <1>3 DEF Puts

\* A step of one run, by what it does to the counts.
LEMMA RunnerStep ==
  ASSUME OutboxTypes, OutboxInv, NEW r \in Runs, NEW row \in RunRow,
         runs' = [runs EXCEPT ![r] = row], row.step # "idle" => row.todo # <<>>,
         emails' \in [Emails -> Kept], Leasable', sends' \in [Emails -> Nat],
         UNCHANGED <<resends, requeued, now>>,
         \A e \in Emails :
           sends'[e] + One(Sending(row, e)) + emails[e].attempts
             <= sends[e] + One(Sending(runs[r], e)) + emails'[e].attempts
  PROVE  OutboxTypes' /\ OutboxInv'
<1>1. OutboxTypes'
  BY DEF OutboxTypes
<1>2. Counted'
  <2> SUFFICES ASSUME NEW e \in Emails
               PROVE  /\ resends'[e].open => resends'[e].count > 0
                      /\ sends'[e] + Cardinality(Senders(e)')
                           <= emails'[e].attempts + MaxAttempts * Puts(e)'
    BY DEF Counted
  <2>1. Puts(e)' = Puts(e) /\ Puts(e) \in Nat
    BY PutsType DEF OutboxInv, Puts
  <2>2. /\ sends[e] \in Nat /\ sends'[e] \in Nat
        /\ emails[e].attempts \in Nat /\ emails'[e].attempts \in Nat
    <3>1. emails[e] \in Kept /\ emails'[e] \in Kept
      BY DEF OutboxTypes
    <3> QED BY <3>1, AttemptsAreNat DEF OutboxTypes
  <2>3. Cardinality(Senders(e)) \in Nat /\ MaxAttempts * Puts(e) \in Nat
    BY <2>1, Product, SendersAreFinite
  <2>4. Cardinality(Senders(e)') =
          Cardinality(Senders(e)) - One(Sending(runs[r], e)) + One(Sending(row, e))
    BY SendersChange
  <2>5. One(Sending(runs[r], e)) \in Nat /\ One(Sending(row, e)) \in Nat
    BY DEF One
  <2>6. /\ resends[e].open => resends[e].count > 0
        /\ sends[e] + Cardinality(Senders(e)) <= emails[e].attempts + MaxAttempts * Puts(e)
    BY DEF OutboxInv, Counted
  <2>7. sends'[e] + Cardinality(Senders(e)')
          <= emails'[e].attempts + MaxAttempts * Puts(e)
    <3>1. PICK c \in Nat, p \in Nat, x \in Nat, y \in Nat :
            /\ c = Cardinality(Senders(e)) /\ p = MaxAttempts * Puts(e)
            /\ x = One(Sending(runs[r], e)) /\ y = One(Sending(row, e))
      BY <2>3, <2>5
    <3>2. PICK s \in Nat, t \in Nat, a \in Nat, b \in Nat :
            s = sends[e] /\ t = sends'[e] /\ a = emails[e].attempts /\ b = emails'[e].attempts
      BY <2>2
    <3>3. s + c <= a + p
      BY <2>6, <3>1, <3>2
    <3>4. t + y + a <= s + x + b
      BY <3>1, <3>2
    <3>5. t + (c - x + y) <= b + p
      BY <3>3, <3>4
    <3> QED BY <2>4, <3>1, <3>2, <3>5
  <2> QED BY <2>1, <2>6, <2>7
<1> QED BY <1>1, <1>2 DEF OutboxInv

\* A settled message has its shape, its attempts and no lease.
LEMMA SettledIsKept ==
  ASSUME NEW letter \in Kept, NEW status \in {"queued", "failed", "sent", "skipped"},
         NEW next \in Int, NEW error \in BOOLEAN
  PROVE  /\ Settled(letter, status, next, error) \in Kept
         /\ Settled(letter, status, next, error).key = Nobody
         /\ Settled(letter, status, next, error).status = status
         /\ Settled(letter, status, next, error).attempts = letter.attempts
         /\ Settled(letter, status, next, error).redacted = letter.redacted
<1>1. /\ Settled(letter, status, next, error).key = Nobody
      /\ Settled(letter, status, next, error).status = status
      /\ Settled(letter, status, next, error).attempts = letter.attempts
      /\ Settled(letter, status, next, error).redacted = letter.redacted
  BY DEF Settled, Kept
<1>2. Settled(letter, status, next, error) \in Kept
  <2>1. PICK none \in Int : none = None
    BY DEF None
  <2>2. PICK nobody \in Runs \cup {Nobody} : nobody = Nobody
    OBVIOUS
  <2>3. [letter EXCEPT !.status = status, !.next = next, !.key = nobody, !.ends = none,
                      !.error = error] \in Kept
    BY DEF Kept
  <2> QED BY <2>1, <2>2, <2>3 DEF Settled
<1> QED BY <1>1, <1>2

\* A run that is past the sending of a message: the message is settled or stays.
LEMMA SettleStep ==
  ASSUME OutboxTypes, OutboxInv, NEW r \in Runs, NEW row \in RunRow,
         runs' = [runs EXCEPT ![r] = row], row.step # "idle" => row.todo # <<>>,
         \A e \in Emails : ~Sending(row, e),
         UNCHANGED <<resends, requeued, now, sends>>,
         \/ UNCHANGED emails
         \/ \E e \in Emails, status \in {"failed", "sent", "skipped"}, next \in Int,
              error \in BOOLEAN : Update(e, Settled(emails[e], status, next, error))
  PROVE  OutboxTypes' /\ OutboxInv'
<1>1. emails' \in [Emails -> Kept] /\ Leasable'
      /\ \A e \in Emails : emails'[e].attempts = emails[e].attempts
  <2>1. CASE UNCHANGED emails
    BY <2>1 DEF OutboxTypes, OutboxInv, Leasable
  <2>2. ASSUME NEW e \in Emails, NEW status \in {"failed", "sent", "skipped"}, NEW next \in Int,
               NEW error \in BOOLEAN, Update(e, Settled(emails[e], status, next, error))
        PROVE  emails' \in [Emails -> Kept] /\ Leasable'
               /\ \A d \in Emails : emails'[d].attempts = emails[d].attempts
    <3>1. PICK letter : letter = Settled(emails[e], status, next, error)
      OBVIOUS
    <3>2. emails[e] \in Kept
      BY DEF OutboxTypes
    <3>3. letter \in Kept /\ letter.key = Nobody /\ letter.attempts = emails[e].attempts
      BY <3>1, <3>2, SettledIsKept
    <3>4. emails' = [emails EXCEPT ![e] = letter]
      BY <2>2, <3>1 DEF Update
    <3>5. \A d \in Emails : emails'[d] = IF d = e THEN letter ELSE emails[d]
      BY <3>4 DEF OutboxTypes
    <3> QED BY <3>3, <3>4, <3>5 DEF OutboxTypes, OutboxInv, Leasable
  <2> QED BY <2>1, <2>2
<1>2. \A e \in Emails :
        sends'[e] + One(Sending(row, e)) + emails[e].attempts
          <= sends[e] + One(Sending(runs[r], e)) + emails'[e].attempts
  <2> SUFFICES ASSUME NEW e \in Emails
               PROVE  sends'[e] + One(Sending(row, e)) + emails[e].attempts
                        <= sends[e] + One(Sending(runs[r], e)) + emails'[e].attempts
    OBVIOUS
  <2>1. emails[e] \in Kept
    BY DEF OutboxTypes
  <2>2. emails[e].attempts \in 0..MaxAttempts /\ MaxAttempts \in Nat
    BY <2>1, AttemptsAreNat DEF Kept
  <2>3. sends[e] \in Nat /\ sends' = sends
    BY DEF OutboxTypes
  <2>4. One(Sending(row, e)) = 0
    BY DEF One
  <2>5. One(Sending(runs[r], e)) \in Nat
    BY DEF One
  <2> QED BY <1>1, <2>2, <2>3, <2>4, <2>5
<1>3. sends' \in [Emails -> Nat]
  BY DEF OutboxTypes
<1> QED BY <1>1, <1>2, <1>3, RunnerStep

\* A queued message and an idle run have their shape.
LEMMA QueuedIsKept ==
  /\ Queued \in Kept /\ Queued.key = Nobody /\ Queued.attempts = 0
  /\ Idle \in RunRow /\ Idle.step = "idle" /\ Idle.todo = <<>>
<1>1. /\ Queued.key = Nobody /\ Queued.attempts = 0
      /\ Idle.step = "idle" /\ Idle.todo = <<>>
  BY DEF Queued, Idle
<1>2. 0 \in 0..MaxAttempts
  BY OutboxAssumption
<1>3. Queued \in Kept
  BY <1>2 DEF Queued, Kept, None
<1>4. Idle \in RunRow
  BY <1>3 DEF Idle, RunRow, Steps, None
<1> QED BY <1>1, <1>3, <1>4

\* A run at work has a message.
LEMMA RunIsARow ==
  ASSUME OutboxTypes, NEW r \in Runs
  PROVE  /\ runs[r] \in RunRow /\ runs[r].at \in Nat /\ runs[r].todo \in Seq(Emails)
         /\ runs[r].email \in Kept
         /\ runs[r].step # "idle" => runs[r].todo # <<>>
<1>1. runs[r] \in RunRow
  BY DEF OutboxTypes
<1>2. runs[r].at \in Nat /\ runs[r].todo \in Seq(Emails) /\ runs[r].email \in Kept
  BY <1>1 DEF RunRow
<1> QED BY <1>1, <1>2 DEF OutboxTypes

\* A run that goes on to the next message sends none.
LEMMA ProceedRow ==
  ASSUME OutboxTypes, NEW r \in Runs, runs[r].step # "idle", Proceed(r)
  PROVE  \E row \in RunRow :
           /\ runs' = [runs EXCEPT ![r] = row]
           /\ row.step # "idle" => row.todo # <<>>
           /\ \A e \in Emails : ~Sending(row, e)
<1>1. runs[r] \in RunRow /\ runs[r].todo \in Seq(Emails) /\ runs[r].todo # <<>>
  BY RunIsARow
<1>2. PICK others \in Seq(Emails) : others = Tail(runs[r].todo)
  <2>1. PICK todo \in Seq(Emails) : todo = runs[r].todo /\ todo # <<>>
    BY <1>1
  <2>2. Tail(todo) \in Seq(Emails)
    BY <2>1
  <2> QED BY <2>1, <2>2
<1>3. CASE others = <<>>
  <2>1. runs' = [runs EXCEPT ![r] = Idle]
    BY <1>2, <1>3 DEF Proceed
  <2> QED BY <2>1, QueuedIsKept DEF Sending
<1>4. CASE others # <<>>
  <2> DEFINE row == [runs[r] EXCEPT !.step = "lease", !.todo = others, !.email = Queued]
  <2>1. runs' = [runs EXCEPT ![r] = row]
    BY <1>2, <1>4 DEF Proceed
  <2>2. row \in RunRow /\ row.step = "lease" /\ row.todo = others
    BY <1>1, QueuedIsKept DEF RunRow, Steps
  <2> HIDE DEF row
  <2> QED BY <1>4, <2>1, <2>2 DEF Sending
<1> QED BY <1>3, <1>4

\* A run that goes to a step stays with its message.
LEMMA GoRow ==
  ASSUME OutboxTypes, NEW r \in Runs, runs[r].step # "idle", NEW step \in Steps, Go(r, step)
  PROVE  \E row \in RunRow :
           /\ runs' = [runs EXCEPT ![r] = row]
           /\ row.step = step /\ row.todo = runs[r].todo /\ row.todo # <<>>
<1> DEFINE row == [runs[r] EXCEPT !.step = step]
<1>1. runs[r] \in RunRow /\ runs[r].todo # <<>>
  BY RunIsARow
<1>2. runs' = [runs EXCEPT ![r] = row]
  BY DEF Go, OutboxTypes
<1>3. row \in RunRow /\ row.step = step /\ row.todo = runs[r].todo
  BY <1>1 DEF RunRow, Steps
<1> QED BY <1>1, <1>2, <1>3

\* A run that begins lists what is due and has leased nothing.
LEMMA BeginRunStep ==
  ASSUME OutboxTypes, OutboxInv, NEW r \in Runs, BeginRun(r)
  PROVE  OutboxTypes' /\ OutboxInv'
<1>1. PICK listing \in Listings :
        runs' = [runs EXCEPT ![r] = [Idle EXCEPT !.step = "lease", !.at = now, !.todo = listing]]
  BY DEF BeginRun
<1>2. listing \in Seq(Emails) /\ listing # <<>>
  <2>1. DueEmails \subseteq Emails /\ DueEmails # {} /\ IsFiniteSet(DueEmails)
    <3>1. DueEmails \subseteq Emails
      BY DEF DueEmails
    <3> QED BY <3>1, OutboxAssumption, FS_Subset DEF BeginRun
  <2>2. Cardinality(DueEmails) \in Nat /\ Cardinality(DueEmails) # 0
    BY <2>1, FS_CardinalityType, FS_EmptySet
  <2>3. PICK n \in Nat : n = Cardinality(DueEmails) /\ n # 0
    BY <2>2
  <2>4. listing \in [1..n -> Emails]
    BY <2>1, <2>3 DEF Listings
  <2>5. listing \in Seq(Emails) /\ Len(listing) = n
    BY <2>4
  <2> QED BY <2>3, <2>5
<1> DEFINE row == [Idle EXCEPT !.step = "lease", !.at = now, !.todo = listing]
<1>3. now \in Nat
  BY DEF OutboxTypes
<1>4. row \in RunRow /\ row.step = "lease" /\ row.todo = listing
  BY <1>2, <1>3, QueuedIsKept DEF RunRow, Steps
<1>5. \A e \in Emails : ~Sending(row, e)
  BY <1>4 DEF Sending
<1>6. UNCHANGED <<emails, resends, requeued, now, sends>>
  BY DEF BeginRun
<1> HIDE DEF row
<1> QED BY <1>1, <1>2, <1>4, <1>5, <1>6, SettleStep DEF row

\* A lease counts one attempt more.
LEMMA LeasedIsKept ==
  ASSUME OutboxTypes, NEW r \in Runs, NEW e \in Emails, Due(emails[e], runs[r].at)
  PROVE  /\ Leased(emails[e], r) \in Kept
         /\ Leased(emails[e], r).status \in {"queued", "failed"}
         /\ Leased(emails[e], r).attempts = emails[e].attempts + 1
         /\ Leased(emails[e], r).status = emails[e].status
         /\ Leased(emails[e], r).redacted = emails[e].redacted
<1>1. emails[e] \in Kept /\ runs[r].at \in Nat
  BY RunIsARow DEF OutboxTypes
<1>2. PICK until \in Int : until = runs[r].at + LeaseTime
  BY <1>1, OutboxAssumption
<1>3. PICK attempts \in 0..MaxAttempts : attempts = emails[e].attempts + 1
  BY <1>1, AttemptsAreNat DEF Due
<1>4. PICK key \in Runs \cup {Nobody} : key = r
  OBVIOUS
<1>5. Leased(emails[e], r) = [emails[e] EXCEPT !.attempts = attempts, !.next = until,
                                !.error = FALSE, !.key = key, !.ends = until]
  BY <1>2, <1>3, <1>4 DEF Leased
<1>6. [emails[e] EXCEPT !.attempts = attempts, !.next = until, !.error = FALSE, !.key = key,
                        !.ends = until] \in Kept
  BY <1>1 DEF Kept
<1>7. /\ Leased(emails[e], r).attempts = attempts
      /\ Leased(emails[e], r).status = emails[e].status
      /\ Leased(emails[e], r).redacted = emails[e].redacted
  BY <1>1, <1>5 DEF Kept
<1> QED BY <1>3, <1>5, <1>6, <1>7 DEF Due

\* A lease is counted before the run sends.
LEMMA LeaseStep ==
  ASSUME OutboxTypes, OutboxInv, NEW r \in Runs, LeaseEmail(r)
  PROVE  OutboxTypes' /\ OutboxInv'
<1>1. PICK e \in Emails :
        /\ At(r, e, "lease")
        /\ IF Due(emails[e], runs[r].at)
           THEN /\ Update(e, Leased(emails[e], r))
                /\ runs' = [runs EXCEPT ![r].step = "prepare", ![r].email = Leased(emails[e], r)]
           ELSE UNCHANGED emails /\ Proceed(r)
        /\ UNCHANGED <<resends, requeued, now, sends>>
  BY DEF LeaseEmail
<1>2. runs[r].step = "lease" /\ e = Head(runs[r].todo)
  BY <1>1 DEF At, Current
<1>3. CASE ~Due(emails[e], runs[r].at)
  <2>1. PICK row \in RunRow : /\ runs' = [runs EXCEPT ![r] = row]
                              /\ row.step # "idle" => row.todo # <<>>
                              /\ \A d \in Emails : ~Sending(row, d)
    BY <1>1, <1>2, <1>3, ProceedRow
  <2> QED BY <1>1, <1>3, <2>1, SettleStep
<1>4. CASE Due(emails[e], runs[r].at)
  <2>1. PICK leased \in Kept : /\ leased = Leased(emails[e], r)
                               /\ leased.status \in {"queued", "failed"}
                               /\ leased.attempts = emails[e].attempts + 1
    BY <1>4, LeasedIsKept
  <2> DEFINE row == [runs[r] EXCEPT !.step = "prepare", !.email = leased]
  <2>2. runs[r] \in RunRow /\ runs[r].todo # <<>>
    BY <1>2, RunIsARow
  <2>3. runs' = [runs EXCEPT ![r] = row]
    BY <1>1, <1>4, <2>1 DEF OutboxTypes
  <2>4. row \in RunRow /\ row.step = "prepare" /\ row.todo = runs[r].todo
    BY <2>1, <2>2 DEF RunRow, Steps
  <2> HIDE DEF row
  <2>5. emails' = [emails EXCEPT ![e] = leased]
    BY <1>1, <1>4, <2>1 DEF Update
  <2>6. emails' \in [Emails -> Kept]
        /\ \A d \in Emails : emails'[d] = IF d = e THEN leased ELSE emails[d]
    BY <2>1, <2>5 DEF OutboxTypes
  <2>7. Leasable'
    BY <2>1, <2>6 DEF OutboxInv, Leasable
  <2>8. \A d \in Emails :
          sends'[d] + One(Sending(row, d)) + emails[d].attempts
            <= sends[d] + One(Sending(runs[r], d)) + emails'[d].attempts
    <3> SUFFICES ASSUME NEW d \in Emails
                 PROVE  sends'[d] + One(Sending(row, d)) + emails[d].attempts
                          <= sends[d] + One(Sending(runs[r], d)) + emails'[d].attempts
      OBVIOUS
    <3>1. Sending(row, d) <=> d = e
      BY <1>2, <2>4 DEF Sending
    <3>2. ~Sending(runs[r], d)
      BY <1>2 DEF Sending
    <3>3. PICK s \in Nat, a \in Nat :
            s = sends[d] /\ s = sends'[d] /\ a = emails[d].attempts
      <4>1. emails[d] \in Kept
        BY DEF OutboxTypes
      <4> QED BY <1>1, <4>1, AttemptsAreNat DEF OutboxTypes
    <3>4. CASE d = e
      BY <2>1, <2>6, <3>1, <3>2, <3>3, <3>4 DEF One
    <3>5. CASE d # e
      BY <2>6, <3>1, <3>2, <3>3, <3>5 DEF One
    <3> QED BY <3>4, <3>5
  <2>9. sends' \in [Emails -> Nat]
    BY <1>1 DEF OutboxTypes
  <2> QED BY <1>1, <2>2, <2>3, <2>4, <2>6, <2>7, <2>8, <2>9, RunnerStep
<1> QED BY <1>3, <1>4

\* A run that has prepared sends or skips.
LEMMA PrepareStep ==
  ASSUME OutboxTypes, OutboxInv, NEW r \in Runs, Prepare(r)
  PROVE  OutboxTypes' /\ OutboxInv'
<1>1. PICK e \in Emails, step \in {"skip", "send"} :
        At(r, e, "prepare") /\ Go(r, step) /\ UNCHANGED <<emails, resends, requeued, now, sends>>
  BY DEF Prepare
<1>2. runs[r].step = "prepare" /\ step \in Steps
  BY <1>1 DEF At, Steps
<1>3. PICK row \in RunRow : /\ runs' = [runs EXCEPT ![r] = row]
                            /\ row.step = step /\ row.todo = runs[r].todo /\ row.todo # <<>>
  BY <1>1, <1>2, GoRow
<1>4. \A d \in Emails : Sending(row, d) => Sending(runs[r], d)
  BY <1>2, <1>3 DEF Sending
<1>5. \A d \in Emails :
        sends'[d] + One(Sending(row, d)) + emails[d].attempts
          <= sends[d] + One(Sending(runs[r], d)) + emails'[d].attempts
  <2> SUFFICES ASSUME NEW d \in Emails
               PROVE  sends'[d] + One(Sending(row, d)) + emails[d].attempts
                        <= sends[d] + One(Sending(runs[r], d)) + emails'[d].attempts
    OBVIOUS
  <2>1. PICK s \in Nat, a \in Nat :
          s = sends[d] /\ s = sends'[d] /\ a = emails[d].attempts /\ a = emails'[d].attempts
    <3>1. emails[d] \in Kept
      BY DEF OutboxTypes
    <3> QED BY <1>1, <3>1, AttemptsAreNat DEF OutboxTypes
  <2> QED BY <1>4, <2>1 DEF One
<1>6. emails' \in [Emails -> Kept] /\ Leasable' /\ sends' \in [Emails -> Nat]
  BY <1>1 DEF OutboxTypes, OutboxInv, Leasable
<1> QED BY <1>1, <1>3, <1>5, <1>6, RunnerStep

\* The provider takes a message or the sender throws, before or after that.
LEMMA SendStep ==
  ASSUME OutboxTypes, OutboxInv, NEW r \in Runs,
         Send(r) \/ \E taken \in BOOLEAN : SendThrows(r, taken)
  PROVE  OutboxTypes' /\ OutboxInv'
<1>1. PICK e \in Emails, step \in {"complete", "fail"}, more \in {0, 1} :
        /\ At(r, e, "send") /\ Go(r, step) /\ UNCHANGED <<emails, resends, requeued, now>>
        /\ sends' = [sends EXCEPT ![e] = sends[e] + more]
  <2>1. CASE Send(r)
    BY <2>1 DEF Send, OutboxTypes
  <2>2. ASSUME NEW taken \in BOOLEAN, SendThrows(r, taken)
        PROVE  \E e \in Emails, step \in {"complete", "fail"}, more \in {0, 1} :
                 /\ At(r, e, "send") /\ Go(r, step) /\ UNCHANGED <<emails, resends, requeued, now>>
                 /\ sends' = [sends EXCEPT ![e] = sends[e] + more]
    <3>1. PICK e \in Emails :
            /\ At(r, e, "send") /\ Go(r, "fail") /\ UNCHANGED <<emails, resends, requeued, now>>
            /\ sends' = [sends EXCEPT ![e] = IF taken THEN sends[e] + 1 ELSE sends[e]]
      BY <2>2 DEF SendThrows
    <3>2. sends[e] + 0 = sends[e]
      BY DEF OutboxTypes
    <3>3. CASE taken
      BY <3>1, <3>3
    <3>4. CASE ~taken
      BY <3>1, <3>2, <3>4
    <3> QED BY <3>3, <3>4
  <2> QED BY <2>1, <2>2
<1>2. runs[r].step = "send" /\ e = Head(runs[r].todo) /\ step \in Steps
  BY <1>1 DEF At, Current, Steps
<1>3. PICK row \in RunRow : /\ runs' = [runs EXCEPT ![r] = row]
                            /\ row.step = step /\ row.todo = runs[r].todo /\ row.todo # <<>>
  BY <1>1, <1>2, GoRow
<1>4. \A d \in Emails : ~Sending(row, d) /\ (Sending(runs[r], d) <=> d = e)
  BY <1>2, <1>3 DEF Sending
<1>5. sends[e] + more \in Nat
  BY DEF OutboxTypes
<1>6. /\ sends' \in [Emails -> Nat]
      /\ \A d \in Emails : sends'[d] = IF d = e THEN sends[d] + more ELSE sends[d]
  BY <1>1, <1>5 DEF OutboxTypes
<1>7. \A d \in Emails :
        sends'[d] + One(Sending(row, d)) + emails[d].attempts
          <= sends[d] + One(Sending(runs[r], d)) + emails'[d].attempts
  <2> SUFFICES ASSUME NEW d \in Emails
               PROVE  sends'[d] + One(Sending(row, d)) + emails[d].attempts
                        <= sends[d] + One(Sending(runs[r], d)) + emails'[d].attempts
    OBVIOUS
  <2>1. PICK s \in Nat, a \in Nat :
          s = sends[d] /\ a = emails[d].attempts /\ a = emails'[d].attempts
    <3>1. emails[d] \in Kept
      BY DEF OutboxTypes
    <3> QED BY <1>1, <3>1, AttemptsAreNat DEF OutboxTypes
  <2>2. CASE d = e
    BY <1>4, <1>6, <2>1, <2>2 DEF One
  <2>3. CASE d # e
    BY <1>4, <1>6, <2>1, <2>3 DEF One
  <2> QED BY <2>2, <2>3
<1>8. emails' \in [Emails -> Kept] /\ Leasable'
  BY <1>1 DEF OutboxTypes, OutboxInv, Leasable
<1> QED BY <1>1, <1>3, <1>6, <1>7, <1>8, RunnerStep

\* What comes after the send does not send.
LEMMA AfterSendStep ==
  ASSUME OutboxTypes, OutboxInv, NEW r \in Runs,
         \/ CompleteEmail(r) \/ MarkEmailDelivered(r) \/ CompleteThrows(r)
         \/ FailEmail(r) \/ SkipEmail(r) \/ RunDies(r)
  PROVE  OutboxTypes' /\ OutboxInv'
<1> DEFINE Verdict ==
             \/ UNCHANGED emails
             \/ \E e \in Emails, status \in {"failed", "sent", "skipped"}, next \in Int,
                  error \in BOOLEAN : Update(e, Settled(emails[e], status, next, error))
           Onward ==
             \E row \in RunRow : /\ runs' = [runs EXCEPT ![r] = row]
                                 /\ row.step # "idle" => row.todo # <<>>
                                 /\ \A d \in Emails : ~Sending(row, d)
<1>1. (UNCHANGED <<resends, requeued, now, sends>> /\ runs[r].step # "idle") \/ RunDies(r)
  BY DEF CompleteEmail, MarkEmailDelivered, CompleteThrows, FailEmail, SkipEmail, At
<1>2. None \in Int
  BY DEF None
<1>3. ASSUME NEW e \in Emails PROVE nextEmailAttemptAt(runs[r].email, runs[r].at) \in Int
  BY <1>2, RunIsARow, OutboxAssumption DEF nextEmailAttemptAt
<1>4. Verdict
  BY <1>2, <1>3 DEF CompleteEmail, MarkEmailDelivered, CompleteThrows, FailEmail, SkipEmail, RunDies
<1>5. Onward
  <2>1. CASE RunDies(r)
    BY <2>1, QueuedIsKept DEF RunDies, Sending
  <2>2. CASE Proceed(r) /\ runs[r].step # "idle"
    BY <2>2, ProceedRow
  <2>3. CASE Go(r, "recover") /\ runs[r].step # "idle"
    <3>1. PICK row \in RunRow : /\ runs' = [runs EXCEPT ![r] = row]
                                /\ row.step = "recover" /\ row.todo # <<>>
      BY <2>3, GoRow DEF Steps
    <3> QED BY <3>1 DEF Sending
  <2>4. RunDies(r) \/ Proceed(r) \/ Go(r, "recover")
    BY DEF CompleteEmail, MarkEmailDelivered, CompleteThrows, FailEmail, SkipEmail
  <2> QED BY <1>1, <2>1, <2>2, <2>3, <2>4
<1>6. UNCHANGED <<resends, requeued, now, sends>>
  BY <1>1 DEF RunDies
<1> QED BY <1>4, <1>5, <1>6, SettleStep

\* A step of the others, by what it does to the counts.
LEMMA DocumentStep ==
  ASSUME OutboxTypes, OutboxInv, UNCHANGED <<runs, sends>>, now' \in Nat,
         emails' \in [Emails -> Kept], Leasable', resends' \in [Emails -> ResendRow],
         requeued' \in [Emails -> Nat],
         \A e \in Emails :
           /\ resends'[e].open => resends'[e].count > 0
           /\ emails[e].attempts + MaxAttempts * Puts(e)
                <= emails'[e].attempts + MaxAttempts * Puts(e)'
  PROVE  OutboxTypes' /\ OutboxInv'
<1>1. OutboxTypes'
  BY DEF OutboxTypes
<1>2. Counted'
  <2> SUFFICES ASSUME NEW e \in Emails
               PROVE  /\ resends'[e].open => resends'[e].count > 0
                      /\ sends'[e] + Cardinality(Senders(e)')
                           <= emails'[e].attempts + MaxAttempts * Puts(e)'
    BY DEF Counted
  <2>1. Senders(e)' = Senders(e)
    BY DEF Senders, Sending
  <2>2. PICK c \in Nat : c = Cardinality(Senders(e))
    BY SendersAreFinite
  <2>3. PICK s \in Nat, a \in Nat, b \in Nat :
          s = sends[e] /\ s = sends'[e] /\ a = emails[e].attempts /\ b = emails'[e].attempts
    <3>1. emails[e] \in Kept /\ emails'[e] \in Kept
      BY DEF OutboxTypes
    <3> QED BY <3>1, AttemptsAreNat DEF OutboxTypes
  <2>4. Puts(e) \in Nat /\ Puts(e)' \in Nat
    <3>1. /\ resends'[e] \in ResendRow /\ (resends'[e].open => resends'[e].count > 0)
          /\ requeued'[e] \in Nat
      OBVIOUS
    <3>2. Puts(e)' \in Nat
      BY <3>1 DEF ResendRow, Puts
    <3> QED BY <3>2, PutsType DEF OutboxInv
  <2>5. PICK p \in Nat, q \in Nat :
          p = MaxAttempts * Puts(e) /\ q = MaxAttempts * (Puts(e)')
    BY <2>4, Product
  <2>6. s + c <= a + p
    BY <2>2, <2>3, <2>5 DEF OutboxInv, Counted
  <2>7. a + p <= b + q
    BY <2>3, <2>5
  <2>8. s + c <= b + q
    BY <2>6, <2>7
  <2> QED BY <2>1, <2>2, <2>3, <2>5, <2>8
<1> QED BY <1>1, <1>2 DEF OutboxInv

\* The others settle a message: its count of attempts stays.
LEMMA VerdictStep ==
  ASSUME OutboxTypes, OutboxInv, NEW e \in Emails, ReclaimExhausted(e) \/ Redact(e)
  PROVE  OutboxTypes' /\ OutboxInv'
<1>1. UNCHANGED <<runs, sends, resends, requeued, now>>
  BY DEF ReclaimExhausted, Redact
<1>2. emails[e] \in Kept /\ None \in Int
  BY DEF OutboxTypes, None
<1>3. PICK letter \in Kept : /\ emails' = [emails EXCEPT ![e] = letter]
                            /\ letter.key = Nobody /\ letter.attempts = emails[e].attempts
  <2>1. CASE ReclaimExhausted(e)
    <3>1. PICK letter : letter = Settled(emails[e], "failed", None, TRUE)
      OBVIOUS
    <3>2. letter \in Kept /\ letter.key = Nobody /\ letter.attempts = emails[e].attempts
      BY <1>2, <3>1, SettledIsKept
    <3> QED BY <2>1, <3>1, <3>2 DEF ReclaimExhausted, Update
  <2>2. CASE Redact(e)
    <3>1. PICK letter : letter = Settled(emails[e], "skipped", None, TRUE)
      OBVIOUS
    <3>2. letter \in Kept /\ letter.key = Nobody /\ letter.attempts = emails[e].attempts
      BY <1>2, <3>1, SettledIsKept
    <3>3. PICK redacted : redacted = [letter EXCEPT !.redacted = TRUE]
      OBVIOUS
    <3>4. redacted \in Kept /\ redacted.key = letter.key /\ redacted.attempts = letter.attempts
      BY <3>2, <3>3 DEF Kept
    <3>5. emails' = [emails EXCEPT ![e] = redacted]
      BY <2>2, <3>1, <3>3 DEF Redact, Update
    <3> QED BY <3>2, <3>4, <3>5
  <2> QED BY <2>1, <2>2
<1>4. /\ emails' \in [Emails -> Kept]
      /\ \A d \in Emails : emails'[d] = IF d = e THEN letter ELSE emails[d]
  BY <1>3 DEF OutboxTypes
<1>5. Leasable'
  BY <1>3, <1>4 DEF OutboxInv, Leasable
<1>6. \A d \in Emails :
        emails[d].attempts + MaxAttempts * Puts(d)
          <= emails'[d].attempts + MaxAttempts * (Puts(d)')
  <2> SUFFICES ASSUME NEW d \in Emails
               PROVE  emails[d].attempts + MaxAttempts * Puts(d)
                        <= emails'[d].attempts + MaxAttempts * (Puts(d)')
    OBVIOUS
  <2>1. Puts(d)' = Puts(d) /\ Puts(d) \in Nat
    BY <1>1, PutsType DEF OutboxInv, Puts
  <2>2. PICK p \in Nat : p = MaxAttempts * Puts(d)
    BY <2>1, Product
  <2>3. PICK a \in Nat : a = emails[d].attempts /\ a = emails'[d].attempts
    <3>1. emails[d] \in Kept
      BY DEF OutboxTypes
    <3> QED BY <1>3, <1>4, <3>1, AttemptsAreNat
  <2> QED BY <2>1, <2>2, <2>3
<1>7. /\ now' \in Nat /\ resends' \in [Emails -> ResendRow] /\ requeued' \in [Emails -> Nat]
      /\ \A d \in Emails : resends'[d].open => resends'[d].count > 0
  BY <1>1 DEF OutboxTypes, OutboxInv, Counted
<1> QED BY <1>1, <1>4, <1>5, <1>6, <1>7, DocumentStep

\* A resend that begins has not put anything yet.
LEMMA BeginResendStep ==
  ASSUME OutboxTypes, OutboxInv, NEW e \in Emails, BeginResend(e)
  PROVE  OutboxTypes' /\ OutboxInv'
<1>1. /\ ~resends[e].open /\ UNCHANGED <<emails, runs, requeued, now, sends>>
      /\ resends' = [resends EXCEPT ![e] = [count |-> resends[e].count + 1, open |-> TRUE,
                                            email |-> emails[e]]]
  BY DEF BeginResend
<1>2. resends[e] \in ResendRow /\ emails[e] \in Kept
  BY DEF OutboxTypes
<1>3. PICK row \in ResendRow :
        /\ resends' = [resends EXCEPT ![e] = row]
        /\ row.count = resends[e].count + 1 /\ row.open /\ resends[e].count \in Nat
  <2>1. PICK count \in Nat, letter \in Kept : count = resends[e].count + 1 /\ letter = emails[e]
    BY <1>2 DEF ResendRow
  <2>2. [count |-> count, open |-> TRUE, email |-> letter] \in ResendRow
    BY DEF ResendRow
  <2> QED BY <1>1, <1>2, <2>1, <2>2 DEF ResendRow
<1>4. /\ resends' \in [Emails -> ResendRow]
      /\ \A d \in Emails : resends'[d] = IF d = e THEN row ELSE resends[d]
  BY <1>3 DEF OutboxTypes
<1>5. \A d \in Emails : resends'[d].open => resends'[d].count > 0
  BY <1>3, <1>4 DEF OutboxInv, Counted
<1>6. \A d \in Emails : Puts(d)' = Puts(d)
  <2>1. Puts(e)' = Puts(e)
    <3>1. resends'[e].open /\ ~resends[e].open /\ requeued' = requeued
      BY <1>1, <1>3, <1>4
    <3>2. resends'[e].count - 1 = resends[e].count
      BY <1>3, <1>4
    <3> QED BY <3>1, <3>2 DEF Puts
  <2>2. ASSUME NEW d \in Emails, d # e PROVE Puts(d)' = Puts(d)
    BY <1>1, <1>4, <2>2 DEF Puts
  <2> QED BY <2>1, <2>2
<1>7. \A d \in Emails :
        emails[d].attempts + MaxAttempts * Puts(d)
          <= emails'[d].attempts + MaxAttempts * (Puts(d)')
  <2> SUFFICES ASSUME NEW d \in Emails
               PROVE  emails[d].attempts + MaxAttempts * Puts(d)
                        <= emails'[d].attempts + MaxAttempts * (Puts(d)')
    OBVIOUS
  <2>1. PICK p \in Nat : p = MaxAttempts * Puts(d)
    BY PutsType, Product DEF OutboxInv
  <2>2. PICK a \in Nat : a = emails[d].attempts /\ a = emails'[d].attempts
    <3>1. emails[d] \in Kept
      BY DEF OutboxTypes
    <3> QED BY <1>1, <3>1, AttemptsAreNat
  <2> QED BY <1>6, <2>1, <2>2
<1>8. /\ emails' \in [Emails -> Kept] /\ Leasable' /\ now' \in Nat
      /\ requeued' \in [Emails -> Nat]
  BY <1>1 DEF OutboxTypes, OutboxInv, Leasable
<1> QED BY <1>1, <1>4, <1>5, <1>7, <1>8, DocumentStep

\* What is put again has all its attempts before it: one more resend pays for them.
LEMMA PutResendStep ==
  ASSUME OutboxTypes, OutboxInv, NEW e \in Emails, PutResend(e)
  PROVE  OutboxTypes' /\ OutboxInv'
<1>1. /\ resends[e].open /\ UNCHANGED <<runs, requeued, now, sends>>
      /\ emails' = [emails EXCEPT ![e] =
                      [Settled(resends[e].email, "queued", now, FALSE) EXCEPT !.attempts = 0]]
      /\ resends' = [resends EXCEPT ![e].open = FALSE, ![e].email = Queued]
  BY DEF PutResend, Update
<1>2. resends[e] \in ResendRow /\ now \in Int
  BY DEF OutboxTypes
<1>3. resends[e].email \in Kept /\ resends[e].count \in Nat /\ resends[e].count > 0
  BY <1>1, <1>2 DEF ResendRow, OutboxInv, Counted
<1>4. PICK settled \in Kept : /\ settled = Settled(resends[e].email, "queued", now, FALSE)
                              /\ settled.key = Nobody
  <2>1. PICK old \in Kept, next \in Int : old = resends[e].email /\ next = now
    BY <1>2, <1>3
  <2>2. Settled(old, "queued", next, FALSE) \in Kept
        /\ Settled(old, "queued", next, FALSE).key = Nobody
    BY SettledIsKept
  <2> QED BY <2>1, <2>2
<1>5. PICK letter \in Kept : /\ letter = [settled EXCEPT !.attempts = 0]
                            /\ letter.key = Nobody /\ letter.attempts = 0
  <2>1. PICK zero \in 0..MaxAttempts : zero = 0
    BY OutboxAssumption
  <2>2. PICK letter : letter = [settled EXCEPT !.attempts = zero]
    OBVIOUS
  <2>3. letter \in Kept /\ letter.key = settled.key /\ letter.attempts = zero
    BY <2>2 DEF Kept
  <2> QED BY <1>4, <2>1, <2>2, <2>3
<1>6. PICK row \in ResendRow : /\ resends' = [resends EXCEPT ![e] = row]
                               /\ row.count = resends[e].count /\ ~row.open
  <2> DEFINE row == [resends[e] EXCEPT !.open = FALSE, !.email = Queued]
  <2>1. resends' = [resends EXCEPT ![e] = row]
    BY <1>1 DEF OutboxTypes
  <2>2. row \in ResendRow /\ row.count = resends[e].count /\ ~row.open
    BY <1>2, QueuedIsKept DEF ResendRow
  <2> QED BY <2>1, <2>2
<1>7. /\ emails' \in [Emails -> Kept] /\ resends' \in [Emails -> ResendRow]
      /\ \A d \in Emails : /\ emails'[d] = IF d = e THEN letter ELSE emails[d]
                           /\ resends'[d] = IF d = e THEN row ELSE resends[d]
  BY <1>1, <1>4, <1>5, <1>6 DEF OutboxTypes
<1>8. Leasable' /\ \A d \in Emails : resends'[d].open => resends'[d].count > 0
  BY <1>5, <1>6, <1>7 DEF OutboxInv, Leasable, Counted
<1>9. \A d \in Emails :
        emails[d].attempts + MaxAttempts * Puts(d)
          <= emails'[d].attempts + MaxAttempts * (Puts(d)')
  <2> SUFFICES ASSUME NEW d \in Emails
               PROVE  emails[d].attempts + MaxAttempts * Puts(d)
                        <= emails'[d].attempts + MaxAttempts * (Puts(d)')
    OBVIOUS
  <2>1. emails[d] \in Kept /\ Puts(d) \in Nat
    BY PutsType DEF OutboxTypes, OutboxInv
  <2>2. PICK a \in Nat : a = emails[d].attempts /\ a <= MaxAttempts /\ MaxAttempts \in Nat
    BY <2>1, AttemptsAreNat
  <2>3. PICK p \in Nat : p = MaxAttempts * Puts(d)
    BY <2>1, Product
  <2>4. CASE d = e
    <3>1. Puts(d)' = Puts(d) + 1 /\ emails'[d].attempts = 0
      BY <1>1, <1>3, <1>5, <1>6, <1>7, <2>4 DEF Puts, OutboxTypes
    <3>2. MaxAttempts * (Puts(d)') = p + MaxAttempts
      BY <2>1, <2>3, <3>1, Product
    <3> QED BY <2>2, <2>3, <3>1, <3>2
  <2>5. CASE d # e
    <3>1. Puts(d)' = Puts(d) /\ emails'[d].attempts = a
      BY <1>1, <1>7, <2>2, <2>5 DEF Puts
    <3> QED BY <2>2, <2>3, <3>1
  <2> QED BY <2>4, <2>5
<1>10. now' \in Nat /\ requeued' \in [Emails -> Nat]
  BY <1>1 DEF OutboxTypes
<1> QED BY <1>1, <1>7, <1>8, <1>9, <1>10, DocumentStep

\* A message that is queued late has all its attempts before it, too.
LEMMA QueueLateStep ==
  ASSUME OutboxTypes, OutboxInv, NEW e \in Emails, QueueLate(e)
  PROVE  OutboxTypes' /\ OutboxInv'
<1>1. /\ UNCHANGED <<runs, resends, now, sends>>
      /\ emails' = [emails EXCEPT ![e] = Queued]
      /\ requeued' = [requeued EXCEPT ![e] = requeued[e] + 1]
  BY DEF QueueLate, Update
<1>2. Queued \in Kept /\ Queued.key = Nobody /\ Queued.attempts = 0
  BY QueuedIsKept DEF Queued
<1>3. /\ emails' \in [Emails -> Kept] /\ requeued' \in [Emails -> Nat]
      /\ \A d \in Emails : /\ emails'[d] = IF d = e THEN Queued ELSE emails[d]
                           /\ requeued'[d] = IF d = e THEN requeued[d] + 1 ELSE requeued[d]
  BY <1>1, <1>2 DEF OutboxTypes
<1>4. Leasable' /\ \A d \in Emails : resends'[d].open => resends'[d].count > 0
  BY <1>1, <1>2, <1>3 DEF OutboxInv, Leasable, Counted
<1>5. \A d \in Emails :
        emails[d].attempts + MaxAttempts * Puts(d)
          <= emails'[d].attempts + MaxAttempts * (Puts(d)')
  <2> SUFFICES ASSUME NEW d \in Emails
               PROVE  emails[d].attempts + MaxAttempts * Puts(d)
                        <= emails'[d].attempts + MaxAttempts * (Puts(d)')
    OBVIOUS
  <2>1. emails[d] \in Kept /\ Puts(d) \in Nat /\ resends[d] \in ResendRow /\ requeued[d] \in Nat
    BY PutsType DEF OutboxTypes, OutboxInv
  <2>2. PICK a \in Nat : a = emails[d].attempts /\ a <= MaxAttempts /\ MaxAttempts \in Nat
    BY <2>1, AttemptsAreNat
  <2>3. PICK p \in Nat : p = MaxAttempts * Puts(d)
    BY <2>1, Product
  <2>4. CASE d = e
    <3>1. Puts(d)' = Puts(d) + 1 /\ emails'[d].attempts = 0
      BY <1>1, <1>2, <1>3, <2>1, <2>4 DEF Puts, ResendRow
    <3>2. MaxAttempts * (Puts(d)') = p + MaxAttempts
      BY <2>1, <2>3, <3>1, Product
    <3> QED BY <2>2, <2>3, <3>1, <3>2
  <2>5. CASE d # e
    <3>1. Puts(d)' = Puts(d) /\ emails'[d].attempts = a
      BY <1>1, <1>3, <2>2, <2>5 DEF Puts
    <3> QED BY <2>2, <2>3, <3>1
  <2> QED BY <2>4, <2>5
<1>6. now' \in Nat /\ resends' \in [Emails -> ResendRow]
  BY <1>1 DEF OutboxTypes
<1> QED BY <1>1, <1>3, <1>4, <1>5, <1>6, DocumentStep

\* A step of the clock or of an order.
LEMMA RestStep ==
  ASSUME OutboxTypes, OutboxInv, UNCHANGED <<emails, runs, resends, requeued, sends>>, now' \in Nat
  PROVE  OutboxTypes' /\ OutboxInv'
<1>1. OutboxTypes' /\ Leasable'
  BY DEF OutboxTypes, OutboxInv, Leasable
<1>2. Counted'
  BY DEF OutboxInv, Counted, Senders, Sending, Puts
<1> QED BY <1>1, <1>2 DEF OutboxInv

\* Every step of the outbox preserves its invariants.
LEMMA OutboxStep ==
  ASSUME OutboxTypes, OutboxInv, [Next]_vars
  PROVE  OutboxTypes' /\ OutboxInv'
<1>1. ASSUME NEW r \in Runs,
             \/ BeginRun(r) \/ Deliver(r) \/ CompleteThrows(r) \/ RunDies(r)
             \/ \E taken \in BOOLEAN : SendThrows(r, taken)
      PROVE  OutboxTypes' /\ OutboxInv'
  BY <1>1, BeginRunStep, LeaseStep, PrepareStep, SendStep, AfterSendStep DEF Deliver
<1>2. ASSUME NEW e \in Emails,
             \/ ReclaimExhausted(e) \/ Redact(e) \/ BeginResend(e) \/ PutResend(e)
             \/ QueueLate(e)
      PROVE  OutboxTypes' /\ OutboxInv'
  BY <1>2, VerdictStep, BeginResendStep, PutResendStep, QueueLateStep
<1>3. CASE (\E e \in Emails : RefundOrder(e)) \/ UNCHANGED vars
  BY <1>3, RestStep DEF RefundOrder, vars, OutboxTypes
<1>4. CASE Tick
  BY <1>4, RestStep DEF Tick, OutboxTypes
<1> QED BY <1>1, <1>2, <1>3, <1>4 DEF Next

\* In the beginning nothing was sent.
LEMMA OutboxBegins ==
  ASSUME Init
  PROVE  OutboxTypes /\ OutboxInv
<1> DEFINE resend == [count |-> 0, open |-> FALSE, email |-> Queued]
<1>1. resend \in ResendRow /\ resend.count = 0 /\ resend.open = FALSE
  BY QueuedIsKept DEF ResendRow
<1> HIDE DEF resend
<1>2. /\ emails = [e \in Emails |-> Queued] /\ runs = [r \in Runs |-> Idle]
      /\ resends = [e \in Emails |-> resend] /\ sends = [e \in Emails |-> 0] /\ now = 1
      /\ requeued = [e \in Emails |-> 0]
  BY DEF Init, resend
<1>3. OutboxTypes /\ Leasable
  BY <1>1, <1>2, QueuedIsKept DEF OutboxTypes, Leasable
<1>4. Counted
  <2> SUFFICES ASSUME NEW e \in Emails
               PROVE  /\ resends[e].open => resends[e].count > 0
                      /\ sends[e] + Cardinality(Senders(e))
                           <= emails[e].attempts + MaxAttempts * Puts(e)
    BY DEF Counted
  <2>1. Senders(e) = {}
    BY <1>2, QueuedIsKept DEF Senders, Sending
  <2>2. Cardinality(Senders(e)) = 0
    BY <2>1, FS_EmptySet
  <2>3. Puts(e) = 0 /\ MaxAttempts * 0 = 0
    BY <1>1, <1>2, OutboxAssumption DEF Puts
  <2> QED BY <1>1, <1>2, <2>2, <2>3, QueuedIsKept
<1> QED BY <1>3, <1>4 DEF OutboxInv

\* However often runs overlap, die and lose their leases, the provider takes a
\* message at most maxAttempts times, and as often again for each resend and for each
\* handler that queued it late.
THEOREM SendsAreBounded == MaintenanceSpec => []BoundedSends
<1>1. MaintenanceInit => OutboxTypes /\ OutboxInv
  BY OutboxBegins DEF MaintenanceInit
<1>2. OutboxTypes /\ OutboxInv /\ [MaintenanceNext]_allVars => (OutboxTypes /\ OutboxInv)'
  <2>1. [MaintenanceNext]_allVars => [Next]_vars
    BY DEF MaintenanceNext, allVars, OnlyDeletion, OnlyRetries, Next, Deliver
  <2> QED BY <2>1, OutboxStep
<1>3. OutboxTypes /\ OutboxInv => BoundedSends
  <2> SUFFICES ASSUME OutboxTypes, OutboxInv, NEW e \in Emails
               PROVE  sends[e] <= MaxAttempts * (1 + resends[e].count + requeued[e])
    BY DEF BoundedSends
  <2>1. emails[e] \in Kept /\ Puts(e) \in Nat /\ resends[e] \in ResendRow
    BY PutsType DEF OutboxTypes, OutboxInv
  <2>2. PICK s \in Nat, c \in Nat, a \in Nat, p \in Nat :
          /\ s = sends[e] /\ c = Cardinality(Senders(e)) /\ a = emails[e].attempts
          /\ p = MaxAttempts * Puts(e) /\ a <= MaxAttempts /\ MaxAttempts \in Nat
    BY <2>1, AttemptsAreNat, Product, SendersAreFinite DEF OutboxTypes
  <2>3. s + c <= a + p
    BY <2>2 DEF OutboxInv, Counted
  <2>4. s <= p + MaxAttempts
    BY <2>2, <2>3
  <2>5. PICK n \in Nat, m \in Nat : n = resends[e].count /\ m = requeued[e]
    BY <2>1 DEF ResendRow, OutboxTypes
  <2>6. CASE resends[e].open
    <3>1. Puts(e) = n - 1 + m /\ Puts(e) + 1 = n + m /\ n + m \in Nat
      BY <2>1, <2>5, <2>6 DEF Puts
    <3>2. MaxAttempts * (n + m) = p + MaxAttempts
      BY <2>1, <2>2, <3>1, Product
    <3>3. MaxAttempts * ((n + m) + 1) = MaxAttempts * (n + m) + MaxAttempts
      BY <3>1, Product
    <3>4. (n + m) + 1 = 1 + n + m
      BY <2>5
    <3> QED BY <2>2, <2>4, <2>5, <3>2, <3>3, <3>4
  <2>7. CASE ~resends[e].open
    <3>1. Puts(e) = n + m /\ n + m \in Nat
      BY <2>5, <2>7 DEF Puts
    <3>2. MaxAttempts * ((n + m) + 1) = p + MaxAttempts
      BY <2>2, <3>1, Product
    <3>3. (n + m) + 1 = 1 + n + m
      BY <2>5
    <3> QED BY <2>2, <2>4, <2>5, <3>2, <3>3
  <2> QED BY <2>6, <2>7
<1> QED BY <1>1, <1>2, <1>3, PTL DEF MaintenanceSpec

\* No step takes a verdict back, but for the two that queue the message again.
LEMMA VerdictsStayStep ==
  ASSUME OutboxTypes, OutboxInv, [Next]_vars
  PROVE  \A e \in Emails :
           \/ QueuedAgain(e)
           \/ /\ emails[e].status = "sent" => emails'[e].status = "sent"
              /\ emails[e].redacted => emails'[e].redacted
<1> DEFINE Stays == \A e \in Emails :
              \/ QueuedAgain(e)
              \/ /\ emails[e].status = "sent" => emails'[e].status = "sent"
                 /\ emails[e].redacted => emails'[e].redacted
<1>1. CASE UNCHANGED emails
  BY <1>1
<1>2. ASSUME NEW d \in Emails, NEW letter, Update(d, letter),
             emails[d].status = "sent" => letter.status = "sent",
             emails[d].redacted => letter.redacted
      PROVE  Stays
  BY <1>2 DEF Update, OutboxTypes
<1>3. ASSUME NEW r \in Runs, NEW e \in Emails,
             Due(emails[e], runs[r].at) /\ Update(e, Leased(emails[e], r))
      PROVE  Stays
  <2>1. /\ Leased(emails[e], r).status = emails[e].status
        /\ Leased(emails[e], r).redacted = emails[e].redacted
    BY <1>3, LeasedIsKept
  <2> QED BY <1>2, <1>3, <2>1
<1>4. ASSUME NEW e \in Emails, NEW status \in {"queued", "failed", "sent", "skipped"},
             NEW next \in Int, NEW error \in BOOLEAN,
             Update(e, Settled(emails[e], status, next, error)),
             status = "sent" \/ emails[e].status # "sent"
      PROVE  Stays
  <2>1. emails[e] \in Kept
    BY DEF OutboxTypes
  <2>2. /\ Settled(emails[e], status, next, error).status = status
        /\ Settled(emails[e], status, next, error).redacted = emails[e].redacted
    BY <1>4, <2>1, SettledIsKept
  <2> QED BY <1>2, <1>4, <2>2
<1>5. None \in Int /\ \A r \in Runs : nextEmailAttemptAt(runs[r].email, runs[r].at) \in Int
  <2>1. None \in Int
    BY DEF None
  <2> QED BY <2>1, RunIsARow, OutboxAssumption DEF nextEmailAttemptAt
<1>6. \A r \in Runs, e \in Emails : HasLease(emails[e], r) => emails[e].status # "sent"
  BY OutboxAssumption DEF HasLease, OutboxInv, Leasable
<1>7. ASSUME NEW r \in Runs, LeaseEmail(r) PROVE Stays
  BY <1>1, <1>3, <1>7 DEF LeaseEmail
<1>8. ASSUME NEW r \in Runs, CompleteEmail(r) \/ MarkEmailDelivered(r) PROVE Stays
  BY <1>1, <1>4, <1>5, <1>8 DEF CompleteEmail, MarkEmailDelivered
<1>9. ASSUME NEW r \in Runs, FailEmail(r) \/ SkipEmail(r) PROVE Stays
  BY <1>1, <1>4, <1>5, <1>6, <1>9 DEF FailEmail, SkipEmail
<1>10. ASSUME NEW e \in Emails, ReclaimExhausted(e) PROVE Stays
  BY <1>4, <1>5, <1>10 DEF ReclaimExhausted, ExhaustedLeaseLoss
<1>11. ASSUME NEW e \in Emails, Redact(e) PROVE Stays
  <2>1. PICK letter : /\ letter = [Settled(emails[e], "skipped", None, TRUE) EXCEPT !.redacted = TRUE]
                     /\ Update(e, letter) /\ emails[e].status # "sent"
    BY <1>11 DEF Redact
  <2>2. Settled(emails[e], "skipped", None, TRUE) \in Kept
    BY <1>5, SettledIsKept DEF OutboxTypes
  <2>3. letter.redacted = TRUE
    BY <2>1, <2>2 DEF Kept
  <2> QED BY <1>2, <2>1, <2>3
<1>12. ASSUME NEW e \in Emails, PutResend(e) PROVE Stays
  <2>1. resends[e].open /\ ~resends'[e].open
    BY <1>12 DEF PutResend, OutboxTypes, ResendRow
  <2>2. \A d \in Emails \ {e} : emails'[d] = emails[d]
    BY <1>12 DEF PutResend, Update, OutboxTypes
  <2> QED BY <2>1, <2>2 DEF QueuedAgain
<1>14. ASSUME NEW e \in Emails, QueueLate(e) PROVE Stays
  <2>1. requeued'[e] = requeued[e] + 1 /\ requeued[e] \in Nat
    BY <1>14 DEF QueueLate, OutboxTypes
  <2>2. \A d \in Emails \ {e} : emails'[d] = emails[d]
    BY <1>14 DEF QueueLate, Update, OutboxTypes
  <2>3. QueuedAgain(e)
    BY <2>1 DEF QueuedAgain
  <2> QED BY <2>2, <2>3
<1>13. \/ UNCHANGED emails
       \/ \E r \in Runs : \/ LeaseEmail(r) \/ CompleteEmail(r) \/ MarkEmailDelivered(r)
                          \/ FailEmail(r) \/ SkipEmail(r)
       \/ \E e \in Emails : ReclaimExhausted(e) \/ Redact(e) \/ PutResend(e) \/ QueueLate(e)
  BY DEF Next, vars, Deliver, BeginRun, Prepare, Send, SendThrows, CompleteThrows, RunDies,
         BeginResend, RefundOrder, Tick
<1> QED BY <1>1, <1>7, <1>8, <1>9, <1>10, <1>11, <1>12, <1>13, <1>14

\* A run that lost its lease may send a message once more, but no run undoes a verdict: what
\* is recorded as delivered is not recorded as failed, skipped or queued after that, and a
\* redacted recipient does not come back, until an administrator's resend or the late put of
\* a payment handler queues the message again.
THEOREM VerdictsLast == MaintenanceSpec => VerdictsStay
<1>1. MaintenanceInit => OutboxTypes /\ OutboxInv
  BY OutboxBegins DEF MaintenanceInit
<1>2. [MaintenanceNext]_allVars => [Next]_vars
  BY DEF MaintenanceNext, allVars, OnlyDeletion, OnlyRetries, Next, Deliver
<1>3. OutboxTypes /\ OutboxInv /\ [MaintenanceNext]_allVars => (OutboxTypes /\ OutboxInv)'
  BY <1>2, OutboxStep
<1>4. [MaintenanceNext]_allVars /\ OutboxTypes /\ OutboxInv =>
        [\A e \in Emails :
           \/ QueuedAgain(e)
           \/ /\ emails[e].status = "sent" => emails'[e].status = "sent"
              /\ emails[e].redacted => emails'[e].redacted]_vars
  BY <1>2, VerdictsStayStep
<1> QED BY <1>1, <1>3, <1>4, PTL DEF MaintenanceSpec, VerdictsStay

=============================================================================

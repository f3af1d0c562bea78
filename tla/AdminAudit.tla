----------------------------- MODULE AdminAudit -----------------------------
(***************************************************************************)
(* Administrator's and subscription actions under an idempotency key: the  *)
(* audit document that claims the key before the action, and is completed  *)
(* with the action's result or marked failed after it.  A failed claim is  *)
(* taken over by a retry with the same input.                              *)
(***************************************************************************)
EXTENDS Integers

CONSTANTS
  Clients,   \* requests
  Keys,      \* idempotency keys
  NoKey,     \* a request without one
  Inputs,    \* what a request may ask for
  MaxBreaks  \* bound: calls that throw, processes that die

AuditAssumption == NoKey \notin Keys

VARIABLES
  audits,   \* Keys -> the audit document: its status, and the hash of its input
  clients,  \* Clients -> what a request remembers
  results,  \* history: Clients -> what it was answered
  ran,      \* history: Keys -> the inputs its action was run with
  breaks    \* history: how many breaks there were

auditVars == <<audits, clients, results, ran, breaks>>

NoInput == "none"
NoAudit == [status |-> "none", input |-> NoInput]
Quiet == [step |-> "wait", key |-> NoKey, input |-> NoInput, seen |-> NoAudit]

AuditInit ==
  /\ audits = [k \in Keys |-> NoAudit]
  /\ clients = [c \in Clients |-> Quiet]
  /\ results = [c \in Clients |-> "none"]
  /\ ran = [k \in Keys |-> {}]
  /\ breaks = 0

At(c, step) == clients[c].step = step
Goto(c, step) == clients' = [clients EXCEPT ![c].step = step]
End(c, result) == /\ clients' = [clients EXCEPT ![c].step = "done", ![c].seen = NoAudit]
                  /\ results' = [results EXCEPT ![c] = result]

Keyed(c) == clients[c].key # NoKey
Write(c, status) ==
  audits' = IF Keyed(c)
            THEN [audits EXCEPT ![clients[c].key] = [status |-> status, input |-> clients[c].input]]
            ELSE audits

Submit(c, key, input) ==
  /\ At(c, "wait")
  /\ clients' = [clients EXCEPT ![c] = [Quiet EXCEPT !.step = "claim", !.key = key, !.input = input]]
  /\ UNCHANGED <<audits, results, ran, breaks>>

\* claimAdminAuditIdempotency: the unique index on the action and the key lets the
\* first write through.  Without a key there is nothing to collide with.
Claim(c) ==
  /\ At(c, "claim")
  /\ IF ~Keyed(c) \/ audits[clients[c].key] = NoAudit
     THEN Write(c, "started") /\ Goto(c, "act")
     ELSE UNCHANGED audits /\ Goto(c, "look")
  /\ UNCHANGED <<results, ran, breaks>>

Look(c) ==
  /\ At(c, "look")
  /\ clients' = [clients EXCEPT ![c].seen = audits[clients[c].key], ![c].step = "reclaim"]
  /\ UNCHANGED <<audits, results, ran, breaks>>

\* Seeded fault: an action that is still running is taken over.
NotCompleted(c, audit) == audit.status \in {"failed", "started"} /\ audit.input = clients[c].input

\* reclaimFailedAdminAuditIdempotency.
Reclaimable(c, audit) == audit.status = "failed" /\ audit.input = clients[c].input

\* adminIdempotencyClaimResult.
Verdict(c, audit) ==
  CASE audit.input # clients[c].input -> "mismatch"
    [] audit.input = clients[c].input /\ audit.status = "completed" -> "replayed"
    [] OTHER -> "conflict"

\* The document is looked at again when it is updated.
Reclaim(c) ==
  LET now == audits[clients[c].key]
      seen == clients[c].seen
  IN  /\ At(c, "reclaim")
      /\ IF ~Reclaimable(c, seen) THEN End(c, Verdict(c, seen)) /\ UNCHANGED audits
         ELSE IF Reclaimable(c, now) THEN Write(c, "started") /\ Goto(c, "act") /\ UNCHANGED results
         ELSE End(c, Verdict(c, now)) /\ UNCHANGED audits
      /\ UNCHANGED <<ran, breaks>>

Ran(c) == ran' = IF Keyed(c) THEN [ran EXCEPT ![clients[c].key] = @ \cup {clients[c].input}] ELSE ran

\* The action completes, or throws before it did anything, or after.
Act(c) ==
  /\ At(c, "act")
  /\ \/ Ran(c) /\ Goto(c, "complete") /\ UNCHANGED breaks
     \/ Ran(c) /\ Goto(c, "fail") /\ breaks < MaxBreaks /\ breaks' = breaks + 1
     \/ UNCHANGED ran /\ Goto(c, "fail") /\ breaks < MaxBreaks /\ breaks' = breaks + 1
  /\ UNCHANGED <<audits, results>>

\* completeAdminAudit; when the write throws, the action counts as failed.
Complete(c) ==
  /\ At(c, "complete")
  /\ \/ Write(c, "completed") /\ End(c, "ok") /\ UNCHANGED breaks
     \/ /\ breaks < MaxBreaks /\ breaks' = breaks + 1
        /\ Goto(c, "fail") /\ UNCHANGED <<audits, results>>
  /\ UNCHANGED ran

Fail(c) ==
  /\ At(c, "fail")
  /\ Write(c, "failed") /\ End(c, "failed")
  /\ UNCHANGED <<ran, breaks>>

\* A process dies, or failAdminAudit throws: the claim stays started.
Break(c) ==
  /\ clients[c].step \notin {"wait", "done"} /\ breaks < MaxBreaks
  /\ End(c, "thrown")
  /\ breaks' = breaks + 1
  /\ UNCHANGED <<audits, ran>>

AuditNext ==
  \E c \in Clients :
    \/ \E key \in Keys \cup {NoKey}, input \in Inputs : Submit(c, key, input)
    \/ Claim(c) \/ Look(c) \/ Reclaim(c) \/ Act(c) \/ Complete(c) \/ Fail(c) \/ Break(c)

AuditSpec == AuditInit /\ [][AuditNext]_auditVars

----------------------------------------------------------------------------
(* Properties *)

Audit == [status : {"none", "started", "completed", "failed"}, input : Inputs \cup {NoInput}]

\* The audits and what the requests remember have the values they should.
AuditTypeOK ==
  /\ audits \in [Keys -> Audit]
  /\ clients \in [Clients -> [step : STRING, key : Keys \cup {NoKey},
                              input : Inputs \cup {NoInput}, seen : Audit]]
  /\ results \in [Clients -> {"none", "ok", "failed", "replayed", "mismatch", "conflict", "thrown"}]
  /\ ran \in [Keys -> SUBSET Inputs] /\ breaks \in 0..MaxBreaks

Running(k) == {c \in Clients : clients[c].key = k /\ clients[c].step \in {"act", "complete", "fail"}}

\* However requests and retries with one key interleave, one of them at a time runs the
\* action, and none once it completed; and only the input that was run is answered as
\* done (claimAdminAuditIdempotency, adminIdempotencyClaimResult).
OneRunPerKey ==
  /\ \A k \in Keys : /\ \A c, d \in Running(k) : c = d
                     /\ Running(k) # {} => audits[k].status = "started"
  /\ \A c \in Clients :
       Keyed(c) /\ results[c] \in {"ok", "replayed"} =>
         /\ audits[clients[c].key] = [status |-> "completed", input |-> clients[c].input]
         /\ clients[c].input \in ran[clients[c].key]

=============================================================================

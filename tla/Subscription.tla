---------------------------- MODULE Subscription ----------------------------
(***************************************************************************)
(* One subscription of a customer at a provider, the entitlement that      *)
(* follows it, the provider's events about it, which arrive in any order   *)
(* and more than once, and the customer's actions cancel, renew and        *)
(* change, which call the provider.                                        *)
(*                                                                         *)
(* Events of one subscription are processed under a lock, actions are not; *)
(* both put whole documents they read earlier.                             *)
(***************************************************************************)
EXTENDS Integers, Sequences

CONSTANTS
  Length,     \* how many events the provider makes
  Timelines,  \* sequences of that many: what it may have to tell
  Actions,    \* requests of the customer
  Free,       \* the lock is free
  MaxFaults   \* bound: calls that throw, processes that die, locks that expire

Statuses == {"none", "incomplete", "active", "trialing", "past_due", "cancel_at_period_end",
             "cancelled", "expired"}

\* The provider tells of no period after the one it tells of last.
ASSUME SubAssumption ==
  /\ Length \in Nat \ {0} /\ MaxFaults \in Nat
  /\ Free \notin 1..Length /\ Actions \cap (1..Length) = {}
  /\ \A story \in Timelines :
       /\ story \in [1..Length -> [status : Statuses \ {"none"}, period : Nat]]
       /\ \A i \in 1..Length : story[i].period <= story[Length].period

VARIABLES
  told,      \* the events, in the order in which the provider made them
  sub,       \* the subscription document
  grant,     \* the status of its entitlement
  receipts,  \* the receipt of each event
  answered,  \* history: the events that a delivery answered with 200
  lock,      \* the event whose processing holds the subject lock
  work,      \* what each handler remembers
  erased,    \* whether the customer's account is deleted
  faults,    \* history: how many calls threw, processes died, locks expired
  apart      \* history: whether a put undid a change its handler had not read, or
             \* an action ended between its puts

subVars == <<told, sub, grant, receipts, answered, lock, work, erased, faults, apart>>

Events == 1..Length
Handlers == Events \cup Actions

\* linked: the document names its entitlement.
NoSub == [status |-> "none", period |-> 0, linked |-> FALSE]

\* A handler's copy is what it read or put last.
Idle == [step |-> "idle", act |-> "none", copy |-> NoSub, grant |-> "none"]

SubInit ==
  /\ told \in Timelines
  /\ sub = NoSub /\ grant = "none"
  /\ receipts = [e \in Events |-> "new"] /\ answered = {}
  /\ lock = Free
  /\ work = [h \in Handlers |-> Idle]
  /\ erased = FALSE /\ faults = 0 /\ apart = FALSE

Ended(status) == status \in {"cancelled", "expired"}

\* entitlementStatusForSubscription.
Access(status) ==
  CASE status \in {"active", "trialing", "cancel_at_period_end", "past_due"} -> "active"
    [] Ended(status) -> "expired"
    [] status = "incomplete" -> "inactive"

At(h, step) == work[h].step = step
Goto(h, step) == work' = [work EXCEPT ![h].step = step]
Rest(h) == work' = [work EXCEPT ![h] = Idle]

----------------------------------------------------------------------------
(* What an event and an action make of a subscription *)

Created(event) == [NoSub EXCEPT !.status = event.status, !.period = event.period]

\* Seeded fault: an older period is applied as any other.
NeverStale(copy, event) == FALSE

Stale(copy, event) == event.period < copy.period

\* Seeded fault: an ended subscription is revived by the same period.
EchoRevives(copy, event) == FALSE

\* Only a new period, or another end, changes an ended subscription.
StaysEnded(copy, event) ==
  Ended(copy.status) /\ ~Ended(event.status) /\ event.period <= copy.period

LocalCancel(copy, event) ==
  /\ copy.status = "cancel_at_period_end" /\ event.status = "active"
  /\ event.period <= copy.period

AfterEvent(copy, event) ==
  [copy EXCEPT !.status = IF LocalCancel(copy, event) THEN @ ELSE event.status,
               !.period = event.period]

AfterAction(copy, act) ==
  CASE act = "cancel" -> [copy EXCEPT !.status = "cancel_at_period_end"]
    [] act = "renew" -> [copy EXCEPT !.status = "active"]
    [] act = "change" -> copy

----------------------------------------------------------------------------
(* The provider's events *)

\* A receipt that is new or received is processed if the lock is free; the others are
\* duplicates.
Reprocessable == {"new", "received"}

Deliver(e) ==
  /\ At(e, "idle")
  /\ IF receipts[e] \notin Reprocessable
     THEN answered' = answered \cup {e} /\ UNCHANGED <<receipts, lock, work>>
     ELSE /\ UNCHANGED answered
          /\ receipts' = [receipts EXCEPT ![e] = "received"]
          /\ IF lock = Free THEN lock' = e /\ Goto(e, "find") ELSE UNCHANGED <<lock, work>>
  /\ UNCHANGED <<told, sub, grant, erased, faults, apart>>

\* The administrator's replay of a failed event goes the same way.
Replay(e) ==
  /\ At(e, "idle") /\ receipts[e] = "failed" /\ lock = Free
  /\ lock' = e /\ Goto(e, "find")
  /\ UNCHANGED <<told, sub, grant, receipts, answered, erased, faults, apart>>

Find(e) ==
  /\ At(e, "find")
  /\ work' = [work EXCEPT ![e].step = IF erased THEN "mark" ELSE "put",
                          ![e].copy = IF erased THEN NoSub ELSE sub]
  /\ UNCHANGED <<told, sub, grant, receipts, answered, lock, erased, faults, apart>>

\* What is left is the receipt, or the answer.
Ready(h) == work' = [work EXCEPT ![h] = [Idle EXCEPT !.act = work[h].act, !.step = "mark"]]

\* A whole document is put over whatever is there.
PutSub(h, document) ==
  /\ sub' = document
  /\ apart' = (apart \/ sub # work[h].copy)
  /\ IF At(h, "link") THEN Ready(h)
     ELSE work' = [work EXCEPT ![h].copy = document, ![h].step = "grant"]

ApplyEvent(e) ==
  LET copy == IF work[e].copy = NoSub THEN Created(told[e]) ELSE work[e].copy
  IN  /\ At(e, "put")
      /\ IF Stale(copy, told[e]) \/ StaysEnded(copy, told[e])
         THEN Goto(e, "grant") /\ UNCHANGED <<sub, apart>>
         ELSE PutSub(e, AfterEvent(copy, told[e]))
      /\ UNCHANGED <<told, grant, receipts, answered, lock, erased, faults>>

\* updateSubscriptionEntitlement, of an event and of an action.
ReadGrant(h) ==
  /\ At(h, "grant")
  /\ work' = [work EXCEPT ![h].grant = grant, ![h].step = "putgrant"]
  /\ UNCHANGED <<told, sub, grant, receipts, answered, lock, erased, faults, apart>>

Granted(h) == IF work[h].grant = "revoked" THEN "revoked" ELSE Access(work[h].copy.status)

PutGrant(h) ==
  /\ At(h, "putgrant")
  /\ grant' = Granted(h)
  /\ apart' = (apart \/ grant # work[h].grant \/ sub # work[h].copy)
  /\ IF work[h].copy.linked THEN Ready(h) ELSE Goto(h, "link")
  /\ UNCHANGED <<told, sub, receipts, answered, lock, erased, faults>>

Link(h) ==
  /\ At(h, "link")
  /\ PutSub(h, [work[h].copy EXCEPT !.linked = TRUE])
  /\ UNCHANGED <<told, grant, receipts, answered, lock, erased, faults>>

Unlock(e) == lock' = IF lock = e THEN Free ELSE lock

Processed(e) ==
  /\ At(e, "mark") /\ e \in Events
  /\ receipts' = [receipts EXCEPT ![e] = "processed"]
  /\ answered' = answered \cup {e}
  /\ Unlock(e) /\ Rest(e)
  /\ UNCHANGED <<told, sub, grant, erased, faults, apart>>

\* A call throws: the event failed, and the provider is answered 502.
Throw(e) ==
  /\ ~At(e, "idle") /\ faults < MaxFaults
  /\ receipts' = [receipts EXCEPT ![e] = "failed"]
  /\ Unlock(e) /\ Rest(e)
  /\ faults' = faults + 1
  /\ UNCHANGED <<told, sub, grant, answered, erased, apart>>

----------------------------------------------------------------------------
(* The customer's actions *)

Ask(a, act) ==
  /\ At(a, "idle")
  /\ sub # NoSub /\ ~Ended(sub.status)
  /\ work' = [work EXCEPT ![a] = [Idle EXCEPT !.act = act, !.step = "provider", !.copy = sub]]
  /\ UNCHANGED <<told, sub, grant, receipts, answered, lock, erased, faults, apart>>

\* A request acts once: it does not return to "idle".
Finish(a) == work' = [work EXCEPT ![a] = [Idle EXCEPT !.step = "done"]]

CallProvider(a) ==
  /\ At(a, "provider")
  /\ Goto(a, "put") \/ Finish(a)
  /\ UNCHANGED <<told, sub, grant, receipts, answered, lock, erased, faults, apart>>

PutAction(a) ==
  /\ At(a, "put")
  /\ PutSub(a, AfterAction(work[a].copy, work[a].act))
  /\ UNCHANGED <<told, grant, receipts, answered, lock, erased, faults>>

Answer(a) ==
  /\ At(a, "mark") /\ a \in Actions
  /\ Finish(a)
  /\ UNCHANGED <<told, sub, grant, receipts, answered, lock, erased, faults, apart>>

----------------------------------------------------------------------------
(* The world *)

\* A process dies; the lock of an event stays until it expires.
Die(h) ==
  /\ work[h].step \notin {"idle", "done"} /\ faults < MaxFaults
  /\ IF h \in Events THEN Rest(h) /\ UNCHANGED apart
     ELSE Finish(h) /\ apart' = (apart \/ work[h].step \in {"grant", "putgrant"})
  /\ faults' = faults + 1
  /\ UNCHANGED <<told, sub, grant, receipts, answered, lock, erased>>

\* Of a dead holder, or under one that takes longer than 300 s.
ExpireLock ==
  /\ lock # Free
  /\ IF At(lock, "idle") THEN UNCHANGED faults ELSE faults < MaxFaults /\ faults' = faults + 1
  /\ lock' = Free
  /\ UNCHANGED <<told, sub, grant, receipts, answered, work, erased, apart>>

\* revokeEntitlement.
Revoke ==
  /\ grant # "none" /\ grant' = "revoked"
  /\ UNCHANGED <<told, sub, receipts, answered, lock, work, erased, faults, apart>>

\* The account deletion starts only when no subscription is active.
Erase ==
  /\ ~erased /\ (sub = NoSub \/ Ended(sub.status))
  /\ erased' = TRUE
  /\ UNCHANGED <<told, sub, grant, receipts, answered, lock, work, faults, apart>>

SubNext ==
  \/ \E e \in Events : \/ Deliver(e) \/ Replay(e) \/ Find(e) \/ ApplyEvent(e)
                       \/ Processed(e) \/ Throw(e)
  \/ \E a \in Actions : \/ \E act \in {"cancel", "renew", "change"} : Ask(a, act)
                        \/ CallProvider(a) \/ PutAction(a) \/ Answer(a)
  \/ \E h \in Handlers : ReadGrant(h) \/ PutGrant(h) \/ Link(h) \/ Die(h)
  \/ ExpireLock \/ Revoke \/ Erase

SubSpec == SubInit /\ [][SubNext]_subVars

----------------------------------------------------------------------------
(* Properties *)

Sub == [status : Statuses, period : Nat, linked : BOOLEAN]

Steps == {"idle", "find", "provider", "put", "grant", "putgrant", "link", "mark", "done"}
Acts == {"none", "cancel", "renew", "change"}

Grants == {"none", "inactive", "active", "expired", "revoked"}

\* The documents, the receipts and what the handlers remember have the values they should.
SubTypeOK ==
  /\ told \in Timelines
  /\ sub \in Sub /\ grant \in Grants
  /\ receipts \in [Events -> {"new", "received", "processed", "failed"}]
  /\ answered \subseteq Events /\ lock \in Events \cup {Free}
  /\ work \in [Handlers -> [step : Steps, act : Acts, copy : Sub, grant : Grants]]
  /\ erased \in BOOLEAN /\ faults \in 0..MaxFaults /\ apart \in BOOLEAN

\* However the events arrive, and whichever of their processing died or was replayed,
\* in the end the subscription is in the provider's last period, ended if the provider
\* ended it, and the entitlement gives the access of its status, unless it was revoked
\* (updateSubscriptionFromEvent, updateSubscriptionEntitlement).
SettledAgrees ==
  LET last == told[Length]
  IN  (/\ \A h \in Handlers : work[h].step \in {"idle", "done"}
       /\ \A e \in Events : receipts[e] = "processed"
       /\ ~apart /\ ~erased)
      => /\ sub.period = last.period
         /\ Ended(last.status) => Ended(sub.status)
         /\ grant \in {Access(sub.status), "revoked"}

\* Without a put that undoes another's, an ended subscription is revived only by a new
\* period, no period comes back, and a revoked entitlement stays revoked
\* (subscriptionEventIsStale, updateSubscriptionFromEvent).
NoRevivalStep ==
  apart' \/ /\ Ended(sub.status) => Ended(sub'.status) \/ sub'.period > sub.period
            /\ sub'.period >= sub.period
            /\ grant = "revoked" => grant' = "revoked"
NoRevival == [][NoRevivalStep]_subVars

\* An event that a delivery answers with 200 is processed: a failed one is delivered
\* again because it was answered 502 (webhookReceiptResult, webhookDuplicateCanReprocess).
AnsweredIsProcessed == \A e \in answered : receipts[e] = "processed"

=============================================================================

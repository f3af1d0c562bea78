--------------------------- MODULE ServicesProofs ---------------------------
(***************************************************************************)
(* Theorems about AdminAudit, CapabilityToken and Cart, for every set of   *)
(* requests, keys, inputs, tokens and carts, as MCServices uses them: one  *)
(* service is used and the others rest; and about Subscription, by its own *)
(* specification, for every number of events, whatever they tell, and      *)
(* every number of actions, calls that throw, processes that die and locks *)
(* that expire.                                                            *)
(***************************************************************************)
EXTENDS MCServices, TLAPS, FiniteSetTheorems

servicesVars == <<service, subVars, cartVars, auditVars, tokenVars, flowVars>>

\* The service that is used stays the one that is used.
LEMMA ServiceStays ==
  ASSUME [ServicesNext]_servicesVars
  PROVE  service' = service
<1>1. ASSUME ServicesNext
      PROVE  OnlySubscription \/ OnlyCart \/ OnlyAudit \/ OnlyToken \/ OnlyWorkflow
  BY <1>1 DEF ServicesNext
<1> QED
  BY <1>1 DEF servicesVars, OnlySubscription, OnlyCart, OnlyAudit, OnlyToken, OnlyWorkflow

\* A step of the services is a step of the one that is used.
LEMMA AuditAlone ==
  ASSUME InAudit, [ServicesNext]_servicesVars
  PROVE  [Audit!AuditNext]_auditVars
<1>1. ASSUME ServicesNext
      PROVE  Audit!AuditNext
  BY <1>1 DEF ServicesNext, InAudit, InCart, InSubscription, InToken, InWorkflow, Audit!AuditNext
<1> QED
  BY <1>1 DEF servicesVars

\* The same for the tokens.
LEMMA TokenAlone ==
  ASSUME InToken, [ServicesNext]_servicesVars
  PROVE  [Token!TokenNext]_tokenVars
<1>1. ASSUME ServicesNext
      PROVE  Token!TokenNext
  BY <1>1 DEF ServicesNext, InAudit, InCart, InSubscription, InToken, InWorkflow, Token!TokenNext
<1> QED
  BY <1>1 DEF servicesVars

----------------------------------------------------------------------------
(* The audit: its inductive invariant *)

ClientRow == [step : {"wait", "claim", "look", "reclaim", "act", "complete", "fail", "done"},
              key : Keys \cup {NoKey}, input : Inputs \cup {Audit!NoInput}, seen : Audit!Audit]

AuditTypes ==
  /\ audits \in [Keys -> Audit!Audit] /\ clients \in [Clients -> ClientRow]
  /\ results \in [Clients -> {"none", "ok", "failed", "replayed", "mismatch", "conflict", "thrown"}]
  /\ ran \in [Keys -> SUBSET (Inputs \cup {Audit!NoInput})] /\ breaks \in Nat

RunsFor(c, k) == clients[c].key = k /\ clients[c].step \in {"act", "complete", "fail"}

\* What was run under a key is done.
Done(k, input) == audits[k] = [status |-> "completed", input |-> input] /\ input \in ran[k]

\* Whoever runs the action of a key holds its claim, alone.
Alone(c, k) ==
  RunsFor(c, k) => /\ audits[k] = [status |-> "started", input |-> clients[c].input]
                   /\ \A d \in Clients : RunsFor(d, k) => c = d
                   /\ clients[c].step = "complete" => clients[c].input \in ran[k]

\* What is completed was run.
Honest(k) == audits[k].status = "completed" => audits[k].input \in ran[k]

\* What was read as completed still is, and is all that is answered as done.
Answered(c) ==
  /\ clients[c].step \in {"look", "reclaim"} => clients[c].key \in Keys
  /\ clients[c].step = "reclaim" /\ clients[c].seen.status = "completed"
       => audits[clients[c].key] = clients[c].seen
  /\ clients[c].step # "done" => results[c] = "none"
  /\ clients[c].key \in Keys /\ results[c] \in {"ok", "replayed"}
       => Done(clients[c].key, clients[c].input)

AuditInv ==
  /\ \A c \in Clients, k \in Keys : Alone(c, k)
  /\ \A k \in Keys : Honest(k)
  /\ \A c \in Clients : Answered(c)

----------------------------------------------------------------------------
(* The audit: proofs *)

\* Nothing is claimed when the audit begins.
LEMMA AuditInitHolds ==
  ASSUME Audit!AuditInit
  PROVE  AuditTypes /\ AuditInv
<1>1. Audit!NoAudit \in Audit!Audit
  BY DEF Audit!NoAudit, Audit!Audit, Audit!NoInput
<1>2. Audit!Quiet \in ClientRow
  BY <1>1 DEF Audit!Quiet, ClientRow
<1>3. AuditTypes
  BY <1>1, <1>2 DEF Audit!AuditInit, AuditTypes
<1>4. AuditInv
  BY DEF Audit!AuditInit, AuditInv, RunsFor, Alone, Honest, Answered, Audit!NoAudit, Audit!Quiet
<1> QED
  BY <1>3, <1>4

\* The ways a step rewrites what a request remembers, and the audit.
LEMMA AuditRows ==
  ASSUME AuditTypes, NEW c \in Clients
  PROVE  /\ \A s : Audit!Goto(c, s) => clients'[c] = [clients[c] EXCEPT !.step = s]
         /\ \A s : Audit!End(c, s) =>
              /\ clients'[c] = [clients[c] EXCEPT !.step = "done", !.seen = Audit!NoAudit]
              /\ results'[c] = s /\ \A d \in Clients \ {c} : results'[d] = results[d]
         /\ \A s : Audit!Goto(c, s) \/ Audit!End(c, s) => \A d \in Clients \ {c} : clients'[d] = clients[d]
         /\ \A s : Audit!Write(c, s) =>
              /\ clients[c].key \in Keys => /\ audits' = [audits EXCEPT ![clients[c].key] =
                                                 [status |-> s, input |-> clients[c].input]]
              /\ clients[c].key \notin Keys => UNCHANGED audits
         /\ Audit!Keyed(c) <=> clients[c].key \in Keys
<1>1. clients[c].key \in Keys \cup {NoKey} /\ NoKey \notin Keys
  BY ServicesAssumption DEF Audit!AuditAssumption, AuditTypes, ClientRow
<1> QED
  BY <1>1 DEF Audit!Goto, Audit!End, Audit!Write, Audit!Keyed, AuditTypes

\* A step of one request leaves the others what they hold, where it writes a claim that
\* none of them runs and that is not completed.
LEMMA AuditOthers ==
  ASSUME AuditTypes, AuditInv, NEW c \in Clients, NEW d \in Clients \ {c},
         clients'[d] = clients[d], results'[d] = results[d],
         \A k \in Keys : ran[k] \subseteq ran'[k],
         \A k \in Keys : \/ audits'[k] = audits[k]
                         \/ audits[k].status # "completed" /\ ~RunsFor(d, k),
         \A k \in Keys : RunsFor(d, k) =>
           \A e \in Clients : clients'[e] # clients[e] => e = c /\ ~RunsFor(c, k)'
  PROVE  Answered(d)' /\ \A k \in Keys : Alone(d, k)'
<1>1. clients[d] \in ClientRow /\ \A k \in Keys : Alone(d, k)
  BY DEF AuditTypes, AuditInv
<1>2. Answered(d)
  BY DEF AuditInv
<1>3. ASSUME NEW k \in Keys
      PROVE  Alone(d, k)'
  <2>1. Alone(d, k)
    BY <1>1
  <2> SUFFICES ASSUME RunsFor(d, k)
               PROVE  Alone(d, k)'
    BY DEF Alone, RunsFor
  <2>2. audits'[k] = audits[k]
    BY DEF RunsFor
  <2>3. \A e \in Clients : RunsFor(e, k)' => d = e
    <3> SUFFICES ASSUME NEW e \in Clients, RunsFor(e, k)'
                 PROVE  d = e
      OBVIOUS
    <3>1. clients'[e] = clients[e]
      OBVIOUS
    <3>2. RunsFor(e, k)
      BY <3>1 DEF RunsFor
    <3> QED
      BY <2>1, <3>2 DEF Alone
  <2> QED
    BY <2>1, <2>2, <2>3 DEF Alone
<1>4. Answered(d)'
  <2>1. ASSUME clients[d].step = "reclaim", clients[d].seen.status = "completed"
        PROVE  audits'[clients[d].key] = audits[clients[d].key]
    BY <1>2, <2>1 DEF Answered
  <2>2. ASSUME clients[d].key \in Keys, Done(clients[d].key, clients[d].input)
        PROVE  Done(clients[d].key, clients[d].input)'
    BY <2>2 DEF Done
  <2> QED
    BY <1>2, <2>1, <2>2 DEF Answered, Done
<1> QED
  BY <1>3, <1>4

\* Nobody else runs the action of a key whose claim is not held, or that one runs.
LEMMA NobodyElse ==
  ASSUME AuditInv, NEW c \in Clients, NEW d \in Clients \ {c}, NEW k \in Keys,
         audits[k].status # "started" \/ RunsFor(c, k)
  PROVE  ~RunsFor(d, k)
<1>1. Alone(c, k) /\ Alone(d, k)
  BY DEF AuditInv
<1> QED
  BY <1>1 DEF Alone

\* A request that begins holds nothing.
LEMMA AuditSubmit ==
  ASSUME AuditTypes, AuditInv, NEW c \in Clients, NEW key \in Keys \cup {NoKey}, NEW input \in Inputs,
         Audit!Submit(c, key, input)
  PROVE  AuditTypes' /\ AuditInv'
<1>1. clients[c] \in ClientRow /\ results[c] = "none"
  BY DEF AuditTypes, AuditInv, Answered, Audit!Submit, Audit!At
<1>2. Audit!NoAudit \in Audit!Audit /\ Audit!NoAudit.status = "none"
  BY DEF Audit!NoAudit, Audit!Audit, Audit!NoInput
<1>3. [Audit!Quiet EXCEPT !.step = "claim", !.key = key, !.input = input] \in ClientRow
  BY <1>2 DEF Audit!Quiet, ClientRow
<1>4. /\ clients' = [clients EXCEPT ![c] = [Audit!Quiet EXCEPT !.step = "claim", !.key = key, !.input = input]]
      /\ audits' = audits /\ results' = results /\ ran' = ran /\ breaks' = breaks
  BY DEF Audit!Submit
<1>5. AuditTypes'
  BY <1>3, <1>4 DEF AuditTypes
<1>6. clients'[c].step = "claim"
  BY <1>4 DEF AuditTypes, Audit!Quiet
<1>7. Answered(c)' /\ \A k \in Keys : Alone(c, k)'
  BY <1>1, <1>4, <1>6 DEF Answered, Alone, RunsFor
<1>8. ASSUME NEW d \in Clients \ {c}
      PROVE  Answered(d)' /\ \A k \in Keys : Alone(d, k)'
  BY <1>4, <1>6, AuditOthers DEF AuditTypes, RunsFor
<1>9. \A k \in Keys : Honest(k)'
  BY <1>4 DEF AuditInv, Honest
<1> QED
  BY <1>5, <1>7, <1>8, <1>9 DEF AuditInv

\* A claim that goes through is the only one of its key.
LEMMA AuditClaim ==
  ASSUME AuditTypes, AuditInv, NEW c \in Clients, Audit!Claim(c)
  PROVE  AuditTypes' /\ AuditInv'
<1> DEFINE k0 == clients[c].key
<1>1. /\ clients[c] \in ClientRow /\ results[c] = "none" /\ clients[c].step = "claim"
      /\ results' = results /\ ran' = ran /\ breaks' = breaks
  BY DEF AuditTypes, AuditInv, Answered, Audit!Claim, Audit!At
<1>2. CASE Audit!Goto(c, "look") /\ UNCHANGED audits /\ k0 \in Keys
  <2>1. clients' = [clients EXCEPT ![c].step = "look"] /\ [clients[c] EXCEPT !.step = "look"] \in ClientRow
    BY <1>1, <1>2 DEF Audit!Goto, ClientRow
  <2>2. AuditTypes'
    BY <2>1, <1>1, <1>2 DEF AuditTypes
  <2>3. clients'[c].step = "look" /\ clients'[c].key = k0
    BY <2>1, <1>1 DEF AuditTypes, ClientRow
  <2>4. Answered(c)' /\ \A k \in Keys : Alone(c, k)'
    BY <2>3, <1>1, <1>2 DEF Answered, Alone, RunsFor
  <2>5. ASSUME NEW d \in Clients \ {c}
        PROVE  Answered(d)' /\ \A k \in Keys : Alone(d, k)'
    BY <2>1, <2>3, <1>1, <1>2, AuditOthers DEF AuditTypes, RunsFor
  <2>6. \A k \in Keys : Honest(k)'
    BY <1>1, <1>2 DEF AuditInv, Honest
  <2> QED
    BY <2>2, <2>4, <2>5, <2>6 DEF AuditInv
<1>3. CASE Audit!Goto(c, "act") /\ Audit!Write(c, "started") /\ (k0 \in Keys => audits[k0] = Audit!NoAudit)
  <2>1. clients' = [clients EXCEPT ![c].step = "act"] /\ [clients[c] EXCEPT !.step = "act"] \in ClientRow
    BY <1>1, <1>3 DEF Audit!Goto, ClientRow
  <2>2. /\ k0 \in Keys => audits' = [audits EXCEPT ![k0] = [status |-> "started", input |-> clients[c].input]]
        /\ k0 \notin Keys => audits' = audits
        /\ [status |-> "started", input |-> clients[c].input] \in Audit!Audit
    BY <1>1, <1>3, AuditRows DEF ClientRow, Audit!Audit
  <2>3. AuditTypes'
    BY <2>1, <2>2, <1>1 DEF AuditTypes
  <2>4. clients'[c].step = "act" /\ clients'[c].key = k0 /\ clients'[c].input = clients[c].input
    BY <2>1, <1>1 DEF AuditTypes, ClientRow
  <2>5. k0 \in Keys => /\ audits[k0].status = "none"
                       /\ \A d \in Clients \ {c} : ~RunsFor(d, k0)
    BY <1>3, NobodyElse DEF Audit!NoAudit
  <2>6. Answered(c)' /\ \A k \in Keys : Alone(c, k)'
    <3>1. \A k \in Keys, d \in Clients \ {c} : RunsFor(d, k)' => RunsFor(d, k)
      BY <2>1 DEF AuditTypes, RunsFor
    <3>2. k0 \in Keys => audits'[k0] = [status |-> "started", input |-> clients'[c].input]
      BY <2>2, <2>4 DEF AuditTypes
    <3> QED
      BY <2>4, <2>5, <3>1, <3>2, <1>1 DEF Answered, Alone, RunsFor
  <2>7. ASSUME NEW d \in Clients \ {c}
        PROVE  Answered(d)' /\ \A k \in Keys : Alone(d, k)'
    <3>1. \A k \in Keys : k # k0 => audits'[k] = audits[k]
      BY <2>2 DEF AuditTypes
    <3>4. \A k \in Keys : audits'[k] = audits[k] \/ (audits[k].status # "completed" /\ ~RunsFor(d, k))
      BY <3>1, <2>5
    <3>2. \A k \in Keys : RunsFor(d, k) => ~RunsFor(c, k)'
      BY <2>4, <2>5 DEF RunsFor
    <3>3. clients'[d] = clients[d] /\ \A e \in Clients : clients'[e] # clients[e] => e = c
      BY <2>1 DEF AuditTypes
    <3> QED
      BY <1>1, <3>2, <3>3, <3>4, AuditOthers
  <2>8. \A k \in Keys : Honest(k)'
    BY <1>1, <2>2 DEF AuditInv, Honest, AuditTypes
  <2> QED
    BY <2>3, <2>6, <2>7, <2>8 DEF AuditInv
<1> QED
  BY <1>1, <1>2, <1>3, AuditRows DEF Audit!Claim

\* A step of one request that only writes the claim it holds, or takes over one that
\* nobody holds.
LEMMA AuditSettles ==
  ASSUME AuditTypes, AuditInv, NEW c \in Clients, NEW row \in ClientRow,
         clients' = [clients EXCEPT ![c] = row],
         \A d \in Clients \ {c} : results'[d] = results[d],
         \A k \in Keys : ran[k] \subseteq ran'[k],
         \A k \in Keys : \/ audits'[k] = audits[k]
                         \/ RunsFor(c, k) \/ audits[k].status \in {"none", "failed"},
         \A k \in Keys : row.key = k /\ row.step \in {"act", "complete", "fail"} =>
           /\ RunsFor(c, k) \/ audits[k].status \in {"none", "failed"}
           /\ audits'[k] = [status |-> "started", input |-> row.input]
           /\ row.step = "complete" => row.input \in ran'[k],
         Answered(c)', \A k \in Keys : Honest(k)'
  PROVE  AuditInv'
<1>1. clients'[c] = row /\ \A d \in Clients \ {c} : clients'[d] = clients[d]
  BY DEF AuditTypes
<1>2. ASSUME NEW k \in Keys, RunsFor(c, k)
      PROVE  audits[k].status = "started"
  <2>1. Alone(c, k)
    BY DEF AuditInv
  <2> QED
    BY <2>1, <1>2 DEF Alone
<1>3. ASSUME NEW k \in Keys, NEW d \in Clients \ {c}, RunsFor(c, k) \/ audits[k].status \in {"none", "failed"}
      PROVE  ~RunsFor(d, k)
  BY <1>3, NobodyElse
<1>4. ASSUME NEW d \in Clients \ {c}
      PROVE  Answered(d)' /\ \A k \in Keys : Alone(d, k)'
  <2>1. ASSUME NEW k \in Keys, audits'[k] # audits[k]
        PROVE  audits[k].status # "completed" /\ ~RunsFor(d, k)
    BY <2>1, <1>2, <1>3
  <2>2. ASSUME NEW k \in Keys, RunsFor(d, k), RunsFor(c, k)'
        PROVE  FALSE
    BY <2>2, <1>1, <1>3 DEF RunsFor
  <2>3. \A k \in Keys : RunsFor(d, k) => \A e \in Clients : clients'[e] # clients[e] => e = c /\ ~RunsFor(c, k)'
    BY <1>1, <2>2
  <2>4. \A k \in Keys : audits'[k] = audits[k] \/ (audits[k].status # "completed" /\ ~RunsFor(d, k))
    BY <2>1
  <2> QED
    BY <1>1, <2>3, <2>4, AuditOthers
<1>5. ASSUME NEW k \in Keys
      PROVE  Alone(c, k)'
  <2> SUFFICES ASSUME RunsFor(c, k)'
               PROVE  Alone(c, k)'
    BY DEF Alone, RunsFor
  <2>1. row.key = k /\ row.step \in {"act", "complete", "fail"}
    BY <1>1 DEF RunsFor
  <2>2. \A d \in Clients : RunsFor(d, k)' => c = d
    BY <2>1, <1>1, <1>3 DEF RunsFor
  <2> QED
    BY <2>1, <2>2, <1>1 DEF Alone
<1> QED
  BY <1>4, <1>5 DEF AuditInv

\* A request that looks remembers the claim as it is.
LEMMA AuditLook ==
  ASSUME AuditTypes, AuditInv, NEW c \in Clients, Audit!Look(c)
  PROVE  AuditTypes' /\ AuditInv'
<1> DEFINE row == [clients[c] EXCEPT !.seen = audits[clients[c].key], !.step = "reclaim"]
<1>1. /\ clients[c] \in ClientRow /\ clients[c].key \in Keys /\ results[c] = "none"
      /\ audits' = audits /\ results' = results /\ ran' = ran /\ breaks' = breaks
      /\ audits[clients[c].key] \in Audit!Audit
  BY DEF AuditTypes, AuditInv, Answered, Audit!Look, Audit!At
<1>2. row \in ClientRow /\ row.step = "reclaim" /\ row.key = clients[c].key /\ row.seen = audits[row.key]
  BY <1>1 DEF ClientRow
<1>3. clients' = [clients EXCEPT ![c] = row]
  BY <1>1 DEF Audit!Look, ClientRow, AuditTypes
<1> HIDE DEF row
<1>4. AuditTypes'
  BY <1>1, <1>2, <1>3 DEF AuditTypes
<1>5. Answered(c)'
  BY <1>1, <1>2, <1>3 DEF Answered, AuditTypes
<1>6. \A k \in Keys : Honest(k)'
  BY <1>1 DEF AuditInv, Honest
<1>7. AuditInv'
  BY <1>1, <1>2, <1>3, <1>5, <1>6, AuditSettles
<1> QED
  BY <1>4, <1>7

\* A failed claim is taken over by one request; any other is answered.
LEMMA AuditReclaim ==
  ASSUME AuditTypes, AuditInv, NEW c \in Clients, Audit!Reclaim(c)
  PROVE  AuditTypes' /\ AuditInv'
<1> DEFINE k0 == clients[c].key
           now == audits[k0]
           seen == clients[c].seen
<1>1. /\ clients[c] \in ClientRow /\ k0 \in Keys /\ clients[c].step = "reclaim" /\ results[c] = "none"
      /\ ran' = ran /\ breaks' = breaks /\ now \in Audit!Audit /\ clients[c].input \in Inputs \cup {Audit!NoInput}
      /\ seen.status = "completed" => now = seen
  BY DEF AuditTypes, AuditInv, Answered, Audit!Reclaim, Audit!At, ClientRow
<1>2. ASSUME Audit!Reclaimable(c, now), Audit!Write(c, "started"), Audit!Goto(c, "act"), UNCHANGED results
      PROVE  AuditTypes' /\ AuditInv'
  <2> DEFINE row == [clients[c] EXCEPT !.step = "act"]
  <2>1. row \in ClientRow /\ row.key = k0 /\ row.input = clients[c].input /\ row.step = "act"
    BY <1>1 DEF ClientRow
  <2>2. clients' = [clients EXCEPT ![c] = row]
    BY <1>1, <1>2 DEF Audit!Goto
  <2>3. /\ audits' = [audits EXCEPT ![k0] = [status |-> "started", input |-> clients[c].input]]
        /\ [status |-> "started", input |-> clients[c].input] \in Audit!Audit
    BY <1>1, <1>2, AuditRows DEF Audit!Audit
  <2> HIDE DEF row
  <2>4. AuditTypes'
    BY <1>1, <1>2, <2>1, <2>2, <2>3 DEF AuditTypes
  <2>5. now.status = "failed"
    BY <1>2 DEF Audit!Reclaimable
  <2>6. /\ audits'[k0] = [status |-> "started", input |-> row.input]
        /\ \A k \in Keys : k # k0 => audits'[k] = audits[k]
    BY <1>1, <2>1, <2>3 DEF AuditTypes
  <2>7. Answered(c)'
    BY <1>1, <1>2, <2>1, <2>2 DEF Answered, AuditTypes
  <2>8. \A k \in Keys : Honest(k)'
    BY <1>1, <2>6 DEF AuditInv, Honest
  <2>9. AuditInv'
    <3>1. \A k \in Keys : audits'[k] = audits[k] \/ audits[k].status \in {"none", "failed"}
      BY <2>5, <2>6
    <3>2. \A k \in Keys : row.key = k =>
            /\ audits[k].status \in {"none", "failed"}
            /\ audits'[k] = [status |-> "started", input |-> row.input]
      BY <2>1, <2>5, <2>6
    <3> HIDE DEF now
    <3> QED
      BY <1>1, <1>2, <2>1, <2>2, <3>1, <3>2, <2>7, <2>8, AuditSettles
  <2> QED
    BY <2>4, <2>9
<1>3. ASSUME NEW audit \in Audit!Audit, ~Audit!Reclaimable(c, audit), audit.status = "completed" => now = audit,
             Audit!End(c, Audit!Verdict(c, audit)), UNCHANGED audits
      PROVE  AuditTypes' /\ AuditInv'
  <2> DEFINE row == [clients[c] EXCEPT !.step = "done", !.seen = Audit!NoAudit]
  <2>0. Audit!NoAudit \in Audit!Audit
    BY DEF Audit!NoAudit, Audit!Audit, Audit!NoInput
  <2>1. row \in ClientRow /\ row.key = k0 /\ row.input = clients[c].input /\ row.step = "done"
    BY <1>1, <2>0 DEF ClientRow
  <2>2. clients' = [clients EXCEPT ![c] = row] /\ results' = [results EXCEPT ![c] = Audit!Verdict(c, audit)]
    BY <1>1, <1>3 DEF Audit!End, ClientRow, AuditTypes
  <2>3. /\ Audit!Verdict(c, audit) \in {"mismatch", "replayed", "conflict"}
        /\ Audit!Verdict(c, audit) = "replayed" => audit.input = clients[c].input /\ audit.status = "completed"
    BY DEF Audit!Verdict
  <2> HIDE DEF row
  <2>4. AuditTypes'
    BY <1>1, <1>3, <2>1, <2>2, <2>3 DEF AuditTypes
  <2>5. results'[c] = "replayed" => Done(k0, clients[c].input)'
    <3>1. results'[c] = Audit!Verdict(c, audit)
      BY <2>2 DEF AuditTypes
    <3> SUFFICES ASSUME results'[c] = "replayed"
                 PROVE  Done(k0, clients[c].input)'
      OBVIOUS
    <3>2. now = [status |-> "completed", input |-> clients[c].input]
      BY <3>1, <2>3, <1>3 DEF Audit!Audit
    <3>3. Honest(k0)
      BY <1>1 DEF AuditInv
    <3>4. clients'[c].key = k0 /\ clients'[c].input = clients[c].input
      BY <2>1, <2>2 DEF AuditTypes
    <3> QED
      BY <3>2, <3>3, <3>4, <1>1, <1>3 DEF Done, Honest
  <2>6. Answered(c)'
    <3>1. clients'[c] = row /\ results'[c] \in {"mismatch", "replayed", "conflict"}
      BY <2>2, <2>3 DEF AuditTypes
    <3> QED
      BY <3>1, <2>1, <2>5 DEF Answered, Done
  <2>7. \A k \in Keys : Honest(k)'
    BY <1>1, <1>3 DEF AuditInv, Honest
  <2>8. \A d \in Clients \ {c} : results'[d] = results[d]
    BY <2>2 DEF AuditTypes
  <2>9. AuditInv'
    BY <1>1, <1>3, <2>1, <2>2, <2>6, <2>7, <2>8, AuditSettles
  <2> QED
    BY <2>4, <2>9
<1>4. seen \in Audit!Audit
  BY <1>1 DEF ClientRow
<1>5. CASE ~Audit!Reclaimable(c, seen)
  BY <1>1, <1>3, <1>4, <1>5 DEF Audit!Reclaim
<1>6. CASE Audit!Reclaimable(c, seen) /\ Audit!Reclaimable(c, now)
  BY <1>2, <1>6 DEF Audit!Reclaim
<1>7. CASE Audit!Reclaimable(c, seen) /\ ~Audit!Reclaimable(c, now)
  BY <1>1, <1>3, <1>7 DEF Audit!Reclaim
<1> QED
  BY <1>5, <1>6, <1>7

\* The action changes only what was run, and with it what the request does next.
LEMMA AuditAct ==
  ASSUME AuditTypes, AuditInv, NEW c \in Clients, Audit!Act(c)
  PROVE  AuditTypes' /\ AuditInv'
<1> DEFINE k0 == clients[c].key
<1>1. /\ clients[c] \in ClientRow /\ clients[c].step = "act" /\ results[c] = "none"
      /\ audits' = audits /\ results' = results /\ breaks \in Nat
  BY DEF AuditTypes, AuditInv, Answered, Audit!Act, Audit!At
<1>2. PICK s \in {"complete", "fail"} :
        /\ Audit!Goto(c, s) /\ (Audit!Ran(c) \/ (s = "fail" /\ UNCHANGED ran))
        /\ breaks' = breaks \/ breaks' = breaks + 1
  BY DEF Audit!Act
<1> DEFINE row == [clients[c] EXCEPT !.step = s]
<1>3. row \in ClientRow /\ row.key = k0 /\ row.input = clients[c].input /\ row.step = s
  BY <1>1 DEF ClientRow
<1>4. clients' = [clients EXCEPT ![c] = row]
  BY <1>1, <1>2 DEF Audit!Goto
<1> HIDE DEF row
<1>5. clients[c].input \in Inputs \cup {Audit!NoInput}
  BY <1>1 DEF ClientRow
<1>6. /\ k0 \in Keys => \/ ran' = [ran EXCEPT ![k0] = @ \cup {clients[c].input}]
                        \/ s = "fail" /\ UNCHANGED ran
      /\ k0 \notin Keys => UNCHANGED ran
  BY <1>2, AuditRows DEF Audit!Ran
<1>7. /\ ran' \in [Keys -> SUBSET (Inputs \cup {Audit!NoInput})]
      /\ \A k \in Keys : ran[k] \subseteq ran'[k]
      /\ k0 \in Keys /\ s = "complete" => clients[c].input \in ran'[k0]
  BY <1>5, <1>6 DEF AuditTypes
<1>8. AuditTypes'
  <2>1. clients' \in [Clients -> ClientRow]
    BY <1>3, <1>4 DEF AuditTypes
  <2>2. breaks' \in Nat
    BY <1>1, <1>2
  <2> QED
    BY <1>1, <1>7, <2>1, <2>2 DEF AuditTypes
<1>9. Answered(c)'
  <2>1. clients'[c] = row
    BY <1>4 DEF AuditTypes
  <2> QED
    BY <1>1, <1>3, <2>1 DEF Answered
<1>10. \A k \in Keys : Honest(k)'
  BY <1>1, <1>7 DEF AuditInv, Honest
<1>11. \A k \in Keys : row.key = k /\ row.step \in {"act", "complete", "fail"} =>
         /\ RunsFor(c, k)
         /\ audits'[k] = [status |-> "started", input |-> row.input]
         /\ row.step = "complete" => row.input \in ran'[k]
  <2> SUFFICES ASSUME NEW k \in Keys, k = k0
               PROVE  /\ RunsFor(c, k)
                      /\ audits'[k] = [status |-> "started", input |-> row.input]
                      /\ row.step = "complete" => row.input \in ran'[k]
    BY <1>3
  <2>1. RunsFor(c, k) /\ Alone(c, k)
    BY <1>1 DEF RunsFor, AuditInv
  <2> QED
    BY <2>1, <1>1, <1>3, <1>7 DEF Alone
<1>12. AuditInv'
  BY <1>1, <1>3, <1>4, <1>7, <1>8, <1>9, <1>10, <1>11, AuditSettles
<1> QED
  BY <1>8, <1>12

\* A request that ends writes the claim it holds, or nothing.
LEMMA AuditEnds ==
  ASSUME AuditTypes, AuditInv, NEW c \in Clients, NEW result \in {"ok", "failed", "thrown"},
         NEW s \in {"completed", "failed"}, Audit!End(c, result), UNCHANGED ran,
         clients[c].step # "done", breaks' \in Nat,
         \/ UNCHANGED audits /\ result = "thrown"
         \/ Audit!Write(c, s) /\ clients[c].step \in {"complete", "fail"},
         s = "completed" => clients[c].step = "complete",
         result = "ok" => s = "completed"
  PROVE  AuditTypes' /\ AuditInv'
<1> DEFINE k0 == clients[c].key
           row == [clients[c] EXCEPT !.step = "done", !.seen = Audit!NoAudit]
<1>1. Audit!NoAudit \in Audit!Audit /\ clients[c] \in ClientRow
  BY DEF Audit!NoAudit, Audit!Audit, Audit!NoInput, AuditTypes
<1>2. row \in ClientRow /\ row.key = k0 /\ row.input = clients[c].input /\ row.step = "done"
  BY <1>1 DEF ClientRow
<1>3. clients' = [clients EXCEPT ![c] = row] /\ results' = [results EXCEPT ![c] = result]
  BY <1>1 DEF Audit!End, ClientRow, AuditTypes
<1>4. clients'[c] = row /\ results'[c] = result /\ \A d \in Clients \ {c} : results'[d] = results[d]
  BY <1>3 DEF AuditTypes
<1> HIDE DEF row
<1>5. clients[c].input \in Inputs \cup {Audit!NoInput}
  BY <1>1 DEF ClientRow
<1>6. \/ UNCHANGED audits /\ result = "thrown"
      \/ k0 \notin Keys /\ UNCHANGED audits
      \/ /\ k0 \in Keys /\ audits' = [audits EXCEPT ![k0] = [status |-> s, input |-> clients[c].input]]
         /\ RunsFor(c, k0)
  BY AuditRows DEF RunsFor
<1>7. /\ audits' \in [Keys -> Audit!Audit]
      /\ \A k \in Keys : audits'[k] = audits[k] \/ RunsFor(c, k)
  <2>1. [status |-> s, input |-> clients[c].input] \in Audit!Audit
    BY <1>5 DEF Audit!Audit
  <2>2. audits \in [Keys -> Audit!Audit]
    BY DEF AuditTypes
  <2> QED
    BY <1>6, <2>1, <2>2
<1>8. AuditTypes'
  BY <1>2, <1>3, <1>7 DEF AuditTypes
<1>9. k0 \in Keys /\ clients[c].step = "complete" => clients[c].input \in ran[k0]
  <2> SUFFICES ASSUME k0 \in Keys, clients[c].step = "complete"
               PROVE  clients[c].input \in ran[k0]
    OBVIOUS
  <2>1. Alone(c, k0)
    BY DEF AuditInv
  <2> QED
    BY <2>1 DEF Alone, RunsFor
<1>10. Answered(c)'
  <2>1. k0 \in Keys /\ result = "ok" => Done(k0, clients[c].input)'
    <3> SUFFICES ASSUME k0 \in Keys, result = "ok"
                 PROVE  Done(k0, clients[c].input)'
      OBVIOUS
    <3>1. audits' = [audits EXCEPT ![k0] = [status |-> "completed", input |-> clients[c].input]]
      BY <1>6
    <3>2. audits'[k0] = [status |-> "completed", input |-> clients[c].input]
      BY <3>1 DEF AuditTypes
    <3>3. clients[c].input \in ran'[k0]
      BY <1>9
    <3> QED
      BY <3>2, <3>3, <1>2, <1>4 DEF Done
  <2> QED
    BY <2>1, <1>2, <1>4 DEF Answered, Done
<1>11. ASSUME NEW k \in Keys
       PROVE  Honest(k)'
  <2>1. CASE audits'[k] = audits[k]
    BY <2>1 DEF AuditInv, Honest
  <2>2. CASE audits'[k] # audits[k]
    <3>1. k0 = k /\ audits' = [audits EXCEPT ![k0] = [status |-> s, input |-> clients[c].input]]
      BY <2>2, <1>6 DEF AuditTypes
    <3>2. audits'[k] = [status |-> s, input |-> clients[c].input]
      BY <3>1 DEF AuditTypes
    <3> QED
      BY <3>1, <3>2, <1>9 DEF Honest
  <2> QED
    BY <2>1, <2>2
<1>12. AuditInv'
  BY <1>2, <1>3, <1>4, <1>7, <1>10, <1>11, AuditSettles
<1> QED
  BY <1>8, <1>12

\* The one that ran the action completes its claim, or goes on to fail it.
LEMMA AuditComplete ==
  ASSUME AuditTypes, AuditInv, NEW c \in Clients, Audit!Complete(c)
  PROVE  AuditTypes' /\ AuditInv'
<1>1. /\ clients[c] \in ClientRow /\ clients[c].step = "complete" /\ results[c] = "none" /\ ran' = ran
      /\ breaks \in Nat /\ breaks + 1 \in Nat
  BY DEF AuditTypes, AuditInv, Answered, Audit!Complete, Audit!At
<1>2. ASSUME Audit!Write(c, "completed"), Audit!End(c, "ok"), UNCHANGED breaks
      PROVE  AuditTypes' /\ AuditInv'
  BY <1>1, <1>2, AuditEnds
<1>3. ASSUME breaks' = breaks + 1, Audit!Goto(c, "fail"), UNCHANGED <<audits, results>>
      PROVE  AuditTypes' /\ AuditInv'
  <2> DEFINE row == [clients[c] EXCEPT !.step = "fail"]
  <2>1. row \in ClientRow /\ row.key = clients[c].key /\ row.input = clients[c].input /\ row.step = "fail"
    BY <1>1 DEF ClientRow
  <2>2. clients' = [clients EXCEPT ![c] = row]
    BY <1>1, <1>3 DEF Audit!Goto
  <2> HIDE DEF row
  <2>3. clients'[c] = row
    BY <2>2 DEF AuditTypes
  <2>4. AuditTypes'
    BY <1>1, <1>3, <2>1, <2>2 DEF AuditTypes
  <2>5. Answered(c)'
    BY <1>1, <1>3, <2>1, <2>3 DEF Answered
  <2>6. \A k \in Keys : Honest(k)'
    BY <1>1, <1>3 DEF AuditInv, Honest
  <2>7. ASSUME NEW k \in Keys, row.key = k
        PROVE  RunsFor(c, k) /\ audits'[k] = [status |-> "started", input |-> row.input]
    <3>1. RunsFor(c, k) /\ Alone(c, k)
      BY <2>1, <2>7, <1>1 DEF RunsFor, AuditInv
    <3> QED
      BY <3>1, <1>3, <2>1 DEF Alone
  <2>8. AuditInv'
    BY <1>1, <1>3, <2>1, <2>2, <2>5, <2>6, <2>7, AuditSettles
  <2> QED
    BY <2>4, <2>8
<1> QED
  BY <1>2, <1>3 DEF Audit!Complete

\* A step of the audit preserves its inductive invariant.
LEMMA AuditStep ==
  ASSUME AuditTypes, AuditInv, [Audit!AuditNext]_auditVars
  PROVE  AuditTypes' /\ AuditInv'
<1>1. ASSUME NEW c \in Clients, Audit!Fail(c)
      PROVE  AuditTypes' /\ AuditInv'
  BY <1>1, AuditEnds DEF Audit!Fail, Audit!At, AuditTypes
<1>2. ASSUME NEW c \in Clients, Audit!Break(c)
      PROVE  AuditTypes' /\ AuditInv'
  <2>1. breaks' \in Nat
    BY <1>2 DEF Audit!Break, AuditTypes
  <2> QED
    BY <2>1, <1>2, AuditEnds DEF Audit!Break
<1>3. CASE UNCHANGED auditVars
  <2>1. audits' = audits /\ clients' = clients /\ results' = results /\ ran' = ran /\ breaks' = breaks
    BY <1>3 DEF auditVars
  <2> QED
    BY <2>1 DEF AuditTypes, AuditInv, Alone, RunsFor, Honest, Answered, Done
<1>4. CASE Audit!AuditNext
  BY <1>1, <1>2, <1>4, AuditSubmit, AuditClaim, AuditLook, AuditReclaim, AuditAct, AuditComplete DEF Audit!AuditNext
<1> QED
  BY <1>3, <1>4

\* However requests and retries with one key interleave, one of them at a time runs the
\* action, and none once it completed; and only the input that was run is answered as
\* done (claimAdminAuditIdempotency, adminIdempotencyClaimResult).
THEOREM OneRun == ServicesSpec => []OneRunPerKey
<1> DEFINE Audited == InAudit => AuditTypes /\ AuditInv
<1>1. ServicesInit => Audited
  BY AuditInitHolds DEF ServicesInit, InAudit
<1>2. ASSUME Audited, [ServicesNext]_servicesVars
      PROVE  Audited'
  <2> SUFFICES ASSUME InAudit'
               PROVE  (AuditTypes /\ AuditInv)'
    OBVIOUS
  <2>1. InAudit
    BY <1>2, ServiceStays DEF InAudit
  <2> QED
    BY <2>1, <1>2, AuditAlone, AuditStep
<1>3. ASSUME Audited
      PROVE  OneRunPerKey
  <2> SUFFICES ASSUME InAudit
               PROVE  Audit!OneRunPerKey
    BY DEF OneRunPerKey
  <2>1. AuditTypes /\ AuditInv
    BY <1>3
  <2>2. ASSUME NEW k \in Keys
        PROVE  /\ \A c, d \in Audit!Running(k) : c = d
               /\ Audit!Running(k) # {} => audits[k].status = "started"
    <3>1. ASSUME NEW c \in Audit!Running(k)
          PROVE  c \in Clients /\ RunsFor(c, k) /\ Alone(c, k)
      <4>1. c \in Clients /\ RunsFor(c, k)
        BY <3>1 DEF Audit!Running, RunsFor
      <4> QED
        BY <4>1, <2>1 DEF AuditInv
    <3>2. ASSUME NEW c \in Audit!Running(k), NEW d \in Audit!Running(k)
          PROVE  c = d
      <4>1. d \in Clients /\ RunsFor(d, k) /\ RunsFor(c, k) /\ Alone(c, k)
        BY <3>1
      <4> QED
        BY <4>1 DEF Alone
    <3>3. ASSUME NEW c \in Audit!Running(k)
          PROVE  audits[k].status = "started"
      <4>1. RunsFor(c, k) /\ Alone(c, k)
        BY <3>1
      <4> QED
        BY <4>1 DEF Alone
    <3> QED
      BY <3>2, <3>3
  <2>3. ASSUME NEW c \in Clients, Audit!Keyed(c), results[c] \in {"ok", "replayed"}
        PROVE  /\ audits[clients[c].key] = [status |-> "completed", input |-> clients[c].input]
               /\ clients[c].input \in ran[clients[c].key]
    <3>1. clients[c].key \in Keys /\ Answered(c)
      BY <2>1, <2>3, AuditRows DEF AuditInv
    <3> QED
      BY <3>1, <2>3 DEF Answered, Done
  <2> QED
    BY <2>2, <2>3 DEF Audit!OneRunPerKey
<1> QED
  BY <1>1, <1>2, <1>3, PTL DEF ServicesSpec, servicesVars

----------------------------------------------------------------------------
(* The tokens: their inductive invariant *)

VisitRow == [step : {"wait", "mint", "reuse", "point", "read", "check", "consume", "session", "restore",
                     "answered", "done"}, token : Tokens \cup {0}]

TokenTypes ==
  /\ tokens \in [Tokens -> Token!Token] /\ pointer \in Tokens \cup {0}
  /\ visits \in [Visits -> VisitRow] /\ shown \subseteq Tokens
  /\ uses \in [Tokens -> Nat] /\ latecomers \subseteq Visits /\ halves \in [Tokens -> Nat]
  /\ throws \in Nat

\* A visitor who is being signed in, with the token consumed and not given back.
SigningIn(v, t) == visits[v].token = t /\ visits[v].step \in {"session", "restore"}

\* A token that was used, and not only half.
FullyUsed(t) == uses[t] > halves[t]

\* A request that acts on a token was shown it; one that came after it was used only reads it.
Held(v) ==
  /\ visits[v].step \in {"read", "check", "consume", "session", "restore"} => visits[v].token \in shown
  /\ visits[v].step \in {"reuse", "point"} => visits[v].token \in Tokens
  /\ v \in latecomers => \/ visits[v].step = "done"
                         \/ visits[v].step = "read" /\ FullyUsed(visits[v].token)

\* A token that may still be used was not, but for half a sign-in, and nobody is being
\* signed in with it; who is being signed in is alone with a token like that.
Spent(t) ==
  /\ uses[t] <= 1 + halves[t]
  /\ t \notin shown => uses[t] = 0
  /\ tokens[t].status = "pending" => uses[t] <= halves[t]
  /\ tokens[t].status \in {"pending", "active"} => \A v \in Visits : ~SigningIn(v, t)
  /\ \A v \in Visits : SigningIn(v, t) => /\ uses[t] <= halves[t]
                                          /\ \A w \in Visits : SigningIn(w, t) => v = w

TokenInv == (\A v \in Visits : Held(v)) /\ (\A t \in Tokens : Spent(t))

----------------------------------------------------------------------------
(* The tokens: proofs *)

\* No token was made or used when the tokens begin.
LEMMA TokenInitHolds ==
  ASSUME Token!TokenInit
  PROVE  TokenTypes /\ TokenInv
<1>1. Token!NoToken \in Token!Token /\ Token!Away \in VisitRow
  BY DEF Token!NoToken, Token!Token, Token!Away, VisitRow
<1>2. TokenTypes
  BY <1>1 DEF Token!TokenInit, TokenTypes
<1>3. \A v \in Visits : Held(v)
  BY DEF Token!TokenInit, Token!Away, Held, FullyUsed
<1>4. \A t \in Tokens : Spent(t)
  BY DEF Token!TokenInit, Token!Away, Token!NoToken, Spent, SigningIn
<1> QED
  BY <1>2, <1>3, <1>4 DEF TokenInv

\* A step that signs nobody in and gives nothing spends nothing.
LEMMA TokensKept ==
  ASSUME TokenTypes, TokenInv, uses' = uses, halves' = halves, shown \subseteq shown',
         \A w \in Visits, t \in Tokens : SigningIn(w, t)' => SigningIn(w, t),
         \A t \in Tokens : \/ tokens'[t].status = tokens[t].status
                           \/ tokens'[t].status \notin {"pending", "active"}
                           \/ t \notin shown
  PROVE  \A t \in Tokens : Spent(t)'
<1> SUFFICES ASSUME NEW t \in Tokens
             PROVE  Spent(t)'
  OBVIOUS
<1>1. Spent(t) /\ uses[t] \in Nat /\ halves[t] \in Nat
  BY DEF TokenTypes, TokenInv
<1>2. ASSUME t \notin shown
      PROVE  uses[t] <= halves[t] /\ \A v \in Visits : ~SigningIn(v, t)
  BY <1>1, <1>2 DEF Spent, TokenInv, Held, SigningIn
<1>3. tokens'[t].status \in {"pending", "active"} => \A v \in Visits : ~SigningIn(v, t)
  BY <1>1, <1>2 DEF Spent
<1>4. tokens'[t].status = "pending" => uses[t] <= halves[t]
  BY <1>1, <1>2 DEF Spent
<1> QED
  BY <1>1, <1>3, <1>4 DEF Spent

\* What a visitor remembers after a step of its own, and what the others do.
LEMMA VisitRows ==
  ASSUME TokenTypes, NEW v \in Visits
  PROVE  /\ visits[v] \in VisitRow
         /\ Token!Leave(v) => visits' = [visits EXCEPT ![v] = [step |-> "done", token |-> 0]]
         /\ \A s : Token!Goto(v, s) => visits' = [visits EXCEPT ![v] = [step |-> s, token |-> visits[v].token]]
<1>1. visits \in [Visits -> VisitRow]
  BY DEF TokenTypes
<1>2. visits[v] = [step |-> visits[v].step, token |-> visits[v].token]
  BY <1>1 DEF VisitRow
<1>3. [Token!Away EXCEPT !.step = "done"] = [step |-> "done", token |-> 0]
  BY DEF Token!Away
<1>4. \A s : [visits[v] EXCEPT !.step = s] = [step |-> s, token |-> visits[v].token]
  BY <1>2
<1> QED
  BY <1>1, <1>3, <1>4 DEF Token!Leave, Token!Goto

\* A visitor's step that signs it in with no token and gives nothing.
LEMMA VisitMoves ==
  ASSUME TokenTypes, TokenInv, NEW v \in Visits, NEW row \in VisitRow,
         visits' = [visits EXCEPT ![v] = row], row.step \notin {"session", "restore"},
         row.step \in {"read", "check", "consume"} => row.token \in shown',
         row.step \in {"reuse", "point"} => row.token \in Tokens,
         latecomers' \subseteq Visits, latecomers' \ {v} = latecomers \ {v},
         v \in latecomers' => row.step = "done" \/ (row.step = "read" /\ FullyUsed(row.token)),
         uses' = uses, halves' = halves, shown \subseteq shown', shown' \subseteq Tokens,
         tokens' \in [Tokens -> Token!Token], pointer' \in Tokens \cup {0}, throws' \in Nat,
         \A t \in Tokens : tokens'[t].status = tokens[t].status \/ t \notin shown
  PROVE  TokenTypes' /\ TokenInv'
<1>1. visits \in [Visits -> VisitRow]
  BY DEF TokenTypes
<1>2. visits' \in [Visits -> VisitRow] /\ visits'[v] = row /\ \A w \in Visits \ {v} : visits'[w] = visits[w]
  BY <1>1
<1>3. TokenTypes'
  BY <1>2 DEF TokenTypes
<1>4. \A w \in Visits, t \in Tokens : SigningIn(w, t)' => SigningIn(w, t)
  BY <1>2 DEF SigningIn
<1>5. \A t \in Tokens : Spent(t)'
  BY <1>4, TokensKept
<1>6. ASSUME NEW w \in Visits
      PROVE  Held(w)'
  <2>1. CASE w = v
    BY <2>1, <1>2 DEF Held, FullyUsed
  <2>2. CASE w # v
    <3>1. Held(w) /\ (w \in latecomers' <=> w \in latecomers) /\ visits'[w] = visits[w]
      BY <2>2, <1>2 DEF TokenInv
    <3> QED
      BY <3>1 DEF Held, FullyUsed
  <2> QED
    BY <2>1, <2>2
<1> QED
  BY <1>3, <1>5, <1>6 DEF TokenInv

\* A token that is made was never shown.
LEMMA MintMakes ==
  ASSUME TokenTypes, NEW t \in Tokens, NEW purpose \in Token!Purposes, Token!Mint(t, purpose)
  PROVE  /\ tokens' \in [Tokens -> Token!Token] /\ t \notin shown
         /\ \A u \in Tokens : tokens'[u].status = tokens[u].status \/ u \notin shown
<1>1. Token!Minted(purpose) \in Token!Token
  BY DEF Token!Minted, Token!Token
<1>2. tokens' = [tokens EXCEPT ![t] = Token!Minted(purpose)] /\ t \notin shown
  BY DEF Token!Mint, Token!Unnamed
<1> QED
  BY <1>1, <1>2 DEF TokenTypes

\* A token that is handed out was never used.
LEMMA TokenHandsOut ==
  ASSUME TokenTypes, TokenInv, NEW v \in Visits,
         \/ Token!RequestMagicLink(v) \/ Token!RequestAccountExport(v) \/ Token!CreateOrderInvoiceToken(v)
         \/ Token!ReadPointer(v) \/ Token!Reuse(v) \/ Token!MintDownload(v) \/ Token!Point(v)
  PROVE  TokenTypes' /\ TokenInv'
<1>1. /\ visits[v] \in VisitRow /\ visits[v].token \in Tokens \cup {0} /\ Held(v) /\ shown \subseteq Tokens
      /\ tokens \in [Tokens -> Token!Token] /\ pointer \in Tokens \cup {0} /\ throws \in Nat
      /\ [step |-> "done", token |-> 0] \in VisitRow /\ latecomers \subseteq Visits /\ v \notin latecomers
      /\ latecomers' = latecomers
  BY DEF TokenTypes, VisitRow, TokenInv, Held, Token!RequestMagicLink, Token!RequestAccountExport,
         Token!CreateOrderInvoiceToken, Token!HandOut, Token!ReadPointer, Token!Reuse, Token!MintDownload,
         Token!Point, Token!At
<1>2. ASSUME NEW purpose \in Token!Purposes, Token!HandOut(v, purpose)
      PROVE  TokenTypes' /\ TokenInv'
  <2>1. PICK t \in Tokens : Token!Mint(t, purpose) /\ shown' = shown \cup {t}
    BY <1>2 DEF Token!HandOut
  <2> QED
    BY <2>1, <1>1, <1>2, VisitRows, MintMakes, VisitMoves DEF Token!HandOut
<1>3. ASSUME Token!ReadPointer(v)
      PROVE  TokenTypes' /\ TokenInv'
  <2> DEFINE row == [step |-> IF pointer = 0 THEN "mint" ELSE "reuse", token |-> pointer]
  <2>1. row \in VisitRow /\ row.step \in {"mint", "reuse"} /\ (row.step = "reuse" => row.token \in Tokens)
    BY <1>1 DEF VisitRow
  <2>2. /\ visits' = [visits EXCEPT ![v] = row] /\ tokens' = tokens /\ pointer' = pointer /\ shown' = shown
        /\ uses' = uses /\ latecomers' = latecomers /\ halves' = halves /\ throws' = throws
    BY <1>3 DEF Token!ReadPointer
  <2> HIDE DEF row
  <2> QED
    BY <2>1, <2>2, <1>1, VisitMoves
<1>4. ASSUME Token!Reuse(v)
      PROVE  TokenTypes' /\ TokenInv'
  <2>1. /\ visits[v].token \in Tokens /\ shown' \in {shown, shown \cup {visits[v].token}}
        /\ tokens' = tokens /\ pointer' = pointer /\ uses' = uses /\ latecomers' = latecomers /\ halves' = halves /\ throws' = throws
        /\ Token!Leave(v) \/ Token!Goto(v, "mint")
    BY <1>1, <1>4 DEF Token!Reuse, Token!At, Held
  <2>2. [step |-> "mint", token |-> visits[v].token] \in VisitRow
    BY <1>1 DEF VisitRow
  <2>3. shown \subseteq shown' /\ shown' \subseteq Tokens
    BY <2>1, <1>1
  <2>4. CASE Token!Leave(v)
    BY <2>1, <2>3, <2>4, <1>1, VisitRows, VisitMoves
  <2>5. CASE Token!Goto(v, "mint")
    BY <2>1, <2>2, <2>3, <2>5, <1>1, VisitRows, VisitMoves
  <2> QED
    BY <2>1, <2>4, <2>5
<1>5. ASSUME Token!MintDownload(v)
      PROVE  TokenTypes' /\ TokenInv'
  <2>1. PICK t \in Tokens : /\ Token!Mint(t, "download")
                            /\ visits' = [visits EXCEPT ![v] = [step |-> "point", token |-> t]]
    BY <1>5 DEF Token!MintDownload
  <2>2. [step |-> "point", token |-> t] \in VisitRow
    BY DEF VisitRow
  <2>3. "download" \in Token!Purposes
    BY DEF Token!Purposes
  <2>4. pointer' = pointer /\ shown' = shown /\ uses' = uses /\ latecomers' = latecomers /\ halves' = halves /\ throws' = throws
    BY <1>5 DEF Token!MintDownload
  <2> QED
    BY <2>1, <2>2, <2>3, <2>4, <1>1, MintMakes, VisitMoves
<1>6. ASSUME Token!Point(v)
      PROVE  TokenTypes' /\ TokenInv'
  <2>1. /\ visits[v].token \in Tokens /\ shown' = shown \cup {visits[v].token} /\ Token!Leave(v)
        /\ tokens' = tokens /\ pointer' = visits[v].token /\ uses' = uses /\ latecomers' = latecomers /\ halves' = halves /\ throws' = throws
    BY <1>1, <1>6 DEF Token!Point, Token!At, Held
  <2> QED
    BY <2>1, <1>1, VisitRows, VisitMoves
<1> QED
  BY <1>2, <1>3, <1>4, <1>5, <1>6
     DEF Token!RequestMagicLink, Token!RequestAccountExport, Token!CreateOrderInvoiceToken, Token!Purposes

\* Looking at a token, or dying, gives nothing.
LEMMA TokenLooks ==
  ASSUME TokenTypes, TokenInv, NEW v \in Visits,
         \/ \E t \in Tokens : Token!Present(v, t)
         \/ Token!GetOrderInvoice(v)
         \/ Token!ReadToken(v) \/ Token!CheckAccess(v) \/ Token!Stop(v)
  PROVE  TokenTypes' /\ TokenInv'
<1>1. /\ visits[v] \in VisitRow /\ visits[v].token \in Tokens \cup {0} /\ Held(v) /\ shown \subseteq Tokens
      /\ tokens \in [Tokens -> Token!Token] /\ pointer \in Tokens \cup {0} /\ throws \in Nat
      /\ throws + 1 \in Nat
      /\ [step |-> "done", token |-> 0] \in VisitRow /\ latecomers \subseteq Visits
  BY DEF TokenTypes, VisitRow, TokenInv
<1>2. ASSUME NEW t \in Tokens, Token!Present(v, t)
      PROVE  TokenTypes' /\ TokenInv'
  <2>1. [step |-> "read", token |-> t] \in VisitRow
    BY DEF VisitRow
  <2>2. v \notin latecomers
    BY <1>1, <1>2 DEF Held, Token!Present, Token!At
  <2>3. /\ latecomers' \subseteq Visits /\ latecomers' \ {v} = latecomers \ {v}
        /\ v \in latecomers' => FullyUsed(t)
    BY <2>2, <1>1, <1>2 DEF Token!Present, FullyUsed
  <2> QED
    BY <2>1, <2>3, <1>1, <1>2, VisitMoves DEF Token!Present
<1>3. ASSUME Token!Leave(v), UNCHANGED <<tokens, pointer, shown, uses, latecomers, halves>>, throws' \in Nat
      PROVE  TokenTypes' /\ TokenInv'
  <2>1. visits' = [visits EXCEPT ![v] = [step |-> "done", token |-> 0]]
    BY <1>3, VisitRows
  <2>2. latecomers' \subseteq Visits /\ latecomers' \ {v} = latecomers \ {v}
    BY <1>1, <1>3
  <2> QED
    BY <2>1, <2>2, <1>1, <1>3, VisitMoves
<1>4. ASSUME NEW s \in {"check", "consume", "answered"}, Token!Goto(v, s),
             visits[v].step \in {"read", "check"}, v \notin latecomers,
             UNCHANGED <<tokens, pointer, shown, uses, latecomers, halves, throws>>
      PROVE  TokenTypes' /\ TokenInv'
  <2>1. visits[v].token \in shown /\ [step |-> s, token |-> visits[v].token] \in VisitRow
    BY <1>1, <1>4 DEF Held, VisitRow
  <2> QED
    BY <2>1, <1>1, <1>4, VisitRows, VisitMoves
<1>5. ASSUME Token!ReadToken(v)
      PROVE  TokenTypes' /\ TokenInv'
  <2>1. CASE Token!Usable(visits[v].token)
    <3>1. visits[v].token \in Tokens /\ tokens[visits[v].token].status = "pending" /\ visits[v].step = "read"
      BY <2>1, <1>1, <1>5 DEF Token!Usable, Token!ReadToken, Token!At, Held
    <3>2. ~FullyUsed(visits[v].token)
      BY <3>1 DEF TokenInv, Spent, FullyUsed, TokenTypes
    <3>3. v \notin latecomers
      BY <3>1, <3>2, <1>1 DEF Held
    <3> QED
      BY <2>1, <3>1, <3>3, <1>4, <1>5 DEF Token!ReadToken
  <2>2. CASE ~Token!Usable(visits[v].token)
    BY <2>2, <1>1, <1>3, <1>5 DEF Token!ReadToken
  <2> QED
    BY <2>1, <2>2
<1>6. ASSUME Token!CheckAccess(v)
      PROVE  TokenTypes' /\ TokenInv'
  <2>1. v \notin latecomers
    BY <1>1, <1>6 DEF Held, Token!CheckAccess, Token!At
  <2> QED
    BY <2>1, <1>1, <1>3, <1>4, <1>6 DEF Token!CheckAccess, Token!At
<1>7. ASSUME Token!Stop(v)
      PROVE  TokenTypes' /\ TokenInv'
  BY <1>1, <1>3, <1>7 DEF Token!Stop
<1>8. ASSUME Token!GetOrderInvoice(v)
      PROVE  TokenTypes' /\ TokenInv'
  BY <1>1, <1>3, <1>8 DEF Token!GetOrderInvoice
<1> QED
  BY <1>2, <1>5, <1>6, <1>7, <1>8

\* A visitor's step about the token t it holds, or holds no longer.
LEMMA VisitSpends ==
  ASSUME TokenTypes, TokenInv, NEW v \in Visits, NEW t \in shown, NEW row \in VisitRow,
         visits[v].token = t,
         visits' = [visits EXCEPT ![v] = row], row.step \in {"done", "session", "restore"},
         row.step # "done" => row.token = t /\ v \notin latecomers,
         latecomers' = latecomers, FullyUsed(t) => FullyUsed(t)',
         shown' = shown, tokens' \in [Tokens -> Token!Token], pointer' = pointer, throws' \in Nat,
         uses' \in [Tokens -> Nat], halves' \in [Tokens -> Nat],
         \A u \in Tokens : u # t => /\ tokens'[u] = tokens[u]
                                    /\ uses'[u] = uses[u] /\ halves'[u] = halves[u],
         Spent(t)'
  PROVE  TokenTypes' /\ TokenInv'
<1>1. visits \in [Visits -> VisitRow]
  BY DEF TokenTypes
<1>2. visits' \in [Visits -> VisitRow] /\ visits'[v] = row /\ \A w \in Visits \ {v} : visits'[w] = visits[w]
  BY <1>1
<1>3. TokenTypes'
  BY <1>2 DEF TokenTypes
<1>4. ASSUME NEW w \in Visits
      PROVE  Held(w)'
  <2>1. CASE w = v
    BY <2>1, <1>2 DEF Held
  <2>2. CASE w # v
    <3>1. Held(w) /\ visits'[w] = visits[w] /\ shown \subseteq Tokens
      BY <2>2, <1>2 DEF TokenInv, TokenTypes
    <3>2. \A u \in Tokens : FullyUsed(u) => FullyUsed(u)'
      BY DEF FullyUsed
    <3> QED
      BY <3>1, <3>2 DEF Held
  <2> QED
    BY <2>1, <2>2
<1>5. ASSUME NEW u \in Tokens, u # t
      PROVE  Spent(u)'
  <2>1. \A w \in Visits : SigningIn(w, u)' => SigningIn(w, u)
    BY <1>2, <1>5 DEF SigningIn
  <2>2. Spent(u) /\ tokens'[u] = tokens[u] /\ uses'[u] = uses[u] /\ halves'[u] = halves[u]
    BY <1>5 DEF TokenInv
  <2> QED
    BY <2>1, <2>2 DEF Spent
<1> QED
  BY <1>3, <1>4, <1>5 DEF TokenInv

\* Who is signed in with a token after a step of v was before, but for v.
LEMMA OthersSignIn ==
  ASSUME TokenTypes, NEW v \in Visits, NEW row, visits' = [visits EXCEPT ![v] = row]
  PROVE  /\ \A w \in Visits \ {v}, t \in Tokens : SigningIn(w, t)' <=> SigningIn(w, t)
         /\ \A t \in Tokens : SigningIn(v, t)' <=> row.token = t /\ row.step \in {"session", "restore"}
BY DEF TokenTypes, SigningIn

\* The one that consumes a token is the one that gets what it is for.
LEMMA TokenConsumes ==
  ASSUME TokenTypes, TokenInv, NEW v \in Visits, Token!Consume(v)
  PROVE  TokenTypes' /\ TokenInv'
<1>0. PICK t \in Tokens : t = visits[v].token /\ t \in shown
  BY DEF TokenInv, Held, TokenTypes, Token!Consume, Token!At
<1> DEFINE away == [step |-> "done", token |-> 0]
           entering == [step |-> "session", token |-> t]
<1>1. /\ t \in shown /\ t \in Tokens /\ throws \in Nat /\ shown \subseteq Tokens /\ pointer \in Tokens \cup {0}
      /\ tokens \in [Tokens -> Token!Token] /\ halves \in [Tokens -> Nat] /\ uses \in [Tokens -> Nat]
  BY <1>0 DEF TokenTypes
<1>2. /\ away \in VisitRow /\ entering \in VisitRow
      /\ Token!Leave(v) => visits' = [visits EXCEPT ![v] = away]
      /\ Token!Goto(v, "session") => visits' = [visits EXCEPT ![v] = entering]
      /\ away.step = "done" /\ entering.step = "session" /\ entering.token = t /\ visits[v].token = t
  BY <1>0, <1>1, VisitRows DEF VisitRow
<1>3. /\ pointer' = pointer /\ shown' = shown /\ halves' = halves /\ throws' = throws
      /\ latecomers' = latecomers /\ latecomers \subseteq Visits /\ v \notin latecomers
  BY <1>0 DEF Token!Consume, Token!At, TokenTypes, TokenInv, Held
<1>4. Spent(t) /\ halves[t] \in Nat /\ uses[t] \in Nat
  BY <1>1 DEF TokenInv
<1> HIDE DEF away, entering
<1>5. CASE Token!Leave(v) /\ tokens' = tokens /\ uses' = uses
  BY <1>1, <1>2, <1>3, <1>5, VisitMoves
<1>6. ASSUME tokens[t].status = "pending", tokens' = [tokens EXCEPT ![t].status = "consumed"],
             \/ Token!Goto(v, "session") /\ uses' = uses
             \/ Token!Leave(v) /\ uses' = [uses EXCEPT ![t] = @ + 1]
      PROVE  TokenTypes' /\ TokenInv'
  <2>1. uses[t] <= halves[t] /\ ~FullyUsed(t) /\ \A w \in Visits : ~SigningIn(w, t)
    BY <1>4, <1>6 DEF Spent, FullyUsed
  <2>2. /\ tokens' \in [Tokens -> Token!Token] /\ tokens'[t].status = "consumed"
        /\ \A u \in Tokens : u # t => tokens'[u] = tokens[u]
    <3>1. [tokens[t] EXCEPT !.status = "consumed"] \in Token!Token
      BY <1>1 DEF Token!Token
    <3> QED
      BY <3>1, <1>1, <1>6 DEF Token!Token
  <2>3. CASE Token!Goto(v, "session") /\ uses' = uses
    <3>1. \A w \in Visits : SigningIn(w, t)' <=> w = v
      BY <2>1, <2>3, <1>1, <1>2, OthersSignIn
    <3>2. Spent(t)'
      BY <3>1, <2>1, <2>2, <2>3, <1>1, <1>3, <1>4 DEF Spent
    <3> QED
      BY <3>2, <2>1, <2>2, <2>3, <1>1, <1>2, <1>3, VisitSpends
  <2>4. CASE Token!Leave(v) /\ uses' = [uses EXCEPT ![t] = @ + 1]
    <3>1. \A w \in Visits : ~SigningIn(w, t)'
      BY <2>1, <2>4, <1>1, <1>2, OthersSignIn
    <3>2. uses'[t] = uses[t] + 1 /\ uses' \in [Tokens -> Nat] /\ \A u \in Tokens : u # t => uses'[u] = uses[u]
      BY <2>4, <1>1, <1>4
    <3>3. uses'[t] <= 1 + halves'[t]
      BY <3>2, <2>1, <1>3, <1>4
    <3>4. Spent(t)'
      BY <3>1, <3>3, <2>2, <1>1, <1>3 DEF Spent
    <3> QED
      BY <3>2, <3>4, <2>1, <2>2, <2>4, <1>1, <1>2, <1>3, VisitSpends
  <2> QED
    BY <1>6, <2>3, <2>4
<1>7. CASE ~Token!Consumable(t)
  BY <1>0, <1>5, <1>7 DEF Token!Consume
<1>8. CASE Token!Consumable(t)
  BY <1>0, <1>6, <1>8 DEF Token!Consume, Token!Consumable
<1> QED
  BY <1>7, <1>8

\* A sign-in is counted, or given back as half of one.
LEMMA TokenSignsIn ==
  ASSUME TokenTypes, TokenInv, NEW v \in Visits, Token!SignIn(v)
  PROVE  TokenTypes' /\ TokenInv'
<1>0. PICK t \in Tokens : t = visits[v].token /\ t \in shown
  BY DEF TokenInv, Held, TokenTypes, Token!SignIn, Token!At
<1> DEFINE away == [step |-> "done", token |-> 0]
           giving == [step |-> "restore", token |-> t]
           given == [uses EXCEPT ![t] = @ + 1]
<1>1. /\ throws \in Nat /\ throws + 1 \in Nat /\ tokens \in [Tokens -> Token!Token]
      /\ halves \in [Tokens -> Nat] /\ uses \in [Tokens -> Nat]
      /\ halves[t] \in Nat /\ uses[t] \in Nat
  BY DEF TokenTypes
<1>2. /\ away \in VisitRow /\ giving \in VisitRow
      /\ Token!Leave(v) => visits' = [visits EXCEPT ![v] = away]
      /\ Token!Goto(v, "restore") => visits' = [visits EXCEPT ![v] = giving]
      /\ away.step = "done" /\ giving.step = "restore" /\ giving.token = t /\ visits[v].token = t
  BY <1>0, VisitRows DEF VisitRow
<1>3. /\ pointer' = pointer /\ shown' = shown /\ tokens' = tokens /\ latecomers' = latecomers
      /\ v \notin latecomers
  BY <1>0 DEF Token!SignIn, Token!At, TokenInv, Held
<1>4. /\ Spent(t) /\ SigningIn(v, t)
      /\ uses[t] <= halves[t] /\ \A w \in Visits : SigningIn(w, t) => w = v
      /\ tokens[t].status \notin {"pending", "active"} /\ ~FullyUsed(t)
  BY <1>0, <1>1 DEF TokenInv, Spent, SigningIn, FullyUsed, Token!SignIn, Token!At
<1>5. given \in [Tokens -> Nat] /\ given[t] = uses[t] + 1 /\ \A u \in Tokens : u # t => given[u] = uses[u]
  BY <1>1
<1> HIDE DEF away, giving, given
<1>6. CASE Token!Leave(v) /\ uses' = given /\ halves' = halves /\ throws' = throws
  <2>1. \A w \in Visits : ~SigningIn(w, t)'
    BY <1>2, <1>4, <1>6, OthersSignIn
  <2>2. uses'[t] <= 1 + halves'[t]
    BY <1>1, <1>4, <1>5, <1>6
  <2>3. Spent(t)'
    BY <2>1, <2>2, <1>0, <1>3, <1>4 DEF Spent
  <2> QED
    BY <2>3, <1>0, <1>1, <1>4, <1>2, <1>3, <1>5, <1>6, VisitSpends
<1>7. ASSUME Token!Goto(v, "restore"), throws' = throws + 1,
             \/ uses' = uses /\ latecomers' = latecomers /\ halves' = halves
             \/ uses' = given /\ halves' = [halves EXCEPT ![t] = @ + 1]
      PROVE  TokenTypes' /\ TokenInv'
  <2>1. \A w \in Visits : SigningIn(w, t)' <=> w = v
    BY <1>2, <1>4, <1>7, OthersSignIn
  <2>2. /\ uses' \in [Tokens -> Nat] /\ halves' \in [Tokens -> Nat] /\ uses'[t] <= halves'[t]
        /\ \A u \in Tokens : u # t => uses'[u] = uses[u] /\ halves'[u] = halves[u]
    BY <1>1, <1>4, <1>5, <1>7
  <2>3. uses'[t] <= 1 + halves'[t]
    BY <2>2
  <2>4. Spent(t)'
    BY <2>1, <2>2, <2>3, <1>0, <1>3, <1>4 DEF Spent
  <2> QED
    BY <2>2, <2>4, <1>0, <1>1, <1>2, <1>3, <1>4, <1>7, VisitSpends
<1> QED
  BY <1>0, <1>6, <1>7 DEF Token!SignIn, given

\* A token that is given back is nobody's.
LEMMA TokenRestores ==
  ASSUME TokenTypes, TokenInv, NEW v \in Visits, Token!Restore(v)
  PROVE  TokenTypes' /\ TokenInv'
<1>0. PICK t \in Tokens : t = visits[v].token /\ t \in shown
  BY DEF TokenInv, Held, TokenTypes, Token!Restore, Token!At
<1> DEFINE away == [step |-> "done", token |-> 0]
<1>1. tokens \in [Tokens -> Token!Token] /\ halves \in [Tokens -> Nat] /\ uses \in [Tokens -> Nat] /\ throws \in Nat
  BY DEF TokenTypes
<1>2. /\ away \in VisitRow /\ visits' = [visits EXCEPT ![v] = away]
      /\ away.step = "done" /\ visits[v].token = t
  BY <1>0, VisitRows DEF VisitRow, Token!Restore
<1>3. pointer' = pointer /\ shown' = shown /\ uses' = uses /\ latecomers' = latecomers /\ halves' = halves /\ throws' = throws
  BY DEF Token!Restore
<1>4. /\ Spent(t) /\ uses[t] <= halves[t] /\ \A w \in Visits : SigningIn(w, t) => w = v
  BY <1>0 DEF TokenInv, Spent, SigningIn, Token!Restore, Token!At
<1>5. /\ tokens' \in [Tokens -> Token!Token]
      /\ \A u \in Tokens : u # t => tokens'[u] = tokens[u]
  <2>1. [tokens[t] EXCEPT !.status = "pending"] \in Token!Token
    BY <1>1 DEF Token!Token
  <2>2. tokens' = tokens \/ tokens' = [tokens EXCEPT ![t] = [tokens[t] EXCEPT !.status = "pending"]]
    BY <1>0 DEF Token!Restore
  <2> QED
    BY <2>1, <2>2, <1>1
<1> HIDE DEF away
<1>6. \A w \in Visits : ~SigningIn(w, t)'
  BY <1>2, <1>4, OthersSignIn
<1>7. Spent(t)'
  BY <1>0, <1>3, <1>4, <1>6 DEF Spent
<1> QED
  BY <1>0, <1>1, <1>2, <1>3, <1>5, <1>7, VisitSpends DEF FullyUsed

\* What the world does to the tokens, but for deleting their records, is nothing to them.
LEMMA TokenWorld ==
  ASSUME TokenTypes, TokenInv,
         \/ \E t \in Tokens : Token!Expire(t)
         \/ Token!Purge \/ Token!RevokeAccess \/ Token!DeleteTokens \/ Token!EraseOrders
         \/ UNCHANGED tokenVars
  PROVE  TokenTypes' /\ TokenInv'
<1>1. tokens \in [Tokens -> Token!Token] /\ pointer \in Tokens \cup {0} /\ Token!NoToken \in Token!Token
  BY DEF TokenTypes, Token!NoToken, Token!Token
<1>2. visits' = visits /\ shown' = shown /\ uses' = uses /\ latecomers' = latecomers /\ halves' = halves /\ throws' = throws
  BY DEF Token!Expire, Token!Purge, Token!RevokeAccess, Token!DeleteTokens, Token!EraseOrders, tokenVars
<1>3. ASSUME tokens' \in [Tokens -> Token!Token], pointer' \in Tokens \cup {0},
             \A t \in Tokens : tokens'[t].status = tokens[t].status \/ tokens'[t].status = "none"
      PROVE  TokenTypes' /\ TokenInv'
  <2>1. \A w \in Visits, t \in Tokens : SigningIn(w, t)' => SigningIn(w, t)
    BY <1>2 DEF SigningIn
  <2>2. \A t \in Tokens : Spent(t)'
    BY <2>1, <1>2, <1>3, TokensKept
  <2>3. \A w \in Visits : Held(w)'
    BY <1>2 DEF TokenInv, Held, FullyUsed
  <2> QED
    BY <2>2, <2>3, <1>2, <1>3 DEF TokenTypes, TokenInv
<1>4. ASSUME NEW t \in Tokens, Token!Expire(t)
      PROVE  TokenTypes' /\ TokenInv'
  <2>1. [tokens[t] EXCEPT !.live = FALSE] \in Token!Token /\ [tokens[t] EXCEPT !.live = FALSE].status = tokens[t].status
    BY <1>1 DEF Token!Token
  <2>2. tokens' = [tokens EXCEPT ![t] = [tokens[t] EXCEPT !.live = FALSE]] /\ pointer' = pointer
    BY <1>4 DEF Token!Expire
  <2> QED
    BY <2>1, <2>2, <1>1, <1>3
<1>5. ASSUME Token!Purge
      PROVE  TokenTypes' /\ TokenInv'
  <2>1. /\ tokens' = [t \in Tokens |-> IF tokens[t].live THEN tokens[t] ELSE Token!NoToken]
        /\ pointer' \in {pointer, 0} /\ Token!NoToken.status = "none"
    BY <1>5 DEF Token!Purge, Token!NoToken
  <2> QED
    BY <2>1, <1>1, <1>3
<1>6. ASSUME Token!DeleteTokens
      PROVE  TokenTypes' /\ TokenInv'
  <2>1. tokens' = [t \in Tokens |-> Token!NoToken] /\ pointer' = 0 /\ Token!NoToken.status = "none"
    BY <1>6 DEF Token!DeleteTokens, Token!NoToken
  <2> QED
    BY <2>1, <1>1, <1>3
<1>7. ASSUME tokens' = tokens, pointer' = pointer
      PROVE  TokenTypes' /\ TokenInv'
  BY <1>1, <1>3, <1>7
<1> QED
  BY <1>4, <1>5, <1>6, <1>7 DEF Token!RevokeAccess, Token!EraseOrders, tokenVars

\* A step of the tokens preserves their inductive invariant.
LEMMA TokenStep ==
  ASSUME TokenTypes, TokenInv, [Token!TokenNext]_tokenVars
  PROVE  TokenTypes' /\ TokenInv'
<1>1. ASSUME Token!TokenNext
      PROVE  TokenTypes' /\ TokenInv'
  BY <1>1, TokenHandsOut, TokenLooks, TokenConsumes, TokenSignsIn, TokenRestores, TokenWorld
     DEF Token!TokenNext
<1> QED
  BY <1>1, TokenWorld

\* However many requests present a token at once, it is used once; only a sign-in that
\* throws after the session was written gives its token back used.  download.resolve, which
\* does not use a link up, answers nobody who comes after it was (consumeToken,
\* verifyMagicLink, resolveDownload, downloadAccountExport).
THEOREM GivesOnce == ServicesSpec => []UsedOnce
<1> DEFINE Tokened == InToken => TokenTypes /\ TokenInv
<1>1. ServicesInit => Tokened
  BY TokenInitHolds DEF ServicesInit, InToken
<1>2. ASSUME Tokened, [ServicesNext]_servicesVars
      PROVE  Tokened'
  <2> SUFFICES ASSUME InToken'
               PROVE  (TokenTypes /\ TokenInv)'
    OBVIOUS
  <2>1. InToken
    BY <1>2, ServiceStays DEF InToken
  <2> QED
    BY <2>1, <1>2, TokenAlone, TokenStep
<1>3. Tokened => UsedOnce
  BY DEF UsedOnce, Token!UsedOnce, Token!At, TokenTypes, TokenInv, Spent, Held
<1> QED
  BY <1>1, <1>2, <1>3, PTL DEF ServicesSpec, servicesVars

----------------------------------------------------------------------------
(* The carts: their inductive invariant *)

\* A step of the services is a step of the carts, when those are used.
LEMMA CartAlone ==
  ASSUME InCart, [ServicesNext]_servicesVars
  PROVE  [Cart!CartNext]_cartVars
<1>1. ASSUME ServicesNext
      PROVE  Cart!CartNext
  BY <1>1 DEF ServicesNext, InAudit, InCart, InSubscription, InToken, InWorkflow, Cart!CartNext
<1> QED
  BY <1>1 DEF servicesVars

Document == [owner : Cart!Owners, status : {"none", "open", "claimed", "pending", "paid", "converted", "abandoned"},
             version : Int, qty : Int, moved : SUBSET Int]

List == [version : Int, item : Int]

\* Steps of a request that finds a cart, and steps of one that has a copy of it.
Finding == {"wait", "item", "find", "create", "lock", "join", "recheck", "putnew", "unlist", "done"}
Merging == {"abandon", "latest", "again", "reabandon"}
Copying == {"put", "source", "list", "enlist", "take"} \cup Merging

RequestRow == [op : Operations \cup {"none"}, owner : Cart!Owners, step : Finding \cup Copying,
               look : {"open", "pending", "checkout", "reopen"}, id : Carts \cup {0}, cart : Document, from : Carts \cup {0}, source : Document,
               was : Int, list : List]

OtherRow == [to : {"none", "pending", "open", "converted"}, id : Carts \cup {0}, cart : Document]

CartTypes ==
  /\ carts \in [Carts -> Document] /\ wishlist \in List
  /\ locks \in [Cart!Owners -> Requests \cup {NoRequest}]
  /\ reqs \in [Requests -> RequestRow] /\ raced \in BOOLEAN
  /\ others \in [Others -> OtherRow] /\ undone \in BOOLEAN

\* A copy was made of a cart, which keeps its owner.
Known(id, cart) ==
  /\ id \in Carts /\ carts[id].status # "none" /\ cart.owner = carts[id].owner

\* A copy was made of an open cart.
Copied(id, cart) ==
  /\ id \in Carts /\ carts[id].status # "none"
  /\ cart.status = "open" /\ cart.owner = carts[id].owner

\* A request that looks for a cart has read one in checkout.
HasRead(row) == row.step \in Cart!Looking /\ row.look \in {"checkout", "reopen"}

\* What a request remembers: its cart, the cart it merges from, why it takes a lock, and a cart
\* in checkout, whose checkout it looks up if that is not a claim.
Kept(row) ==
  /\ row.step \in Copying => Copied(row.id, row.cart)
  /\ row.step \in Merging \/ (row.step = "put" /\ row.op = "merge") => Copied(row.from, row.source)
  /\ row.step \in {"lock", "join", "recheck", "putnew"} => row.op \in Cart!Locking
  /\ row.step \in {"wait", "item"} => row.look = "open"
  /\ HasRead(row) => Known(row.id, row.cart)
  /\ HasRead(row) /\ row.look = "checkout" => row.cart.status \in {"pending", "paid"}
  /\ HasRead(row) /\ row.look = "reopen" => row.cart.status \in {"claimed", "pending"}

\* What a writer of a checkout is to put: the start's own claim, or a cart in checkout.
Meant(other) ==
  /\ other.to # "none" => Known(other.id, other.cart)
  /\ other.to = "pending" => other.cart.status = "claimed"
  /\ other.to = "open" => other.cart.status \in {"claimed", "pending"}
  /\ other.to = "converted" => other.cart.status = "paid"

InACart(c) == carts[c].status \in {"open", "claimed", "pending"}

\* The owner has no cart.
Vacant(owner) == \A c \in Carts : InACart(c) => carts[c].owner # owner

OnePerOwner == \A c, d \in Carts : InACart(c) /\ InACart(d) /\ carts[c].owner = carts[d].owner => c = d

\* The holder of the lock makes the first cart of its owner.
MakesFirst(r) == reqs[r].step = "putnew" /\ locks[reqs[r].owner] = r => Vacant(reqs[r].owner)

CartInv ==
  /\ \A r \in Requests : Kept(reqs[r])
  /\ \A o \in Others : Meant(others[o])
  /\ raced \/ undone \/ (OnePerOwner /\ \A r \in Requests : MakesFirst(r))

\* A step that makes no cart: those that are there keep their owners, and none comes back, but
\* by a put that undoes another.
Calm ==
  /\ carts' \in [Carts -> Document]
  /\ \A c \in Carts : carts[c].status # "none"
       => carts'[c].status # "none" /\ carts'[c].owner = carts[c].owner
  /\ undone' \/ \A c \in Carts : InACart(c)' => InACart(c)

\* What raced has raced, and what was undone was undone; the writers of the checkouts wait.
Still ==
  /\ raced' \in BOOLEAN /\ (raced => raced') /\ undone' \in BOOLEAN /\ (undone => undone')
  /\ others' = others

----------------------------------------------------------------------------
(* The carts: proofs *)

\* The values that stand for nothing have their types.
LEMMA CartValues ==
  /\ Cart!NoCart \in Document /\ Cart!Waiting \in RequestRow /\ Cart!Done \in RequestRow
  /\ Cart!Waiting.step = "wait" /\ Cart!Waiting.look = "open" /\ Cart!Done.step = "done"
  /\ \A o \in Cart!Owners : /\ Cart!NewCart(o) \in Document
                            /\ Cart!NewCart(o).owner = o /\ Cart!NewCart(o).status = "open"
<1>1. Cart!NoCart \in Document
  BY DEF Cart!NoCart, Document, Cart!Owners
<1>2. /\ Cart!Waiting \in RequestRow /\ Cart!Waiting.step = "wait" /\ Cart!Waiting.look = "open"
      /\ Cart!Done \in RequestRow /\ Cart!Done.step = "done"
  BY <1>1 DEF Cart!Waiting, Cart!Done, RequestRow, Finding, Cart!Owners, List
<1>3. \A o \in Cart!Owners : /\ Cart!NewCart(o) \in Document
                             /\ Cart!NewCart(o).owner = o /\ Cart!NewCart(o).status = "open"
  <2> SUFFICES ASSUME NEW o \in Cart!Owners
               PROVE  /\ Cart!NewCart(o) \in Document
                      /\ Cart!NewCart(o).owner = o /\ Cart!NewCart(o).status = "open"
    OBVIOUS
  <2> DEFINE owned == [Cart!NoCart EXCEPT !.owner = o]
             opened == [owned EXCEPT !.status = "open"]
  <2>1. owned \in Document /\ owned.owner = o
    BY <1>1 DEF Document
  <2>2. opened \in Document /\ opened.owner = o /\ opened.status = "open"
    BY <2>1 DEF Document
  <2>3. Cart!NewCart(o) = [opened EXCEPT !.version = 1]
    BY DEF Cart!NewCart
  <2> HIDE DEF opened
  <2> QED
    BY <2>2, <2>3 DEF Document
<1> QED
  BY <1>1, <1>2, <1>3

\* A guest and a customer begin with one cart each, at most.
LEMMA CartInitHolds ==
  ASSUME Cart!CartInit
  PROVE  CartTypes /\ CartInv
<1>1. PICK guest \in 0..1, customer \in 0..1, bought \in 0..1 :
        carts = [c \in Carts |->
                   CASE c = 1 /\ guest = 1 -> [Cart!NewCart("guest") EXCEPT !.qty = 1]
                     [] c = 2 /\ customer = 1 -> [Cart!NewCart("customer") EXCEPT !.qty = bought]
                     [] OTHER -> Cart!NoCart]
  BY DEF Cart!CartInit
<1>2. /\ [Cart!NewCart("guest") EXCEPT !.qty = 1] \in Document
      /\ [Cart!NewCart("customer") EXCEPT !.qty = bought] \in Document
      /\ [Cart!NewCart("guest") EXCEPT !.qty = 1].owner = "guest"
      /\ [Cart!NewCart("customer") EXCEPT !.qty = bought].owner = "customer"
      /\ Cart!NoCart \in Document /\ Cart!NoCart.status = "none"
  <2>1. /\ "guest" \in Cart!Owners /\ "customer" \in Cart!Owners /\ bought \in Int
        /\ Cart!NoCart.status = "none"
    BY <1>1 DEF Cart!Owners, Cart!NoCart
  <2>2. \A o \in Cart!Owners, q \in Int : /\ [Cart!NewCart(o) EXCEPT !.qty = q] \in Document
                                         /\ [Cart!NewCart(o) EXCEPT !.qty = q].owner = o
    BY CartValues DEF Document
  <2> QED
    BY <2>1, <2>2, CartValues
<1>3. carts \in [Carts -> Document]
  BY <1>1, <1>2
<1>4. \A c \in Carts : InACart(c) => \/ c = 1 /\ carts[c].owner = "guest"
                                     \/ c = 2 /\ carts[c].owner = "customer"
  BY <1>1, <1>2 DEF InACart
<1>5. OnePerOwner
  BY <1>4 DEF OnePerOwner
<1>6. /\ reqs = [r \in Requests |-> Cart!Waiting] /\ raced = FALSE /\ undone = FALSE
      /\ others = [o \in Others |-> Cart!Idle]
      /\ locks = [o \in Cart!Owners |-> NoRequest] /\ wishlist \in List
  <2>1. Items \subseteq Int
    BY ServicesAssumption DEF Cart!CartAssumption
  <2> QED
    BY <2>1 DEF Cart!CartInit, List
<1>7. \A r \in Requests : Kept(reqs[r]) /\ MakesFirst(r)
  BY <1>6, CartValues DEF Kept, MakesFirst, Copying, Merging, HasRead, Cart!Looking
<1>8. Cart!Idle \in OtherRow /\ Meant(Cart!Idle)
  BY CartValues DEF Cart!Idle, OtherRow, Meant
<1> QED
  BY <1>3, <1>5, <1>6, <1>7, <1>8, CartValues DEF CartTypes, CartInv

\* What a request remembers stays true when no cart goes or changes its owner.
LEMMA KeptStays ==
  ASSUME NEW row, Kept(row),
         \A c \in Carts : carts[c].status # "none"
           => carts'[c].status # "none" /\ carts'[c].owner = carts[c].owner
  PROVE  Kept(row)'
BY DEF Kept, Copied, HasRead, Known

\* And what the writers of the checkouts are to put.
LEMMA MeantStays ==
  ASSUME CartTypes, \A o \in Others : Meant(others[o]), others' = others,
         \A c \in Carts : carts[c].status # "none"
           => carts'[c].status # "none" /\ carts'[c].owner = carts[c].owner
  PROVE  \A o \in Others : Meant(others[o])'
<1> SUFFICES ASSUME NEW o \in Others PROVE Meant(others[o])'
  OBVIOUS
<1>1. PICK other \in OtherRow : other = others[o] /\ others'[o] = other
  BY DEF CartTypes
<1>2. Meant(other)
  BY <1>1
<1>3. Meant(other)'
  BY <1>2 DEF Meant, Known
<1> QED
  BY <1>1, <1>3

\* A step of one request that makes no cart, and ends with a row that says what is true.
LEMMA CartMoves ==
  ASSUME CartTypes, CartInv, NEW r \in Requests, NEW row \in RequestRow, Calm, Kept(row)',
         reqs' = [reqs EXCEPT ![r] = row], Still, wishlist' \in List,
         locks' \in [Cart!Owners -> Requests \cup {NoRequest}],
         \A o \in Cart!Owners, q \in Requests : locks'[o] = q => locks[o] = q \/ q = r,
         row.step = "putnew" => raced' \/ undone' \/ Vacant(row.owner)
  PROVE  CartTypes' /\ CartInv'
<1>1. /\ reqs' \in [Requests -> RequestRow] /\ reqs'[r] = row
      /\ \A q \in Requests \ {r} : reqs'[q] = reqs[q]
  BY DEF CartTypes
<1>2. CartTypes'
  BY <1>1 DEF CartTypes, Calm, Still
<1>3. ASSUME NEW q \in Requests
      PROVE  Kept(reqs[q])'
  <2>1. CASE q = r
    BY <2>1, <1>1
  <2>2. CASE q # r
    <3>1. PICK old \in RequestRow : old = reqs[q] /\ reqs'[q] = old
      BY <2>2, <1>1 DEF CartTypes
    <3>2. Kept(old)'
      BY <3>1, KeptStays DEF CartInv, Calm
    <3> QED
      BY <3>1, <3>2
  <2> QED
    BY <2>1, <2>2
<1>4. ~undone' => \A o : Vacant(o) => Vacant(o)'
  BY DEF Vacant, Calm, InACart
<1>5. ASSUME ~undone', OnePerOwner
      PROVE  OnePerOwner'
  BY <1>5 DEF OnePerOwner, Calm, InACart
<1>6. ASSUME ~undone', ~raced', NEW q \in Requests, MakesFirst(q)
      PROVE  MakesFirst(q)'
  <2>1. CASE q = r
    <3>1. row.step = "putnew" => Vacant(row.owner)'
      BY <1>4, <1>6
    <3> QED
      BY <3>1, <2>1, <1>1 DEF MakesFirst
  <2>2. CASE q # r
    <3>1. reqs'[q] = reqs[q] /\ reqs[q].owner \in Cart!Owners
      BY <2>2, <1>1 DEF CartTypes, RequestRow
    <3>2. locks'[reqs[q].owner] = q => locks[reqs[q].owner] = q
      BY <3>1, <2>2
    <3> QED
      BY <3>1, <3>2, <1>4, <1>6 DEF MakesFirst
  <2> QED
    BY <2>1, <2>2
<1>7. \A o \in Others : Meant(others[o])'
  BY MeantStays DEF CartInv, Still, Calm
<1> QED
  BY <1>2, <1>3, <1>5, <1>6, <1>7 DEF CartInv, Still

\* Leaving the carts as they are is calm.
LEMMA CartsRest ==
  ASSUME CartTypes, carts' = carts
  PROVE  Calm
BY DEF CartTypes, Calm, InACart

\* So is putting a new version of a copy, if the cart is open.
LEMMA PutIsCalm ==
  ASSUME CartTypes, NEW id, NEW cart, Copied(id, cart), NEW doc \in Document,
         Cart!Unchanged(id, cart), Cart!Put(id, doc), doc.owner = cart.owner, doc.status # "none"
  PROVE  Calm
BY DEF CartTypes, Copied, Cart!Unchanged, Cart!Put, Calm, InACart

\* What the rows of a request become.
LEMMA CartRows ==
  ASSUME CartTypes, NEW r \in Requests
  PROVE  /\ reqs[r] \in RequestRow
         /\ Cart!Finish(r) => reqs' = [reqs EXCEPT ![r] = Cart!Done]
         /\ \A s \in Finding \cup Copying : Cart!Goto(r, s) =>
              /\ [reqs[r] EXCEPT !.step = s, !.look = "open"] \in RequestRow
              /\ reqs' = [reqs EXCEPT ![r] = [reqs[r] EXCEPT !.step = s, !.look = "open"]]
<1>1. reqs[r] \in RequestRow
  BY DEF CartTypes
<1>2. ASSUME NEW s \in Finding \cup Copying
      PROVE  [reqs[r] EXCEPT !.step = s, !.look = "open"] \in RequestRow
  BY <1>1 DEF RequestRow
<1> QED
  BY <1>1, <1>2 DEF Cart!Finish, Cart!Goto

\* A copy is remembered with its cart.
LEMMA CartHolds ==
  ASSUME CartTypes, NEW r \in Requests, NEW id \in Carts, NEW cart \in Document,
         NEW s \in Finding \cup Copying, Cart!Holding(r, id, cart, s)
  PROVE  \E row \in RequestRow :
           /\ reqs' = [reqs EXCEPT ![r] = row]
           /\ row.step = s /\ row.id = id /\ row.cart = cart /\ row.op = reqs[r].op
           /\ row.owner = reqs[r].owner /\ row.from = reqs[r].from /\ row.source = reqs[r].source
           /\ row.was = reqs[r].was
<1> DEFINE found == [reqs[r] EXCEPT !.id = id]
           copied == [found EXCEPT !.cart = cart]
           stepped == [copied EXCEPT !.step = s]
           row == [stepped EXCEPT !.look = "open"]
<1>1. reqs[r] \in RequestRow
  BY CartRows
<1>2. found \in RequestRow
  BY <1>1 DEF RequestRow
<1>3. copied \in RequestRow
  BY <1>2 DEF RequestRow
<1>4. stepped \in RequestRow /\ row \in RequestRow
  BY <1>3 DEF RequestRow
<1>5. /\ row.step = s /\ row.id = id /\ row.cart = cart /\ row.op = reqs[r].op
      /\ row.owner = reqs[r].owner /\ row.from = reqs[r].from /\ row.source = reqs[r].source
      /\ row.was = reqs[r].was
  BY <1>1 DEF RequestRow
<1>6. reqs' = [reqs EXCEPT ![r] = row]
  BY DEF Cart!Holding
<1> HIDE DEF row
<1> QED
  BY <1>4, <1>5, <1>6

\* A request that ends leaves the carts' invariant to the others.
LEMMA CartEnds ==
  ASSUME CartTypes, CartInv, NEW r \in Requests, Calm, Cart!Finish(r), Still, wishlist' \in List,
         locks' \in [Cart!Owners -> Requests \cup {NoRequest}],
         \A o \in Cart!Owners, q \in Requests : locks'[o] = q => locks[o] = q \/ q = r
  PROVE  CartTypes' /\ CartInv'
<1>1. Kept(Cart!Done)'
  BY CartValues DEF Kept, Copying, Merging, HasRead, Cart!Looking
<1> QED
  BY <1>1, CartRows, CartValues, CartMoves

\* A step of one request that leaves the carts alone.
LEMMA CartGoes ==
  ASSUME CartTypes, CartInv, NEW r \in Requests, NEW row \in RequestRow, Kept(row),
         reqs' = [reqs EXCEPT ![r] = row], carts' = carts, Still, wishlist' \in List,
         locks' \in [Cart!Owners -> Requests \cup {NoRequest}],
         \A o \in Cart!Owners, q \in Requests : locks'[o] = q => locks[o] = q \/ q = r,
         row.step = "putnew" => raced' \/ undone' \/ Vacant(row.owner)
  PROVE  CartTypes' /\ CartInv'
<1>1. Calm
  BY CartsRest
<1>2. Kept(row)'
  BY <1>1, KeptStays DEF Calm
<1> QED
  BY <1>1, <1>2, CartMoves

\* A request begins, and a move reads the wishlist.
LEMMA CartBegins ==
  ASSUME CartTypes, CartInv, NEW r \in Requests,
         \/ \E op \in Operations, owner \in Cart!Owners : Cart!Begin(r, op, owner)
         \/ Cart!ReadItem(r)
  PROVE  CartTypes' /\ CartInv'
<1>1. /\ carts' = carts /\ locks' = locks /\ wishlist' = wishlist /\ Still
      /\ wishlist \in List /\ locks \in [Cart!Owners -> Requests \cup {NoRequest}] /\ Calm
  BY CartsRest DEF CartTypes, Cart!Begin, Cart!ReadItem, Cart!unchangedHistory, Still
<1>2. reqs[r] \in RequestRow /\ reqs[r].look = "open"
  BY CartRows DEF CartInv, Kept, Cart!Begin, Cart!ReadItem, Cart!At
<1>3. ASSUME NEW op \in Operations, NEW owner \in Cart!Owners, Cart!Begin(r, op, owner)
      PROVE  CartTypes' /\ CartInv'
  <2> DEFINE s == IF op = "move" THEN "item" ELSE "find"
             asked == [reqs[r] EXCEPT !.op = op]
             owned == [asked EXCEPT !.owner = owner]
             row == [owned EXCEPT !.step = s]
  <2>1. asked \in RequestRow
    BY <1>2 DEF RequestRow
  <2>2. owned \in RequestRow
    BY <2>1 DEF RequestRow
  <2>3. s \in {"item", "find"} /\ s \in Finding
    BY DEF Finding
  <2>4. reqs' = [reqs EXCEPT ![r] = row]
    BY <1>3 DEF Cart!Begin
  <2> HIDE DEF owned, s
  <2>5. row \in RequestRow /\ row.step = s /\ row.look = "open"
    BY <1>2, <2>2, <2>3 DEF RequestRow, owned
  <2> HIDE DEF row
  <2>6. Kept(row) /\ row.step # "putnew"
    BY <2>3, <2>5 DEF Kept, Copying, Merging, HasRead
  <2> QED
    BY <2>4, <2>5, <2>6, <1>1, CartGoes
<1>4. ASSUME Cart!ReadItem(r), ~Cart!Finish(r)
      PROVE  CartTypes' /\ CartInv'
  <2> DEFINE listed == [reqs[r] EXCEPT !.list = wishlist]
             row == [listed EXCEPT !.step = "find"]
  <2>1. listed \in RequestRow
    BY <1>1, <1>2 DEF RequestRow
  <2>2. reqs' = [reqs EXCEPT ![r] = row]
    BY <1>4 DEF Cart!ReadItem
  <2> HIDE DEF listed
  <2>3. row \in RequestRow /\ row.step = "find" /\ row.look = "open"
    BY <1>2, <2>1 DEF RequestRow, Finding, listed
  <2> HIDE DEF row
  <2>4. Kept(row) /\ row.step # "putnew"
    BY <2>3 DEF Kept, Copying, Merging, HasRead
  <2> QED
    BY <2>2, <2>3, <2>4, <1>1, CartGoes
<1>5. CASE Cart!Finish(r)
  BY <1>1, <1>5, CartEnds
<1> QED
  BY <1>3, <1>4, <1>5

\* A request that found an open cart goes on with a copy of it.
LEMMA CartFound ==
  ASSUME CartTypes, CartInv, NEW r \in Requests, NEW c \in Carts, NEW cart \in Document,
         Calm, carts'[c] = cart, cart.status = "open",
         NEW s \in {"put", "source", "list"}, s = "put" => reqs[r].op # "merge",
         Cart!Holding(r, c, cart, s), Still, wishlist' \in List,
         locks' \in [Cart!Owners -> Requests \cup {NoRequest}],
         \A o \in Cart!Owners, q \in Requests : locks'[o] = q => locks[o] = q \/ q = r
  PROVE  CartTypes' /\ CartInv'
<1>1. s \in Finding \cup Copying
  BY DEF Copying
<1>2. PICK row \in RequestRow :
        /\ reqs' = [reqs EXCEPT ![r] = row]
        /\ row.step = s /\ row.id = c /\ row.cart = cart /\ row.op = reqs[r].op
  BY <1>1, CartHolds
<1>3. Kept(row)'
  BY <1>2 DEF Kept, Copied, Merging, HasRead, Cart!Looking
<1> QED
  BY <1>2, <1>3, CartMoves

\* A request that goes on with nothing but its step.
LEMMA CartSteps ==
  ASSUME CartTypes, CartInv, NEW r \in Requests, NEW s \in Finding \cup Copying, Cart!Goto(r, s),
         s \in Copying => Copied(reqs[r].id, reqs[r].cart),
         s \in Merging \/ (s = "put" /\ reqs[r].op = "merge") => Copied(reqs[r].from, reqs[r].source),
         s \in {"lock", "join", "recheck", "putnew"} => reqs[r].op \in Cart!Locking,
         s = "putnew" => raced' \/ undone' \/ Vacant(reqs[r].owner),
         carts' = carts, Still, wishlist' \in List,
         locks' \in [Cart!Owners -> Requests \cup {NoRequest}],
         \A o \in Cart!Owners, q \in Requests : locks'[o] = q => locks[o] = q \/ q = r
  PROVE  CartTypes' /\ CartInv'
<1> DEFINE row == [reqs[r] EXCEPT !.step = s, !.look = "open"]
<1>1. row \in RequestRow /\ reqs' = [reqs EXCEPT ![r] = row] /\ reqs[r] \in RequestRow
  BY CartRows
<1>2. /\ row.step = s /\ row.id = reqs[r].id /\ row.cart = reqs[r].cart /\ row.op = reqs[r].op
      /\ row.from = reqs[r].from /\ row.source = reqs[r].source /\ row.owner = reqs[r].owner
      /\ row.look = "open"
  BY <1>1 DEF RequestRow
<1> HIDE DEF row
<1>3. Kept(row)
  BY <1>2 DEF Kept, HasRead
<1> QED
  BY <1>1, <1>2, <1>3, CartGoes

\* A lock that is given back is nobody's.
LEMMA CartReleases ==
  ASSUME CartTypes, NEW r \in Requests, Cart!Release(r)
  PROVE  /\ locks' \in [Cart!Owners -> Requests \cup {NoRequest}]
         /\ \A o \in Cart!Owners, q \in Requests : locks'[o] = q => locks[o] = q /\ q # r
<1>1. NoRequest \notin Requests
  BY ServicesAssumption DEF Cart!CartAssumption
<1> QED
  BY <1>1 DEF CartTypes, Cart!Release

\* A new version of a cart is a document of the same owner.
LEMMA CartRenewedIs ==
  ASSUME NEW cart \in Document
  PROVE  \E renewed \in Document : /\ renewed = Cart!Renewed(cart)
                                   /\ renewed.owner = cart.owner /\ renewed.status = cart.status
                                   /\ renewed.qty = cart.qty /\ renewed.moved = cart.moved
                                   /\ renewed.version = cart.version + 1
<1> DEFINE renewed == [cart EXCEPT !.version = @ + 1]
<1>1. /\ renewed \in Document /\ renewed.owner = cart.owner /\ renewed.status = cart.status
      /\ renewed.qty = cart.qty /\ renewed.moved = cart.moved /\ renewed.version = cart.version + 1
  BY DEF Document
<1>2. renewed = Cart!Renewed(cart)
  BY DEF Cart!Renewed
<1> HIDE DEF renewed
<1> QED
  BY <1>1, <1>2

\* What a request knows of where to look.
LEMMA CartLookIs ==
  ASSUME CartTypes, CartInv, NEW r \in Requests, reqs[r].step \in Cart!Looking
  PROVE  /\ reqs[r] \in RequestRow /\ Kept(reqs[r])
         /\ reqs[r].step \notin Copying /\ reqs[r].step \in Finding
         /\ reqs[r].step \in {"find", "join", "recheck"}
         /\ reqs[r].step # "find" => reqs[r].op \in Cart!Locking /\ reqs[r].op # "merge"
BY CartRows DEF CartInv, Kept, Cart!Looking, Copying, Merging, Finding, Cart!Locking

\* Where a request goes with the cart it finds.
LEMMA CartFoundIs ==
  ASSUME CartTypes, CartInv, NEW r \in Requests, reqs[r].step \in Cart!Looking,
         NEW c, NEW cart, Cart!Found(r, c, cart)
  PROVE  \E s \in {"put", "source", "list"} :
           Cart!Holding(r, c, cart, s) /\ (s = "put" => reqs[r].op # "merge")
<1>1. /\ Cart!Ahead(reqs[r].op) \in {"put", "source", "list"}
      /\ Cart!Ahead(reqs[r].op) = "put" => reqs[r].op # "merge"
  BY DEF Cart!Ahead
<1>2. CASE Cart!At(r, "find")
  BY <1>1, <1>2 DEF Cart!Found
<1>3. CASE ~Cart!At(r, "find")
  BY <1>3, CartLookIs DEF Cart!Found, Cart!At
<1> QED
  BY <1>2, <1>3

\* A request that finds no cart goes for the lock, or makes one; under the lock it makes the
\* first one, unless there is one that its reads missed.
LEMMA CartNoneFound ==
  ASSUME CartTypes, CartInv, NEW r \in Requests, reqs[r].step \in Cart!Looking, Cart!NoneFound(r),
         carts' = carts, wishlist' = wishlist, locks' = locks, others' = others, undone' = undone
  PROVE  CartTypes' /\ CartInv'
<1>1. /\ wishlist \in List /\ locks \in [Cart!Owners -> Requests \cup {NoRequest}] /\ Calm /\ Still
      /\ raced' = (raced \/ (Cart!At(r, "recheck") /\ ~Cart!Cartless(reqs[r].owner)))
  BY CartsRest DEF CartTypes, Cart!NoneFound, Still
<1>2. ASSUME NEW s \in {"lock", "create"}, Cart!Goto(r, s), s = "lock" => reqs[r].op \in Cart!Locking
      PROVE  CartTypes' /\ CartInv'
  BY <1>1, <1>2, CartSteps DEF Finding, Copying, Merging
<1>3. CASE Cart!At(r, "find")
  <2>1. CASE reqs[r].op \in Cart!Locking
    BY <2>1, <1>2, <1>3 DEF Cart!NoneFound, Cart!At
  <2>2. CASE reqs[r].op \notin Cart!Locking
    BY <2>2, <1>2, <1>3 DEF Cart!NoneFound, Cart!At
  <2> QED
    BY <2>1, <2>2
<1>4. CASE Cart!At(r, "join")
  <2>1. Cart!Finish(r)
    BY <1>4 DEF Cart!NoneFound, Cart!At
  <2> QED
    BY <1>1, <2>1, CartEnds
<1>5. CASE Cart!At(r, "recheck")
  <2>1. Cart!Goto(r, "putnew") /\ reqs[r].op \in Cart!Locking
    BY <1>5, CartLookIs DEF Cart!NoneFound, Cart!At
  <2>2. raced' \/ Vacant(reqs[r].owner)
    BY <1>1, <1>5 DEF Cart!Cartless, Cart!CartsOf, Cart!InUse, Vacant, InACart
  <2> QED
    BY <1>1, <2>1, <2>2, CartSteps DEF Finding, Copying, Merging
<1> QED
  BY <1>3, <1>4, <1>5, CartLookIs DEF Cart!At

\* A request that looks on, with a cart in checkout that it has read or none.
LEMMA CartLooksOn ==
  ASSUME CartTypes, CartInv, NEW r \in Requests, reqs[r].step \in Cart!Looking,
         NEW row \in RequestRow, reqs' = [reqs EXCEPT ![r] = row], row.step = reqs[r].step,
         row.op = reqs[r].op, row.look \in {"checkout", "reopen"} => Known(row.id, row.cart),
         row.look = "checkout" => row.cart.status \in {"pending", "paid"},
         row.look = "reopen" => row.cart.status \in {"claimed", "pending"},
         carts' = carts, wishlist' = wishlist, locks' = locks, Still
  PROVE  CartTypes' /\ CartInv'
<1>1. wishlist \in List /\ locks \in [Cart!Owners -> Requests \cup {NoRequest}]
  BY DEF CartTypes
<1>2. row.step \in {"find", "join", "recheck"} /\ Kept(reqs[r])
  BY CartLookIs
<1>3. Kept(row)
  BY <1>2 DEF Kept, Copying, Merging, HasRead
<1> QED
  BY <1>1, <1>2, <1>3, CartGoes

\* A cart that is read is remembered with its number.
LEMMA CartReads ==
  ASSUME CartTypes, NEW r \in Requests, NEW c \in Carts, NEW look \in {"checkout", "reopen"},
         Cart!Reads(r, c, look)
  PROVE  \E row \in RequestRow :
           /\ reqs' = [reqs EXCEPT ![r] = row] /\ row.id = c /\ row.cart = carts[c] /\ row.look = look
           /\ row.step = reqs[r].step /\ row.op = reqs[r].op /\ row.owner = reqs[r].owner
           /\ row.from = reqs[r].from /\ row.source = reqs[r].source /\ row.was = reqs[r].was
<1>1. PICK cart \in Document : cart = carts[c]
  BY DEF CartTypes
<1> DEFINE found == [reqs[r] EXCEPT !.id = c]
           copied == [found EXCEPT !.cart = cart]
           row == [copied EXCEPT !.look = look]
<1>2. reqs[r] \in RequestRow
  BY CartRows
<1>3. found \in RequestRow
  BY <1>2 DEF RequestRow
<1>4. copied \in RequestRow
  BY <1>3 DEF RequestRow
<1>5. row \in RequestRow
  BY <1>4 DEF RequestRow
<1>6. /\ row.id = c /\ row.cart = cart /\ row.look = look
      /\ row.step = reqs[r].step /\ row.op = reqs[r].op /\ row.owner = reqs[r].owner
      /\ row.from = reqs[r].from /\ row.source = reqs[r].source /\ row.was = reqs[r].was
  BY <1>2 DEF RequestRow
<1>7. reqs' = [reqs EXCEPT ![r] = row]
  BY <1>1 DEF Cart!Reads
<1> HIDE DEF row
<1> QED
  BY <1>1, <1>5, <1>6, <1>7

\* A request looks for another kind of cart, or what to do with the one it has.
LEMMA CartTurns ==
  ASSUME CartTypes, NEW r \in Requests, NEW look \in {"pending", "reopen"},
         reqs' = [reqs EXCEPT ![r].look = look]
  PROVE  \E row \in RequestRow :
           /\ reqs' = [reqs EXCEPT ![r] = row] /\ row.look = look /\ row.id = reqs[r].id
           /\ row.cart = reqs[r].cart /\ row.step = reqs[r].step /\ row.op = reqs[r].op
           /\ row.owner = reqs[r].owner /\ row.from = reqs[r].from
           /\ row.source = reqs[r].source /\ row.was = reqs[r].was
<1> DEFINE row == [reqs[r] EXCEPT !.look = look]
<1>1. reqs[r] \in RequestRow
  BY CartRows
<1>2. /\ row \in RequestRow /\ row.look = look /\ row.id = reqs[r].id
      /\ row.cart = reqs[r].cart /\ row.step = reqs[r].step /\ row.op = reqs[r].op
      /\ row.owner = reqs[r].owner /\ row.from = reqs[r].from
      /\ row.source = reqs[r].source /\ row.was = reqs[r].was
  BY <1>1 DEF RequestRow
<1>3. reqs' = [reqs EXCEPT ![r] = row]
  OBVIOUS
<1> HIDE DEF row
<1> QED
  BY <1>2, <1>3

\* A request looks for an open cart, then for one in checkout, and looks up its checkout.
LEMMA CartLooks ==
  ASSUME CartTypes, CartInv, NEW r \in Requests,
         \/ Cart!LookOpen(r) \/ Cart!LookPending(r) \/ Cart!LookPastClaim(r) \/ Cart!LookCheckout(r)
  PROVE  CartTypes' /\ CartInv'
<1>1. /\ reqs[r].step \in Cart!Looking /\ carts' = carts /\ wishlist' = wishlist /\ wishlist \in List
      /\ others' = others /\ undone' = undone /\ Calm
      /\ locks \in [Cart!Owners -> Requests \cup {NoRequest}] /\ raced \in BOOLEAN /\ undone \in BOOLEAN
  BY CartsRest DEF CartTypes, Cart!LookOpen, Cart!LookPending, Cart!LookPastClaim, Cart!LookCheckout, Cart!Looks,
     Cart!unchangedHistory, Cart!otherHistory
<1>2. raced' = raced => Still
  BY <1>1 DEF Still
<1>3. ASSUME NEW c \in Carts, NEW look \in {"checkout", "reopen"}, Cart!Reads(r, c, look),
             look = "checkout" => carts[c].status \in {"pending", "paid"},
             look = "reopen" => carts[c].status = "claimed", locks' = locks, raced' = raced
      PROVE  CartTypes' /\ CartInv'
  <2>1. PICK row \in RequestRow :
          /\ reqs' = [reqs EXCEPT ![r] = row] /\ row.id = c /\ row.cart = carts[c] /\ row.look = look
          /\ row.step = reqs[r].step /\ row.op = reqs[r].op
    BY <1>3, CartReads
  <2>2. Known(row.id, row.cart)
    BY <2>1, <1>3 DEF Known
  <2> QED
    BY <1>1, <1>2, <1>3, <2>1, <2>2, CartLooksOn
<1>4. ASSUME Cart!Blocked(r)
      PROVE  CartTypes' /\ CartInv'
  BY <1>1, <1>2, <1>4, CartReleases, CartEnds DEF Cart!Blocked
<1>5. ASSUME Cart!NoneFound(r), locks' = locks
      PROVE  CartTypes' /\ CartInv'
  BY <1>1, <1>5, CartNoneFound
<1>6. ASSUME Cart!LookOpen(r)
      PROVE  CartTypes' /\ CartInv'
  <2>1. locks' = locks /\ Still
    BY <1>2, <1>6 DEF Cart!LookOpen, Cart!unchangedHistory
  <2>2. ASSUME NEW c \in Cart!OpenCarts(reqs[r].owner), Cart!Found(r, c, carts[c])
        PROVE  CartTypes' /\ CartInv'
    <3>1. PICK cart \in Document : cart = carts[c] /\ c \in Carts /\ cart.status = "open"
      BY DEF Cart!OpenCarts, Cart!CartsOf, CartTypes
    <3>2. PICK s \in {"put", "source", "list"} :
            Cart!Holding(r, c, cart, s) /\ (s = "put" => reqs[r].op # "merge")
      BY <1>1, <2>2, <3>1, CartFoundIs
    <3>3. carts'[c] = cart
      BY <1>1, <3>1
    <3> QED
      BY <1>1, <2>1, <3>1, <3>2, <3>3, CartFound
  <2>3. ASSUME reqs' = [reqs EXCEPT ![r].look = "pending"]
        PROVE  CartTypes' /\ CartInv'
    <3>1. PICK row \in RequestRow : /\ reqs' = [reqs EXCEPT ![r] = row] /\ row.look = "pending"
                                    /\ row.step = reqs[r].step /\ row.op = reqs[r].op
      BY <2>3, CartTurns
    <3> QED
      BY <1>1, <2>1, <3>1, CartLooksOn
  <2> QED
    BY <1>6, <2>2, <2>3 DEF Cart!LookOpen
<1>7. ASSUME Cart!LookPending(r)
      PROVE  CartTypes' /\ CartInv'
  <2>1. ASSUME NEW c \in Cart!PendingCarts(reqs[r].owner), carts[c].status # "claimed",
               Cart!Reads(r, c, "checkout"), locks' = locks, raced' = raced
        PROVE  CartTypes' /\ CartInv'
    <3>1. c \in Carts /\ carts[c].status \in {"pending", "paid"}
      BY <2>1 DEF Cart!PendingCarts, Cart!CartsOf
    <3> QED
      BY <1>3, <2>1, <3>1
  <2> QED
    BY <1>4, <1>5, <1>7, <2>1 DEF Cart!LookPending
<1>8. ASSUME Cart!LookPastClaim(r)
      PROVE  CartTypes' /\ CartInv'
  BY <1>3, <1>8 DEF Cart!LookPastClaim, Cart!PendingCarts, Cart!CartsOf
<1>9. ASSUME Cart!LookCheckout(r)
      PROVE  CartTypes' /\ CartInv'
  <2>1. ASSUME ~Cart!Completed(reqs[r].id, reqs[r].cart), reqs' = [reqs EXCEPT ![r].look = "reopen"],
               locks' = locks, raced' = raced
        PROVE  CartTypes' /\ CartInv'
    <3>1. PICK row \in RequestRow : /\ reqs' = [reqs EXCEPT ![r] = row] /\ row.look = "reopen"
                                    /\ row.id = reqs[r].id /\ row.cart = reqs[r].cart
                                    /\ row.step = reqs[r].step /\ row.op = reqs[r].op
      BY <2>1, CartTurns
    <3>2. Known(row.id, row.cart) /\ row.cart.status = "pending"
      BY <1>1, <1>9, <2>1, <3>1, CartLookIs DEF Kept, HasRead, Cart!LookCheckout, Cart!Looks, Cart!Completed
    <3> QED
      BY <1>1, <1>2, <2>1, <3>1, <3>2, CartLooksOn
  <2> QED
    BY <1>4, <1>5, <1>9, <2>1 DEF Cart!LookCheckout
<1> QED
  BY <1>6, <1>7, <1>8, <1>9

\* A cart that is opened again is a document of the same owner.
LEMMA CartReopenedIs ==
  ASSUME NEW cart \in Document
  PROVE  \E doc \in Document : /\ doc = Cart!Reopened(cart) /\ doc.owner = cart.owner
                               /\ doc.status = "open" /\ doc.version = cart.version + 1
                               /\ doc.qty = cart.qty /\ doc.moved = cart.moved
<1>1. PICK renewed \in Document : /\ renewed = Cart!Renewed(cart)
                                 /\ renewed.owner = cart.owner /\ renewed.status = cart.status
                                 /\ renewed.qty = cart.qty /\ renewed.moved = cart.moved
                                 /\ renewed.version = cart.version + 1
  BY CartRenewedIs
<1> DEFINE doc == [renewed EXCEPT !.status = "open"]
<1>2. /\ doc \in Document /\ doc.owner = renewed.owner /\ doc.status = "open"
      /\ doc.version = renewed.version /\ doc.qty = renewed.qty /\ doc.moved = renewed.moved
  BY DEF Document
<1>3. doc = Cart!Reopened(cart)
  BY <1>1 DEF Cart!Reopened
<1> HIDE DEF doc
<1> QED
  BY <1>1, <1>2, <1>3

\* A blind put of a copy brings no cart back, unless it undoes another put.
LEMMA BlindPutIsCalm ==
  ASSUME CartTypes, NEW id, NEW cart \in Document, Known(id, cart), NEW doc \in Document,
         doc.owner = cart.owner, doc.status # "none", Cart!PutBlindly(id, cart, doc),
         doc.status \in {"open", "claimed", "pending"} => cart.status \in {"open", "claimed", "pending"}
  PROVE  Calm /\ undone' \in BOOLEAN /\ (undone => undone') /\ carts'[id] = doc
<1>1. undone' = (undone \/ carts[id] # cart) /\ Cart!Put(id, doc) /\ id \in Carts
  BY DEF Cart!PutBlindly, Known
<1> QED
  BY <1>1 DEF CartTypes, Known, Calm, Cart!Put, InACart

\* A request opens a cart again whose checkout is over.
LEMMA CartReopens ==
  ASSUME CartTypes, CartInv, NEW r \in Requests, Cart!PutReopened(r)
  PROVE  CartTypes' /\ CartInv'
<1>1. /\ reqs[r].step \in Cart!Looking /\ wishlist' = wishlist /\ wishlist \in List /\ locks' = locks
      /\ others' = others /\ raced' = raced /\ raced \in BOOLEAN
      /\ locks \in [Cart!Owners -> Requests \cup {NoRequest}]
  BY DEF CartTypes, Cart!PutReopened, Cart!Looks, Cart!otherHistory
<1>2. Kept(reqs[r]) /\ HasRead(reqs[r]) /\ reqs[r] \in RequestRow /\ reqs[r].look = "reopen"
  BY <1>1, CartLookIs DEF Cart!PutReopened, Cart!Looks, HasRead
<1>3. PICK id \in Carts, cart \in Document :
        /\ id = reqs[r].id /\ cart = reqs[r].cart /\ Known(id, cart)
        /\ cart.status \in {"claimed", "pending"}
  BY <1>2 DEF Kept, RequestRow, Known
<1>4. PICK doc \in Document :
        doc = Cart!Reopened(cart) /\ doc.owner = cart.owner /\ doc.status = "open"
  BY CartReopenedIs
<1>5. Cart!PutBlindly(id, cart, doc) /\ Cart!Found(r, id, doc)
  BY <1>3, <1>4 DEF Cart!PutReopened
<1>6. Calm /\ Still /\ carts'[id] = doc
  BY <1>1, <1>3, <1>4, <1>5, BlindPutIsCalm DEF Still
<1>7. PICK s \in {"put", "source", "list"} :
        Cart!Holding(r, id, doc, s) /\ (s = "put" => reqs[r].op # "merge")
  BY <1>1, <1>5, CartFoundIs
<1> QED
  BY <1>1, <1>4, <1>6, <1>7, CartFound

\* A request takes the lock, or finds it taken.
LEMMA CartLocks ==
  ASSUME CartTypes, CartInv, NEW r \in Requests, Cart!TryLock(r)
  PROVE  CartTypes' /\ CartInv'
<1>1. /\ carts' = carts /\ wishlist' = wishlist /\ Still /\ wishlist \in List /\ Calm
      /\ reqs[r].step = "lock" /\ reqs[r].op \in Cart!Locking /\ reqs[r].op # "merge"
      /\ locks \in [Cart!Owners -> Requests \cup {NoRequest}]
  BY CartsRest DEF CartTypes, CartInv, Kept, Cart!TryLock, Cart!At, Cart!unchangedHistory, Cart!Locking, Still
<1>2. ASSUME locks' = [locks EXCEPT ![reqs[r].owner] = r], Cart!Goto(r, "recheck")
      PROVE  CartTypes' /\ CartInv'
  <2>1. locks' \in [Cart!Owners -> Requests \cup {NoRequest}]
    BY <1>1, <1>2
  <2>2. \A o \in Cart!Owners, q \in Requests : locks'[o] = q => locks[o] = q \/ q = r
    BY <1>1, <1>2
  <2> QED
    BY <2>1, <2>2, <1>1, <1>2, CartSteps DEF Finding, Copying, Merging
<1>3. ASSUME Cart!Goto(r, "join"), locks' = locks
      PROVE  CartTypes' /\ CartInv'
  BY <1>1, <1>3, CartSteps DEF Finding, Copying, Merging
<1> QED
  BY <1>2, <1>3 DEF Cart!TryLock, Cart!Locked

\* What a move or a merge puts in the wishlist is an item, or none.
LEMMA CartLists ==
  ASSUME CartTypes, NEW r \in Requests, NEW item \in Int, Cart!PutWishlist(r, item)
  PROVE  wishlist' \in List
BY DEF CartTypes, List, Cart!PutWishlist

\* The steps of the wishlist leave the carts alone.
LEMMA CartWishes ==
  ASSUME CartTypes, CartInv, NEW r \in Requests, Cart!Unlist(r) \/ Cart!ReadWishlist(r) \/ Cart!Enlist(r)
  PROVE  CartTypes' /\ CartInv'
<1>1. /\ carts' = carts /\ locks' = locks /\ Still /\ wishlist \in List /\ Calm
      /\ locks \in [Cart!Owners -> Requests \cup {NoRequest}]
  BY CartsRest DEF Still, CartTypes, Cart!Unlist, Cart!ReadWishlist, Cart!Enlist, Cart!unchangedHistory
<1>2. ASSUME Cart!Unlist(r)
      PROVE  CartTypes' /\ CartInv'
  <2>1. wishlist' \in List
    BY <1>2, CartLists DEF Cart!Unlist
  <2> QED
    BY <2>1, <1>1, <1>2, CartEnds DEF Cart!Unlist
<1>3. ASSUME Cart!ReadWishlist(r), ~Cart!Finish(r)
      PROVE  CartTypes' /\ CartInv'
  <2> DEFINE listed == [reqs[r] EXCEPT !.list = wishlist]
             row == [listed EXCEPT !.step = "enlist"]
  <2>1. reqs[r] \in RequestRow
    BY CartRows
  <2>2. listed \in RequestRow
    BY <2>1, <1>1 DEF RequestRow
  <2>3. reqs' = [reqs EXCEPT ![r] = row] /\ wishlist' = wishlist /\ reqs[r].step = "list"
    BY <1>3 DEF Cart!ReadWishlist, Cart!At
  <2>4. /\ row \in RequestRow /\ row.step = "enlist"
        /\ row.id = reqs[r].id /\ row.cart = reqs[r].cart
    BY <2>1, <2>2 DEF RequestRow, Copying
  <2> HIDE DEF row
  <2>5. Kept(row)
    BY <2>3, <2>4 DEF CartInv, Kept, Copying, Merging, HasRead, Cart!Looking
  <2> QED
    BY <2>3, <2>4, <2>5, <1>1, CartGoes
<1>4. ASSUME Cart!ReadWishlist(r), Cart!Finish(r)
      PROVE  CartTypes' /\ CartInv'
  BY <1>1, <1>4, CartEnds DEF Cart!ReadWishlist
<1>5. ASSUME Cart!Enlist(r)
      PROVE  CartTypes' /\ CartInv'
  <2>1. reqs[r] \in RequestRow /\ reqs[r].list.item \in Int
    BY CartRows DEF RequestRow, List
  <2>2. Items \subseteq Int
    BY ServicesAssumption DEF Cart!CartAssumption
  <2>3. PICK item \in Int : Cart!PutWishlist(r, item)
    BY <2>1, <2>2, <1>5 DEF Cart!Enlist, Cart!FreshItems
  <2>4. wishlist' \in List
    BY <2>3, CartLists
  <2>5. Copied(reqs[r].id, reqs[r].cart)
    BY <1>5 DEF CartInv, Kept, Cart!Enlist, Cart!At, Copying
  <2>6. ASSUME Cart!Goto(r, "take")
        PROVE  CartTypes' /\ CartInv'
    BY <2>4, <2>5, <2>6, <1>1, CartSteps DEF Copying, Merging
  <2>7. CASE Cart!Finish(r)
    BY <2>4, <2>7, <1>1, CartEnds
  <2> QED
    BY <2>6, <2>7, <1>5 DEF Cart!Enlist
<1> QED
  BY <1>2, <1>3, <1>4, <1>5

\* A merge reads its source, again when the source changed meanwhile.
LEMMA CartReadsSource ==
  ASSUME CartTypes, CartInv, NEW r \in Requests, Cart!ReadSource(r) \/ Cart!ReadLatest(r)
  PROVE  CartTypes' /\ CartInv'
<1>1. /\ carts' = carts /\ locks' = locks /\ wishlist' = wishlist /\ Still /\ Calm
      /\ wishlist \in List /\ locks \in [Cart!Owners -> Requests \cup {NoRequest}]
  BY CartsRest DEF Still, CartTypes, Cart!ReadSource, Cart!ReadLatest, Cart!unchangedHistory
<1>2. /\ reqs[r] \in RequestRow /\ Kept(reqs[r])
      /\ reqs[r].step \in Copying /\ reqs[r].step \in {"source", "latest"}
  BY CartRows DEF CartInv, Cart!ReadSource, Cart!ReadLatest, Cart!At, Copying, Merging
<1>3. ASSUME NEW row \in RequestRow, reqs' = [reqs EXCEPT ![r] = row], row.step \in {"put", "again"},
             row.id = reqs[r].id, row.cart = reqs[r].cart, Copied(row.from, row.source)
      PROVE  CartTypes' /\ CartInv'
  <2>1. Kept(row)
    BY <1>2, <1>3 DEF Kept, HasRead, Cart!Looking, Copying, Merging
  <2> QED
    BY <2>1, <1>1, <1>3, CartGoes
<1>4. ASSUME NEW c \in Carts, carts[c].status = "open",
             reqs' = [reqs EXCEPT ![r].from = c, ![r].source = carts[c], ![r].step = "put"]
      PROVE  CartTypes' /\ CartInv'
  <2>1. PICK source \in Document : source = carts[c]
    BY DEF CartTypes
  <2> DEFINE from == [reqs[r] EXCEPT !.from = c]
             sourced == [from EXCEPT !.source = source]
             row == [sourced EXCEPT !.step = "put"]
  <2>2. from \in RequestRow
    BY <1>2 DEF RequestRow
  <2>3. sourced \in RequestRow
    BY <2>2 DEF RequestRow
  <2>4. row \in RequestRow
    BY <2>3 DEF RequestRow, Copying
  <2>5. /\ row.step = "put" /\ row.id = reqs[r].id /\ row.cart = reqs[r].cart
        /\ row.from = c /\ row.source = source
    BY <1>2 DEF RequestRow
  <2>6. reqs' = [reqs EXCEPT ![r] = row]
    BY <2>1, <1>4
  <2> HIDE DEF row
  <2>7. Copied(row.from, row.source)
    BY <2>1, <2>5, <1>4 DEF Copied
  <2> QED
    BY <2>4, <2>5, <2>6, <2>7, <1>3
<1>5. ASSUME carts[reqs[r].from].status = "open", Cart!At(r, "latest"),
             reqs' = [reqs EXCEPT ![r].step = "again", ![r].was = reqs[r].source.qty,
                                  ![r].source = carts[reqs[r].from]]
      PROVE  CartTypes' /\ CartInv'
  <2>0. Copied(reqs[r].from, reqs[r].source)
    BY <1>2, <1>5 DEF Kept, Merging, Cart!At
  <2>1. PICK source \in Document : source = carts[reqs[r].from]
    BY <2>0 DEF CartTypes, Copied
  <2>2. PICK was \in Int : was = reqs[r].source.qty
    BY <1>2 DEF RequestRow, Document
  <2> DEFINE again == [reqs[r] EXCEPT !.step = "again"]
             owed == [again EXCEPT !.was = was]
             row == [owed EXCEPT !.source = source]
  <2>3. again \in RequestRow
    BY <1>2 DEF RequestRow, Copying, Merging
  <2>4. owed \in RequestRow
    BY <2>3 DEF RequestRow
  <2>5. row \in RequestRow
    BY <2>4 DEF RequestRow
  <2>6. /\ row.step = "again" /\ row.id = reqs[r].id /\ row.cart = reqs[r].cart
        /\ row.from = reqs[r].from /\ row.source = source
    BY <1>2 DEF RequestRow
  <2>7. reqs' = [reqs EXCEPT ![r] = row]
    BY <2>1, <2>2, <1>5
  <2> HIDE DEF row
  <2>8. Copied(row.from, row.source)
    BY <2>0, <2>1, <2>6, <1>5 DEF Copied
  <2> QED
    BY <2>5, <2>6, <2>7, <2>8, <1>3
<1>6. CASE Cart!Finish(r)
  BY <1>1, <1>6, CartEnds
<1>7. ASSUME Cart!ReadSource(r)
      PROVE  CartTypes' /\ CartInv'
  BY <1>4, <1>6, <1>7 DEF Cart!ReadSource, Cart!OpenCarts, Cart!CartsOf
<1>8. ASSUME Cart!ReadLatest(r)
      PROVE  CartTypes' /\ CartInv'
  BY <1>5, <1>6, <1>8 DEF Cart!ReadLatest
<1> QED
  BY <1>7, <1>8

\* After its put a request goes on to the wishlist, or ends.
LEMMA CartPutEnds ==
  ASSUME CartTypes, CartInv, NEW r \in Requests, Calm, Cart!Onward(r) \/ Cart!Finish(r), Still,
         wishlist' \in List, locks' \in [Cart!Owners -> Requests \cup {NoRequest}],
         \A o \in Cart!Owners, q \in Requests : locks'[o] = q => locks[o] = q \/ q = r
  PROVE  CartTypes' /\ CartInv'
<1>1. CASE Cart!Finish(r)
  BY <1>1, CartEnds
<1>2. CASE Cart!Goto(r, "unlist")
  <2>0. reqs[r] \in RequestRow
    BY CartRows
  <2>1. PICK row \in RequestRow : row = [reqs[r] EXCEPT !.step = "unlist", !.look = "open"]
    BY <1>2, CartRows DEF Finding
  <2>2. row.step = "unlist" /\ reqs' = [reqs EXCEPT ![r] = row]
    BY <2>0, <2>1, <1>2 DEF RequestRow, Cart!Goto
  <2>3. Kept(row)'
    BY <2>2 DEF Kept, Copying, Merging, HasRead, Cart!Looking
  <2> QED
    BY <2>1, <2>2, <2>3, CartMoves
<1> QED
  BY <1>1, <1>2 DEF Cart!Onward

\* The put of a changed cart.
LEMMA CartPuts ==
  ASSUME CartTypes, CartInv, NEW r \in Requests, Cart!PutCart(r)
  PROVE  CartTypes' /\ CartInv'
<1>1. /\ wishlist' = wishlist /\ Still /\ wishlist \in List
      /\ locks' \in [Cart!Owners -> Requests \cup {NoRequest}]
      /\ \A o \in Cart!Owners, q \in Requests : locks'[o] = q => locks[o] = q \/ q = r
  BY CartReleases DEF Still, CartTypes, Cart!PutCart
<1>2. reqs[r] \in RequestRow /\ Copied(reqs[r].id, reqs[r].cart)
  BY CartRows DEF CartInv, Kept, Cart!PutCart, Cart!At, Copying
<1>3. PICK cart \in Document : cart = reqs[r].cart
  BY <1>2 DEF RequestRow
<1>4. cart.qty \in Int /\ Limit \in Nat /\ cart.moved \in SUBSET Int /\ Cart!Moved(r) \in SUBSET Int
  BY <1>2, ServicesAssumption DEF Cart!CartAssumption, Document, Cart!Moved, RequestRow, List
<1>5. \A q \in Cart!Quantities(r, cart) : q \in Int
  BY <1>4 DEF Cart!Quantities
<1>6. ASSUME NEW q \in Cart!Quantities(r, cart), Cart!Unchanged(reqs[r].id, cart),
             Cart!Put(reqs[r].id, Cart!Changed(r, cart, q)), Cart!Onward(r)
      PROVE  CartTypes' /\ CartInv'
  <2>0. PICK renewed \in Document : /\ renewed = Cart!Renewed(cart)
                                   /\ renewed.owner = cart.owner /\ renewed.status = cart.status
    BY CartRenewedIs
  <2>1. PICK moved \in SUBSET Int : moved = IF q = 0 THEN {} ELSE renewed.moved \cup Cart!Moved(r)
    BY <1>4 DEF Document
  <2>2. PICK doc \in Document : doc = [renewed EXCEPT !.qty = q, !.moved = moved]
    BY <1>5 DEF Document
  <2>3. Cart!Changed(r, cart, q) = doc
    BY <2>0, <2>1, <2>2 DEF Cart!Changed, Document
  <2>4. doc.owner = cart.owner /\ doc.status = "open"
    BY <1>2, <1>3, <2>0, <2>2 DEF Copied, Document
  <2>5. Calm
    BY <1>2, <1>3, <1>6, <2>3, <2>4, PutIsCalm
  <2> QED
    BY <2>5, <1>1, <1>6, CartPutEnds
<1>7. ASSUME carts' = carts, Cart!Onward(r) \/ Cart!Finish(r)
      PROVE  CartTypes' /\ CartInv'
  BY <1>1, <1>7, CartsRest, CartPutEnds
<1> QED
  BY <1>3, <1>6, <1>7 DEF Cart!PutCart

\* A line that is saved for later leaves its cart.
LEMMA CartTakes ==
  ASSUME CartTypes, CartInv, NEW r \in Requests, Cart!TakeLine(r)
  PROVE  CartTypes' /\ CartInv'
<1>1. /\ wishlist' = wishlist /\ Still /\ locks' = locks /\ wishlist \in List /\ Cart!Finish(r)
      /\ locks \in [Cart!Owners -> Requests \cup {NoRequest}]
  BY DEF Still, CartTypes, Cart!TakeLine
<1>2. reqs[r] \in RequestRow /\ Copied(reqs[r].id, reqs[r].cart)
  BY CartRows DEF CartInv, Kept, Cart!TakeLine, Cart!At, Copying
<1>3. PICK cart \in Document : cart = reqs[r].cart
  BY <1>2 DEF RequestRow
<1>0. PICK renewed \in Document : /\ renewed = Cart!Renewed(cart)
                                 /\ renewed.owner = cart.owner /\ renewed.status = cart.status
  BY CartRenewedIs
<1>4. PICK doc \in Document : doc = [renewed EXCEPT !.qty = 0, !.moved = {}]
  <2>1. PICK qty \in Int, moved \in SUBSET Int : qty = 0 /\ moved = {}
    <3>1. 0 \in Int /\ {} \in SUBSET Int
      OBVIOUS
    <3> QED
      BY <3>1, Zenon
  <2>2. [renewed EXCEPT !.qty = qty, !.moved = moved] \in Document
    BY DEF Document
  <2> QED
    BY <2>1, <2>2
<1>5. doc.owner = cart.owner /\ doc.status = "open"
  BY <1>0, <1>2, <1>3, <1>4 DEF Copied, Document
<1>6. Calm
  <2>1. CASE carts' = carts
    BY <2>1, CartsRest
  <2>2. CASE Cart!Unchanged(reqs[r].id, cart) /\ Cart!Put(reqs[r].id, doc)
    BY <2>2, <1>2, <1>3, <1>5, PutIsCalm
  <2> QED
    BY <2>1, <2>2, <1>0, <1>3, <1>4 DEF Cart!TakeLine
<1> QED
  BY <1>1, <1>6, CartEnds

\* A merge that put the target goes on to abandon its source.
LEMMA CartMergePuts ==
  ASSUME CartTypes, CartInv, NEW r \in Requests, Copied(reqs[r].id, reqs[r].cart),
         Copied(reqs[r].from, reqs[r].source), Cart!Unchanged(reqs[r].id, reqs[r].cart),
         NEW target \in Document, target.owner = reqs[r].cart.owner, target.status = "open",
         NEW s \in {"abandon", "reabandon"}, Cart!Put(reqs[r].id, target),
         Cart!Holding(r, reqs[r].id, target, s), wishlist' = wishlist, locks' = locks, Still
  PROVE  CartTypes' /\ CartInv'
<1>1. /\ wishlist \in List /\ locks \in [Cart!Owners -> Requests \cup {NoRequest}]
      /\ carts \in [Carts -> Document]
  BY DEF CartTypes
<1>2. Calm
  BY PutIsCalm
<1>3. PICK id \in Carts : id = reqs[r].id
  BY DEF Copied
<1>4. PICK row \in RequestRow :
        /\ reqs' = [reqs EXCEPT ![r] = row]
        /\ row.step = s /\ row.id = id /\ row.cart = target
        /\ row.from = reqs[r].from /\ row.source = reqs[r].source
  BY <1>3, CartHolds DEF Copying, Merging
<1>5. carts'[id] = target
  BY <1>1, <1>3 DEF Cart!Put
<1>6. Copied(row.id, row.cart)'
  BY <1>4, <1>5 DEF Copied
<1>7. Copied(row.from, row.source)'
  BY <1>2, <1>4 DEF Copied, Calm
<1>8. Kept(row)'
  BY <1>4, <1>6, <1>7 DEF Kept, HasRead, Cart!Looking
<1> QED
  BY <1>1, <1>2, <1>4, <1>8, CartMoves

\* A merge adds the quantities, and keeps the owner and the state of its target.
LEMMA CartMergedIs ==
  ASSUME NEW cart \in Document, NEW source \in Document
  PROVE  /\ Cart!Merged(cart, source) \in Document
         /\ Cart!Merged(cart, source).owner = cart.owner
         /\ Cart!Merged(cart, source).status = cart.status
         /\ Cart!Merged(cart, source).version = cart.version + 1
         /\ Cart!Merged(cart, source).qty = cart.qty + source.qty
         /\ Cart!Merged(cart, source).moved = IF cart.qty = 0 THEN source.moved ELSE cart.moved
<1>1. PICK renewed \in Document : /\ renewed = Cart!Renewed(cart)
                                 /\ renewed.owner = cart.owner /\ renewed.status = cart.status
                                 /\ renewed.qty = cart.qty /\ renewed.moved = cart.moved
                                 /\ renewed.version = cart.version + 1
  BY CartRenewedIs
<1>3. PICK moved \in SUBSET Int : moved = IF cart.qty = 0 THEN source.moved ELSE cart.moved
  BY DEF Document
<1>4. PICK qty \in Int : qty = cart.qty + source.qty
  BY DEF Document
<1>5. Cart!Merged(cart, source) = [renewed EXCEPT !.qty = qty, !.moved = moved]
  BY <1>1, <1>3, <1>4 DEF Cart!Merged, Document
<1> QED
  BY <1>1, <1>3, <1>4, <1>5 DEF Document

\* The target takes the source's units.
LEMMA CartMerges ==
  ASSUME CartTypes, CartInv, NEW r \in Requests, Cart!MergeTarget(r)
  PROVE  CartTypes' /\ CartInv'
<1>1. /\ wishlist' = wishlist /\ Still /\ locks' = locks /\ wishlist \in List
      /\ locks \in [Cart!Owners -> Requests \cup {NoRequest}]
  BY DEF Still, CartTypes, Cart!MergeTarget, Cart!unchangedHistory
<1>2. /\ reqs[r] \in RequestRow /\ Copied(reqs[r].id, reqs[r].cart) /\ Copied(reqs[r].from, reqs[r].source)
  BY CartRows DEF CartInv, Kept, Cart!MergeTarget, Cart!At, Copying
<1>3. PICK cart \in Document, source \in Document : cart = reqs[r].cart /\ source = reqs[r].source
  BY <1>2 DEF RequestRow
<1>4. PICK target \in Document :
        target = Cart!Merged(cart, source) /\ target.owner = cart.owner /\ target.status = cart.status
  BY CartMergedIs
<1>5. ASSUME Cart!Unchanged(reqs[r].id, cart), Cart!Put(reqs[r].id, target),
             Cart!Holding(r, reqs[r].id, target, "abandon")
      PROVE  CartTypes' /\ CartInv'
  <2>1. target.status = "open"
    BY <1>2, <1>3, <1>4 DEF Copied
  <2> QED
    BY <2>1, <1>1, <1>2, <1>3, <1>4, <1>5, CartMergePuts
<1>6. ASSUME carts' = carts, Cart!Finish(r)
      PROVE  CartTypes' /\ CartInv'
  BY <1>1, <1>6, CartsRest, CartEnds
<1> QED
  BY <1>3, <1>4, <1>5, <1>6 DEF Cart!MergeTarget

\* A changed source is merged for what it has now and had not.
LEMMA CartMergesAgain ==
  ASSUME CartTypes, CartInv, NEW r \in Requests, Cart!MergeAgain(r)
  PROVE  CartTypes' /\ CartInv'
<1>1. /\ wishlist' = wishlist /\ Still /\ locks' = locks /\ wishlist \in List
      /\ locks \in [Cart!Owners -> Requests \cup {NoRequest}]
  BY DEF Still, CartTypes, Cart!MergeAgain
<1>2. /\ reqs[r] \in RequestRow /\ Copied(reqs[r].id, reqs[r].cart) /\ Copied(reqs[r].from, reqs[r].source)
  BY CartRows DEF CartInv, Kept, Cart!MergeAgain, Cart!At, Copying, Merging
<1>3. PICK cart \in Document, source \in Document, was \in Int :
        cart = reqs[r].cart /\ source = reqs[r].source /\ was = reqs[r].was
  BY <1>2 DEF RequestRow
<1>4. PICK owed \in Document : owed = Cart!Owed(r)
  <2>1. PICK qty \in Int : qty = source.qty - was
    BY DEF Document
  <2>2. Cart!Owed(r) = [source EXCEPT !.qty = qty]
    BY <2>1, <1>3 DEF Cart!Owed, Document
  <2> QED
    BY <2>2 DEF Document
<1>5. PICK target \in Document :
        target = Cart!Corrected(cart, owed) /\ target.owner = cart.owner /\ target.status = cart.status
  <2>1. CASE cart.qty + owed.qty = 0
    <3>1. PICK renewed \in Document : /\ renewed = Cart!Renewed(cart)
                                     /\ renewed.owner = cart.owner /\ renewed.status = cart.status
      BY CartRenewedIs
    <3>2. PICK doc \in Document : doc = [renewed EXCEPT !.qty = 0, !.moved = {}]
      <4>1. PICK qty \in Int, moved \in SUBSET Int : qty = 0 /\ moved = {}
        <5>1. 0 \in Int /\ {} \in SUBSET Int
          OBVIOUS
        <5> QED
          BY <5>1, Zenon
      <4>2. [renewed EXCEPT !.qty = qty, !.moved = moved] \in Document
        BY DEF Document
      <4> QED
        BY <4>1, <4>2
    <3>3. Cart!Corrected(cart, owed) = doc /\ doc.owner = cart.owner /\ doc.status = cart.status
      BY <3>1, <3>2, <2>1 DEF Cart!Corrected, Document
    <3> QED
      BY <3>3
  <2>2. CASE cart.qty + owed.qty # 0
    BY <2>2, CartMergedIs DEF Cart!Corrected
  <2> QED
    BY <2>1, <2>2
<1>6. ASSUME Cart!Unchanged(reqs[r].id, cart), Cart!Put(reqs[r].id, target),
             Cart!Holding(r, reqs[r].id, target, "reabandon")
      PROVE  CartTypes' /\ CartInv'
  <2>1. target.status = "open"
    BY <1>2, <1>3, <1>5 DEF Copied
  <2> QED
    BY <2>1, <1>1, <1>2, <1>3, <1>5, <1>6, CartMergePuts
<1>7. ASSUME carts' = carts, Cart!Finish(r)
      PROVE  CartTypes' /\ CartInv'
  BY <1>1, <1>7, CartsRest, CartEnds
<1> QED
  BY <1>3, <1>4, <1>5, <1>6, <1>7 DEF Cart!MergeAgain

\* A merged source is nobody's cart any more, and one that changed is read again.
LEMMA CartAbandons ==
  ASSUME CartTypes, CartInv, NEW r \in Requests, Cart!AbandonSource(r) \/ Cart!AbandonAgain(r)
  PROVE  CartTypes' /\ CartInv'
<1>1. /\ wishlist' = wishlist /\ Still /\ locks' = locks /\ wishlist \in List
      /\ locks \in [Cart!Owners -> Requests \cup {NoRequest}]
  BY DEF Still, CartTypes, Cart!AbandonSource, Cart!AbandonAgain
<1>2. /\ reqs[r] \in RequestRow /\ Copied(reqs[r].id, reqs[r].cart) /\ Copied(reqs[r].from, reqs[r].source)
  BY CartRows DEF CartInv, Kept, Cart!AbandonSource, Cart!AbandonAgain, Cart!At, Copying, Merging
<1>3. PICK source \in Document : source = reqs[r].source
  BY <1>2 DEF RequestRow
<1>0. PICK renewed \in Document : renewed = Cart!Renewed(source) /\ renewed.owner = source.owner
  BY CartRenewedIs
<1>4. PICK doc \in Document : doc = [renewed EXCEPT !.status = "abandoned"]
  BY DEF Document
<1>5. /\ doc = Cart!Abandoned(source) /\ doc.owner = source.owner /\ doc.status = "abandoned"
  BY <1>0, <1>4 DEF Cart!Abandoned, Document
<1>6. ASSUME Cart!Unchanged(reqs[r].from, source), Cart!Put(reqs[r].from, doc), Cart!Finish(r)
      PROVE  CartTypes' /\ CartInv'
  <2>1. Calm
    BY <1>2, <1>3, <1>5, <1>6, PutIsCalm
  <2> QED
    BY <2>1, <1>1, <1>6, CartEnds
<1>7. ASSUME carts' = carts, Cart!Finish(r)
      PROVE  CartTypes' /\ CartInv'
  BY <1>1, <1>7, CartsRest, CartEnds
<1>8. ASSUME carts' = carts, Cart!Goto(r, "latest")
      PROVE  CartTypes' /\ CartInv'
  BY <1>1, <1>2, <1>8, CartSteps DEF Copying, Merging
<1> QED
  BY <1>3, <1>5, <1>6, <1>7, <1>8 DEF Cart!AbandonSource, Cart!AbandonAgain

\* What a request with a new cart did: the cart has the next number, and is its owner's.
LEMMA CartMade ==
  ASSUME CartTypes, CartInv, NEW r \in Requests, NEW c \in Carts, carts[c].status = "none",
         NEW doc \in Document, doc.status = "open", doc.owner = reqs[r].owner, Cart!Put(c, doc),
         NEW row \in RequestRow, reqs' = [reqs EXCEPT ![r] = row], row.step # "putnew", Kept(row)',
         wishlist' = wishlist, raced' \in BOOLEAN, raced => raced', others' = others, undone' = undone,
         locks' \in [Cart!Owners -> Requests \cup {NoRequest}],
         \A o \in Cart!Owners, q \in Requests : locks'[o] = q => locks[o] = q,
         ~raced' /\ ~undone =>
                    /\ ~raced /\ Vacant(reqs[r].owner)
                    /\ \A q \in Requests \ {r} :
                         ~(reqs[q].step = "putnew" /\ reqs[q].owner = reqs[r].owner
                           /\ locks[reqs[q].owner] = q)
  PROVE  CartTypes' /\ CartInv'
<1>1. /\ carts' \in [Carts -> Document] /\ carts'[c] = doc
      /\ \A d \in Carts \ {c} : carts'[d] = carts[d]
  BY DEF CartTypes, Cart!Put
<1>2. /\ reqs' \in [Requests -> RequestRow] /\ reqs'[r] = row
      /\ \A q \in Requests \ {r} : reqs'[q] = reqs[q]
  BY DEF CartTypes
<1>3. CartTypes'
  BY <1>1, <1>2 DEF CartTypes
<1>4. ASSUME NEW q \in Requests
      PROVE  Kept(reqs[q])'
  <2>1. CASE q = r
    BY <2>1, <1>2
  <2>2. CASE q # r
    <3>1. PICK old \in RequestRow : old = reqs[q] /\ reqs'[q] = old
      BY <2>2, <1>2 DEF CartTypes
    <3>2. Kept(old)
      BY <3>1 DEF CartInv
    <3>3. \A d \in Carts : carts[d].status # "none" => carts'[d] = carts[d]
      BY <1>1
    <3>4. Kept(old)'
      BY <3>2, <3>3, KeptStays
    <3> QED
      BY <3>1, <3>4
  <2> QED
    BY <2>1, <2>2
<1>5. ASSUME ~raced', ~undone
      PROVE  OnePerOwner'
  <2>1. OnePerOwner /\ Vacant(reqs[r].owner)
    BY <1>5 DEF CartInv
  <2>2. \A d \in Carts \ {c} : InACart(d)' => InACart(d) /\ carts'[d].owner = carts[d].owner
                                             /\ carts'[d].owner # doc.owner
    BY <2>1, <1>1 DEF InACart, Vacant
  <2> QED
    BY <2>1, <2>2, <1>1 DEF OnePerOwner
<1>6. ASSUME ~raced', ~undone, NEW q \in Requests
      PROVE  MakesFirst(q)'
  <2>1. CASE q = r
    BY <2>1, <1>2 DEF MakesFirst
  <2>2. CASE q # r
    <3>1. PICK o \in Cart!Owners : o = reqs[q].owner
      BY DEF CartTypes, RequestRow
    <3>2. ASSUME reqs'[q].step = "putnew", locks'[o] = q
          PROVE  Vacant(o)'
      <4>1. reqs[q].step = "putnew" /\ locks[o] = q
        BY <3>2, <2>2, <1>2
      <4>2. Vacant(o) /\ o # reqs[r].owner
        BY <4>1, <3>1, <2>2, <1>6 DEF CartInv, MakesFirst
      <4> QED
        BY <4>2, <1>1 DEF Vacant, InACart
    <3> QED
      BY <3>1, <3>2, <2>2, <1>2 DEF MakesFirst
  <2> QED
    BY <2>1, <2>2
<1>7. \A o \in Others : Meant(others[o])'
  BY <1>1, MeantStays DEF CartInv
<1> QED
  BY <1>3, <1>4, <1>5, <1>6, <1>7 DEF CartInv

\* A cart made without the lock is the first one, unless it is seen to race.
LEMMA CartCreates ==
  ASSUME CartTypes, CartInv, NEW r \in Requests, Cart!CreateEmpty(r)
  PROVE  CartTypes' /\ CartInv'
<1>1. /\ reqs[r] \in RequestRow /\ wishlist' = wishlist /\ locks' = locks /\ raced \in BOOLEAN
      /\ raced' = (raced \/ Cart!Crowded(r)) /\ Cart!At(r, "create")
      /\ others' = others /\ undone' = undone
      /\ locks \in [Cart!Owners -> Requests \cup {NoRequest}]
  BY CartRows DEF CartTypes, Cart!CreateEmpty
<1>2. PICK c \in Carts : /\ Cart!NewId(c) /\ Cart!Put(c, Cart!NewCart(reqs[r].owner))
                         /\ Cart!Holding(r, c, Cart!NewCart(reqs[r].owner), Cart!Ahead(reqs[r].op))
  BY DEF Cart!CreateEmpty
<1>3. PICK doc \in Document : /\ doc = Cart!NewCart(reqs[r].owner)
                              /\ doc.owner = reqs[r].owner /\ doc.status = "open"
  BY <1>1, CartValues DEF RequestRow
<1>4. PICK s \in {"put", "source", "list"} :
        s = Cart!Ahead(reqs[r].op) /\ (s = "put" => reqs[r].op # "merge")
  BY DEF Cart!Ahead
<1>5. PICK row \in RequestRow :
        /\ reqs' = [reqs EXCEPT ![r] = row]
        /\ row.step = s /\ row.id = c /\ row.cart = doc /\ row.op = reqs[r].op
  BY <1>2, <1>3, <1>4, CartHolds DEF Copying
<1>6. carts'[c] = doc
  BY <1>2, <1>3 DEF CartTypes, Cart!Put
<1>7. Kept(row)'
  BY <1>3, <1>4, <1>5, <1>6 DEF Kept, Copied, Merging, HasRead, Cart!Looking
<1>8. ASSUME ~raced'
      PROVE  /\ ~raced /\ Vacant(reqs[r].owner)
             /\ \A q \in Requests \ {r} : ~(reqs[q].step = "putnew" /\ reqs[q].owner = reqs[r].owner)
  <2>1. ~raced /\ ~Cart!Crowded(r)
    BY <1>1, <1>8
  <2> QED
    BY <2>1 DEF Cart!Crowded, Cart!Cartless, Cart!CartsOf, Cart!InUse, Vacant, InACart
<1>9. /\ carts[c].status = "none" /\ Cart!Put(c, doc) /\ raced' \in BOOLEAN /\ (raced => raced')
      /\ row.step # "putnew"
  BY <1>1, <1>2, <1>3, <1>4, <1>5 DEF Cart!NewId
<1> QED
  BY <1>1, <1>3, <1>5, <1>7, <1>8, <1>9, CartMade

\* The first cart of an owner is made by the one that holds the lock, unless it is seen
\* to race.
LEMMA CartPutsFirst ==
  ASSUME CartTypes, CartInv, NEW r \in Requests, Cart!PutFirstCart(r)
  PROVE  CartTypes' /\ CartInv'
<1>1. /\ reqs[r] \in RequestRow /\ wishlist' = wishlist /\ raced \in BOOLEAN
      /\ raced' = (raced \/ locks[reqs[r].owner] # r) /\ reqs[r].step = "putnew"
      /\ others' = others /\ undone' = undone
      /\ locks' \in [Cart!Owners -> Requests \cup {NoRequest}]
      /\ \A o \in Cart!Owners, q \in Requests : locks'[o] = q => locks[o] = q
  BY CartRows, CartReleases DEF CartTypes, Cart!PutFirstCart, Cart!At
<1>2. PICK c \in Carts :
        /\ Cart!NewId(c)
        /\ Cart!Put(c, [Cart!NewCart(reqs[r].owner) EXCEPT !.qty = 1, !.version = 2, !.moved = Cart!Moved(r)])
  BY DEF Cart!PutFirstCart
<1>3. PICK doc \in Document : doc.owner = reqs[r].owner /\ doc.status = "open" /\ Cart!Put(c, doc)
  <2>1. PICK empty \in Document : /\ empty = Cart!NewCart(reqs[r].owner)
                                  /\ empty.owner = reqs[r].owner /\ empty.status = "open"
    BY <1>1, CartValues DEF RequestRow
  <2>2. PICK qty \in Int, version \in Int, moved \in SUBSET Int :
          qty = 1 /\ version = 2 /\ moved = Cart!Moved(r)
    <3>1. reqs[r].list.item \in Int
      BY <1>1 DEF RequestRow, List
    <3>2. 1 \in Int /\ 2 \in Int /\ Cart!Moved(r) \in SUBSET Int
      BY <3>1 DEF Cart!Moved
    <3> QED
      BY <3>2, Zenon
  <2> DEFINE filled == [empty EXCEPT !.qty = qty]
             put == [filled EXCEPT !.version = version]
             doc == [put EXCEPT !.moved = moved]
  <2>3. filled \in Document /\ filled.owner = empty.owner /\ filled.status = empty.status
    BY DEF Document
  <2>4. put \in Document /\ put.owner = empty.owner /\ put.status = empty.status
    BY <2>3 DEF Document
  <2>5. doc \in Document /\ doc.owner = empty.owner /\ doc.status = empty.status
    BY <2>4 DEF Document
  <2>6. Cart!Put(c, doc)
    BY <2>1, <2>2, <1>2
  <2> HIDE DEF doc
  <2> QED
    BY <2>1, <2>5, <2>6
<1>4. PICK row \in RequestRow : reqs' = [reqs EXCEPT ![r] = row] /\ row.step \in {"unlist", "done"}
  <2>1. CASE Cart!Goto(r, "unlist")
    <3>0. reqs[r] \in RequestRow
      BY CartRows
    <3>1. PICK row \in RequestRow : row = [reqs[r] EXCEPT !.step = "unlist", !.look = "open"]
      BY <2>1, CartRows DEF Finding
    <3>2. row.step = "unlist" /\ reqs' = [reqs EXCEPT ![r] = row]
      BY <3>0, <3>1, <2>1 DEF RequestRow, Cart!Goto
    <3> QED
      BY <3>2
  <2>2. CASE Cart!Finish(r)
    BY <2>2, CartRows, CartValues
  <2> QED
    BY <2>1, <2>2 DEF Cart!PutFirstCart, Cart!Onward
<1>5. Kept(row)'
  BY <1>4 DEF Kept, Copying, Merging, HasRead, Cart!Looking
<1>6. ASSUME ~raced', ~undone
      PROVE  /\ ~raced /\ Vacant(reqs[r].owner)
             /\ \A q \in Requests \ {r} :
                  ~(reqs[q].owner = reqs[r].owner /\ locks[reqs[q].owner] = q)
  BY <1>1, <1>6 DEF CartInv, MakesFirst
<1>7. carts[c].status = "none" /\ raced' \in BOOLEAN /\ (raced => raced') /\ row.step # "putnew"
  BY <1>1, <1>2, <1>4 DEF Cart!NewId
<1> QED
  BY <1>1, <1>3, <1>4, <1>5, <1>6, <1>7, CartMade

\* A step of nobody's request: a lock that expires, or a writer of a checkout.
LEMMA CartWorld ==
  ASSUME CartTypes, CartInv, Calm, reqs' = reqs, wishlist' = wishlist, raced' = raced,
         others' \in [Others -> OtherRow], \A o \in Others : Meant(others[o])',
         undone' \in BOOLEAN, undone => undone',
         locks' \in [Cart!Owners -> Requests \cup {NoRequest}],
         \A o \in Cart!Owners, q \in Requests : locks'[o] = q => locks[o] = q
  PROVE  CartTypes' /\ CartInv'
<1>1. CartTypes'
  BY DEF CartTypes, Calm
<1>2. ASSUME NEW r \in Requests
      PROVE  Kept(reqs[r])'
  <2>1. PICK row \in RequestRow : row = reqs[r]
    BY DEF CartTypes
  <2>2. Kept(row)'
    BY <2>1, KeptStays DEF CartInv, Calm
  <2> QED
    BY <2>1, <2>2
<1>3. ~undone' /\ OnePerOwner => OnePerOwner'
  BY DEF OnePerOwner, Calm, InACart
<1>4. ASSUME ~undone', NEW r \in Requests, MakesFirst(r)
      PROVE  MakesFirst(r)'
  <2>1. PICK o \in Cart!Owners : o = reqs[r].owner
    BY DEF CartTypes, RequestRow
  <2>2. Vacant(o) => Vacant(o)'
    BY <1>4 DEF Vacant, Calm, InACart
  <2> QED
    BY <2>1, <2>2, <1>4 DEF MakesFirst
<1> QED
  BY <1>1, <1>2, <1>3, <1>4 DEF CartInv

\* A request dies, a lock expires, or nothing happens.
LEMMA CartLapses ==
  ASSUME CartTypes, CartInv,
         \/ \E r \in Requests : Cart!Die(r)
         \/ \E o \in Cart!Owners : Cart!ExpireLock(o)
         \/ UNCHANGED cartVars
  PROVE  CartTypes' /\ CartInv'
<1>1. /\ locks \in [Cart!Owners -> Requests \cup {NoRequest}] /\ wishlist \in List
      /\ undone \in BOOLEAN /\ raced \in BOOLEAN /\ others \in [Others -> OtherRow]
  BY DEF CartTypes
<1>2. ASSUME carts' = carts, others' = others
      PROVE  Calm /\ \A o \in Others : Meant(others[o])'
  BY <1>2, CartsRest, MeantStays DEF CartInv
<1>3. ASSUME NEW r \in Requests, Cart!Die(r)
      PROVE  CartTypes' /\ CartInv'
  <2>1. /\ carts' = carts /\ locks' = locks /\ wishlist' = wishlist /\ Still /\ Cart!Finish(r)
    BY <1>1, <1>3 DEF Still, Cart!Die
  <2> QED
    BY <1>1, <2>1, CartsRest, CartEnds
<1>4. ASSUME NEW o \in Cart!Owners, Cart!ExpireLock(o)
      PROVE  CartTypes' /\ CartInv'
  <2>1. /\ carts' = carts /\ reqs' = reqs /\ wishlist' = wishlist /\ raced' = raced /\ others' = others
        /\ undone' = undone /\ locks' = [locks EXCEPT ![o] = NoRequest] /\ NoRequest \notin Requests
    BY <1>4, ServicesAssumption DEF Cart!CartAssumption, Cart!ExpireLock
  <2>2. /\ locks' \in [Cart!Owners -> Requests \cup {NoRequest}]
        /\ \A p \in Cart!Owners, q \in Requests : locks'[p] = q => locks[p] = q
    BY <1>1, <2>1
  <2> QED
    BY <2>1, <2>2, <1>1, <1>2, CartWorld
<1>5. CASE UNCHANGED cartVars
  BY <1>1, <1>2, <1>5, CartWorld DEF cartVars
<1> QED
  BY <1>3, <1>4, <1>5

\* What the writers of the checkouts mean, when one of them changed its mind.
LEMMA MeantChanges ==
  ASSUME CartTypes, CartInv, NEW o \in Others, NEW other \in OtherRow, Meant(other)',
         others' = [others EXCEPT ![o] = other],
         \A c \in Carts : carts[c].status # "none"
           => carts'[c].status # "none" /\ carts'[c].owner = carts[c].owner
  PROVE  others' \in [Others -> OtherRow] /\ \A p \in Others : Meant(others[p])'
<1>1. /\ others' \in [Others -> OtherRow] /\ others'[o] = other
      /\ \A p \in Others \ {o} : others'[p] = others[p]
  BY DEF CartTypes
<1>2. ASSUME NEW p \in Others \ {o}
      PROVE  Meant(others[p])'
  <2>1. PICK old \in OtherRow : old = others[p] /\ others'[p] = old
    BY <1>1 DEF CartTypes
  <2>2. Meant(old)
    BY <2>1 DEF CartInv
  <2>3. Meant(old)'
    BY <2>2 DEF Meant, Known
  <2> QED
    BY <2>1, <2>3
<1>3. Meant(others[o])'
  BY <1>1 DEF Meant, Known
<1> QED
  BY <1>1, <1>2, <1>3

\* A document that a writer of a checkout puts, with a new status.
LEMMA CartStatusIs ==
  ASSUME NEW cart \in Document, NEW status \in {"open", "claimed", "pending", "paid", "converted"}
  PROVE  \E doc \in Document : /\ doc = [cart EXCEPT !.status = status] /\ doc.owner = cart.owner
                               /\ doc.status = status /\ doc.version = cart.version
                               /\ doc.qty = cart.qty /\ doc.moved = cart.moved
<1> DEFINE doc == [cart EXCEPT !.status = status]
<1>1. /\ doc \in Document /\ doc.owner = cart.owner /\ doc.status = status
      /\ doc.version = cart.version /\ doc.qty = cart.qty /\ doc.moved = cart.moved
  BY DEF Document
<1> HIDE DEF doc
<1> QED
  BY <1>1 DEF doc

\* Checkouts claim carts, release them, are paid, and read them to put them again.
LEMMA CartCheckouts ==
  ASSUME CartTypes, CartInv,
         \/ \E o \in Others, c \in Carts : Cart!Claim(o, c)
         \/ \E o \in Others : Cart!ReleaseClaim(o)
         \/ \E c \in Carts : Cart!Pay(c)
         \/ \E o \in Others, c \in Carts, to \in {"open", "converted"} : Cart!ReadCart(o, c, to)
         \/ \E o \in Others : Cart!PutOther(o)
  PROVE  CartTypes' /\ CartInv'
<1>1. /\ locks \in [Cart!Owners -> Requests \cup {NoRequest}] /\ undone \in BOOLEAN
      /\ reqs' = reqs /\ wishlist' = wishlist /\ raced' = raced /\ locks' = locks
      /\ carts \in [Carts -> Document] /\ others \in [Others -> OtherRow]
  BY DEF CartTypes, Cart!Claim, Cart!ReleaseClaim, Cart!Pay, Cart!ReadCart, Cart!PutOther
<1>2. ASSUME Calm, undone' \in BOOLEAN, undone => undone', NEW o \in Others, NEW other \in OtherRow,
             others' = [others EXCEPT ![o] = other], Meant(other)'
      PROVE  CartTypes' /\ CartInv'
  <2>1. others' \in [Others -> OtherRow] /\ \A p \in Others : Meant(others[p])'
    BY <1>2, MeantChanges DEF Calm
  <2> QED
    BY <1>1, <1>2, <2>1, CartWorld
<1>3. Cart!Idle \in OtherRow /\ Meant(Cart!Idle)'
  BY CartValues DEF Cart!Idle, OtherRow, Meant
<1>4. ASSUME NEW c \in Carts, NEW doc \in Document, Cart!Put(c, doc), doc.owner = carts[c].owner,
             doc.status # "none", doc.status \in {"open", "claimed", "pending"} => InACart(c)
      PROVE  Calm /\ carts'[c] = doc
  BY <1>1, <1>4 DEF Calm, Cart!Put, InACart
<1>5. ASSUME NEW o \in Others, NEW c \in Carts, Cart!Claim(o, c)
      PROVE  CartTypes' /\ CartInv'
  <2>1. PICK cart \in Document : cart = carts[c] /\ cart.status = "open"
    BY <1>1, <1>5 DEF Cart!Claim
  <2>2. PICK renewed \in Document : renewed = Cart!Renewed(cart) /\ renewed.owner = cart.owner
    BY CartRenewedIs
  <2>3. PICK doc \in Document :
          doc = [renewed EXCEPT !.status = "claimed"] /\ doc.owner = cart.owner /\ doc.status = "claimed"
    <3> DEFINE status == "claimed"
    <3>1. status \in {"open", "claimed", "pending", "paid", "converted"}
      OBVIOUS
    <3>2. \E doc \in Document : doc = [renewed EXCEPT !.status = status] /\ doc.owner = renewed.owner
                                /\ doc.status = status
      BY <3>1, CartStatusIs
    <3> QED
      BY <2>2, <3>2
  <2>4. /\ Cart!Put(c, doc) /\ others' = [others EXCEPT ![o] = [to |-> "pending", id |-> c, cart |-> doc]]
        /\ undone' = undone
    BY <1>5, <2>1, <2>2, <2>3 DEF Cart!Claim
  <2>5. Calm /\ carts'[c] = doc
    BY <1>4, <2>1, <2>3, <2>4 DEF InACart
  <2>6. PICK other \in OtherRow : other = [to |-> "pending", id |-> c, cart |-> doc]
    BY DEF OtherRow
  <2>7. Meant(other)'
    BY <2>3, <2>5, <2>6 DEF Meant, Known
  <2> QED
    BY <1>1, <1>2, <2>4, <2>5, <2>6, <2>7
<1>6. ASSUME NEW o \in Others, Cart!ReleaseClaim(o)
      PROVE  CartTypes' /\ CartInv'
  <2>1. PICK id \in Carts, cart \in Document :
          /\ id = others[o].id /\ cart = others[o].cart /\ Known(id, cart) /\ cart.status = "claimed"
    BY <1>1, <1>6 DEF CartInv, Meant, Known, OtherRow, Cart!ReleaseClaim
  <2>2. PICK doc \in Document :
          doc = Cart!Reopened(cart) /\ doc.owner = cart.owner /\ doc.status = "open"
    BY CartReopenedIs
  <2>3. Calm
    <3>1. CASE carts[id] = cart /\ Cart!Put(id, doc)
      BY <1>4, <2>1, <2>2, <3>1 DEF InACart
    <3>2. CASE carts' = carts
      BY <3>2, CartsRest
    <3> QED
      BY <1>6, <2>1, <2>2, <3>1, <3>2 DEF Cart!ReleaseClaim
  <2> QED
    BY <1>1, <1>2, <1>3, <1>6, <2>3 DEF Cart!ReleaseClaim
<1>7. ASSUME NEW c \in Carts, Cart!Pay(c)
      PROVE  CartTypes' /\ CartInv'
  <2>1. PICK cart \in Document : cart = carts[c] /\ cart.status = "pending"
    BY <1>1, <1>7 DEF Cart!Pay
  <2>2. PICK doc \in Document :
          doc = [cart EXCEPT !.status = "paid"] /\ doc.owner = cart.owner /\ doc.status = "paid"
    BY CartStatusIs
  <2>3. Cart!Put(c, doc) /\ others' = others /\ undone' = undone
    BY <1>7, <2>1, <2>2 DEF Cart!Pay
  <2>4. Calm
    BY <1>4, <2>1, <2>2, <2>3
  <2>5. \A o \in Others : Meant(others[o])'
    BY <2>3, <2>4, MeantStays DEF CartInv, Calm
  <2> QED
    BY <1>1, <2>3, <2>4, <2>5, CartWorld
<1>8. ASSUME NEW o \in Others, NEW c \in Carts, NEW to \in {"open", "converted"}, Cart!ReadCart(o, c, to)
      PROVE  CartTypes' /\ CartInv'
  <2>1. PICK cart \in Document : cart = carts[c]
    BY <1>1
  <2>2. PICK other \in OtherRow : other = [to |-> to, id |-> c, cart |-> cart]
    BY DEF OtherRow
  <2>3. /\ others' = [others EXCEPT ![o] = other] /\ undone' = undone /\ carts' = carts
        /\ to = "open" => cart.status \in {"claimed", "pending"}
        /\ to = "converted" => cart.status = "paid"
    BY <1>8, <2>1, <2>2 DEF Cart!ReadCart
  <2>4. Meant(other)'
    BY <2>1, <2>2, <2>3 DEF Meant, Known
  <2> QED
    BY <1>1, <1>2, <2>3, <2>4, CartsRest
<1>9. ASSUME NEW o \in Others, Cart!PutOther(o)
      PROVE  CartTypes' /\ CartInv'
  <2>1. PICK id \in Carts, cart \in Document, to \in {"pending", "open", "converted"} :
          /\ id = others[o].id /\ cart = others[o].cart /\ to = others[o].to /\ Known(id, cart)
          /\ to \in {"pending", "open"} => cart.status \in {"claimed", "pending"}
    BY <1>1, <1>9 DEF CartInv, Meant, Known, OtherRow, Cart!PutOther
  <2>2. PICK next \in Document :
          /\ next = IF to = "pending" THEN cart ELSE Cart!Renewed(cart)
          /\ next.owner = cart.owner
    BY CartRenewedIs
  <2>3. PICK doc \in Document :
          doc = [next EXCEPT !.status = to] /\ doc.owner = next.owner /\ doc.status = to
    <3> DEFINE put == [next EXCEPT !.status = to]
    <3>1. put \in Document /\ put.owner = next.owner /\ put.status = to
      BY <2>1, <2>2 DEF Document
    <3> HIDE DEF put
    <3> QED
      BY <3>1 DEF put
  <2>4. Cart!PutBlindly(id, cart, doc) /\ others' = [others EXCEPT ![o] = Cart!Idle]
    BY <1>9, <2>1, <2>2, <2>3 DEF Cart!PutOther
  <2>5. Calm /\ undone' \in BOOLEAN /\ (undone => undone')
    <3>1. /\ doc.owner = cart.owner /\ doc.status # "none"
          /\ doc.status \in {"open", "claimed", "pending"} => cart.status \in {"open", "claimed", "pending"}
      BY <2>1, <2>2, <2>3
    <3> QED
      BY <2>1, <2>3, <2>4, <3>1, BlindPutIsCalm
  <2> QED
    BY <1>2, <1>3, <2>4, <2>5
<1> QED
  BY <1>5, <1>6, <1>7, <1>8, <1>9

\* A step of the carts preserves their inductive invariant.
LEMMA CartStep ==
  ASSUME CartTypes, CartInv, [Cart!CartNext]_cartVars
  PROVE  CartTypes' /\ CartInv'
<1>1. ASSUME Cart!CartNext
      PROVE  CartTypes' /\ CartInv'
  BY <1>1, CartBegins, CartLooks, CartReopens, CartLocks, CartWishes, CartReadsSource, CartPuts, CartTakes,
     CartMerges, CartMergesAgain, CartAbandons, CartCreates, CartPutsFirst, CartLapses, CartCheckouts
  DEF Cart!CartNext
<1> QED
  BY <1>1, CartLapses

\* However requests that find no cart make one, under the lock, without it or after it
\* expired, and those that find one in checkout open it again, an owner has one cart, unless
\* one was made while another was there or about to be, or a blind put undid another
\* (createCartWithFirstLine, persistWishlistMoveToCart, findOrCreateOpenCart, findOpenCart).
THEOREM OneCartEach == ServicesSpec => []OneCart
<1> DEFINE Carted == InCart => CartTypes /\ CartInv
<1>1. ServicesInit => Carted
  BY CartInitHolds DEF ServicesInit, InCart
<1>2. ASSUME Carted, [ServicesNext]_servicesVars
      PROVE  Carted'
  <2> SUFFICES ASSUME InCart'
               PROVE  (CartTypes /\ CartInv)'
    OBVIOUS
  <2>1. InCart
    BY <1>2, ServiceStays DEF InCart
  <2> QED
    BY <2>1, <1>2, CartAlone, CartStep
<1>3. Carted => OneCart
  BY DEF OneCart, Cart!OneCart, CartInv, OnePerOwner, InACart, Cart!InCarts, Cart!InUse
<1> QED
  BY <1>1, <1>2, <1>3, PTL DEF ServicesSpec, servicesVars

----------------------------------------------------------------------------
(* The units of the carts: their inductive invariant *)

\* A document has no fewer units than none, and marks only where it has units; moves mark
\* the customer's carts.
SoundCart(cart) ==
  /\ cart.version \in Nat /\ cart.qty \in Nat
  /\ cart.moved # {} => cart.qty > 0 /\ cart.owner = "customer"

\* A copy is the document, unless that has a later version.
Follows(id, cart) ==
  /\ cart.version <= carts[id].version
  /\ cart.version = carts[id].version => carts[id] = cart

\* The request has a cart to merge from.
Sourced(row) == row.step \in Merging \/ (row.step = "put" /\ row.op = "merge")

\* A merge is of two carts; it takes over the guest's, as long as an owner has one cart and its
\* target is one; and its target has what it gave.
MergeHolds(row) ==
  /\ row.op = "merge" => row.owner = "customer"
  /\ row.step \in Merging => row.op = "merge"
  /\ Sourced(row) => row.from # row.id /\ Follows(row.from, row.source)
  /\ row.step \in {"abandon", "latest"} => row.source.qty <= row.cart.qty
  /\ row.step = "again" => row.was <= row.cart.qty
  /\ Sourced(row) /\ ~raced /\ (row.step = "put" => InACart(row.id)) => row.source.owner = "guest"

\* What a request remembers is true.
RowHolds(row) ==
  /\ SoundCart(row.cart) /\ SoundCart(row.source) /\ row.was \in Nat
  /\ row.op = "move" => row.owner = "customer"
  /\ row.step \in Copying =>
       /\ Follows(row.id, row.cart)
       /\ row.owner = "customer" => row.cart.owner = "customer"
  /\ HasRead(row) /\ row.owner = "customer" => row.cart.owner = "customer"
  /\ MergeHolds(row)

\* The units that a merge gave its target and has not yet taken from its source.
Credit(row) ==
  CASE row.step \in {"abandon", "latest", "reabandon"} -> row.source.qty
    [] row.step = "again" -> row.was
    [] OTHER -> 0

Owing == Cart!SumOver([r \in Requests |-> Credit(reqs[r])], Requests)

\* The units that no shopper asked for and no merge will take back.
Spare == Cart!Units - wanted - Owing

\* There are none, unless a merge left them or died.
Balanced ==
  /\ wanted \in Int /\ lapses \in Nat /\ left \in BOOLEAN
  /\ Spare \in Nat /\ (Spare > 0 => left \/ lapses > 0)

\* An item that was moved is marked in a cart that is in use, until its mark is dropped.
MarkedOnce(i) ==
  /\ added[i] <= 1
  /\ added[i] = 1 => \E c \in Carts : InACart(c) /\ i \in carts[c].moved

Marked ==
  /\ added \in [Items -> Nat]
  /\ raced \/ \A i \in Items \ dropped : MarkedOnce(i)

UnitsInv ==
  /\ \A c \in Carts : SoundCart(carts[c])
  /\ \A r \in Requests : RowHolds(reqs[r])
  /\ Balanced /\ Marked

----------------------------------------------------------------------------
(* The units of the carts: sums *)

\* Cardinality is the same in the instance.
LEMMA CartCardinality ==
  ASSUME NEW S
  PROVE  Cart!Cardinality(S) = Cardinality(S)
BY DEF Cart!Cardinality, Cardinality

\* The pairs that a sum counts.
PairsOf(f, S) == UNION {{x} \X (1..f[x]) : x \in S}

\* They are finitely many.
LEMMA PairsAreFinite ==
  ASSUME NEW S, IsFiniteSet(S), NEW f, \A x \in S : f[x] \in Nat
  PROVE  IsFiniteSet(PairsOf(f, S))
<1> DEFINE parts == {{x} \X (1..f[x]) : x \in S}
           part == [x \in S |-> {x} \X (1..f[x])]
<1>1. IsFiniteSet(parts)
  <2>1. part \in Surjection(S, parts)
    BY DEF Surjection
  <2> QED
    BY <2>1, FS_Surjection
<1>2. \A p \in parts : IsFiniteSet(p)
  <2> SUFFICES ASSUME NEW x \in S PROVE IsFiniteSet({x} \X (1..f[x]))
    OBVIOUS
  <2>1. f[x] \in Int
    OBVIOUS
  <2>2. IsFiniteSet(1..f[x])
    BY <2>1, FS_Interval
  <2>3. IsFiniteSet({x})
    BY FS_Singleton
  <2> QED
    BY <2>2, <2>3, FS_Product
<1> QED
  BY <1>1, <1>2, FS_UNION DEF PairsOf

\* A sum is how many they are.
LEMMA SumIsCount ==
  ASSUME NEW S, NEW f
  PROVE  Cart!SumOver(f, S) = Cardinality(PairsOf(f, S))
BY CartCardinality DEF Cart!SumOver, PairsOf

\* A sum is one element's share and that of the others.
LEMMA SumOfOneAndRest ==
  ASSUME NEW S, IsFiniteSet(S), NEW f, \A x \in S : f[x] \in Nat, NEW y \in S
  PROVE  /\ Cart!SumOver(f, S) = f[y] + Cart!SumOver(f, S \ {y})
         /\ Cart!SumOver(f, S \ {y}) \in Nat
<1> DEFINE rest == S \ {y}
           own == {y} \X (1..f[y])
           theRest == PairsOf(f, rest)
<1>1. IsFiniteSet(rest) /\ IsFiniteSet(theRest)
  BY FS_RemoveElement, PairsAreFinite
<1>2. IsFiniteSet(own) /\ Cardinality(own) = f[y]
  <2> DEFINE n == f[y]
  <2>1. n \in Nat
    OBVIOUS
  <2> HIDE DEF n
  <2>2. IsFiniteSet(1..n) /\ Cardinality(1..n) = n
    BY <2>1, FS_Interval
  <2>3. IsFiniteSet({y}) /\ Cardinality({y}) = 1
    BY FS_Singleton
  <2> QED
    BY <2>1, <2>2, <2>3, FS_Product DEF n
<1>3. PairsOf(f, S) = own \cup theRest /\ own \cap theRest = {}
  BY DEF PairsOf
<1> HIDE DEF theRest, own
<1>4. Cardinality(own \cup theRest) = Cardinality(own) + Cardinality(theRest) - Cardinality(own \cap theRest)
  BY <1>1, <1>2, FS_Union
<1>5. Cardinality(own \cap theRest) = 0
  BY <1>3, FS_EmptySet
<1>6. Cardinality(own) \in Nat /\ Cardinality(theRest) \in Nat
  BY <1>1, <1>2, FS_CardinalityType
<1>7. Cart!SumOver(f, rest) = Cardinality(theRest)
  BY SumIsCount DEF theRest
<1>8. Cart!SumOver(f, S) = Cardinality(own \cup theRest)
  BY <1>3, SumIsCount
<1> QED
  BY <1>2, <1>4, <1>5, <1>6, <1>7, <1>8

\* A sum is a number.
LEMMA SumIsNumber ==
  ASSUME NEW S, IsFiniteSet(S), NEW f, \A x \in S : f[x] \in Nat
  PROVE  Cart!SumOver(f, S) \in Nat
BY PairsAreFinite, SumIsCount, FS_CardinalityType

\* A sum of nothings is nothing.
LEMMA SumOfNothing ==
  ASSUME NEW S, NEW f, \A x \in S : f[x] = 0
  PROVE  Cart!SumOver(f, S) = 0
<1>1. PairsOf(f, S) = {}
  BY DEF PairsOf
<1> QED
  BY <1>1, SumIsCount, FS_EmptySet

\* When one share changes, the sum changes by as much.
LEMMA SumMoves ==
  ASSUME NEW S, IsFiniteSet(S), NEW f, NEW g, NEW y \in S,
         \A x \in S : f[x] \in Nat, g[y] \in Nat, \A x \in S \ {y} : g[x] = f[x]
  PROVE  /\ Cart!SumOver(f, S) \in Nat /\ Cart!SumOver(g, S) \in Nat
         /\ Cart!SumOver(g, S) = Cart!SumOver(f, S) - f[y] + g[y]
<1>1. {{x} \X (1..f[x]) : x \in S \ {y}} = {{x} \X (1..g[x]) : x \in S \ {y}}
  OBVIOUS
<1>2. Cart!SumOver(f, S \ {y}) = Cart!SumOver(g, S \ {y})
  BY <1>1 DEF Cart!SumOver
<1>3. \A x \in S : g[x] \in Nat
  OBVIOUS
<1>4. /\ Cart!SumOver(f, S) = f[y] + Cart!SumOver(f, S \ {y})
      /\ Cart!SumOver(f, S \ {y}) \in Nat
  BY SumOfOneAndRest
<1>5. Cart!SumOver(g, S) = g[y] + Cart!SumOver(g, S \ {y})
  BY <1>3, SumOfOneAndRest
<1> QED
  BY <1>2, <1>4, <1>5

\* What a document in use has.
ShareOf(doc) == IF doc.status \in {"open", "claimed", "pending"} THEN doc.qty ELSE 0

\* The units of documents are their shares.
LEMMA UnitsAreShares ==
  ASSUME NEW docs
  PROVE  Cart!SumOver([c \in Carts |-> docs[c].qty], {c \in Carts : docs[c].status \in {"open", "claimed", "pending"}})
           = Cart!SumOver([c \in Carts |-> ShareOf(docs[c])], Carts)
<1> DEFINE used == {c \in Carts : docs[c].status \in {"open", "claimed", "pending"}}
           qty == [c \in Carts |-> docs[c].qty]
           share == [c \in Carts |-> ShareOf(docs[c])]
<1>1. \A c \in used : c \in Carts /\ share[c] = qty[c]
  BY DEF ShareOf
<1>2. \A c \in Carts \ used : 1..share[c] = {}
  BY DEF ShareOf
<1> HIDE DEF qty, share, used
<1>3. UNION {{c} \X (1..qty[c]) : c \in used} = UNION {{c} \X (1..share[c]) : c \in Carts}
  BY <1>1, <1>2, used \subseteq Carts DEF used
<1>4. Cart!SumOver(qty, used) = Cart!SumOver(share, Carts)
  BY <1>3 DEF Cart!SumOver
<1> QED
  BY <1>4 DEF qty, share, used

\* Numbers of carts and requests are finitely many.
LEMMA FiniteCarts == /\ IsFiniteSet(Carts) /\ IsFiniteSet(Requests) /\ Limit \in Nat
                     /\ Limit > 0 /\ NoRequest \notin Requests
<1>1. Cart!CartAssumption
  BY ServicesAssumption
<1>2. IsFiniteSet(Carts) /\ IsFiniteSet(Requests)
  BY <1>1 DEF Cart!CartAssumption, Cart!IsFiniteSet, IsFiniteSet
<1> QED
  BY <1>1, <1>2 DEF Cart!CartAssumption

\* The units are a number.
LEMMA UnitsAreNumber ==
  ASSUME \A c \in Carts : SoundCart(carts[c])
  PROVE  Cart!Units \in Nat
<1> DEFINE f == [c \in Carts |-> ShareOf(carts[c])]
<1>1. \A c \in Carts : f[c] \in Nat
  BY DEF SoundCart, ShareOf
<1>2. Cart!Units = Cart!SumOver(f, Carts)
  BY UnitsAreShares DEF Cart!Units, Cart!InCarts, Cart!InUse
<1> HIDE DEF f
<1> QED
  BY <1>1, <1>2, FiniteCarts, SumIsNumber

\* When one cart changes, the units change by its share.
LEMMA UnitsMove ==
  ASSUME CartTypes, \A c \in Carts : SoundCart(carts[c]), NEW y \in Carts, NEW doc, Cart!Put(y, doc),
         ShareOf(doc) \in Nat
  PROVE  /\ Cart!Units \in Nat /\ Cart!Units' \in Nat
         /\ Cart!Units' = Cart!Units - ShareOf(carts[y]) + ShareOf(doc)
<1> DEFINE f == [c \in Carts |-> ShareOf(carts[c])]
           g == [c \in Carts |-> ShareOf(carts'[c])]
<1>1. carts'[y] = doc /\ \A c \in Carts \ {y} : carts'[c] = carts[c]
  BY DEF CartTypes, Cart!Put
<1>2. \A c \in Carts : f[c] \in Nat
  BY DEF SoundCart, ShareOf
<1>3. g[y] = ShareOf(doc) /\ f[y] = ShareOf(carts[y]) /\ \A c \in Carts \ {y} : g[c] = f[c]
  BY <1>1
<1>4. Cart!Units = Cart!SumOver(f, Carts)
  BY UnitsAreShares DEF Cart!Units, Cart!InCarts, Cart!InUse
<1>5. Cart!Units' = Cart!SumOver(g, Carts)
  BY UnitsAreShares DEF Cart!Units, Cart!InCarts, Cart!InUse
<1> HIDE DEF f, g
<1>6. g[y] \in Nat
  BY <1>3
<1>7. \A c \in Carts \ {y} : g[c] = f[c]
  BY <1>3
<1>8. /\ Cart!SumOver(f, Carts) \in Nat /\ Cart!SumOver(g, Carts) \in Nat
      /\ Cart!SumOver(g, Carts) = Cart!SumOver(f, Carts) - f[y] + g[y]
  BY <1>2, <1>6, <1>7, FiniteCarts, SumMoves
<1> QED
  BY <1>3, <1>4, <1>5, <1>8

\* When one request goes on, what merges owe changes by its credit.
LEMMA OwingMoves ==
  ASSUME CartTypes, \A r \in Requests : Credit(reqs[r]) \in Nat, NEW r \in Requests, NEW row,
         reqs' = [reqs EXCEPT ![r] = row], Credit(row) \in Nat
  PROVE  /\ Owing \in Nat /\ Owing' \in Nat
         /\ Owing' = Owing - Credit(reqs[r]) + Credit(row)
<1> DEFINE f == [q \in Requests |-> Credit(reqs[q])]
           g == [q \in Requests |-> Credit(reqs'[q])]
<1>1. reqs'[r] = row /\ \A q \in Requests \ {r} : reqs'[q] = reqs[q]
  BY DEF CartTypes
<1>2. \A q \in Requests : f[q] \in Nat
  OBVIOUS
<1>3. g[r] = Credit(row) /\ f[r] = Credit(reqs[r]) /\ \A q \in Requests \ {r} : g[q] = f[q]
  BY <1>1
<1>4. Owing = Cart!SumOver(f, Requests)
  BY DEF Owing
<1>5. Owing' = Cart!SumOver(g, Requests)
  BY DEF Owing
<1> HIDE DEF f, g
<1>6. g[r] \in Nat
  BY <1>3
<1> QED
  BY <1>2, <1>3, <1>4, <1>5, <1>6, FiniteCarts, SumMoves

----------------------------------------------------------------------------
(* The units of the carts: what a step leaves true *)

InUse(doc) == doc.status \in {"open", "claimed", "pending"}

\* A document that is there stays, or becomes a later one, or keeps its version, if no request
\* has it as an open cart; who raced has raced.
Advance ==
  /\ \A c \in Carts : carts[c].status # "none" =>
       \/ carts'[c] = carts[c]
       \/ /\ \/ carts'[c].version > carts[c].version
             \/ carts'[c].version = carts[c].version /\ carts[c].status # "open"
          /\ InUse(carts'[c]) => InUse(carts[c])
  /\ raced => raced'

\* What a request remembers stays true.
LEMMA RowStays ==
  ASSUME CartTypes, CartTypes', NEW row \in RequestRow, Kept(row), RowHolds(row), Advance
  PROVE  RowHolds(row)'
<1>1. ASSUME NEW id, NEW cart \in Document, Copied(id, cart), Follows(id, cart)
      PROVE  Follows(id, cart)'
  <2>1. /\ id \in Carts /\ carts[id].status # "none"
        /\ carts[id].version \in Int /\ carts'[id].version \in Int /\ cart.version \in Int
    BY <1>1 DEF Copied, CartTypes, Document
  <2> QED
    BY <1>1, <2>1 DEF Follows, Advance, Copied
<1>2. row.cart \in Document /\ row.source \in Document
  BY DEF RequestRow
<1>3. row.step \in Copying => Follows(row.id, row.cart)'
  BY <1>1, <1>2 DEF Kept, RowHolds
<1>4. Sourced(row) => Follows(row.from, row.source)'
  BY <1>1, <1>2 DEF Kept, RowHolds, MergeHolds, Sourced
<1>5. row.step = "put" /\ InACart(row.id)' => InACart(row.id)
  BY DEF Kept, Copying, Copied, Advance, InACart, InUse
<1>6. MergeHolds(row)'
  BY <1>4, <1>5 DEF RowHolds, MergeHolds, Sourced, Advance
<1> QED
  BY <1>3, <1>6 DEF RowHolds, SoundCart

\* What a merge owes is a number.
LEMMA CreditType ==
  ASSUME NEW row, RowHolds(row)
  PROVE  Credit(row) \in Nat
BY DEF RowHolds, SoundCart, Credit

\* A step of a request keeps what all requests remember, and changes what merges owe.
LEMMA RowsStay ==
  ASSUME CartTypes, CartTypes', CartInv, UnitsInv, Advance, NEW r \in Requests, NEW row \in RequestRow,
         reqs' = [reqs EXCEPT ![r] = row], RowHolds(row)'
  PROVE  /\ \A q \in Requests : RowHolds(reqs[q])'
         /\ Owing \in Nat /\ Owing' \in Nat
         /\ Owing' = Owing - Credit(reqs[r]) + Credit(row)
<1>1. reqs'[r] = row /\ \A q \in Requests \ {r} : reqs'[q] = reqs[q]
  BY DEF CartTypes
<1>2. ASSUME NEW q \in Requests
      PROVE  RowHolds(reqs[q])'
  <2>1. CASE q = r
    BY <2>1, <1>1
  <2>2. CASE q # r
    <3>1. PICK old \in RequestRow : old = reqs[q] /\ reqs'[q] = old
      BY <2>2, <1>1 DEF CartTypes
    <3>2. RowHolds(old)'
      BY <3>1, RowStays DEF CartInv, UnitsInv
    <3> QED
      BY <3>1, <3>2
  <2> QED
    BY <2>1, <2>2
<1>3. \A q \in Requests : Credit(reqs[q]) \in Nat
  BY CreditType DEF UnitsInv
<1>4. Credit(row) \in Nat
  BY DEF RowHolds, SoundCart, Credit
<1>5. Owing \in Nat /\ Owing' \in Nat /\ Owing' = Owing - Credit(reqs[r]) + Credit(row)
  BY <1>3, <1>4, OwingMoves
<1> QED
  BY <1>2, <1>5

\* The balance after a put.
LEMMA BalanceStays ==
  ASSUME CartTypes, UnitsInv, NEW y \in Carts, NEW doc, Cart!Put(y, doc), SoundCart(doc),
         Owing \in Nat, Owing' \in Nat, wanted' \in Int, left' \in BOOLEAN, lapses' \in Nat,
         ShareOf(doc) - ShareOf(carts[y]) = (wanted' - wanted) + (Owing' - Owing),
         left => left', lapses' >= lapses
  PROVE  Balanced'
<1>1. ShareOf(doc) \in Nat /\ ShareOf(carts[y]) \in Nat
  BY DEF UnitsInv, SoundCart, ShareOf
<1>2. \A c \in Carts : SoundCart(carts[c])
  BY DEF UnitsInv
<1>3. /\ Cart!Units \in Nat /\ Cart!Units' \in Nat
      /\ Cart!Units' = Cart!Units - ShareOf(carts[y]) + ShareOf(doc)
  BY <1>1, <1>2, UnitsMove
<1>4. Spare' = Spare
  BY <1>1, <1>3 DEF Spare, UnitsInv, Balanced
<1> QED
  BY <1>4 DEF UnitsInv, Balanced

\* Marks that stay where they are, or are dropped.
LEMMA MarksStay ==
  ASSUME CartTypes, UnitsInv, NEW y \in Carts, NEW doc, Cart!Put(y, doc), added' = added,
         dropped \subseteq dropped', raced => raced',
         ~raced' /\ InACart(y) => \A i \in carts[y].moved : i \in dropped' \/ (InUse(doc) /\ i \in doc.moved)
  PROVE  Marked'
<1>1. carts'[y] = doc /\ \A c \in Carts \ {y} : carts'[c] = carts[c]
  BY DEF CartTypes, Cart!Put
<1>2. ASSUME ~raced', NEW i \in Items \ dropped'
      PROVE  MarkedOnce(i)'
  <2>1. MarkedOnce(i) /\ ~raced
    BY <1>2 DEF UnitsInv, Marked
  <2>2. ASSUME NEW c \in Carts, InACart(c), i \in carts[c].moved
        PROVE  InACart(c)' /\ i \in carts'[c].moved
    BY <2>2, <1>1, <1>2 DEF InACart, InUse
  <2> QED
    BY <2>1, <2>2 DEF MarkedOnce
<1> QED
  BY <1>2 DEF UnitsInv, Marked

\* The request's merge owes what it owed, unless it gives up or dies.
Relents(r, row) ==
  /\ left' \in BOOLEAN /\ (left => left') /\ lapses' \in Nat /\ lapses' >= lapses
  /\ Credit(row) <= Credit(reqs[r]) /\ (Credit(row) < Credit(reqs[r]) => left' \/ lapses' > 0)

\* A step of a request that leaves the carts and what the shopper asked for.
LEMMA UnitsRest ==
  ASSUME CartTypes, CartTypes', CartInv, UnitsInv, NEW r \in Requests, NEW row \in RequestRow,
         reqs' = [reqs EXCEPT ![r] = row], RowHolds(row), carts' = carts, wanted' = wanted,
         added' = added, dropped' = dropped, raced => raced', Relents(r, row)
  PROVE  UnitsInv'
<1>1. RowHolds(row)'
  BY DEF RowHolds, MergeHolds, Follows, InACart, SoundCart, Sourced
<1>2. Advance
  BY DEF Advance
<1>3. /\ \A q \in Requests : RowHolds(reqs[q])'
      /\ Owing \in Nat /\ Owing' \in Nat
      /\ Owing' = Owing - Credit(reqs[r]) + Credit(row)
  BY <1>1, <1>2, RowsStay
<1>4. Balanced'
  <2>1. Credit(row) \in Nat /\ Credit(reqs[r]) \in Nat
    BY CreditType DEF UnitsInv
  <2>2. Cart!Units' = Cart!Units
    BY DEF Cart!Units, Cart!InCarts
  <2>3. Spare' = Spare + (Credit(reqs[r]) - Credit(row))
    <3>1. Cart!Units \in Nat
      BY UnitsAreNumber DEF UnitsInv
    <3> QED
      BY <1>3, <2>1, <2>2, <3>1 DEF UnitsInv, Balanced, Spare
  <2> QED
    BY <2>1, <2>3, <1>3 DEF UnitsInv, Balanced, Relents
<1>5. Marked'
  BY DEF UnitsInv, Marked, MarkedOnce, InACart
<1> QED
  BY <1>3, <1>4, <1>5 DEF UnitsInv, SoundCart

\* A step of a request that puts a cart.
LEMMA UnitsPut ==
  ASSUME CartTypes, CartTypes', CartInv, UnitsInv, NEW r \in Requests, NEW row \in RequestRow,
         reqs' = [reqs EXCEPT ![r] = row], RowHolds(row)', NEW y \in Carts, NEW doc \in Document,
         Cart!Put(y, doc), SoundCart(doc),
         carts[y].status # "none" => doc.version > carts[y].version /\ (InUse(doc) => InACart(y)),
         raced => raced', wanted' \in Int, left' = left, lapses' = lapses,
         ShareOf(doc) - ShareOf(carts[y]) = (wanted' - wanted) + (Credit(row) - Credit(reqs[r])),
         Marked'
  PROVE  UnitsInv'
<1>0. carts'[y] = doc /\ \A c \in Carts \ {y} : carts'[c] = carts[c]
  BY DEF CartTypes, Cart!Put
<1>1. Advance
  BY <1>0 DEF Advance, InACart, InUse
<1>2. /\ \A q \in Requests : RowHolds(reqs[q])'
      /\ Owing \in Nat /\ Owing' \in Nat
      /\ Owing' = Owing - Credit(reqs[r]) + Credit(row)
  BY <1>1, RowsStay
<1>3. \A c \in Carts : SoundCart(carts[c])'
  BY <1>0 DEF UnitsInv, SoundCart
<1>4. Balanced'
  <2>1. Credit(row) \in Nat /\ Credit(reqs[r]) \in Nat
    <3>1. Credit(row) \in Nat
      BY DEF RowHolds, SoundCart, Credit
    <3> QED
      BY <3>1, CreditType DEF UnitsInv
  <2>2. ShareOf(doc) - ShareOf(carts[y]) = (wanted' - wanted) + (Owing' - Owing)
    BY <2>1, <1>2
  <2>3. left' \in BOOLEAN /\ lapses' \in Nat /\ (left => left') /\ lapses' >= lapses
    BY DEF UnitsInv, Balanced
  <2> QED
    BY <2>2, <2>3, <1>2, BalanceStays
<1> QED
  BY <1>2, <1>3, <1>4 DEF UnitsInv
----------------------------------------------------------------------------
(* The units of the carts: the steps of a request that leave the carts *)

\* The carts and what the shopper asked for stay.
Aside == carts' = carts /\ wanted' = wanted /\ added' = added /\ dropped' = dropped /\ (raced => raced')

\* A request that finds a cart, or ends, remembers nothing that can become false.
LEMMA FindingHolds ==
  ASSUME NEW row, row.step \in Finding, ~HasRead(row), SoundCart(row.cart), SoundCart(row.source), row.was \in Nat,
         row.op \in {"move", "merge"} => row.owner = "customer"
  PROVE  RowHolds(row) /\ RowHolds(row)' /\ Credit(row) = 0
BY DEF RowHolds, MergeHolds, Sourced, SoundCart, Credit, Finding, Copying, Merging

\* A request that ends remembers nothing.
LEMMA DoneHolds == RowHolds(Cart!Done) /\ RowHolds(Cart!Done)' /\ Credit(Cart!Done) = 0
<1>1. SoundCart(Cart!NoCart)
  BY DEF SoundCart, Cart!NoCart
<1>2. /\ Cart!Done.step \in Finding /\ Cart!Done.cart = Cart!NoCart /\ Cart!Done.source = Cart!NoCart
      /\ Cart!Done.was = 0 /\ Cart!Done.op = "none"
  BY DEF Cart!Done, Cart!Waiting, Finding
<1>3. ~HasRead(Cart!Done)
  BY CartValues DEF HasRead, Cart!Looking
<1> QED
  BY <1>1, <1>2, <1>3, FindingHolds

\* A request that ends owes nothing, unless a merge leaves what it gave.
LEMMA UnitsEnds ==
  ASSUME CartTypes, CartTypes', CartInv, UnitsInv, NEW r \in Requests, Cart!Finish(r), Aside,
         left' \in BOOLEAN, lapses' \in Nat, left => left', lapses' >= lapses,
         Credit(reqs[r]) > 0 => left' \/ lapses' > 0
  PROVE  UnitsInv'
<1>1. reqs' = [reqs EXCEPT ![r] = Cart!Done] /\ Cart!Done \in RequestRow
  BY CartRows, CartValues
<1>2. Credit(reqs[r]) \in Nat
  BY CreditType DEF UnitsInv
<1>3. Relents(r, Cart!Done)
  BY <1>2, DoneHolds DEF Relents
<1> QED
  BY <1>1, <1>3, DoneHolds, UnitsRest DEF Aside

\* A step of a request that is owed nothing, or as much as before.
LEMMA UnitsStill ==
  ASSUME CartTypes, CartTypes', CartInv, UnitsInv, NEW r \in Requests, NEW row \in RequestRow,
         reqs' = [reqs EXCEPT ![r] = row], RowHolds(row), Credit(row) = Credit(reqs[r]), Aside,
         left' = left, lapses' = lapses
  PROVE  UnitsInv'
<1>1. Credit(row) \in Nat
  BY CreditType
<1>2. Relents(r, row)
  BY <1>1 DEF Relents, UnitsInv, Balanced
<1> QED
  BY <1>2, UnitsRest DEF Aside

\* A request that goes on with nothing but its step.
LEMMA UnitsSteps ==
  ASSUME CartTypes, CartTypes', CartInv, UnitsInv, NEW r \in Requests,
         NEW s \in Finding \cup {"take", "latest"}, Cart!Goto(r, s), Aside, left' = left, lapses' = lapses,
         s = "take" => reqs[r].step = "enlist", s = "latest" => reqs[r].step = "abandon",
         s \in Finding => Credit(reqs[r]) = 0
  PROVE  UnitsInv'
<1> DEFINE row == [reqs[r] EXCEPT !.step = s, !.look = "open"]
<1>1. row \in RequestRow /\ reqs' = [reqs EXCEPT ![r] = row] /\ reqs[r] \in RequestRow
  BY CartRows DEF Copying, Merging
<1>2. /\ row.step = s /\ row.id = reqs[r].id /\ row.cart = reqs[r].cart /\ row.op = reqs[r].op
      /\ row.from = reqs[r].from /\ row.source = reqs[r].source /\ row.owner = reqs[r].owner
      /\ row.was = reqs[r].was /\ ~HasRead(row)
  BY <1>1 DEF RequestRow, HasRead
<1> HIDE DEF row
<1>3. RowHolds(reqs[r]) /\ left \in BOOLEAN /\ lapses \in Nat
  BY DEF UnitsInv, Balanced
<1>4. RowHolds(row) /\ Credit(row) = Credit(reqs[r])
  <2>1. CASE s \in Finding
    BY <2>1, <1>2, <1>3, FindingHolds DEF RowHolds, MergeHolds
  <2>2. CASE s = "take"
    BY <2>2, <1>2, <1>3 DEF RowHolds, MergeHolds, Sourced, Credit, Copying, Merging
  <2>3. CASE s = "latest"
    BY <2>3, <1>2, <1>3 DEF RowHolds, MergeHolds, Sourced, Credit, Copying, Merging
  <2> QED
    BY <2>1, <2>2, <2>3
<1> QED
  BY <1>1, <1>4, UnitsStill

\* A request that goes on with a copy of a cart.
LEMMA UnitsFound ==
  ASSUME CartTypes, CartTypes', CartInv, UnitsInv, NEW r \in Requests, NEW c \in Carts,
         NEW s \in {"put", "source", "list"}, s = "put" => reqs[r].op # "merge",
         Cart!Holding(r, c, carts[c], s), reqs[r].owner = "customer" => carts[c].owner = "customer",
         Credit(reqs[r]) = 0, Aside, left' = left, lapses' = lapses
  PROVE  UnitsInv'
<1>0. PICK cart \in Document : cart = carts[c]
  BY DEF CartTypes
<1>1. s \in Finding \cup Copying /\ Cart!Holding(r, c, cart, s)
  BY <1>0 DEF Copying
<1>2. PICK row \in RequestRow :
        /\ reqs' = [reqs EXCEPT ![r] = row]
        /\ row.step = s /\ row.id = c /\ row.cart = cart /\ row.op = reqs[r].op
        /\ row.owner = reqs[r].owner /\ row.source = reqs[r].source /\ row.was = reqs[r].was
  BY <1>1, CartHolds
<1>3. RowHolds(reqs[r]) /\ left \in BOOLEAN /\ lapses \in Nat /\ SoundCart(cart)
  BY <1>0 DEF UnitsInv, Balanced
<1>4. Follows(c, cart)
  BY <1>0, <1>3 DEF Follows, SoundCart
<1>5. RowHolds(row) /\ Credit(row) = 0
  BY <1>0, <1>2, <1>3, <1>4 DEF RowHolds, MergeHolds, Sourced, Credit, Merging
<1> QED
  BY <1>2, <1>5, UnitsStill

\* A request begins, and a move reads the wishlist.
LEMMA UnitsBegins ==
  ASSUME CartTypes, CartTypes', CartInv, UnitsInv, NEW r \in Requests,
         \/ \E op \in Operations, owner \in Cart!Owners : Cart!Begin(r, op, owner)
         \/ Cart!ReadItem(r)
  PROVE  UnitsInv'
<1>1. /\ Aside /\ left' = left /\ lapses' = lapses /\ left \in BOOLEAN /\ lapses \in Nat
      /\ Credit(reqs[r]) = 0
  <2>1. left \in BOOLEAN /\ lapses \in Nat
    BY DEF UnitsInv, Balanced
  <2>2. Aside /\ left' = left /\ lapses' = lapses
    BY DEF CartTypes, Cart!Begin, Cart!ReadItem, Cart!unchangedHistory, Aside
  <2>3. reqs[r].step \in {"wait", "item"}
    BY DEF Cart!Begin, Cart!ReadItem, Cart!At
  <2> QED
    BY <2>1, <2>2, <2>3 DEF Credit
<1>2. /\ reqs[r] \in RequestRow /\ SoundCart(reqs[r].cart) /\ SoundCart(reqs[r].source)
      /\ reqs[r].was \in Nat /\ (reqs[r].op \in {"move", "merge"} => reqs[r].owner = "customer")
      /\ reqs[r].look = "open"
  BY CartRows DEF UnitsInv, RowHolds, MergeHolds, CartInv, Kept, Cart!Begin, Cart!ReadItem, Cart!At
<1>3. ASSUME NEW op \in Operations, NEW owner \in Cart!Owners, Cart!Begin(r, op, owner)
      PROVE  UnitsInv'
  <2> DEFINE s == IF op = "move" THEN "item" ELSE "find"
             row == [reqs[r] EXCEPT !.op = op, !.owner = owner, !.step = s]
  <2>1. s \in Finding
    BY DEF Finding
  <2>2. reqs' = [reqs EXCEPT ![r] = row] /\ (op \in {"move", "merge"} => owner = "customer")
    BY <1>3 DEF Cart!Begin
  <2> HIDE DEF s
  <2>3. /\ row \in RequestRow /\ row.step = s /\ row.op = op /\ row.owner = owner /\ ~HasRead(row)
        /\ row.cart = reqs[r].cart /\ row.source = reqs[r].source /\ row.was = reqs[r].was
    BY <1>2, <2>1 DEF RequestRow, HasRead
  <2> HIDE DEF row
  <2>4. RowHolds(row) /\ Credit(row) = 0
    BY <1>2, <2>1, <2>2, <2>3, FindingHolds
  <2> QED
    BY <1>1, <2>2, <2>3, <2>4, UnitsStill
<1>4. ASSUME Cart!ReadItem(r), ~Cart!Finish(r)
      PROVE  UnitsInv'
  <2> DEFINE row == [reqs[r] EXCEPT !.list = wishlist, !.step = "find"]
  <2>1. reqs' = [reqs EXCEPT ![r] = row] /\ wishlist \in List
    BY <1>4 DEF Cart!ReadItem, CartTypes
  <2>2. /\ row \in RequestRow /\ row.step \in Finding /\ row.op = reqs[r].op /\ row.owner = reqs[r].owner
        /\ row.cart = reqs[r].cart /\ row.source = reqs[r].source /\ row.was = reqs[r].was
        /\ ~HasRead(row)
    BY <1>2, <2>1 DEF RequestRow, Finding, HasRead
  <2> HIDE DEF row
  <2>3. RowHolds(row) /\ Credit(row) = 0
    BY <1>2, <2>2, FindingHolds
  <2> QED
    BY <1>1, <2>1, <2>2, <2>3, UnitsStill
<1>5. CASE Cart!Finish(r)
  BY <1>1, <1>5, UnitsEnds
<1> QED
  BY <1>3, <1>4, <1>5

\* A request that looks for a cart owes nothing.
LEMMA LookHolds ==
  ASSUME CartTypes, CartInv, UnitsInv, NEW r \in Requests, reqs[r].step \in Cart!Looking
  PROVE  /\ Credit(reqs[r]) = 0 /\ SoundCart(reqs[r].cart) /\ SoundCart(reqs[r].source)
         /\ reqs[r].was \in Nat /\ (reqs[r].op \in {"move", "merge"} => reqs[r].owner = "customer")
BY DEF Credit, Cart!Looking, UnitsInv, RowHolds, MergeHolds

\* One that looks on remembers nothing that can become false.
LEMMA LookingHolds ==
  ASSUME NEW row, row.step \in Cart!Looking, SoundCart(row.cart), SoundCart(row.source), row.was \in Nat,
         row.op \in {"move", "merge"} => row.owner = "customer",
         HasRead(row) /\ row.owner = "customer" => row.cart.owner = "customer"
  PROVE  RowHolds(row) /\ Credit(row) = 0
BY DEF RowHolds, MergeHolds, Sourced, Credit, Cart!Looking, Copying, Merging

\* A request that finds no cart.
LEMMA UnitsNoneFound ==
  ASSUME CartTypes, CartTypes', CartInv, UnitsInv, NEW r \in Requests, reqs[r].step \in Cart!Looking,
         Cart!NoneFound(r), Aside, left' = left, lapses' = lapses
  PROVE  UnitsInv'
<1>1. Credit(reqs[r]) = 0 /\ left \in BOOLEAN /\ lapses \in Nat
  BY LookHolds DEF UnitsInv, Balanced
<1>2. ASSUME NEW s \in {"lock", "create", "putnew"}, Cart!Goto(r, s)
      PROVE  UnitsInv'
  BY <1>1, <1>2, UnitsSteps DEF Finding
<1>3. CASE Cart!Finish(r)
  BY <1>1, <1>3, UnitsEnds
<1>4. Cart!Goto(r, IF reqs[r].op \in Cart!Locking THEN "lock" ELSE "create")
        => Cart!Goto(r, "lock") \/ Cart!Goto(r, "create")
  OBVIOUS
<1> QED
  BY <1>2, <1>3, <1>4 DEF Cart!NoneFound

\* A request that reads a cart in checkout.
LEMMA UnitsReads ==
  ASSUME CartTypes, CartTypes', CartInv, UnitsInv, NEW r \in Requests, reqs[r].step \in Cart!Looking,
         NEW c \in Cart!PendingCarts(reqs[r].owner), NEW look \in {"checkout", "reopen"},
         Cart!Reads(r, c, look), Aside, left' = left, lapses' \in Nat, lapses' >= lapses
  PROVE  UnitsInv'
<1>1. c \in Carts /\ (reqs[r].owner = "customer" => carts[c].owner = "customer")
  BY DEF Cart!PendingCarts, Cart!CartsOf
<1>2. PICK row \in RequestRow :
        /\ reqs' = [reqs EXCEPT ![r] = row] /\ row.id = c /\ row.cart = carts[c] /\ row.look = look
        /\ row.step = reqs[r].step /\ row.op = reqs[r].op /\ row.owner = reqs[r].owner
        /\ row.source = reqs[r].source /\ row.was = reqs[r].was
  BY <1>1, CartReads
<1>3. SoundCart(row.cart)
  BY <1>1, <1>2 DEF UnitsInv
<1>4. RowHolds(row) /\ Credit(row) = 0 /\ Credit(reqs[r]) = 0
  BY <1>1, <1>2, <1>3, LookHolds, LookingHolds
<1>5. Relents(r, row)
  BY <1>4 DEF Relents, UnitsInv, Balanced
<1> QED
  BY <1>2, <1>4, <1>5, UnitsRest DEF Aside

\* A request that looks for another kind of cart, or knows what to do with the one it read.
LEMMA UnitsTurns ==
  ASSUME CartTypes, CartTypes', CartInv, UnitsInv, NEW r \in Requests, reqs[r].step \in Cart!Looking,
         NEW look \in {"pending", "reopen"}, look = "reopen" => reqs[r].look = "checkout",
         reqs' = [reqs EXCEPT ![r].look = look], Aside, left' = left, lapses' = lapses
  PROVE  UnitsInv'
<1>1. PICK row \in RequestRow :
        /\ reqs' = [reqs EXCEPT ![r] = row] /\ row.look = look
        /\ row.cart = reqs[r].cart /\ row.step = reqs[r].step /\ row.op = reqs[r].op
        /\ row.owner = reqs[r].owner /\ row.source = reqs[r].source /\ row.was = reqs[r].was
  BY CartTurns
<1>2. HasRead(row) => HasRead(reqs[r])
  BY <1>1 DEF HasRead
<1>3. HasRead(row) /\ row.owner = "customer" => row.cart.owner = "customer"
  BY <1>1, <1>2 DEF UnitsInv, RowHolds
<1>4. RowHolds(row) /\ Credit(row) = Credit(reqs[r])
  BY <1>1, <1>3, LookHolds, LookingHolds
<1> QED
  BY <1>1, <1>4, UnitsStill

\* A request looks for an open cart, then for one in checkout, and looks up its checkout.
LEMMA UnitsLooks ==
  ASSUME CartTypes, CartTypes', CartInv, UnitsInv, NEW r \in Requests,
         \/ Cart!LookOpen(r) \/ Cart!LookPending(r) \/ Cart!LookPastClaim(r) \/ Cart!LookCheckout(r)
  PROVE  UnitsInv'
<1>1. /\ reqs[r].step \in Cart!Looking /\ left' = left /\ left \in BOOLEAN /\ lapses \in Nat
      /\ carts' = carts /\ wanted' = wanted /\ added' = added /\ dropped' = dropped
  BY DEF UnitsInv, Balanced, Cart!LookOpen, Cart!LookPending, Cart!LookPastClaim, Cart!LookCheckout, Cart!Looks,
     Cart!unchangedHistory, Cart!otherHistory
<1>2. raced => raced'
  BY DEF Cart!LookOpen, Cart!LookPending, Cart!LookPastClaim, Cart!LookCheckout, Cart!unchangedHistory,
     Cart!otherHistory, Cart!NoneFound, Cart!Blocked
<1>3. Aside /\ Credit(reqs[r]) = 0
  BY <1>1, <1>2, LookHolds DEF Aside
<1>4. ASSUME Cart!Blocked(r), lapses' = lapses
      PROVE  UnitsInv'
  BY <1>1, <1>3, <1>4, UnitsEnds DEF Cart!Blocked
<1>5. ASSUME Cart!LookOpen(r)
      PROVE  UnitsInv'
  <2>1. lapses' = lapses
    BY <1>5 DEF Cart!LookOpen, Cart!unchangedHistory
  <2>2. ASSUME NEW c \in Cart!OpenCarts(reqs[r].owner), Cart!Found(r, c, carts[c])
        PROVE  UnitsInv'
    <3>1. PICK s \in {"put", "source", "list"} :
            Cart!Holding(r, c, carts[c], s) /\ (s = "put" => reqs[r].op # "merge")
      BY <1>1, <2>2, CartFoundIs
    <3>2. c \in Carts /\ (reqs[r].owner = "customer" => carts[c].owner = "customer")
      BY DEF Cart!OpenCarts, Cart!CartsOf
    <3> QED
      BY <1>1, <1>3, <2>1, <3>1, <3>2, UnitsFound
  <2> QED
    BY <1>1, <1>3, <1>5, <2>1, <2>2, UnitsTurns DEF Cart!LookOpen
<1>6. ASSUME Cart!LookPending(r)
      PROVE  UnitsInv'
  BY <1>1, <1>3, <1>4, <1>6, UnitsReads, UnitsNoneFound DEF Cart!LookPending
<1>7. ASSUME Cart!LookPastClaim(r)
      PROVE  UnitsInv'
  BY <1>1, <1>3, <1>7, UnitsReads DEF Cart!LookPastClaim
<1>8. ASSUME Cart!LookCheckout(r)
      PROVE  UnitsInv'
  BY <1>1, <1>3, <1>4, <1>8, UnitsTurns, UnitsNoneFound DEF Cart!LookCheckout, Cart!Looks
<1> QED
  BY <1>5, <1>6, <1>7, <1>8

\* A request takes the lock, or finds it taken.
LEMMA UnitsLocks ==
  ASSUME CartTypes, CartTypes', CartInv, UnitsInv, NEW r \in Requests, Cart!TryLock(r)
  PROVE  UnitsInv'
<1>1. /\ Aside /\ left' = left /\ lapses' = lapses /\ Credit(reqs[r]) = 0
  BY DEF Credit, Cart!TryLock, Cart!unchangedHistory, Aside, Cart!At
<1>2. ASSUME NEW s \in {"join", "recheck"}, Cart!Goto(r, s)
      PROVE  UnitsInv'
  BY <1>1, <1>2, UnitsSteps DEF Finding
<1> QED
  BY <1>2 DEF Cart!TryLock, Cart!Locked

\* The steps of the wishlist.
LEMMA UnitsWishes ==
  ASSUME CartTypes, CartTypes', CartInv, UnitsInv, NEW r \in Requests,
         Cart!Unlist(r) \/ Cart!ReadWishlist(r) \/ Cart!Enlist(r)
  PROVE  UnitsInv'
<1>1. /\ Aside /\ left' = left /\ lapses' = lapses /\ left \in BOOLEAN /\ lapses \in Nat
      /\ Credit(reqs[r]) = 0
  BY DEF UnitsInv, Balanced, Credit, Cart!Unlist, Cart!ReadWishlist, Cart!Enlist, Cart!unchangedHistory,
         Aside, Cart!At
<1>2. reqs[r] \in RequestRow /\ RowHolds(reqs[r]) /\ wishlist \in List
  BY CartRows DEF UnitsInv, CartTypes
<1>3. ASSUME Cart!ReadWishlist(r), ~Cart!Finish(r)
      PROVE  UnitsInv'
  <2> DEFINE row == [reqs[r] EXCEPT !.list = wishlist, !.step = "enlist"]
  <2>1. reqs' = [reqs EXCEPT ![r] = row] /\ reqs[r].step = "list"
    BY <1>3 DEF Cart!ReadWishlist, Cart!At
  <2>2. /\ row \in RequestRow /\ row.step = "enlist" /\ row.id = reqs[r].id /\ row.cart = reqs[r].cart
        /\ row.op = reqs[r].op /\ row.owner = reqs[r].owner /\ row.from = reqs[r].from
        /\ row.source = reqs[r].source /\ row.was = reqs[r].was
    BY <1>2 DEF RequestRow, Copying
  <2> HIDE DEF row
  <2>3. RowHolds(row) /\ Credit(row) = 0
    BY <1>2, <2>1, <2>2 DEF RowHolds, MergeHolds, Sourced, Credit, Copying, Merging
  <2> QED
    BY <1>1, <2>1, <2>2, <2>3, UnitsStill
<1>4. CASE Cart!Finish(r)
  BY <1>1, <1>4, UnitsEnds
<1>5. ASSUME Cart!Enlist(r), Cart!Goto(r, "take")
      PROVE  UnitsInv'
  <2>1. reqs[r].step = "enlist"
    BY <1>5 DEF Cart!Enlist, Cart!At
  <2> QED
    BY <2>1, <1>1, <1>5, UnitsSteps DEF Finding
<1> QED
  BY <1>3, <1>4, <1>5 DEF Cart!Unlist, Cart!ReadWishlist, Cart!Enlist

\* A merge reads its source: the guest's, if an owner has one cart.
LEMMA UnitsReadSource ==
  ASSUME CartTypes, CartTypes', CartInv, UnitsInv, ~undone, NEW r \in Requests, Cart!ReadSource(r)
  PROVE  UnitsInv'
<1>1. /\ Aside /\ left' = left /\ lapses' = lapses /\ left \in BOOLEAN /\ lapses \in Nat
      /\ Credit(reqs[r]) = 0 /\ reqs[r].step = "source" /\ raced \in BOOLEAN
  BY DEF UnitsInv, Balanced, Credit, Cart!ReadSource, Cart!unchangedHistory, Aside, Cart!At, CartTypes
<1>2. reqs[r] \in RequestRow /\ RowHolds(reqs[r]) /\ Copied(reqs[r].id, reqs[r].cart)
  BY <1>1, CartRows DEF UnitsInv, CartInv, Kept, Copying
<1>3. ASSUME NEW c \in Carts \ {reqs[r].id}, carts[c].status = "open",
             reqs' = [reqs EXCEPT ![r].from = c, ![r].source = carts[c], ![r].step = "put"]
      PROVE  UnitsInv'
  <2>1. PICK source \in Document : source = carts[c]
    BY DEF CartTypes
  <2> DEFINE row == [reqs[r] EXCEPT !.from = c, !.source = source, !.step = "put"]
  <2>2. reqs' = [reqs EXCEPT ![r] = row]
    BY <2>1, <1>3
  <2>3. /\ row \in RequestRow /\ row.step = "put" /\ row.id = reqs[r].id /\ row.cart = reqs[r].cart
        /\ row.op = reqs[r].op /\ row.owner = reqs[r].owner /\ row.from = c
        /\ row.source = source /\ row.was = reqs[r].was
    BY <1>2 DEF RequestRow, Copying
  <2> HIDE DEF row
  <2>4. SoundCart(source) /\ Follows(c, source)
    BY <2>1 DEF UnitsInv, SoundCart, Follows
  <2>5. ASSUME row.op = "merge", ~raced, InACart(row.id)
        PROVE  row.source.owner = "guest"
    <3>1. carts[row.id].owner = "customer" /\ row.id \in Carts
      BY <2>5, <2>3, <1>1, <1>2 DEF Copied, RowHolds, MergeHolds, Copying
    <3>2. InACart(c) /\ row.id # c
      BY <1>3, <2>3 DEF InACart
    <3>3. source.owner # "customer"
      BY <3>1, <3>2, <2>1, <2>5 DEF CartInv, OnePerOwner
    <3> QED
      BY <3>3, <2>3 DEF Document, Cart!Owners
  <2>6. Follows(row.id, row.cart) /\ (row.owner = "customer" => row.cart.owner = "customer")
    BY <1>1, <1>2, <2>3 DEF RowHolds, Copying
  <2>7. MergeHolds(row)
    BY <1>2, <2>3, <2>4, <2>5 DEF RowHolds, MergeHolds, Sourced, Merging
  <2>8. RowHolds(row) /\ Credit(row) = 0
    BY <1>2, <2>3, <2>4, <2>6, <2>7 DEF RowHolds, Credit, Merging
  <2> QED
    BY <1>1, <2>2, <2>3, <2>8, UnitsStill
<1>4. CASE Cart!Finish(r)
  BY <1>1, <1>4, UnitsEnds
<1> QED
  BY <1>3, <1>4 DEF Cart!ReadSource, Cart!OpenCarts, Cart!CartsOf

\* It reads it again, when it changed, or leaves it.
LEMMA UnitsReadLatest ==
  ASSUME CartTypes, CartTypes', CartInv, UnitsInv, NEW r \in Requests, Cart!ReadLatest(r)
  PROVE  UnitsInv'
<1>1. /\ Aside /\ lapses' = lapses /\ left \in BOOLEAN /\ lapses \in Nat
      /\ Credit(reqs[r]) = reqs[r].source.qty /\ reqs[r].step = "latest"
  BY DEF UnitsInv, Balanced, Credit, Cart!ReadLatest, Aside, Cart!At
<1>2. /\ reqs[r] \in RequestRow /\ RowHolds(reqs[r]) /\ Copied(reqs[r].from, reqs[r].source)
      /\ SoundCart(reqs[r].source)
  BY <1>1, CartRows DEF UnitsInv, CartInv, Kept, Copying, Merging, RowHolds
<1>3. ASSUME reqs' = [reqs EXCEPT ![r].step = "again", ![r].was = reqs[r].source.qty,
                                  ![r].source = carts[reqs[r].from]], left' = left
      PROVE  UnitsInv'
  <2>1. PICK source \in Document : source = carts[reqs[r].from] /\ source.owner = reqs[r].source.owner
    BY <1>2 DEF CartTypes, Copied
  <2>2. PICK was \in Int : was = reqs[r].source.qty /\ was \in Nat
    BY <1>2 DEF SoundCart
  <2> DEFINE again == [reqs[r] EXCEPT !.step = "again"]
             owed == [again EXCEPT !.was = was]
             row == [owed EXCEPT !.source = source]
  <2>3. reqs' = [reqs EXCEPT ![r] = row]
    BY <2>1, <2>2, <1>3
  <2>4. /\ row \in RequestRow /\ row.step = "again" /\ row.id = reqs[r].id /\ row.cart = reqs[r].cart
        /\ row.op = reqs[r].op /\ row.owner = reqs[r].owner /\ row.from = reqs[r].from
        /\ row.source = source /\ row.was = was
    <3>1. again \in RequestRow
      BY <1>2 DEF RequestRow, Copying, Merging
    <3>2. owed \in RequestRow
      BY <3>1 DEF RequestRow
    <3>3. row \in RequestRow
      BY <3>2 DEF RequestRow
    <3> QED
      BY <1>2, <3>3 DEF RequestRow
  <2> HIDE DEF row
  <2>5. SoundCart(source) /\ Follows(row.from, source)
    BY <1>2, <2>1, <2>4 DEF UnitsInv, SoundCart, Follows, Copied
  <2>6. Follows(row.id, row.cart) /\ (row.owner = "customer" => row.cart.owner = "customer")
    BY <1>1, <1>2, <2>4 DEF RowHolds, Copying, Merging
  <2>7. MergeHolds(row)
    BY <1>1, <1>2, <2>1, <2>2, <2>4, <2>5 DEF RowHolds, MergeHolds, Sourced, Merging
  <2>8. RowHolds(row) /\ Credit(row) = Credit(reqs[r])
    BY <1>1, <1>2, <2>2, <2>4, <2>5, <2>6, <2>7 DEF RowHolds, Credit
  <2> QED
    BY <1>1, <1>3, <2>3, <2>4, <2>8, UnitsStill
<1>4. ASSUME Cart!Finish(r), left' = (left \/ reqs[r].source.qty > 0)
      PROVE  UnitsInv'
  <2>1. left' \in BOOLEAN /\ (left => left') /\ lapses' \in Nat /\ lapses' >= lapses
    BY <1>1, <1>4
  <2>2. Credit(reqs[r]) > 0 => left' \/ lapses' > 0
    BY <1>1, <1>4
  <2> QED
    BY <1>1, <1>4, <2>1, <2>2, UnitsEnds
<1> QED
  BY <1>3, <1>4 DEF Cart!ReadLatest

----------------------------------------------------------------------------
(* The units of the carts: the steps of a request that put a cart *)

\* A copy with the version of its document is the document.
LEMMA CopyIsDocument ==
  ASSUME NEW id, NEW cart, Copied(id, cart), Follows(id, cart), Cart!Unchanged(id, cart)
  PROVE  /\ id \in Carts /\ carts[id] = cart /\ InACart(id)
         /\ ShareOf(carts[id]) = cart.qty
BY DEF Copied, Follows, Cart!Unchanged, InACart, ShareOf

\* What is put in its place is a later version.
LEMMA UnitsPutBack ==
  ASSUME CartTypes, CartTypes', CartInv, UnitsInv, NEW r \in Requests, NEW row \in RequestRow,
         reqs' = [reqs EXCEPT ![r] = row], RowHolds(row)', NEW id, NEW cart \in Document,
         Copied(id, cart), Follows(id, cart), Cart!Unchanged(id, cart),
         NEW doc \in Document, Cart!Put(id, doc), SoundCart(doc), doc.version = cart.version + 1,
         raced' = raced, wanted' \in Int, left' = left, lapses' = lapses,
         ShareOf(doc) - cart.qty = (wanted' - wanted) + (Credit(row) - Credit(reqs[r])),
         Marked'
  PROVE  UnitsInv'
<1>1. id \in Carts /\ carts[id] = cart /\ InACart(id) /\ ShareOf(carts[id]) = cart.qty
  BY CopyIsDocument
<1>2. doc.version > carts[id].version
  BY <1>1 DEF Document
<1> QED
  BY <1>1, <1>2, UnitsPut

\* The mark of an item that is moved.
LEMMA MarksCome ==
  ASSUME CartTypes, UnitsInv, NEW y \in Carts, NEW doc, Cart!Put(y, doc), NEW item,
         Cart!Count({item}), dropped' = dropped, raced => raced', InUse(doc), item \in doc.moved,
         ~raced' => \A c \in Carts : InACart(c) => item \notin carts[c].moved,
         ~raced' /\ InACart(y) => carts[y].moved \subseteq doc.moved
  PROVE  Marked'
<1>1. carts'[y] = doc /\ \A c \in Carts \ {y} : carts'[c] = carts[c]
  BY DEF CartTypes, Cart!Put
<1>2. /\ added \in [Items -> Nat] /\ added' \in [Items -> Nat]
      /\ \A i \in Items : added'[i] = IF i = item THEN added[i] + 1 ELSE added[i]
  BY DEF UnitsInv, Marked, Cart!Count
<1>3. ASSUME ~raced', NEW i \in Items \ dropped'
      PROVE  MarkedOnce(i)'
  <2>1. MarkedOnce(i) /\ ~raced
    BY <1>3 DEF UnitsInv, Marked
  <2>2. CASE i = item
    <3>1. added[i] # 1
      BY <2>1, <2>2, <1>3 DEF MarkedOnce
    <3>2. added[i] = 0 /\ added'[i] = 1
      BY <3>1, <2>1, <2>2, <1>2 DEF MarkedOnce
    <3>3. InACart(y)' /\ i \in carts'[y].moved
      BY <1>1, <2>2 DEF InACart, InUse
    <3> QED
      BY <3>2, <3>3 DEF MarkedOnce
  <2>3. CASE i # item
    <3>1. added'[i] = added[i]
      BY <2>3, <1>2
    <3>2. ASSUME NEW c \in Carts, InACart(c), i \in carts[c].moved
          PROVE  InACart(c)' /\ i \in carts'[c].moved
      BY <3>2, <1>1, <1>3 DEF InACart, InUse
    <3> QED
      BY <2>1, <3>1, <3>2 DEF MarkedOnce
  <2> QED
    BY <2>2, <2>3
<1> QED
  BY <1>2, <1>3 DEF Marked

\* Nothing is counted for no item.
LEMMA CountsNothing ==
  ASSUME UnitsInv, Cart!Count({})
  PROVE  added' = added
BY DEF UnitsInv, Marked, Cart!Count

\* What a request changes in its cart.
LEMMA ChangedIs ==
  ASSUME NEW r \in Requests, NEW cart \in Document, reqs[r] \in RequestRow, NEW q \in Int
  PROVE  \E doc \in Document :
           /\ doc = Cart!Changed(r, cart, q) /\ doc.owner = cart.owner /\ doc.status = cart.status
           /\ doc.version = cart.version + 1 /\ doc.qty = q
           /\ doc.moved = IF q = 0 THEN {} ELSE cart.moved \cup Cart!Moved(r)
<1>1. PICK renewed \in Document : /\ renewed = Cart!Renewed(cart)
                                 /\ renewed.owner = cart.owner /\ renewed.status = cart.status
                                 /\ renewed.qty = cart.qty /\ renewed.moved = cart.moved
                                 /\ renewed.version = cart.version + 1
  BY CartRenewedIs
<1>2. Cart!Moved(r) \in SUBSET Int
  BY DEF Cart!Moved, RequestRow, List
<1>3. PICK moved \in SUBSET Int : moved = IF q = 0 THEN {} ELSE renewed.moved \cup Cart!Moved(r)
  BY <1>2 DEF Document
<1> DEFINE doc == [renewed EXCEPT !.qty = q, !.moved = moved]
<1>4. doc = Cart!Changed(r, cart, q)
  BY <1>1, <1>3 DEF Cart!Changed, Document
<1>5. /\ doc \in Document /\ doc.owner = renewed.owner /\ doc.status = renewed.status
      /\ doc.version = renewed.version /\ doc.qty = q /\ doc.moved = moved
  BY DEF Document
<1> HIDE DEF doc
<1> QED
  BY <1>1, <1>3, <1>4, <1>5

\* What is left of a cart without its line.
LEMMA EmptiedIs ==
  ASSUME NEW cart \in Document
  PROVE  \E doc \in Document :
           /\ doc = [Cart!Renewed(cart) EXCEPT !.qty = 0, !.moved = {}] /\ doc.owner = cart.owner
           /\ doc.status = cart.status /\ doc.version = cart.version + 1 /\ doc.qty = 0 /\ doc.moved = {}
<1>1. PICK renewed \in Document : /\ renewed = Cart!Renewed(cart)
                                 /\ renewed.owner = cart.owner /\ renewed.status = cart.status
                                 /\ renewed.version = cart.version + 1
  BY CartRenewedIs
<1>2. PICK qty \in Int, moved \in SUBSET Int : qty = 0 /\ moved = {}
  <2>1. 0 \in Int /\ {} \in SUBSET Int
    OBVIOUS
  <2> QED
    BY <2>1, Zenon
<1> DEFINE doc == [renewed EXCEPT !.qty = qty, !.moved = moved]
<1>3. doc = [Cart!Renewed(cart) EXCEPT !.qty = 0, !.moved = {}]
  BY <1>1, <1>2
<1>4. /\ doc \in Document /\ doc.owner = renewed.owner /\ doc.status = renewed.status
      /\ doc.version = renewed.version /\ doc.qty = qty /\ doc.moved = moved
  BY DEF Document
<1> HIDE DEF doc
<1> QED
  BY <1>1, <1>2, <1>3, <1>4

\* After its put a request goes on to the wishlist, or ends.
LEMMA OnwardHolds ==
  ASSUME CartTypes, UnitsInv, NEW r \in Requests, Cart!Onward(r) \/ Cart!Finish(r)
  PROVE  \E row \in RequestRow : /\ reqs' = [reqs EXCEPT ![r] = row]
                                 /\ RowHolds(row)' /\ Credit(row) = 0
<1>1. CASE Cart!Finish(r)
  BY <1>1, CartRows, CartValues, DoneHolds
<1>2. CASE Cart!Goto(r, "unlist")
  <2>1. PICK row \in RequestRow : row = [reqs[r] EXCEPT !.step = "unlist", !.look = "open"]
    BY <1>2, CartRows DEF Finding
  <2>2. /\ row.step \in Finding /\ row.cart = reqs[r].cart /\ row.op = reqs[r].op
        /\ row.source = reqs[r].source /\ row.owner = reqs[r].owner /\ row.was = reqs[r].was
        /\ reqs' = [reqs EXCEPT ![r] = row] /\ ~HasRead(row)
    <3>1. reqs[r] \in RequestRow
      BY CartRows
    <3>2. /\ row.step = "unlist" /\ row.cart = reqs[r].cart /\ row.op = reqs[r].op
          /\ row.source = reqs[r].source /\ row.owner = reqs[r].owner /\ row.was = reqs[r].was
          /\ row.look = "open"
      BY <2>1, <3>1 DEF RequestRow
    <3> QED
      BY <2>1, <3>2, <1>2 DEF Finding, Cart!Goto, HasRead
  <2>3. RowHolds(reqs[r])
    BY DEF UnitsInv
  <2>4. RowHolds(row)' /\ Credit(row) = 0
    BY <2>2, <2>3, FindingHolds DEF RowHolds, MergeHolds
  <2> QED
    BY <2>2, <2>4
<1> QED
  BY <1>1, <1>2 DEF Cart!Onward

\* A put of a cart that changes its line.
LEMMA UnitsChange ==
  ASSUME CartTypes, CartTypes', CartInv, UnitsInv, ~undone, NEW r \in Requests, reqs[r].step = "put",
         reqs[r].op # "merge", NEW q \in Cart!Quantities(r, reqs[r].cart),
         Cart!Unchanged(reqs[r].id, reqs[r].cart),
         Cart!Put(reqs[r].id, Cart!Changed(r, reqs[r].cart, q)), wanted' = wanted + (q - reqs[r].cart.qty),
         Cart!Count(Cart!Moved(r)),
         dropped' = IF q = 0 THEN dropped \cup reqs[r].cart.moved ELSE dropped,
         Cart!Onward(r), raced' = raced, left' = left, lapses' = lapses
  PROVE  UnitsInv'
<1>1. /\ reqs[r] \in RequestRow /\ RowHolds(reqs[r]) /\ Copied(reqs[r].id, reqs[r].cart)
      /\ Credit(reqs[r]) = 0
  BY CartRows DEF UnitsInv, CartInv, Kept, Copying, Credit
<1>2. PICK cart \in Document, id \in Carts : cart = reqs[r].cart /\ id = reqs[r].id
  BY <1>1 DEF RequestRow, Copied
<1>3. /\ SoundCart(cart) /\ Follows(id, cart) /\ Copied(id, cart) /\ cart.status = "open"
      /\ reqs[r].owner = "customer" => cart.owner = "customer"
      /\ reqs[r].op = "move" => reqs[r].owner = "customer"
  BY <1>1, <1>2 DEF RowHolds, Copying, Copied
<1>4. q \in Nat
  BY <1>2, <1>3, FiniteCarts DEF Cart!Quantities, SoundCart
<1>5. PICK doc \in Document :
        /\ doc = Cart!Changed(r, cart, q) /\ doc.owner = cart.owner /\ doc.status = cart.status
        /\ doc.version = cart.version + 1 /\ doc.qty = q
        /\ doc.moved = IF q = 0 THEN {} ELSE cart.moved \cup Cart!Moved(r)
  <2>1. q \in Int /\ reqs[r] \in RequestRow
    BY <1>1, <1>4
  <2> QED
    BY <1>2, <2>1, ChangedIs
<1>6. SoundCart(doc) /\ InUse(doc) /\ ShareOf(doc) = q
  BY <1>3, <1>4, <1>5 DEF SoundCart, Cart!Moved, InUse, ShareOf
<1>7. PICK row \in RequestRow : reqs' = [reqs EXCEPT ![r] = row] /\ RowHolds(row)' /\ Credit(row) = 0
  BY OnwardHolds
<1>8. Cart!Put(id, doc) /\ carts[id] = cart /\ InACart(id) /\ Cart!Unchanged(id, cart)
  BY <1>2, <1>3, <1>5, CopyIsDocument
<1>9. Marked'
  <2>1. CASE reqs[r].op = "move"
    <3>1. PICK item : item = reqs[r].list.item
      OBVIOUS
    <3>2. Cart!Moved(r) = {item} /\ item \notin cart.moved /\ q = cart.qty + 1
      BY <2>1, <3>1, <1>2 DEF Cart!Moved, Cart!Quantities, Cart!Adds, Cart!Locking
    <3>3. q # 0 /\ doc.moved = cart.moved \cup {item} /\ dropped' = dropped
      BY <3>2, <1>3, <1>5 DEF SoundCart
    <3>4. ASSUME ~raced', NEW c \in Carts, InACart(c)
          PROVE  item \notin carts[c].moved
      <4>1. carts[id].owner = "customer" /\ (carts[c].moved # {} => carts[c].owner = "customer")
        BY <2>1, <1>3, <1>8 DEF UnitsInv, SoundCart
      <4>2. carts[c].owner = "customer" => c = id
        BY <4>1, <3>4, <1>8 DEF CartInv, OnePerOwner
      <4> QED
        BY <4>1, <4>2, <3>2, <1>8
    <3> QED
      BY <3>2, <3>3, <3>4, <1>6, <1>8, MarksCome
  <2>2. CASE reqs[r].op # "move"
    <3>1. Cart!Moved(r) = {}
      BY <2>2 DEF Cart!Moved
    <3>2. added' = added
      BY <3>1, CountsNothing
    <3>3. \A i \in carts[id].moved : i \in dropped' \/ (InUse(doc) /\ i \in doc.moved)
      BY <1>2, <1>5, <1>6, <1>8
    <3>4. dropped \subseteq dropped'
      OBVIOUS
    <3> QED
      BY <3>2, <3>3, <3>4, <1>8, MarksStay
  <2> QED
    BY <2>1, <2>2
<1>10. wanted \in Int /\ cart.qty \in Nat
  BY <1>3 DEF UnitsInv, Balanced, SoundCart
<1>11. /\ wanted' \in Int
       /\ ShareOf(doc) - cart.qty = (wanted' - wanted) + (Credit(row) - Credit(reqs[r]))
  BY <1>1, <1>2, <1>4, <1>6, <1>7, <1>10
<1> QED
  BY <1>3, <1>5, <1>6, <1>7, <1>8, <1>9, <1>11, UnitsPutBack

\* add, update, remove, applyCoupon and the cart's part of moveToCart.
LEMMA UnitsPutCart ==
  ASSUME CartTypes, CartTypes', CartInv, UnitsInv, ~undone, NEW r \in Requests, Cart!PutCart(r)
  PROVE  UnitsInv'
<1>1. /\ reqs[r].step = "put" /\ reqs[r].op # "merge" /\ raced' = raced /\ left' = left /\ lapses' = lapses
      /\ left \in BOOLEAN /\ lapses \in Nat
  BY DEF UnitsInv, Balanced, Cart!PutCart, Cart!At
<1>2. Credit(reqs[r]) = 0
  BY <1>1 DEF Credit
<1>3. ASSUME Aside, Cart!Onward(r) \/ Cart!Finish(r)
      PROVE  UnitsInv'
  <2>1. CASE Cart!Finish(r)
    BY <2>1, <1>1, <1>2, <1>3, UnitsEnds
  <2>2. CASE Cart!Goto(r, "unlist")
    BY <2>2, <1>1, <1>2, <1>3, UnitsSteps DEF Finding
  <2> QED
    BY <2>1, <2>2, <1>3 DEF Cart!Onward
<1>4. CASE Aside
  BY <1>3, <1>4 DEF Cart!PutCart
<1>5. CASE ~Aside
  BY <1>1, <1>5, UnitsChange DEF Cart!PutCart, Aside
<1> QED
  BY <1>4, <1>5

\* A line that is saved for later.
LEMMA UnitsTake ==
  ASSUME CartTypes, CartTypes', CartInv, UnitsInv, NEW r \in Requests, Cart!TakeLine(r)
  PROVE  UnitsInv'
<1>1. /\ reqs[r].step = "take" /\ Cart!Finish(r) /\ raced' = raced /\ left' = left /\ lapses' = lapses
      /\ added' = added /\ left \in BOOLEAN /\ lapses \in Nat /\ wanted \in Int
  BY DEF UnitsInv, Balanced, Cart!TakeLine, Cart!At
<1>2. /\ reqs[r] \in RequestRow /\ RowHolds(reqs[r]) /\ Copied(reqs[r].id, reqs[r].cart)
      /\ Credit(reqs[r]) = 0
  BY <1>1, CartRows DEF UnitsInv, CartInv, Kept, Copying, Credit
<1>3. PICK cart \in Document, id \in Carts : cart = reqs[r].cart /\ id = reqs[r].id
  BY <1>2 DEF RequestRow, Copied
<1>4. SoundCart(cart) /\ Follows(id, cart) /\ Copied(id, cart) /\ cart.status = "open"
  BY <1>1, <1>2, <1>3 DEF RowHolds, Copying, Copied
<1>5. ASSUME Cart!Unchanged(id, cart), Cart!Put(id, [Cart!Renewed(cart) EXCEPT !.qty = 0, !.moved = {}]),
             wanted' = wanted - cart.qty, dropped' = dropped \cup cart.moved
      PROVE  UnitsInv'
  <2>1. PICK doc \in Document :
          /\ doc = [Cart!Renewed(cart) EXCEPT !.qty = 0, !.moved = {}] /\ doc.owner = cart.owner
          /\ doc.status = cart.status /\ doc.version = cart.version + 1 /\ doc.qty = 0 /\ doc.moved = {}
    BY EmptiedIs
  <2>2. carts[id] = cart /\ InACart(id)
    BY <1>4, <1>5, CopyIsDocument
  <2>3. SoundCart(doc) /\ ShareOf(doc) = 0
    BY <1>4, <2>1 DEF SoundCart, ShareOf
  <2>4. Marked'
    BY <1>1, <1>5, <2>1, <2>2, MarksStay
  <2>5. cart.qty \in Nat
    BY <1>4 DEF SoundCart
  <2>6. /\ wanted' \in Int
        /\ ShareOf(doc) - cart.qty = (wanted' - wanted) + (Credit(Cart!Done) - Credit(reqs[r]))
    BY <1>1, <1>2, <1>5, <2>3, <2>5, DoneHolds
  <2>7. reqs' = [reqs EXCEPT ![r] = Cart!Done] /\ Cart!Done \in RequestRow
    BY <1>1, CartRows, CartValues
  <2> QED
    BY <1>1, <1>4, <1>5, <2>1, <2>3, <2>4, <2>6, <2>7, DoneHolds, UnitsPutBack
<1>6. CASE Aside
  BY <1>1, <1>2, <1>6, UnitsEnds
<1> QED
  BY <1>1, <1>3, <1>5, <1>6 DEF Cart!TakeLine, Aside

\* A target that takes a source's units, or what changed of them.
LEMMA UnitsMerge ==
  ASSUME CartTypes, CartTypes', CartInv, UnitsInv, NEW r \in Requests,
         Copied(reqs[r].id, reqs[r].cart), Copied(reqs[r].from, reqs[r].source),
         reqs[r].op = "merge", Sourced(reqs[r]), Cart!Unchanged(reqs[r].id, reqs[r].cart),
         NEW target \in Document, Cart!Put(reqs[r].id, target),
         target.version = reqs[r].cart.version + 1, target.owner = reqs[r].cart.owner,
         target.status = "open", target.qty \in Nat, target.moved # {} => target.qty > 0,
         NEW s \in {"abandon", "reabandon"}, s = "abandon" => reqs[r].source.qty <= target.qty,
         target.qty - reqs[r].cart.qty = reqs[r].source.qty - Credit(reqs[r]),
         \A i \in reqs[r].cart.moved : i \in target.moved \cup dropped',
         Cart!Holding(r, reqs[r].id, target, s), dropped \subseteq dropped', added' = added,
         raced' = raced, wanted' = wanted, left' = left, lapses' = lapses
  PROVE  UnitsInv'
<1>1. /\ reqs[r] \in RequestRow /\ RowHolds(reqs[r]) /\ reqs[r].step \in Copying
      /\ wanted \in Int
  BY CartRows DEF UnitsInv, Sourced, Copying, Balanced
<1>2. PICK cart \in Document, id \in Carts, source \in Document :
        cart = reqs[r].cart /\ id = reqs[r].id /\ source = reqs[r].source
  BY <1>1 DEF RequestRow, Copied
<1>3. /\ SoundCart(cart) /\ Follows(id, cart) /\ SoundCart(source) /\ cart.owner = "customer"
      /\ reqs[r].owner = "customer" /\ MergeHolds(reqs[r])
  BY <1>1, <1>2 DEF RowHolds, MergeHolds
<1>4. carts[id] = cart /\ InACart(id)
  BY <1>2, <1>3, CopyIsDocument
<1>5. SoundCart(target) /\ InUse(target) /\ ShareOf(target) = target.qty
  BY <1>2, <1>3 DEF SoundCart, InUse, ShareOf, Document
<1>6. PICK row \in RequestRow :
        /\ reqs' = [reqs EXCEPT ![r] = row]
        /\ row.step = s /\ row.id = id /\ row.cart = target /\ row.op = reqs[r].op
        /\ row.owner = reqs[r].owner /\ row.from = reqs[r].from /\ row.source = source
        /\ row.was = reqs[r].was
  BY <1>2, CartHolds DEF Copying, Merging
<1>7. carts'[id] = target /\ \A c \in Carts \ {id} : carts'[c] = carts[c]
  BY <1>2 DEF CartTypes, Cart!Put
<1>8. Follows(row.id, row.cart)'
  BY <1>5, <1>6, <1>7 DEF Follows, SoundCart
<1>9. reqs[r].from # id /\ reqs[r].from \in Carts /\ Follows(reqs[r].from, source)
  BY <1>2, <1>3 DEF MergeHolds, Copied
<1>10. Follows(row.from, row.source)'
  BY <1>6, <1>7, <1>9 DEF Follows
<1>11. ~raced' => row.source.owner = "guest"
  BY <1>2, <1>3, <1>4, <1>6 DEF MergeHolds
<1>12. MergeHolds(row)'
  BY <1>2, <1>3, <1>6, <1>9, <1>10, <1>11 DEF MergeHolds, Sourced, Merging
<1>13. RowHolds(row)'
  BY <1>1, <1>2, <1>3, <1>5, <1>6, <1>8, <1>12 DEF RowHolds, SoundCart
<1>14. Credit(row) = source.qty
  BY <1>6 DEF Credit
<1>15. Marked'
  <2>1. \A i \in carts[id].moved : i \in dropped' \/ (InUse(target) /\ i \in target.moved)
    BY <1>2, <1>4, <1>5
  <2> QED
    BY <2>1, <1>2, MarksStay
<1>16. cart.qty \in Nat /\ source.qty \in Nat /\ Credit(reqs[r]) \in Nat
  BY <1>1, <1>3, CreditType DEF SoundCart
<1>17. /\ wanted' \in Int
       /\ ShareOf(target) - cart.qty = (wanted' - wanted) + (Credit(row) - Credit(reqs[r]))
  BY <1>1, <1>2, <1>5, <1>14, <1>16
<1> QED
  BY <1>2, <1>3, <1>5, <1>6, <1>13, <1>15, <1>17, UnitsPutBack

\* A merge puts its target.
LEMMA UnitsMergeTarget ==
  ASSUME CartTypes, CartTypes', CartInv, UnitsInv, NEW r \in Requests, Cart!MergeTarget(r)
  PROVE  UnitsInv'
<1>1. /\ reqs[r].step = "put" /\ reqs[r].op = "merge" /\ wanted' = wanted /\ added' = added
      /\ dropped' = dropped /\ raced' = raced /\ left' = left /\ lapses' = lapses
      /\ left \in BOOLEAN /\ lapses \in Nat
  BY DEF UnitsInv, Balanced, Cart!MergeTarget, Cart!At, Cart!unchangedHistory
<1>2. /\ reqs[r] \in RequestRow /\ RowHolds(reqs[r]) /\ Credit(reqs[r]) = 0
      /\ Copied(reqs[r].id, reqs[r].cart) /\ Copied(reqs[r].from, reqs[r].source)
  BY <1>1, CartRows DEF UnitsInv, CartInv, Kept, Copying, Credit
<1>3. PICK cart \in Document, source \in Document : cart = reqs[r].cart /\ source = reqs[r].source
  BY <1>2 DEF RequestRow
<1>4. PICK target \in Document :
        /\ target = Cart!Merged(cart, source) /\ target.owner = cart.owner /\ target.status = cart.status
        /\ target.version = cart.version + 1 /\ target.qty = cart.qty + source.qty
        /\ target.moved = IF cart.qty = 0 THEN source.moved ELSE cart.moved
  BY CartMergedIs
<1>5. SoundCart(cart) /\ SoundCart(source) /\ cart.status = "open"
  BY <1>2, <1>3 DEF RowHolds, Copied
<1>6. /\ target.qty \in Nat /\ (target.moved # {} => target.qty > 0) /\ source.qty <= target.qty
      /\ target.qty - cart.qty = source.qty - Credit(reqs[r])
      /\ \A i \in cart.moved : i \in target.moved \cup dropped'
  <2>1. cart.qty \in Nat /\ source.qty \in Nat
    BY <1>5 DEF SoundCart
  <2>2. target.qty \in Nat /\ source.qty <= target.qty /\ target.qty - cart.qty = source.qty - Credit(reqs[r])
    BY <1>2, <1>4, <2>1
  <2>3. target.moved # {} => target.qty > 0
    BY <1>4, <1>5, <2>1 DEF SoundCart
  <2>4. cart.moved \subseteq target.moved
    BY <1>4, <1>5, <2>1 DEF SoundCart
  <2> QED
    BY <2>2, <2>3, <2>4
<1>7. ASSUME Cart!Unchanged(reqs[r].id, cart), Cart!Put(reqs[r].id, target),
             Cart!Holding(r, reqs[r].id, target, "abandon")
      PROVE  UnitsInv'
  <2>1. Sourced(reqs[r]) /\ dropped \subseteq dropped'
    BY <1>1 DEF Sourced
  <2> QED
    BY <2>1, <1>1, <1>2, <1>3, <1>4, <1>5, <1>6, <1>7, UnitsMerge
<1>8. ASSUME carts' = carts, Cart!Finish(r)
      PROVE  UnitsInv'
  BY <1>1, <1>2, <1>8, UnitsEnds DEF Aside
<1> QED
  BY <1>3, <1>4, <1>7, <1>8 DEF Cart!MergeTarget

\* What the target takes or gives back of a source that changed.
LEMMA CorrectedIs ==
  ASSUME NEW cart \in Document, NEW source \in Document, NEW was \in Int, NEW owed,
         owed = [source EXCEPT !.qty = @ - was]
  PROVE  \E target \in Document :
           /\ target = Cart!Corrected(cart, owed) /\ target.owner = cart.owner
           /\ target.status = cart.status /\ target.version = cart.version + 1
           /\ target.qty = cart.qty + (source.qty - was)
           /\ target.moved = IF target.qty = 0 THEN {} ELSE IF cart.qty = 0 THEN source.moved ELSE cart.moved
<1>1. owed \in Document /\ owed.qty = source.qty - was /\ owed.moved = source.moved
  BY DEF Document
<1>2. CASE cart.qty + owed.qty = 0
  <2>1. Cart!Corrected(cart, owed) = [Cart!Renewed(cart) EXCEPT !.qty = 0, !.moved = {}]
    BY <1>2 DEF Cart!Corrected
  <2>2. PICK target \in Document :
          /\ target = [Cart!Renewed(cart) EXCEPT !.qty = 0, !.moved = {}] /\ target.owner = cart.owner
          /\ target.status = cart.status /\ target.version = cart.version + 1 /\ target.qty = 0
          /\ target.moved = {}
    BY EmptiedIs
  <2>3. target.qty = cart.qty + (source.qty - was)
    BY <2>2, <1>1, <1>2
  <2> QED
    BY <2>1, <2>2, <2>3
<1>3. CASE cart.qty + owed.qty # 0
  <2>1. Cart!Corrected(cart, owed) = Cart!Merged(cart, owed)
    BY <1>3 DEF Cart!Corrected
  <2>2. PICK target \in Document :
          /\ target = Cart!Merged(cart, owed) /\ target.owner = cart.owner
          /\ target.status = cart.status /\ target.version = cart.version + 1
          /\ target.qty = cart.qty + owed.qty
          /\ target.moved = IF cart.qty = 0 THEN owed.moved ELSE cart.moved
    BY <1>1, CartMergedIs
  <2>3. target.qty = cart.qty + (source.qty - was) /\ target.qty # 0
    BY <2>2, <1>1, <1>3
  <2> QED
    BY <2>1, <2>2, <2>3, <1>1
<1> QED
  BY <1>2, <1>3

\* A merge puts its target again, or gives up.
LEMMA UnitsMergeAgain ==
  ASSUME CartTypes, CartTypes', CartInv, UnitsInv, NEW r \in Requests, Cart!MergeAgain(r)
  PROVE  UnitsInv'
<1>1. /\ reqs[r].step = "again" /\ wanted' = wanted /\ added' = added /\ raced' = raced
      /\ lapses' = lapses /\ left \in BOOLEAN /\ lapses \in Nat
  BY DEF UnitsInv, Balanced, Cart!MergeAgain, Cart!At
<1>2. /\ reqs[r] \in RequestRow /\ RowHolds(reqs[r]) /\ Credit(reqs[r]) = reqs[r].was
      /\ Copied(reqs[r].id, reqs[r].cart) /\ Copied(reqs[r].from, reqs[r].source)
      /\ reqs[r].op = "merge" /\ Sourced(reqs[r])
  BY <1>1, CartRows DEF UnitsInv, CartInv, Kept, Copying, Merging, Credit, RowHolds, MergeHolds, Sourced
<1>3. PICK cart \in Document, source \in Document, was \in Int :
        cart = reqs[r].cart /\ source = reqs[r].source /\ was = reqs[r].was
  BY <1>2 DEF RequestRow
<1>4. /\ SoundCart(cart) /\ SoundCart(source) /\ cart.status = "open" /\ was \in Nat /\ was <= cart.qty
  BY <1>1, <1>2, <1>3 DEF RowHolds, MergeHolds, Copied
<1>5. PICK target \in Document :
        /\ target = Cart!Corrected(cart, Cart!Owed(r)) /\ target.owner = cart.owner
        /\ target.status = cart.status /\ target.version = cart.version + 1
        /\ target.qty = cart.qty + (source.qty - was)
        /\ target.moved = IF target.qty = 0 THEN {} ELSE IF cart.qty = 0 THEN source.moved ELSE cart.moved
  <2>1. PICK owed : owed = [source EXCEPT !.qty = @ - was] /\ owed = Cart!Owed(r)
    BY <1>3 DEF Cart!Owed
  <2> QED
    BY <2>1, CorrectedIs
<1>6. /\ target.qty \in Nat /\ (target.moved # {} => target.qty > 0)
      /\ target.qty - cart.qty = source.qty - Credit(reqs[r])
  BY <1>2, <1>3, <1>4, <1>5 DEF SoundCart
<1>7. ASSUME Cart!Unchanged(reqs[r].id, cart), Cart!Put(reqs[r].id, target), left' = left,
             Cart!Holding(r, reqs[r].id, target, "reabandon"),
             dropped' = dropped \cup (cart.moved \ target.moved)
      PROVE  UnitsInv'
  <2>1. \A i \in cart.moved : i \in target.moved \cup dropped'
    BY <1>7
  <2>2. dropped \subseteq dropped'
    BY <1>7
  <2> QED
    BY <2>1, <2>2, <1>1, <1>2, <1>3, <1>4, <1>5, <1>6, <1>7, UnitsMerge
<1>8. ASSUME carts' = carts, dropped' = dropped, Cart!Finish(r), left' = (left \/ reqs[r].was > 0)
      PROVE  UnitsInv'
  <2>1. left' \in BOOLEAN /\ (left => left') /\ lapses' \in Nat /\ lapses' >= lapses
    BY <1>1, <1>8
  <2>2. Credit(reqs[r]) > 0 => left' \/ lapses' > 0
    BY <1>2, <1>8
  <2> QED
    BY <2>1, <2>2, <1>1, <1>8, UnitsEnds DEF Aside
<1> QED
  BY <1>3, <1>5, <1>7, <1>8 DEF Cart!MergeAgain

\* A merge abandons its source, or finds that it changed.
LEMMA UnitsAbandon ==
  ASSUME CartTypes, CartTypes', CartInv, UnitsInv, NEW r \in Requests,
         Cart!AbandonSource(r) \/ Cart!AbandonAgain(r)
  PROVE  UnitsInv'
<1>1. /\ reqs[r].step \in {"abandon", "reabandon"} /\ wanted' = wanted /\ added' = added /\ raced' = raced
      /\ lapses' = lapses /\ left \in BOOLEAN /\ lapses \in Nat /\ wanted \in Int
  BY DEF UnitsInv, Balanced, Cart!AbandonSource, Cart!AbandonAgain, Cart!At
<1>2. /\ reqs[r] \in RequestRow /\ RowHolds(reqs[r]) /\ Credit(reqs[r]) = reqs[r].source.qty
      /\ Copied(reqs[r].from, reqs[r].source)
  BY <1>1, CartRows DEF UnitsInv, CartInv, Kept, Copying, Merging, Credit
<1>3. PICK source \in Document, from \in Carts : source = reqs[r].source /\ from = reqs[r].from
  BY <1>2 DEF RequestRow, Copied
<1>4. /\ SoundCart(source) /\ Follows(from, source) /\ Copied(from, source)
      /\ ~raced => source.owner = "guest"
  BY <1>1, <1>2, <1>3 DEF RowHolds, MergeHolds, Sourced, Merging
<1>5. ASSUME Cart!Unchanged(from, source), Cart!Put(from, Cart!Abandoned(source)), Cart!Finish(r),
             left' = left, dropped \subseteq dropped'
      PROVE  UnitsInv'
  <2>1. PICK renewed \in Document : /\ renewed = Cart!Renewed(source) /\ renewed.owner = source.owner
                                   /\ renewed.qty = source.qty /\ renewed.moved = source.moved
                                   /\ renewed.version = source.version + 1
    BY CartRenewedIs
  <2>2. PICK doc \in Document : doc = [renewed EXCEPT !.status = "abandoned"]
    BY DEF Document
  <2>3. /\ doc = Cart!Abandoned(source) /\ doc.owner = source.owner /\ doc.status = "abandoned"
        /\ doc.qty = source.qty /\ doc.moved = source.moved /\ doc.version = source.version + 1
    BY <2>1, <2>2 DEF Cart!Abandoned, Document
  <2>4. SoundCart(doc) /\ ShareOf(doc) = 0
    BY <1>4, <2>3 DEF SoundCart, ShareOf
  <2>5. carts[from] = source
    BY <1>4, <1>5, CopyIsDocument
  <2>6. ~raced' => carts[from].moved = {}
    BY <2>5, <1>1, <1>4 DEF SoundCart
  <2>7. Marked'
    BY <2>3, <2>6, <1>1, <1>5, MarksStay
  <2>8. source.qty \in Nat
    BY <1>4 DEF SoundCart
  <2>9. /\ wanted' \in Int
        /\ ShareOf(doc) - source.qty = (wanted' - wanted) + (Credit(Cart!Done) - Credit(reqs[r]))
    BY <1>1, <1>2, <1>3, <2>4, <2>8, DoneHolds
  <2>10. reqs' = [reqs EXCEPT ![r] = Cart!Done] /\ Cart!Done \in RequestRow
    BY <1>5, CartRows, CartValues
  <2> QED
    BY <1>1, <1>4, <1>5, <2>3, <2>4, <2>7, <2>9, <2>10, DoneHolds, UnitsPutBack
<1>6. ASSUME Cart!AbandonSource(r), Aside, Cart!Goto(r, "latest")
      PROVE  UnitsInv'
  <2>1. reqs[r].step = "abandon" /\ left' = left
    BY <1>6 DEF Cart!AbandonSource, Cart!At
  <2> QED
    BY <2>1, <1>1, <1>6, UnitsSteps DEF Finding
<1>7. ASSUME Aside, Cart!Finish(r), left' = (left \/ reqs[r].source.qty > 0)
      PROVE  UnitsInv'
  <2>1. left' \in BOOLEAN /\ (left => left') /\ lapses' \in Nat /\ lapses' >= lapses
    BY <1>1, <1>7
  <2>2. Credit(reqs[r]) > 0 => left' \/ lapses' > 0
    BY <1>2, <1>7
  <2> QED
    BY <2>1, <2>2, <1>7, UnitsEnds
<1>8. ASSUME Cart!AbandonSource(r)
      PROVE  UnitsInv'
  <2>1. CASE Cart!Unchanged(from, source)
    BY <2>1, <1>3, <1>5, <1>8 DEF Cart!AbandonSource
  <2>2. CASE ~Cart!Unchanged(from, source)
    BY <2>2, <1>1, <1>3, <1>6, <1>8 DEF Cart!AbandonSource, Aside
  <2> QED
    BY <2>1, <2>2
<1>9. ASSUME Cart!AbandonAgain(r)
      PROVE  UnitsInv'
  <2>1. CASE Cart!Unchanged(from, source)
    BY <2>1, <1>3, <1>5, <1>9 DEF Cart!AbandonAgain
  <2>2. CASE ~Cart!Unchanged(from, source)
    BY <2>2, <1>1, <1>3, <1>7, <1>9 DEF Cart!AbandonAgain, Aside
  <2> QED
    BY <2>1, <2>2
<1> QED
  BY <1>8, <1>9

\* A new cart is empty.
LEMMA NewCartIs ==
  ASSUME NEW o \in Cart!Owners
  PROVE  Cart!NewCart(o).version = 1 /\ Cart!NewCart(o).qty = 0 /\ Cart!NewCart(o).moved = {}
BY DEF Cart!NewCart, Cart!NoCart

\* Or has what it was made for.
Filled(o, qty, version, moved) ==
  [Cart!NewCart(o) EXCEPT !.qty = qty, !.version = version, !.moved = moved]

\* It is a document of its owner.
LEMMA FilledCartIs ==
  ASSUME NEW o \in Cart!Owners, NEW qty \in Int, NEW version \in Int, NEW moved \in SUBSET Int
  PROVE  \E doc \in Document :
           /\ doc = Filled(o, qty, version, moved)
           /\ doc.owner = o /\ doc.status = "open" /\ doc.version = version /\ doc.qty = qty
           /\ doc.moved = moved
<1>1. PICK empty \in Document : empty = Cart!NewCart(o) /\ empty.owner = o /\ empty.status = "open"
  BY CartValues
<1> DEFINE doc == [empty EXCEPT !.qty = qty, !.version = version, !.moved = moved]
<1>2. /\ doc \in Document /\ doc.owner = empty.owner /\ doc.status = empty.status
      /\ doc.version = version /\ doc.qty = qty /\ doc.moved = moved
  BY DEF Document
<1>3. doc = Filled(o, qty, version, moved)
  BY <1>1 DEF Filled
<1> HIDE DEF doc
<1> QED
  BY <1>1, <1>2, <1>3

\* A cart made without the lock.
LEMMA UnitsCreate ==
  ASSUME CartTypes, CartTypes', CartInv, UnitsInv, NEW r \in Requests, Cart!CreateEmpty(r)
  PROVE  UnitsInv'
<1>1. /\ reqs[r].step = "create" /\ wanted' = wanted /\ added' = added /\ dropped' = dropped
      /\ left' = left /\ lapses' = lapses /\ wanted \in Int /\ raced \in BOOLEAN
      /\ raced' = (raced \/ Cart!Crowded(r))
  BY DEF UnitsInv, Balanced, Cart!CreateEmpty, Cart!At, CartTypes
<1>2. reqs[r] \in RequestRow /\ RowHolds(reqs[r]) /\ Credit(reqs[r]) = 0
  BY <1>1, CartRows DEF UnitsInv, Credit
<1>3. PICK c \in Carts : /\ Cart!NewId(c) /\ Cart!Put(c, Cart!NewCart(reqs[r].owner))
                         /\ Cart!Holding(r, c, Cart!NewCart(reqs[r].owner), Cart!Ahead(reqs[r].op))
  BY DEF Cart!CreateEmpty
<1>4. PICK doc \in Document :
        /\ doc = Cart!NewCart(reqs[r].owner) /\ doc.owner = reqs[r].owner /\ doc.status = "open"
        /\ doc.version = 1 /\ doc.qty = 0 /\ doc.moved = {}
  <2>1. reqs[r].owner \in Cart!Owners
    BY <1>2 DEF RequestRow
  <2> QED
    BY <2>1, CartValues, NewCartIs
<1>5. PICK s \in {"put", "source", "list"} :
        s = Cart!Ahead(reqs[r].op) /\ (s = "put" => reqs[r].op # "merge")
  BY DEF Cart!Ahead
<1>6. PICK row \in RequestRow :
        /\ reqs' = [reqs EXCEPT ![r] = row]
        /\ row.step = s /\ row.id = c /\ row.cart = doc /\ row.op = reqs[r].op
        /\ row.owner = reqs[r].owner /\ row.source = reqs[r].source /\ row.was = reqs[r].was
  BY <1>3, <1>4, <1>5, CartHolds DEF Copying
<1>7. carts'[c] = doc /\ Cart!Put(c, doc) /\ carts[c].status = "none"
  BY <1>3, <1>4 DEF CartTypes, Cart!Put, Cart!NewId
<1>8. SoundCart(doc) /\ ShareOf(doc) = 0 /\ ShareOf(carts[c]) = 0 /\ ~InACart(c)
  BY <1>4, <1>7 DEF SoundCart, ShareOf, InACart
<1>9. Follows(c, doc)'
  BY <1>7, <1>8 DEF Follows, SoundCart
<1>10. RowHolds(row)' /\ Credit(row) = 0
  BY <1>2, <1>4, <1>5, <1>6, <1>8, <1>9 DEF RowHolds, MergeHolds, Sourced, Credit, Merging, SoundCart
<1>11. raced => raced'
  BY <1>1
<1>12. Marked'
  BY <1>1, <1>7, <1>8, <1>11, MarksStay
<1>13. /\ wanted' \in Int
       /\ ShareOf(doc) - ShareOf(carts[c]) = (wanted' - wanted) + (Credit(row) - Credit(reqs[r]))
  BY <1>1, <1>2, <1>8, <1>10
<1> QED
  BY <1>1, <1>6, <1>7, <1>8, <1>10, <1>11, <1>12, <1>13, UnitsPut

\* The first cart, with its line.
LEMMA UnitsPutFirst ==
  ASSUME CartTypes, CartTypes', CartInv, UnitsInv, ~undone, NEW r \in Requests, Cart!PutFirstCart(r)
  PROVE  UnitsInv'
<1>1. /\ reqs[r].step = "putnew" /\ wanted' = wanted + 1 /\ Cart!Count(Cart!Moved(r)) /\ Cart!Onward(r)
      /\ dropped' = dropped /\ left' = left /\ lapses' = lapses /\ wanted \in Int /\ raced \in BOOLEAN
      /\ raced' = (raced \/ locks[reqs[r].owner] # r)
  BY DEF UnitsInv, Balanced, Cart!PutFirstCart, Cart!At, CartTypes
<1>2. /\ reqs[r] \in RequestRow /\ Credit(reqs[r]) = 0
      /\ reqs[r].op = "move" => reqs[r].owner = "customer"
  BY <1>1, CartRows DEF UnitsInv, RowHolds, Credit
<1>3. PICK c \in Carts :
        /\ Cart!NewId(c)
        /\ Cart!Put(c, [Cart!NewCart(reqs[r].owner) EXCEPT !.qty = 1, !.version = 2, !.moved = Cart!Moved(r)])
  BY DEF Cart!PutFirstCart
<1>4. PICK doc \in Document :
        /\ Cart!Put(c, doc) /\ doc.owner = reqs[r].owner /\ doc.status = "open"
        /\ doc.version = 2 /\ doc.qty = 1 /\ doc.moved = Cart!Moved(r)
  <2>1. PICK o \in Cart!Owners : o = reqs[r].owner
    BY <1>2 DEF RequestRow
  <2>2. PICK qty \in Int, version \in Int, moved \in SUBSET Int :
          qty = 1 /\ version = 2 /\ moved = Cart!Moved(r)
    <3>1. 1 \in Int /\ 2 \in Int /\ Cart!Moved(r) \in SUBSET Int
      BY <1>2 DEF Cart!Moved, RequestRow, List
    <3> QED
      BY <3>1, Zenon
  <2>3. PICK doc \in Document :
          /\ doc = Filled(o, qty, version, moved)
          /\ doc.owner = o /\ doc.status = "open"
          /\ doc.version = version /\ doc.qty = qty /\ doc.moved = moved
    BY <2>1, <2>2, FilledCartIs
  <2>4. Cart!Put(c, doc)
    BY <2>1, <2>2, <2>3, <1>3 DEF Filled
  <2> QED
    BY <2>1, <2>2, <2>3, <2>4
<1>5. carts[c].status = "none"
  BY <1>3 DEF Cart!NewId
<1>6. /\ SoundCart(doc) /\ ShareOf(doc) = 1 /\ ShareOf(carts[c]) = 0 /\ ~InACart(c) /\ InUse(doc)
  BY <1>2, <1>4, <1>5 DEF SoundCart, ShareOf, InACart, InUse, Cart!Moved
<1>7. PICK row \in RequestRow : reqs' = [reqs EXCEPT ![r] = row] /\ RowHolds(row)' /\ Credit(row) = 0
  BY <1>1, OnwardHolds
<1>8. (raced => raced') /\ (~raced' => Vacant(reqs[r].owner))
  BY <1>1 DEF CartInv, MakesFirst
<1>9. Marked'
  <2>1. CASE reqs[r].op = "move"
    <3>1. PICK item : item = reqs[r].list.item
      OBVIOUS
    <3>2. Cart!Moved(r) = {item}
      BY <2>1, <3>1 DEF Cart!Moved
    <3>3. ASSUME ~raced', NEW d \in Carts, InACart(d)
          PROVE  item \notin carts[d].moved
      BY <2>1, <3>3, <1>2, <1>8 DEF Vacant, UnitsInv, SoundCart
    <3>4. item \in doc.moved
      BY <3>2, <1>4
    <3> QED
      BY <3>2, <3>3, <3>4, <1>1, <1>4, <1>6, <1>8, MarksCome
  <2>2. CASE reqs[r].op # "move"
    <3>1. Cart!Moved(r) = {}
      BY <2>2 DEF Cart!Moved
    <3>2. added' = added
      BY <3>1, <1>1, CountsNothing
    <3> QED
      BY <3>2, <1>1, <1>4, <1>6, <1>8, MarksStay
  <2> QED
    BY <2>1, <2>2
<1>10. /\ wanted' \in Int
       /\ ShareOf(doc) - ShareOf(carts[c]) = (wanted' - wanted) + (Credit(row) - Credit(reqs[r]))
  BY <1>1, <1>2, <1>6, <1>7
<1> QED
  BY <1>1, <1>4, <1>5, <1>6, <1>7, <1>8, <1>9, <1>10, UnitsPut

----------------------------------------------------------------------------
(* The units of the carts: the world, and the theorem *)

\* What merges owe is a number.
LEMMA OwingIsNumber ==
  ASSUME UnitsInv
  PROVE  Owing \in Nat
<1> DEFINE f == [r \in Requests |-> Credit(reqs[r])]
<1>1. \A r \in Requests : f[r] \in Nat
  BY CreditType DEF UnitsInv
<1> HIDE DEF f
<1>2. Cart!SumOver(f, Requests) \in Nat
  BY <1>1, FiniteCarts, SumIsNumber
<1> QED
  BY <1>2 DEF Owing, f

\* A put by nobody's request.
LEMMA UnitsPutByOther ==
  ASSUME CartTypes, CartTypes', CartInv, UnitsInv, reqs' = reqs, NEW c \in Carts, NEW doc \in Document,
         Cart!Put(c, doc), doc.qty = carts[c].qty, doc.moved = carts[c].moved, doc.owner = carts[c].owner,
         \/ doc.version = carts[c].version + 1
         \/ doc.version = carts[c].version /\ carts[c].status # "open",
         InUse(doc) => InACart(c), added' = added, raced' = raced, left' = left, lapses' = lapses,
         InUse(doc) \/ ~InACart(c) => wanted' = wanted /\ dropped' = dropped,
         ~InUse(doc) /\ InACart(c) =>
           wanted' = wanted - carts[c].qty /\ dropped' = dropped \cup carts[c].moved
  PROVE  UnitsInv'
<1>1. wanted \in Int /\ left \in BOOLEAN /\ lapses \in Nat /\ dropped \subseteq dropped'
  BY DEF UnitsInv, Balanced
<1>2. PICK cart \in Document : cart = carts[c] /\ SoundCart(cart)
  BY DEF CartTypes, UnitsInv
<1>3. /\ SoundCart(doc) /\ cart.qty \in Nat
      /\ ShareOf(carts[c]) = IF InACart(c) THEN cart.qty ELSE 0
      /\ ShareOf(doc) = IF InUse(doc) THEN cart.qty ELSE 0
  <2>1. doc.version \in Nat
    BY <1>2 DEF SoundCart, Document
  <2> QED
    BY <1>2, <2>1 DEF SoundCart, ShareOf, InACart, InUse
<1>4. carts'[c] = doc /\ \A d \in Carts \ {c} : carts'[d] = carts[d]
  BY DEF CartTypes, Cart!Put
<1>5. Advance
  BY <1>2, <1>3, <1>4 DEF Advance, SoundCart, InUse, InACart
<1>6. ASSUME NEW q \in Requests
      PROVE  RowHolds(reqs[q])'
  <2>1. PICK row \in RequestRow : row = reqs[q] /\ reqs'[q] = row
    BY DEF CartTypes
  <2>2. RowHolds(row)'
    BY <2>1, <1>5, RowStays DEF CartInv, UnitsInv
  <2> QED
    BY <2>1, <2>2
<1>7. Owing \in Nat /\ Owing' = Owing
  BY OwingIsNumber DEF Owing, Credit
<1>8. wanted' \in Int /\ ShareOf(doc) - ShareOf(carts[c]) = (wanted' - wanted) + (Owing' - Owing)
  BY <1>1, <1>2, <1>3, <1>7
<1>9. Balanced'
  <2>1. left' \in BOOLEAN /\ (left => left') /\ lapses' \in Nat /\ lapses' >= lapses
    BY <1>1
  <2>2. Owing \in Nat /\ Owing' \in Nat
    BY <1>7
  <2> QED
    BY <1>3, <1>8, <2>1, <2>2, BalanceStays
<1>10. Marked'
  <2>1. InACart(c) => \A i \in carts[c].moved : i \in dropped' \/ (InUse(doc) /\ i \in doc.moved)
    OBVIOUS
  <2> QED
    BY <2>1, <1>1, MarksStay
<1> QED
  BY <1>3, <1>4, <1>6, <1>9, <1>10 DEF UnitsInv, SoundCart

\* Nothing but the writers of the checkouts changes.
LEMMA UnitsWait ==
  ASSUME CartTypes, CartTypes', UnitsInv, carts' = carts, reqs' = reqs, Aside, left' = left,
         lapses' \in Nat, lapses' >= lapses
  PROVE  UnitsInv'
<1>1. Owing' = Owing /\ Cart!Units' = Cart!Units
  BY DEF Owing, Credit, Cart!Units, Cart!InCarts
<1>2. Spare' = Spare
  BY <1>1 DEF Spare, Aside
<1>3. Balanced'
  BY <1>2 DEF UnitsInv, Balanced, Aside
<1>4. Marked'
  BY DEF UnitsInv, Marked, MarkedOnce, InACart, Aside
<1>5. \A r \in Requests : RowHolds(reqs[r])'
  BY DEF UnitsInv, RowHolds, MergeHolds, Sourced, Follows, SoundCart, InACart, Aside, HasRead
<1> QED
  BY <1>3, <1>4, <1>5 DEF UnitsInv, SoundCart

\* Checkouts come and go: a bought cart's units are the shopper's no longer.
LEMMA UnitsCheckouts ==
  ASSUME CartTypes, CartTypes', CartInv, UnitsInv, ~undone',
         \/ \E o \in Others, c \in Carts : Cart!Claim(o, c)
         \/ \E o \in Others : Cart!ReleaseClaim(o)
         \/ \E c \in Carts : Cart!Pay(c)
         \/ \E o \in Others, c \in Carts, to \in {"open", "converted"} : Cart!ReadCart(o, c, to)
         \/ \E o \in Others : Cart!PutOther(o)
  PROVE  UnitsInv'
<1>1. /\ reqs' = reqs /\ added' = added /\ raced' = raced /\ left' = left /\ lapses' = lapses
      /\ lapses \in Nat /\ carts \in [Carts -> Document] /\ others \in [Others -> OtherRow]
  BY DEF CartTypes, UnitsInv, Balanced, Cart!Claim, Cart!ReleaseClaim, Cart!Pay, Cart!ReadCart, Cart!PutOther
<1>2. ASSUME carts' = carts, wanted' = wanted, dropped' = dropped
      PROVE  UnitsInv'
  BY <1>1, <1>2, UnitsWait DEF Aside
<1>3. ASSUME NEW c \in Carts, NEW cart \in Document, cart = carts[c], NEW next \in Document,
             \/ next = Cart!Renewed(cart)
             \/ next = cart /\ cart.status # "open",
             NEW status \in {"open", "claimed", "pending", "paid", "converted"},
             Cart!Put(c, [next EXCEPT !.status = status]),
             status \in {"open", "claimed", "pending"} => InACart(c),
             status \in {"open", "claimed", "pending"} \/ ~InACart(c) => wanted' = wanted /\ dropped' = dropped,
             status \in {"paid", "converted"} /\ InACart(c) =>
               wanted' = wanted - cart.qty /\ dropped' = dropped \cup cart.moved
      PROVE  UnitsInv'
  <2>1. /\ next.qty = cart.qty /\ next.moved = cart.moved /\ next.owner = cart.owner
        /\ \/ next.version = cart.version + 1
           \/ next.version = cart.version /\ carts[c].status # "open"
    BY <1>3, CartRenewedIs
  <2>2. PICK doc \in Document : /\ doc = [next EXCEPT !.status = status] /\ doc.owner = next.owner
                                /\ doc.status = status /\ doc.version = next.version
                                /\ doc.qty = next.qty /\ doc.moved = next.moved
    BY CartStatusIs
  <2>3. InUse(doc) <=> status \in {"open", "claimed", "pending"}
    BY <2>2 DEF InUse
  <2> QED
    BY <1>1, <1>3, <2>1, <2>2, <2>3, UnitsPutByOther
<1>4. ASSUME NEW o \in Others, NEW c \in Carts, Cart!Claim(o, c)
      PROVE  UnitsInv'
  <2>1. PICK cart \in Document : cart = carts[c] /\ InACart(c)
    BY <1>1, <1>4 DEF Cart!Claim, InACart
  <2>2. PICK next \in Document : next = Cart!Renewed(cart)
    BY CartRenewedIs
  <2>3. Cart!Put(c, [next EXCEPT !.status = "claimed"]) /\ wanted' = wanted /\ dropped' = dropped
    BY <1>4, <2>1, <2>2 DEF Cart!Claim
  <2> QED
    BY <1>3, <2>1, <2>2, <2>3
<1>5. ASSUME NEW o \in Others, Cart!ReleaseClaim(o)
      PROVE  UnitsInv'
  <2>1. PICK id \in Carts, cart \in Document :
          id = others[o].id /\ cart = others[o].cart /\ cart.status = "claimed"
    BY <1>1, <1>5 DEF CartInv, Meant, Known, OtherRow, Cart!ReleaseClaim
  <2>2. PICK next \in Document : next = Cart!Renewed(cart)
    BY CartRenewedIs
  <2>3. wanted' = wanted /\ dropped' = dropped
    BY <1>5 DEF Cart!ReleaseClaim
  <2>4. CASE carts[id] = cart
    <3>1. Cart!Put(id, [next EXCEPT !.status = "open"]) /\ InACart(id)
      BY <1>5, <2>1, <2>2, <2>4 DEF Cart!ReleaseClaim, Cart!Reopened, InACart
    <3> QED
      BY <1>3, <2>2, <2>3, <2>4, <3>1
  <2>5. CASE carts[id] # cart
    BY <1>2, <1>5, <2>1, <2>3, <2>5 DEF Cart!ReleaseClaim
  <2> QED
    BY <2>4, <2>5
<1>6. ASSUME NEW c \in Carts, Cart!Pay(c)
      PROVE  UnitsInv'
  <2>1. PICK cart \in Document : cart = carts[c] /\ cart.status # "open" /\ InACart(c)
    BY <1>1, <1>6 DEF Cart!Pay, InACart
  <2>2. /\ Cart!Put(c, [cart EXCEPT !.status = "paid"])
        /\ wanted' = wanted - cart.qty /\ dropped' = dropped \cup cart.moved
    BY <1>6, <2>1 DEF Cart!Pay
  <2> QED
    BY <1>3, <2>1, <2>2
<1>7. ASSUME NEW o \in Others, NEW c \in Carts, NEW to \in {"open", "converted"}, Cart!ReadCart(o, c, to)
      PROVE  UnitsInv'
  BY <1>2, <1>7 DEF Cart!ReadCart
<1>8. ASSUME NEW o \in Others, Cart!PutOther(o)
      PROVE  UnitsInv'
  <2>1. PICK id \in Carts, cart \in Document, to \in {"pending", "open", "converted"} :
          /\ id = others[o].id /\ cart = others[o].cart /\ to = others[o].to
          /\ to \in {"pending", "open"} => cart.status \in {"claimed", "pending"}
          /\ to = "pending" => cart.status = "claimed"
          /\ to = "converted" => cart.status = "paid"
    BY <1>1, <1>8 DEF CartInv, Meant, Known, OtherRow, Cart!PutOther
  <2>2. PICK next \in Document : next = IF to = "pending" THEN cart ELSE Cart!Renewed(cart)
    BY CartRenewedIs
  <2>3. /\ Cart!PutBlindly(id, cart, [next EXCEPT !.status = to])
        /\ wanted' = wanted /\ dropped' = dropped
    BY <1>8, <2>1, <2>2 DEF Cart!PutOther
  <2>4. carts[id] = cart /\ Cart!Put(id, [next EXCEPT !.status = to])
    BY <2>3 DEF Cart!PutBlindly
  <2>5. /\ to \in {"open", "claimed", "pending"} => InACart(id)
        /\ to \in {"paid", "converted"} => ~InACart(id)
    BY <2>1, <2>4 DEF InACart
  <2>6. next = Cart!Renewed(cart) \/ (next = cart /\ cart.status # "open")
    BY <2>1, <2>2
  <2> QED
    BY <1>3, <2>3, <2>4, <2>5, <2>6
<1> QED
  BY <1>4, <1>5, <1>6, <1>7, <1>8

\* A request opens a cart again as it read it.
LEMMA UnitsReopens ==
  ASSUME CartTypes, CartTypes', CartInv, UnitsInv, ~undone', NEW r \in Requests, Cart!PutReopened(r)
  PROVE  UnitsInv'
<1>1. /\ reqs[r].step \in Cart!Looking /\ raced' = raced /\ wanted' = wanted /\ added' = added
      /\ dropped' = dropped /\ left' = left /\ lapses' = lapses /\ wanted \in Int
  BY DEF UnitsInv, Balanced, Cart!PutReopened, Cart!Looks, Cart!otherHistory
<1>2. /\ Kept(reqs[r]) /\ HasRead(reqs[r]) /\ RowHolds(reqs[r]) /\ reqs[r] \in RequestRow
      /\ reqs[r].look = "reopen" /\ Credit(reqs[r]) = 0
  BY <1>1, CartLookIs, LookHolds DEF UnitsInv, Cart!PutReopened, Cart!Looks, HasRead
<1>3. PICK id \in Carts, cart \in Document :
        /\ id = reqs[r].id /\ cart = reqs[r].cart /\ Known(id, cart) /\ SoundCart(cart)
        /\ cart.status \in {"claimed", "pending"}
        /\ reqs[r].owner = "customer" => cart.owner = "customer"
  BY <1>2 DEF Kept, RequestRow, Known, RowHolds
<1>4. PICK doc \in Document : /\ doc = Cart!Reopened(cart) /\ doc.owner = cart.owner
                              /\ doc.status = "open" /\ doc.version = cart.version + 1
                              /\ doc.qty = cart.qty /\ doc.moved = cart.moved
  BY CartReopenedIs
<1>5. Cart!PutBlindly(id, cart, doc) /\ Cart!Found(r, id, doc)
  BY <1>3, <1>4 DEF Cart!PutReopened
<1>6. carts[id] = cart /\ Cart!Put(id, doc) /\ carts'[id] = doc /\ InACart(id)
  BY <1>3, <1>5 DEF Cart!PutBlindly, Cart!Put, CartTypes, InACart
<1>7. PICK s \in {"put", "source", "list"} :
        Cart!Holding(r, id, doc, s) /\ (s = "put" => reqs[r].op # "merge")
  BY <1>1, <1>5, CartFoundIs
<1>8. PICK row \in RequestRow :
        /\ reqs' = [reqs EXCEPT ![r] = row]
        /\ row.step = s /\ row.id = id /\ row.cart = doc /\ row.op = reqs[r].op
        /\ row.owner = reqs[r].owner /\ row.source = reqs[r].source /\ row.was = reqs[r].was
  <2>1. s \in Finding \cup Copying
    BY DEF Copying
  <2> QED
    BY <1>7, <2>1, CartHolds
<1>9. SoundCart(doc) /\ InUse(doc) /\ ShareOf(doc) = cart.qty /\ ShareOf(carts[id]) = cart.qty
  BY <1>3, <1>4, <1>6 DEF SoundCart, InUse, ShareOf
<1>10. Follows(id, doc)'
  BY <1>6, <1>9 DEF Follows, SoundCart
<1>11. RowHolds(row)' /\ Credit(row) = 0
  <2>1. ~HasRead(row)
    BY <1>8 DEF HasRead, Cart!Looking
  <2> QED
    BY <1>2, <1>3, <1>4, <1>7, <1>8, <1>9, <1>10, <2>1
    DEF RowHolds, MergeHolds, Sourced, Credit, Merging, SoundCart
<1>12. Marked'
  <2>1. \A i \in carts[id].moved : i \in dropped' \/ (InUse(doc) /\ i \in doc.moved)
    BY <1>4, <1>6, <1>9
  <2> QED
    BY <2>1, <1>1, <1>6, MarksStay
<1>13. doc.version > carts[id].version
  BY <1>4, <1>6 DEF Document
<1>14. /\ wanted' \in Int
       /\ ShareOf(doc) - ShareOf(carts[id]) = (wanted' - wanted) + (Credit(row) - Credit(reqs[r]))
  BY <1>1, <1>2, <1>3, <1>9, <1>11 DEF SoundCart
<1> QED
  BY <1>1, <1>6, <1>8, <1>9, <1>11, <1>12, <1>13, <1>14, UnitsPut

\* A request dies, or a lock expires.
LEMMA UnitsLapse ==
  ASSUME CartTypes, CartTypes', CartInv, UnitsInv,
         \/ \E r \in Requests : Cart!Die(r)
         \/ \E o \in Cart!Owners : Cart!ExpireLock(o)
         \/ UNCHANGED cartVars
  PROVE  UnitsInv'
<1>1. ASSUME NEW r \in Requests, Cart!Die(r)
      PROVE  UnitsInv'
  <2>1. /\ Aside /\ left' = left /\ lapses' = lapses + 1 /\ left \in BOOLEAN /\ lapses \in Nat
        /\ Cart!Finish(r)
    BY <1>1 DEF UnitsInv, Balanced, Cart!Die, Aside
  <2>2. /\ left' \in BOOLEAN /\ (left => left') /\ lapses' \in Nat /\ lapses' >= lapses
        /\ (Credit(reqs[r]) > 0 => left' \/ lapses' > 0)
    BY <2>1
  <2> QED
    BY <2>1, <2>2, UnitsEnds
<1>3. ASSUME NEW o \in Cart!Owners, Cart!ExpireLock(o)
      PROVE  UnitsInv'
  <2>1. /\ carts' = carts /\ reqs' = reqs /\ Aside /\ left' = left /\ lapses \in Nat
        /\ lapses' = lapses \/ lapses' = lapses + 1
    BY <1>3 DEF UnitsInv, Balanced, Cart!ExpireLock, Aside
  <2> QED
    BY <2>1, UnitsWait
<1>2. CASE UNCHANGED cartVars
  <2>1. carts' = carts /\ reqs' = reqs /\ Aside /\ left' = left /\ lapses' = lapses /\ lapses \in Nat
    BY <1>2 DEF UnitsInv, Balanced, cartVars, Aside
  <2> QED
    BY <2>1, UnitsWait
<1> QED
  BY <1>1, <1>2, <1>3

\* What was undone was undone.
LEMMA UndoneStays ==
  ASSUME [Cart!CartNext]_cartVars
  PROVE  undone => undone'
<1>1. ASSUME NEW r \in Requests,
             \/ \E op \in Operations, owner \in Cart!Owners : Cart!Begin(r, op, owner)
             \/ Cart!ReadItem(r) \/ Cart!LookOpen(r) \/ Cart!LookPending(r) \/ Cart!LookPastClaim(r)
             \/ Cart!LookCheckout(r) \/ Cart!PutReopened(r) \/ Cart!CreateEmpty(r)
             \/ Cart!TryLock(r) \/ Cart!PutFirstCart(r) \/ Cart!PutCart(r)
      PROVE  undone => undone'
  BY <1>1 DEF Cart!Begin, Cart!ReadItem, Cart!LookOpen, Cart!LookPending, Cart!LookPastClaim, Cart!LookCheckout,
     Cart!PutReopened, Cart!PutBlindly, Cart!CreateEmpty, Cart!TryLock, Cart!PutFirstCart, Cart!PutCart,
     Cart!unchangedHistory
<1>2. ASSUME NEW r \in Requests,
             \/ Cart!Unlist(r) \/ Cart!ReadWishlist(r) \/ Cart!Enlist(r) \/ Cart!TakeLine(r)
             \/ Cart!ReadSource(r) \/ Cart!MergeTarget(r) \/ Cart!AbandonSource(r)
             \/ Cart!ReadLatest(r) \/ Cart!MergeAgain(r) \/ Cart!AbandonAgain(r) \/ Cart!Die(r)
      PROVE  undone => undone'
  BY <1>2 DEF Cart!Unlist, Cart!ReadWishlist, Cart!Enlist, Cart!TakeLine, Cart!ReadSource, Cart!MergeTarget,
     Cart!AbandonSource, Cart!ReadLatest, Cart!MergeAgain, Cart!AbandonAgain, Cart!Die, Cart!unchangedHistory
<1>3. ASSUME \/ \E o \in Others, c \in Carts : \/ Cart!Claim(o, c)
                                               \/ \E to \in {"open", "converted"} : Cart!ReadCart(o, c, to)
             \/ \E o \in Others : Cart!ReleaseClaim(o) \/ Cart!PutOther(o)
             \/ \E c \in Carts : Cart!Pay(c)
             \/ \E o \in Cart!Owners : Cart!ExpireLock(o)
             \/ UNCHANGED cartVars
      PROVE  undone => undone'
  BY <1>3 DEF Cart!Claim, Cart!ReadCart, Cart!ReleaseClaim, Cart!PutOther, Cart!PutBlindly, Cart!Pay,
     Cart!ExpireLock, cartVars
<1> QED
  BY <1>1, <1>2, <1>3 DEF Cart!CartNext

\* A step of the carts keeps their units.
LEMMA UnitsStep ==
  ASSUME CartTypes, CartTypes', CartInv, UnitsInv, ~undone, ~undone', [Cart!CartNext]_cartVars
  PROVE  UnitsInv'
<1>1. ASSUME NEW r \in Requests,
             \/ \E op \in Operations, owner \in Cart!Owners : Cart!Begin(r, op, owner)
             \/ Cart!ReadItem(r) \/ Cart!LookOpen(r) \/ Cart!LookPending(r) \/ Cart!LookPastClaim(r)
             \/ Cart!LookCheckout(r) \/ Cart!PutReopened(r) \/ Cart!CreateEmpty(r)
             \/ Cart!TryLock(r) \/ Cart!PutFirstCart(r) \/ Cart!PutCart(r)
             \/ Cart!Unlist(r) \/ Cart!ReadWishlist(r) \/ Cart!Enlist(r) \/ Cart!TakeLine(r)
             \/ Cart!ReadSource(r) \/ Cart!MergeTarget(r) \/ Cart!AbandonSource(r)
             \/ Cart!ReadLatest(r) \/ Cart!MergeAgain(r) \/ Cart!AbandonAgain(r) \/ Cart!Die(r)
      PROVE  UnitsInv'
  BY <1>1, UnitsBegins, UnitsLooks, UnitsReopens, UnitsLocks, UnitsCreate, UnitsPutFirst, UnitsPutCart,
     UnitsWishes, UnitsTake, UnitsReadSource, UnitsMergeTarget, UnitsAbandon, UnitsReadLatest, UnitsMergeAgain,
     UnitsLapse
<1> QED
  BY <1>1, UnitsCheckouts, UnitsLapse DEF Cart!CartNext

\* In the beginning the shopper asked for what is in the carts, and nobody merges.
LEMMA UnitsInitHolds ==
  ASSUME Cart!CartInit
  PROVE  UnitsInv
<1>1. PICK guest \in 0..1, customer \in 0..1, bought \in 0..1 :
        carts = [c \in Carts |->
                   CASE c = 1 /\ guest = 1 -> [Cart!NewCart("guest") EXCEPT !.qty = 1]
                     [] c = 2 /\ customer = 1 -> [Cart!NewCart("customer") EXCEPT !.qty = bought]
                     [] OTHER -> Cart!NoCart]
  BY DEF Cart!CartInit
<1>2. SoundCart(Cart!NoCart)
  BY DEF SoundCart, Cart!NoCart
<1>3. \A o \in Cart!Owners, q \in Nat : SoundCart([Cart!NewCart(o) EXCEPT !.qty = q])
  BY DEF SoundCart, Cart!NewCart, Cart!NoCart
<1>4. \A c \in Carts : SoundCart(carts[c])
  BY <1>1, <1>2, <1>3 DEF Cart!Owners
<1>5. /\ reqs = [r \in Requests |-> Cart!Waiting] /\ lapses = 0 /\ wanted = Cart!Units
      /\ added = [i \in Items |-> 0] /\ left = FALSE
  BY DEF Cart!CartInit
<1>6. RowHolds(Cart!Waiting) /\ Credit(Cart!Waiting) = 0
  <2>1. /\ Cart!Waiting.step \in Finding /\ Cart!Waiting.cart = Cart!NoCart
        /\ Cart!Waiting.source = Cart!NoCart /\ Cart!Waiting.was = 0 /\ Cart!Waiting.op = "none"
    BY DEF Cart!Waiting, Finding
  <2>2. ~HasRead(Cart!Waiting)
    BY CartValues DEF HasRead
  <2> QED
    BY <2>1, <2>2, <1>2, FindingHolds
<1>7. Owing = 0
  BY <1>5, <1>6, SumOfNothing DEF Owing
<1>8. Cart!Units \in Nat
  BY <1>4, UnitsAreNumber
<1>9. Balanced
  <2>1. Spare = 0
    BY <1>5, <1>7, <1>8 DEF Spare
  <2>2. wanted \in Int
    BY <1>5, <1>8
  <2>3. lapses \in Nat
    BY <1>5
  <2>4. left \in BOOLEAN
    BY <1>5
  <2> QED
    BY <2>1, <2>2, <2>3, <2>4 DEF Balanced
<1>10. Marked
  BY <1>5 DEF Marked, MarkedOnce
<1> QED
  BY <1>4, <1>5, <1>6, <1>9, <1>10 DEF UnitsInv

\* The carts have the units that the shopper asked for, and those that merges owe.
LEMMA UnitsInvKeeps ==
  ASSUME UnitsInv
  PROVE  Cart!UnitsAreKept
<1>1. Cart!Units \in Nat /\ Owing \in Nat /\ wanted \in Int /\ Spare \in Nat
  BY UnitsAreNumber, OwingIsNumber DEF UnitsInv, Balanced
<1>2. Cart!Units >= wanted
  BY <1>1 DEF Spare
<1>3. ASSUME Cart!MergesRest, ~left
      PROVE  Cart!Units <= wanted
  <2>1. \A r \in Requests : Credit(reqs[r]) = 0
    BY <1>3 DEF Cart!MergesRest, Credit
  <2>2. Owing = 0
    BY <2>1, SumOfNothing DEF Owing
  <2>3. Spare = 0
    BY <1>1, <1>3 DEF UnitsInv, Balanced, Cart!MergesRest
  <2> QED
    BY <2>2, <2>3, <1>1 DEF Spare
<1>4. Cart!MovedOnce
  BY DEF UnitsInv, Marked, MarkedOnce, Cart!MovedOnce
<1> QED
  BY <1>2, <1>3, <1>4 DEF Cart!UnitsAreKept

\* However requests that read the same cart, merges whose source changes and checkouts
\* interleave, no unit that a shopper was told is in a cart is lost, a merge counts none twice
\* unless it ends without taking from its source what it gave, and an item that is moved again
\* adds its unit once, as long as no blind put undid another (putCartIfUnchanged,
\* abandonMergedSourceCart, appendWishlistMoveToCart, reopenAbandonedCheckoutCart).
THEOREM UnitsKept == ServicesSpec => []UnitsAreKept
<1> DEFINE Carted == InCart => CartTypes /\ CartInv /\ (undone \/ UnitsInv)
<1>1. ServicesInit => Carted
  BY CartInitHolds, UnitsInitHolds DEF ServicesInit, InCart
<1>2. ASSUME Carted, [ServicesNext]_servicesVars
      PROVE  Carted'
  <2> SUFFICES ASSUME InCart'
               PROVE  (CartTypes /\ CartInv /\ (undone \/ UnitsInv))'
    OBVIOUS
  <2>1. InCart /\ [Cart!CartNext]_cartVars
    BY <1>2, ServiceStays, CartAlone DEF InCart
  <2>2. CartTypes' /\ CartInv'
    BY <2>1, <1>2, CartStep
  <2>3. undone => undone'
    BY <2>1, UndoneStays
  <2> QED
    BY <2>1, <2>2, <2>3, <1>2, UnitsStep
<1>3. Carted => UnitsAreKept
  BY UnitsInvKeeps DEF UnitsAreKept, Cart!UnitsAreKept
<1> QED
  BY <1>1, <1>2, <1>3, PTL DEF ServicesSpec, servicesVars

----------------------------------------------------------------------------
(* The subscription: its inductive invariants *)

\* The document when there is one has a status.
SubDoc == {NoSub} \cup [status : Statuses \ {"none"}, period : Nat, linked : BOOLEAN]

WorkRow == [step : Steps, act : Acts, copy : SubDoc, grant : Grants]

\* What a handler has read fits the step it is at: the entitlement is put for a
\* subscription that is there, and an action is asked of one that has not ended.
Row(h) ==
  /\ work[h].step \in {"grant", "putgrant", "link"} => work[h].copy # NoSub
  /\ h \in Actions => work[h].step # "find"
  /\ h \in Actions /\ work[h].step \in {"provider", "put"} =>
       work[h].copy # NoSub /\ ~Ended(work[h].copy.status) /\ work[h].act # "none"
  /\ h \in Events => work[h].step \notin {"provider", "done"}
  /\ h \in Events /\ work[h].step # "idle" => receipts[h] \in {"received", "failed"}

Shapes ==
  /\ told \in Timelines /\ sub \in SubDoc /\ grant \in Grants
  /\ receipts \in [Events -> {"new", "received", "processed", "failed"}]
  /\ answered \subseteq Events /\ lock \in Events \cup {Free}
  /\ work \in [Handlers -> WorkRow]
  /\ erased \in BOOLEAN /\ faults \in 0..MaxFaults /\ apart \in BOOLEAN
  /\ \A h \in Handlers : Row(h)

Last == told[Length]

\* No copy is of a period after the subscription's, nor is that after the last.
Periods ==
  /\ sub.period <= Last.period
  /\ \A h \in Handlers : work[h].copy.period <= sub.period

\* The last event is past the put of the subscription.
Told == receipts[Length] = "processed" \/ work[Length].step \in {"grant", "putgrant", "link", "mark"}

\* What the last event told is kept.
EndKept == Told => sub.period = Last.period /\ (Ended(Last.status) => Ended(sub.status))

\* Who has still to put the entitlement: an event that is not past that, also one whose
\* processing stopped, and an action that has put the subscription.
Obliged(h) ==
  \/ work[h].step \in {"grant", "putgrant"}
  \/ h \in Events /\ receipts[h] # "processed" /\ work[h].step \in {"idle", "find", "put"}

Given == (\E h \in Handlers : Obliged(h)) \/ grant \in {Access(sub.status), "revoked"}

\* While no put undid another's and the account is there.
Agreed == ~apart /\ ~erased => Periods /\ EndKept /\ Given

----------------------------------------------------------------------------
(* The subscription: documents and events *)

\* What an event and an action make of a document is a document.
LEMMA Documents ==
  /\ NoSub \in SubDoc
  /\ \A d \in SubDoc : d.period \in Nat /\ d.status \in Statuses /\ d.linked \in BOOLEAN
  /\ \A d \in SubDoc : d # NoSub => d.status \in Statuses \ {"none"} /\ [d EXCEPT !.linked = TRUE] \in SubDoc \ {NoSub}
  /\ \A d \in SubDoc : d # NoSub => Access(d.status) \in Grants
<1>1. ASSUME NEW s \in Statuses \ {"none"}
      PROVE  Access(s) \in {"active", "expired", "inactive"}
  BY DEF Access, Ended, Statuses
<1>2. ASSUME NEW d \in SubDoc, d # NoSub
      PROVE  /\ d \in [status : Statuses \ {"none"}, period : Nat, linked : BOOLEAN]
             /\ [d EXCEPT !.linked = TRUE] \in [status : Statuses \ {"none"}, period : Nat, linked : BOOLEAN]
  BY <1>2 DEF SubDoc
<1>3. \A d \in [status : Statuses \ {"none"}, period : Nat, linked : BOOLEAN] : d # NoSub
  BY DEF NoSub
<1>4. "none" \in Statuses
  BY DEF Statuses
<1>5. ASSUME NEW d \in SubDoc
      PROVE  d.period \in Nat /\ d.status \in Statuses /\ d.linked \in BOOLEAN
  <2>1. CASE d = NoSub
    BY <2>1, <1>4 DEF NoSub
  <2>2. CASE d # NoSub
    BY <2>2, <1>2
  <2> QED
    BY <2>1, <2>2
<1>6. \A d \in SubDoc : d # NoSub => Access(d.status) \in Grants
  BY <1>1, <1>2 DEF Grants
<1> QED
  BY <1>2, <1>3, <1>5, <1>6 DEF SubDoc

\* An event is of a period up to the last one.
LEMMA Tales ==
  ASSUME Shapes, NEW e \in Events
  PROVE  /\ told[e] \in [status : Statuses \ {"none"}, period : Nat]
         /\ Last \in [status : Statuses \ {"none"}, period : Nat]
         /\ told[e].period <= Last.period /\ Length \in Events
BY SubAssumption DEF Shapes, Events, Last

\* What a handler remembers.
LEMMA Remembered ==
  ASSUME Shapes, NEW h \in Handlers
  PROVE  /\ work[h] \in WorkRow /\ Row(h)
         /\ work[h].step \in Steps /\ work[h].act \in Acts /\ work[h].copy \in SubDoc
         /\ work[h].grant \in Grants
BY DEF Shapes, WorkRow

\* Idle, a document that an event created, and one that an event or an action changed.
LEMMA Changes ==
  /\ Idle \in WorkRow
  /\ \A ev \in [status : Statuses \ {"none"}, period : Nat] : Created(ev) \in SubDoc \ {NoSub}
  /\ \A d \in SubDoc \ {NoSub}, ev \in [status : Statuses \ {"none"}, period : Nat] :
       AfterEvent(d, ev) \in SubDoc \ {NoSub}
  /\ \A d \in SubDoc \ {NoSub}, act \in Acts \ {"none"} :
       /\ AfterAction(d, act) \in SubDoc \ {NoSub} /\ AfterAction(d, act).period = d.period
<1> DEFINE Real == [status : Statuses \ {"none"}, period : Nat, linked : BOOLEAN]
<1>1. SubDoc \ {NoSub} = Real
  <2>1. NoSub.status = "none" /\ \A d \in Real : d.status # "none"
    BY DEF NoSub
  <2>2. NoSub \notin Real
    BY <2>1
  <2> QED
    BY <2>2 DEF SubDoc
<1>2. Idle \in WorkRow
  BY Documents DEF Idle, WorkRow, Steps, Acts, Grants
<1>3. \A ev \in [status : Statuses \ {"none"}, period : Nat] : Created(ev) \in Real
  BY DEF Created, NoSub
<1>4. ASSUME NEW d \in Real, NEW ev \in [status : Statuses \ {"none"}, period : Nat]
      PROVE  AfterEvent(d, ev) \in Real
  BY DEF AfterEvent
<1>5. ASSUME NEW d \in Real, NEW act \in Acts \ {"none"}
      PROVE  AfterAction(d, act) \in Real /\ AfterAction(d, act).period = d.period
  BY DEF AfterAction, Acts, Statuses
<1> QED
  BY <1>1, <1>2, <1>3, <1>4, <1>5

----------------------------------------------------------------------------
(* The subscription: what every step has in common *)

\* A step of one handler keeps the shapes of the others.
LEMMA ShapesStep ==
  ASSUME Shapes, NEW h \in Handlers, NEW row \in WorkRow, work' = [work EXCEPT ![h] = row],
         told' = told, sub' \in SubDoc, grant' \in Grants,
         receipts' \in [Events -> {"new", "received", "processed", "failed"}],
         \A e \in Events \ {h} : receipts'[e] = receipts[e],
         answered' \subseteq Events, lock' \in Events \cup {Free},
         erased' \in BOOLEAN, faults' \in 0..MaxFaults, apart' \in BOOLEAN,
         Row(h)'
  PROVE  Shapes' /\ work'[h] = row
<1>1. work' \in [Handlers -> WorkRow] /\ work'[h] = row
  BY DEF Shapes
<1>2. ASSUME NEW g \in Handlers \ {h}
      PROVE  Row(g)'
  <2>1. work'[g] = work[g] /\ Row(g) /\ (g \in Events => receipts'[g] = receipts[g])
    BY DEF Shapes
  <2> QED
    BY <2>1 DEF Row
<1> QED
  BY <1>1, <1>2 DEF Shapes

\* And what they have agreed to.
LEMMA AgreedStep ==
  ASSUME Shapes, Agreed, NEW h \in Handlers, NEW row \in WorkRow, work' = [work EXCEPT ![h] = row],
         told' = told, sub' \in SubDoc,
         \A e \in Events \ {h} : receipts'[e] = receipts[e],
         ~apart' /\ ~erased' =>
           /\ ~apart /\ ~erased
           /\ sub.period <= sub'.period /\ sub'.period <= Last.period /\ row.copy.period <= sub'.period
           /\ Ended(sub.status) => Ended(sub'.status) \/ sub'.period > sub.period
           /\ Told' => Told \/ (sub'.period = Last.period /\ (Ended(Last.status) => Ended(sub'.status)))
           /\ \/ Obliged(h)'
              \/ grant' \in {Access(sub'.status), "revoked"}
              \/ ~Obliged(h) /\ sub'.status = sub.status /\ grant' = grant
  PROVE  Agreed'
<1> SUFFICES ASSUME ~apart', ~erased'
             PROVE  (Periods /\ EndKept /\ Given)'
  BY DEF Agreed
<1>1. Periods /\ EndKept /\ Given
  BY DEF Agreed
<1>2. Last' = Last
  BY DEF Last
<1>3. /\ sub.period \in Nat /\ sub'.period \in Nat /\ \A g \in Handlers : work[g].copy.period \in Nat
      /\ Last.period \in Nat
  <2>1. 1 \in Events
    BY SubAssumption DEF Events
  <2> QED
    BY <2>1, Documents, Tales, Remembered DEF Shapes
<1>4. work'[h] = row /\ \A g \in Handlers \ {h} : work'[g] = work[g]
  BY DEF Shapes
<1>5. Periods'
  <2>1. ASSUME NEW g \in Handlers
        PROVE  work'[g].copy.period <= sub'.period
    <3>1. work[g].copy.period <= sub.period
      BY <1>1 DEF Periods
    <3> QED
      BY <3>1, <1>3, <1>4
  <2> QED
    BY <2>1, <1>2 DEF Periods
<1>6. EndKept'
  <2>1. CASE sub'.period = Last.period /\ (Ended(Last.status) => Ended(sub'.status))
    BY <2>1, <1>2 DEF EndKept
  <2>2. CASE Told
    <3>1. sub.period = Last.period /\ (Ended(Last.status) => Ended(sub.status))
      BY <2>2, <1>1 DEF EndKept
    <3>2. sub'.period = sub.period
      BY <3>1, <1>3
    <3> QED
      BY <3>1, <3>2, <1>2, <1>3 DEF EndKept
  <2> QED
    BY <2>1, <2>2, <1>2 DEF EndKept
<1>7. Given'
  <2>1. CASE Obliged(h)' \/ grant' \in {Access(sub'.status), "revoked"}
    BY <2>1 DEF Given
  <2>2. CASE ~Obliged(h) /\ sub'.status = sub.status /\ grant' = grant
    <3>1. CASE grant \in {Access(sub.status), "revoked"}
      BY <3>1, <2>2 DEF Given
    <3>2. ASSUME NEW g \in Handlers, Obliged(g)
          PROVE  Obliged(g)'
      <4>1. work'[g] = work[g] /\ (g \in Events => receipts'[g] = receipts[g])
        BY <3>2, <2>2, <1>4
      <4> QED
        BY <4>1, <3>2 DEF Obliged
    <3> QED
      BY <3>1, <3>2, <1>1 DEF Given
  <2> QED
    BY <2>1, <2>2
<1> QED
  BY <1>5, <1>6, <1>7

\* A step that changes neither document keeps what is agreed, unless somebody who has
\* still to put the entitlement gives up.
LEMMA QuietStep ==
  ASSUME Shapes, Agreed, NEW h \in Handlers, NEW row \in WorkRow, work' = [work EXCEPT ![h] = row],
         told' = told, sub' = sub, grant' = grant, erased' = erased,
         receipts' \in [Events -> {"new", "received", "processed", "failed"}],
         \A e \in Events \ {h} : receipts'[e] = receipts[e],
         answered' \subseteq Events, lock' \in Events \cup {Free},
         faults' \in 0..MaxFaults, apart' \in BOOLEAN, apart => apart',
         work'[h] = row => Row(h)', row.copy \in {NoSub, sub, work[h].copy},
         ~apart' /\ ~erased =>
           /\ h = Length /\ (receipts'[h] = "processed" \/ row.step \in {"grant", "putgrant", "link", "mark"}) =>
                Told \/ (sub.period = Last.period /\ (Ended(Last.status) => Ended(sub.status)))
           /\ Obliged(h) /\ work'[h] = row => Obliged(h)'
  PROVE  Shapes' /\ Agreed'
<1>1. work'[h] = row
  BY DEF Shapes
<1>2. Shapes'
  <2>1. sub' \in SubDoc /\ grant' \in Grants /\ erased' \in BOOLEAN
    BY DEF Shapes
  <2> QED
    BY <1>1, <2>1, ShapesStep
<1>3. sub \in SubDoc /\ sub.period \in Nat /\ NoSub.period = 0 /\ work[h].copy.period \in Nat
  BY Documents, Remembered DEF Shapes, NoSub
<1>4. Length \in Events /\ Length \in Handlers
  BY SubAssumption DEF Events, Handlers
<1>5. ASSUME ~apart', ~erased'
      PROVE  /\ ~apart /\ ~erased
             /\ sub.period <= sub'.period /\ sub'.period <= Last.period /\ row.copy.period <= sub'.period
             /\ Ended(sub.status) => Ended(sub'.status) \/ sub'.period > sub.period
             /\ Told' => Told \/ (sub'.period = Last.period /\ (Ended(Last.status) => Ended(sub'.status)))
             /\ \/ Obliged(h)'
                \/ grant' \in {Access(sub'.status), "revoked"}
                \/ ~Obliged(h) /\ sub'.status = sub.status /\ grant' = grant
  <2>1. ~apart /\ ~erased /\ sub.period <= Last.period /\ work[h].copy.period <= sub.period
    BY <1>5 DEF Agreed, Periods
  <2>2. sub.period <= sub'.period /\ row.copy.period <= sub'.period
    BY <2>1, <1>3
  <2>3. Told' => Told \/ (sub.period = Last.period /\ (Ended(Last.status) => Ended(sub.status)))
    <3>1. CASE h = Length
      BY <3>1, <2>1, <1>1, <1>5 DEF Told
    <3>2. CASE h # Length
      <4>1. work'[Length] = work[Length] /\ receipts'[Length] = receipts[Length]
        BY <3>2, <1>4 DEF Shapes
      <4> QED
        BY <4>1 DEF Told
    <3> QED
      BY <3>1, <3>2
  <2> QED
    BY <2>1, <2>2, <2>3, <1>1, <1>5
<1> QED
  BY <1>2, <1>3, <1>5, AgreedStep

\* A step of no handler.
LEMMA WorldStep ==
  ASSUME Shapes, Agreed, ExpireLock \/ Revoke \/ Erase \/ UNCHANGED subVars
  PROVE  Shapes' /\ Agreed'
<1>1. /\ told' = told /\ sub' = sub /\ receipts' = receipts /\ answered' = answered /\ work' = work
      /\ apart' = apart
  BY DEF ExpireLock, Revoke, Erase, subVars
<1>2. /\ grant' \in {grant, "revoked"} /\ lock' \in {lock, Free} /\ (erased' = erased \/ erased' = TRUE)
      /\ faults' = faults \/ (faults < MaxFaults /\ faults' = faults + 1)
  BY DEF ExpireLock, Revoke, Erase, subVars
<1>3. grant' \in Grants /\ lock' \in Events \cup {Free} /\ erased' \in BOOLEAN /\ faults' \in 0..MaxFaults
  <2>1. grant \in Grants /\ lock \in Events \cup {Free} /\ erased \in BOOLEAN /\ faults \in 0..MaxFaults
    BY DEF Shapes
  <2>2. grant' \in Grants
    BY <2>1, <1>2 DEF Grants
  <2>3. faults' \in 0..MaxFaults
    BY <2>1, <1>2, SubAssumption
  <2>4. lock' \in Events \cup {Free} /\ erased' \in BOOLEAN
    BY <2>1, <1>2
  <2> QED
    BY <2>2, <2>3, <2>4
<1>4. Shapes'
  BY <1>1, <1>3 DEF Shapes, Row
<1>5. Agreed'
  <2> SUFFICES ASSUME ~apart', ~erased'
               PROVE  (Periods /\ EndKept /\ Given)'
    BY DEF Agreed
  <2>1. Periods /\ EndKept /\ Given
    BY <1>1, <1>2 DEF Agreed
  <2>2. (\E h \in Handlers : Obliged(h)) => (\E h \in Handlers : Obliged(h)')
    BY <1>1 DEF Obliged
  <2> QED
    BY <2>1, <2>2, <1>1, <1>2 DEF Periods, EndKept, Told, Given, Last
<1> QED
  BY <1>4, <1>5

----------------------------------------------------------------------------
(* The subscription: the steps that change no document *)

\* A delivery or a replay begins the processing, or is answered.
LEMMA DeliverStep ==
  ASSUME Shapes, Agreed, NEW e \in Events, Deliver(e) \/ Replay(e)
  PROVE  Shapes' /\ Agreed'
<1> DEFINE row == [work[e] EXCEPT !.step = "find"]
<1>1. /\ e \in Handlers /\ work[e] \in WorkRow /\ Row(e) /\ work[e].step = "idle"
      /\ receipts \in [Events -> {"new", "received", "processed", "failed"}]
      /\ work \in [Handlers -> WorkRow] /\ answered \subseteq Events /\ lock \in Events \cup {Free}
      /\ faults \in 0..MaxFaults /\ apart \in BOOLEAN
  BY Remembered DEF Handlers, Deliver, Replay, At, Shapes
<1>2. row \in WorkRow /\ row.step = "find" /\ row.copy = work[e].copy
  BY <1>1 DEF WorkRow, Steps
<1>3. /\ told' = told /\ sub' = sub /\ grant' = grant /\ erased' = erased /\ faults' = faults /\ apart' = apart
      /\ answered' \in {answered, answered \cup {e}} /\ lock' \in {lock, e}
      /\ receipts' = receipts \/ receipts' = [receipts EXCEPT ![e] = "received"]
      /\ work' = work \/ work' = [work EXCEPT ![e] = row]
      /\ work' # work => receipts'[e] \in {"received", "failed"}
  BY <1>1 DEF Deliver, Replay, Goto
<1>4. answered' \subseteq Events /\ lock' \in Events \cup {Free}
  BY <1>1, <1>3
<1>5. /\ receipts' \in [Events -> {"new", "received", "processed", "failed"}]
      /\ \A d \in Events \ {e} : receipts'[d] = receipts[d]
      /\ receipts'[e] \in {receipts[e], "received"}
  BY <1>1, <1>3
<1> HIDE DEF row
<1>6. CASE work' = work
  <2>1. work' = [work EXCEPT ![e] = work[e]]
    BY <1>6, <1>1
  <2>2. Row(e)'
    BY <1>1, <1>6 DEF Row
  <2>3. Obliged(e) => Obliged(e)'
    BY <1>1, <1>5, <1>6 DEF Obliged
  <2>4. receipts'[e] = "processed" => Told \/ e # Length
    BY <1>5 DEF Told
  <2> QED
    BY <2>1, <2>2, <2>3, <2>4, <1>1, <1>3, <1>4, <1>5, QuietStep
<1>7. CASE work' # work
  <2>1. work' = [work EXCEPT ![e] = row] /\ work'[e] = row /\ receipts'[e] \in {"received", "failed"}
    BY <1>1, <1>3, <1>7
  <2>2. Row(e)'
    BY <2>1, <1>2, SubAssumption DEF Row, Events
  <2>3. Obliged(e)'
    BY <2>1, <1>2 DEF Obliged
  <2> QED
    BY <2>1, <2>2, <2>3, <1>1, <1>2, <1>3, <1>4, <1>5, QuietStep
<1> QED
  BY <1>6, <1>7

\* An event reads the subscription before it is put.
LEMMA FindStep ==
  ASSUME Shapes, Agreed, NEW e \in Events, Find(e)
  PROVE  Shapes' /\ Agreed'
<1> DEFINE row == [work[e] EXCEPT !.step = IF erased THEN "mark" ELSE "put", !.copy = IF erased THEN NoSub ELSE sub]
<1>1. /\ e \in Handlers /\ work[e] \in WorkRow /\ Row(e) /\ work[e].step = "find" /\ e \notin Actions
      /\ sub \in SubDoc /\ NoSub \in SubDoc
  BY SubAssumption, Remembered, Documents DEF Handlers, Find, At, Shapes, Events
<1>2. /\ row \in WorkRow /\ row.copy \in {NoSub, sub}
      /\ row.step = IF erased THEN "mark" ELSE "put"
  BY <1>1 DEF WorkRow, Steps
<1>3. /\ work' = [work EXCEPT ![e] = row] /\ work'[e] = row
      /\ told' = told /\ sub' = sub /\ grant' = grant /\ erased' = erased /\ faults' = faults /\ apart' = apart
      /\ answered' = answered /\ lock' = lock /\ receipts' = receipts
  BY <1>1 DEF Find, Shapes
<1>4. /\ answered' \subseteq Events /\ lock' \in Events \cup {Free} /\ faults' \in 0..MaxFaults /\ apart' \in BOOLEAN
      /\ receipts' \in [Events -> {"new", "received", "processed", "failed"}]
  BY <1>3 DEF Shapes
<1> HIDE DEF row
<1>5. Row(e)'
  BY <1>1, <1>2, <1>3 DEF Row
<1>6. receipts[e] # "processed"
  BY <1>1 DEF Row
<1>7. ~erased => Obliged(e)'
  BY <1>2, <1>3, <1>6 DEF Obliged
<1> QED
  BY <1>1, <1>2, <1>3, <1>4, <1>5, <1>6, <1>7, QuietStep

\* Who is going to put the entitlement reads it.
LEMMA ReadGrantStep ==
  ASSUME Shapes, Agreed, NEW h \in Handlers, ReadGrant(h)
  PROVE  Shapes' /\ Agreed'
<1> DEFINE row == [work[h] EXCEPT !.grant = grant, !.step = "putgrant"]
<1>1. work[h] \in WorkRow /\ Row(h) /\ work[h].step = "grant" /\ grant \in Grants
  BY Remembered DEF ReadGrant, At, Shapes
<1>2. row \in WorkRow /\ row.copy = work[h].copy /\ row.step = "putgrant"
  BY <1>1 DEF WorkRow, Steps
<1>3. /\ work' = [work EXCEPT ![h] = row] /\ work'[h] = row
      /\ told' = told /\ sub' = sub /\ grant' = grant /\ erased' = erased /\ faults' = faults /\ apart' = apart
      /\ answered' = answered /\ lock' = lock /\ receipts' = receipts
  BY <1>1 DEF ReadGrant, Shapes
<1>4. /\ answered' \subseteq Events /\ lock' \in Events \cup {Free} /\ faults' \in 0..MaxFaults /\ apart' \in BOOLEAN
      /\ receipts' \in [Events -> {"new", "received", "processed", "failed"}]
  BY <1>3 DEF Shapes
<1> HIDE DEF row
<1>5. Row(h)' /\ Obliged(h)'
  BY <1>1, <1>2, <1>3 DEF Row, Obliged
<1>6. h = Length => Told
  BY <1>1 DEF Told
<1> QED
  BY <1>1, <1>2, <1>3, <1>4, <1>5, <1>6, QuietStep

\* A handler that ends, after a fault or not.
LEMMA EndStep ==
  ASSUME Shapes, Agreed, NEW h \in Handlers, NEW row \in {Idle, [Idle EXCEPT !.step = "done"]},
         work' = [work EXCEPT ![h] = row], h \in Events => row = Idle,
         UNCHANGED <<told, sub, grant, erased>>,
         receipts' \in [Events -> {"new", "received", "processed", "failed"}],
         \A e \in Events \ {h} : receipts'[e] = receipts[e],
         answered' \subseteq Events, lock' \in Events \cup {Free},
         faults' \in 0..MaxFaults, apart' \in BOOLEAN, apart => apart',
         h \in Events /\ receipts'[h] = "processed" => work[h].step = "mark",
         ~apart' => h \in Events \/ work[h].step \notin {"grant", "putgrant"}
  PROVE  Shapes' /\ Agreed'
<1>1. row \in WorkRow /\ row.copy = NoSub /\ row.step = IF h \in Events THEN "idle" ELSE row.step
  BY Changes DEF Idle, WorkRow, Steps
<1>2. row.step \in {"idle", "done"}
  BY DEF Idle
<1> HIDE DEF Idle
<1>3. work'[h] = row
  BY DEF Shapes
<1>4. Row(h)'
  BY <1>1, <1>2, <1>3 DEF Row
<1>5. ~apart' => (Obliged(h) => Obliged(h)')
  BY <1>1, <1>3 DEF Obliged
<1>6. h = Length => (receipts'[h] = "processed" => Told)
  BY SubAssumption DEF Told, Events
<1> QED
  BY <1>1, <1>2, <1>4, <1>5, <1>6, QuietStep

\* An event that is processed is past its puts; one that failed has them before it again.
LEMMA MarkStep ==
  ASSUME Shapes, Agreed, NEW e \in Events, Processed(e) \/ Throw(e)
  PROVE  Shapes' /\ Agreed'
<1>1. /\ e \in Handlers /\ e \notin Actions /\ lock \in Events \cup {Free} /\ apart \in BOOLEAN
      /\ answered \subseteq Events /\ faults \in 0..MaxFaults
      /\ receipts \in [Events -> {"new", "received", "processed", "failed"}]
  BY SubAssumption DEF Handlers, Events, Shapes
<1>2. /\ work' = [work EXCEPT ![e] = Idle]
      /\ told' = told /\ sub' = sub /\ grant' = grant /\ erased' = erased /\ apart' = apart
      /\ lock' \in {lock, Free} /\ answered' \in {answered, answered \cup {e}}
  BY DEF Processed, Throw, Rest, Unlock
<1>3. \/ receipts' = [receipts EXCEPT ![e] = "processed"] /\ faults' = faults /\ work[e].step = "mark"
      \/ receipts' = [receipts EXCEPT ![e] = "failed"] /\ faults' = faults + 1 /\ faults < MaxFaults
  BY DEF Processed, Throw, At
<1>4. faults' \in 0..MaxFaults
  BY <1>1, <1>3, SubAssumption
<1>5. /\ receipts' \in [Events -> {"new", "received", "processed", "failed"}]
      /\ \A d \in Events \ {e} : receipts'[d] = receipts[d]
      /\ receipts'[e] = "processed" => work[e].step = "mark"
  BY <1>1, <1>3
<1>6. answered' \subseteq Events /\ lock' \in Events \cup {Free}
  BY <1>1, <1>2
<1> QED
  BY <1>1, <1>2, <1>4, <1>5, <1>6, EndStep

\* An event whose process died is delivered again; an action that died between its puts is counted.
LEMMA DieStep ==
  ASSUME Shapes, Agreed, NEW h \in Handlers, Die(h)
  PROVE  Shapes' /\ Agreed'
<1>1. /\ Row(h) /\ lock \in Events \cup {Free} /\ apart \in BOOLEAN
      /\ answered \subseteq Events /\ faults \in 0..MaxFaults
      /\ receipts \in [Events -> {"new", "received", "processed", "failed"}]
  BY DEF Shapes
<1>2. /\ told' = told /\ sub' = sub /\ grant' = grant /\ erased' = erased
      /\ lock' = lock /\ answered' = answered /\ receipts' = receipts
      /\ faults' = faults + 1 /\ faults < MaxFaults /\ work[h].step \notin {"idle", "done"}
  BY DEF Die
<1>3. faults' \in 0..MaxFaults
  BY <1>1, <1>2, SubAssumption
<1>4. CASE h \in Events
  <2>1. work' = [work EXCEPT ![h] = Idle] /\ apart' = apart
    BY <1>4 DEF Die, Rest
  <2>2. receipts[h] # "processed"
    BY <1>1, <1>2, <1>4 DEF Row
  <2> QED
    BY <1>1, <1>2, <1>3, <1>4, <2>1, <2>2, EndStep
<1>5. CASE h \notin Events
  <2>1. /\ work' = [work EXCEPT ![h] = [Idle EXCEPT !.step = "done"]]
        /\ apart' = (apart \/ work[h].step \in {"grant", "putgrant"})
    BY <1>5 DEF Die, Finish
  <2> QED
    BY <1>1, <1>2, <1>3, <1>5, <2>1, EndStep
<1> QED
  BY <1>4, <1>5

\* An action that puts nothing.
LEMMA ActionStep ==
  ASSUME Shapes, Agreed, NEW a \in Actions,
         \/ \E act \in {"cancel", "renew", "change"} : Ask(a, act)
         \/ CallProvider(a) \/ Answer(a)
  PROVE  Shapes' /\ Agreed'
<1>1. /\ a \in Handlers /\ a \notin Events /\ work[a] \in WorkRow /\ Row(a)
      /\ lock \in Events \cup {Free} /\ apart \in BOOLEAN /\ work \in [Handlers -> WorkRow]
      /\ answered \subseteq Events /\ faults \in 0..MaxFaults /\ sub \in SubDoc
      /\ receipts \in [Events -> {"new", "received", "processed", "failed"}]
  BY SubAssumption, Remembered DEF Handlers, Events, Shapes
<1>2. /\ told' = told /\ sub' = sub /\ grant' = grant /\ erased' = erased /\ apart' = apart
      /\ lock' = lock /\ answered' = answered /\ receipts' = receipts /\ faults' = faults
      /\ a # Length
  BY <1>1, SubAssumption DEF Ask, CallProvider, Answer, Events
<1>3. ASSUME NEW row \in WorkRow, work' = [work EXCEPT ![a] = row], work'[a] = row => Row(a)',
             row.copy \in {sub, work[a].copy}, work[a].step \notin {"grant", "putgrant"}
      PROVE  Shapes' /\ Agreed'
  <2>1. ~Obliged(a)
    BY <1>1, <1>3 DEF Obliged
  <2> QED
    BY <1>1, <1>2, <1>3, <2>1, QuietStep
<1>4. ASSUME NEW act \in {"cancel", "renew", "change"}, Ask(a, act)
      PROVE  Shapes' /\ Agreed'
  <2> DEFINE row == [Idle EXCEPT !.act = act, !.step = "provider", !.copy = sub]
  <2>1. row \in WorkRow /\ row.copy = sub /\ row.step = "provider" /\ row.act # "none"
    BY <1>1, Changes DEF Idle, WorkRow, Steps, Acts
  <2>2. work' = [work EXCEPT ![a] = row] /\ sub # NoSub /\ ~Ended(sub.status) /\ work[a].step = "idle"
    BY <1>4 DEF Ask, At
  <2> HIDE DEF row
  <2>3. work'[a] = row => Row(a)'
    BY <2>1, <2>2, <1>1, <1>2 DEF Row
  <2> QED
    BY <2>1, <2>2, <2>3, <1>3
<1>5. ASSUME CallProvider(a), Goto(a, "put")
      PROVE  Shapes' /\ Agreed'
  <2> DEFINE row == [work[a] EXCEPT !.step = "put"]
  <2>1. row \in WorkRow /\ row.copy = work[a].copy /\ row.step = "put" /\ row.act = work[a].act
    BY <1>1 DEF WorkRow, Steps
  <2>2. work' = [work EXCEPT ![a] = row] /\ work[a].step = "provider"
    BY <1>1, <1>5 DEF CallProvider, Goto, At
  <2> HIDE DEF row
  <2>3. work'[a] = row => Row(a)'
    BY <2>1, <2>2, <1>1 DEF Row
  <2> QED
    BY <2>1, <2>2, <2>3, <1>3
<1>6. ASSUME Finish(a), work[a].step \in {"provider", "mark"}
      PROVE  Shapes' /\ Agreed'
  BY <1>1, <1>2, <1>6, EndStep DEF Finish
<1> QED
  BY <1>4, <1>5, <1>6 DEF CallProvider, Answer, At

----------------------------------------------------------------------------
(* The subscription: the steps that change a document *)

\* A put at "put" or "link" writes the document that is given.
LEMMA PutStep ==
  ASSUME Shapes, Agreed, NEW h \in Handlers, NEW doc \in SubDoc \ {NoSub}, PutSub(h, doc),
         UNCHANGED <<told, grant, receipts, answered, lock, erased, faults>>,
         \/ work[h].step = "link" /\ doc.period = work[h].copy.period /\ doc.status = work[h].copy.status
         \/ /\ work[h].step = "put"
            /\ h \in Events => doc.period = told[h].period /\ (Ended(told[h].status) => Ended(doc.status)),
         ~apart' /\ ~erased => sub.period <= doc.period /\ doc.period <= Last.period,
         sub = work[h].copy /\ Ended(sub.status) => Ended(doc.status) \/ doc.period > sub.period
  PROVE  Shapes' /\ Agreed'
<1> DEFINE row == IF work[h].step = "link" THEN [Idle EXCEPT !.act = work[h].act, !.step = "mark"]
                  ELSE [work[h] EXCEPT !.copy = doc, !.step = "grant"]
<1>1. /\ work[h] \in WorkRow /\ Row(h) /\ sub \in SubDoc /\ apart \in BOOLEAN /\ doc.period \in Nat
      /\ work[h].act \in Acts /\ work[h].copy \in SubDoc
  BY Remembered, Documents DEF Shapes
<1>2. row \in WorkRow
  BY <1>1, Changes DEF WorkRow, Steps, Idle
<1>3. work' = [work EXCEPT ![h] = row]
  BY <1>1 DEF PutSub, Ready, At
<1>4. /\ work[h].step = "link" => row.step = "mark" /\ row.copy = NoSub
      /\ work[h].step = "put" => row.step = "grant" /\ row.copy = doc
  BY <1>1 DEF Idle, WorkRow
<1>5. NoSub.period = 0
  BY DEF NoSub
<1> HIDE DEF row
<1>6. sub' = doc /\ apart' = (apart \/ sub # work[h].copy) /\ work'[h] = row
  BY <1>3 DEF PutSub, Shapes
<1>7. Row(h)'
  BY <1>1, <1>4, <1>6 DEF Row
<1>8. Shapes'
  <2>1. /\ grant' \in Grants /\ receipts' \in [Events -> {"new", "received", "processed", "failed"}]
        /\ answered' \subseteq Events /\ lock' \in Events \cup {Free} /\ erased' \in BOOLEAN /\ faults' \in 0..MaxFaults
    BY DEF Shapes
  <2> QED
    BY <2>1, <1>1, <1>2, <1>3, <1>6, <1>7, ShapesStep
<1>9. ASSUME ~apart', ~erased'
      PROVE  /\ ~apart /\ ~erased
             /\ sub.period <= sub'.period /\ sub'.period <= Last.period /\ row.copy.period <= sub'.period
             /\ Ended(sub.status) => Ended(sub'.status) \/ sub'.period > sub.period
             /\ Told' => Told \/ (sub'.period = Last.period /\ (Ended(Last.status) => Ended(sub'.status)))
             /\ \/ Obliged(h)'
                \/ grant' \in {Access(sub'.status), "revoked"}
                \/ ~Obliged(h) /\ sub'.status = sub.status /\ grant' = grant
  <2>1. ~apart /\ sub = work[h].copy
    BY <1>6, <1>9
  <2>2. row.copy.period <= doc.period
    BY <1>1, <1>4, <1>5
  <2>3. Told' => Told \/ (doc.period = Last.period /\ (Ended(Last.status) => Ended(doc.status)))
    <3>1. CASE h = Length
      <4>1. work[h].step = "link" => Told
        BY <3>1 DEF Told
      <4>2. h \in Events
        BY <3>1, SubAssumption DEF Events
      <4> QED
        BY <3>1, <4>1, <4>2 DEF Last
    <3>2. CASE h # Length
      <4>1. work'[Length] = work[Length]
        BY <3>2, <1>3, SubAssumption DEF Shapes, Events, Handlers
      <4> QED
        BY <4>1 DEF Told
    <3> QED
      BY <3>1, <3>2
  <2>4. CASE work[h].step = "link"
    <3>1. ~Obliged(h) /\ sub'.status = sub.status
      BY <2>1, <2>4, <1>6 DEF Obliged
    <3> QED
      BY <3>1, <2>1, <2>2, <2>3, <1>6, <1>9
  <2>5. CASE work[h].step = "put"
    <3>1. Obliged(h)'
      BY <2>5, <1>4, <1>6 DEF Obliged
    <3> QED
      BY <3>1, <2>1, <2>2, <2>3, <1>6, <1>9
  <2> QED
    BY <2>4, <2>5
<1>10. told' = told /\ sub' \in SubDoc /\ \A e \in Events \ {h} : receipts'[e] = receipts[e]
  BY <1>6
<1>11. Agreed'
  BY <1>2, <1>3, <1>9, <1>10, AgreedStep
<1> QED
  BY <1>8, <1>11

\* What an event finds: the document it read, or the one it makes.
Found(e) == IF work[e].copy = NoSub THEN Created(told[e]) ELSE work[e].copy

Passed(e) == Stale(Found(e), told[e]) \/ StaysEnded(Found(e), told[e])

\* An event is passed over only by a document that was there; an event that is not is of
\* a later period or ends what it finds.
LEMMA Applied ==
  ASSUME Shapes, NEW e \in Events
  PROVE  LET doc == AfterEvent(Found(e), told[e])
         IN  /\ Passed(e) => work[e].copy # NoSub
             /\ Passed(e) => \/ told[e].period < work[e].copy.period
                             \/ ~Ended(told[e].status) /\ told[e].period <= work[e].copy.period
             /\ Passed(e) /\ told[e].period >= work[e].copy.period =>
                  told[e].period = work[e].copy.period /\ ~Ended(told[e].status)
             /\ doc \in SubDoc \ {NoSub} /\ doc.period = told[e].period
             /\ Ended(told[e].status) => Ended(doc.status)
             /\ ~Passed(e) => /\ work[e].copy.period <= doc.period
                              /\ Ended(work[e].copy.status) => Ended(doc.status) \/ doc.period > work[e].copy.period
<1> DEFINE ev == told[e]
           copy == work[e].copy
           doc == AfterEvent(Found(e), ev)
<1>1. ev \in [status : Statuses \ {"none"}, period : Nat] /\ ev.period \in Nat /\ ev.status \in Statuses \ {"none"}
  BY Tales
<1>2. e \in Handlers /\ copy \in SubDoc /\ copy.period \in Nat
  BY Remembered, Documents DEF Handlers
<1>3. Found(e) \in SubDoc \ {NoSub}
  BY <1>1, <1>2, Changes DEF Found
<1>4. doc \in SubDoc \ {NoSub}
  BY <1>1, <1>3, Changes
<1>5. CASE copy = NoSub
  <2>1. Found(e).period = ev.period /\ Found(e).status = ev.status /\ copy.period = 0 /\ copy.status = "none"
    BY <1>5 DEF Found, Created, NoSub
  <2>2. ~Passed(e)
    BY <2>1, <1>1 DEF Passed, Stale, StaysEnded
  <2>3. doc.period = ev.period /\ (Ended(ev.status) => Ended(doc.status))
    <3>1. Found(e) \in [status : Statuses, period : Nat, linked : BOOLEAN]
      BY <1>1, <1>5 DEF Found, Created, NoSub
    <3> QED
      BY <3>1 DEF AfterEvent, LocalCancel, Ended
  <2> QED
    BY <2>1, <2>2, <2>3, <1>1, <1>4 DEF Ended
<1>6. CASE copy # NoSub
  <2>1. Found(e) = copy /\ copy \in [status : Statuses \ {"none"}, period : Nat, linked : BOOLEAN]
    BY <1>2, <1>6 DEF Found, SubDoc
  <2>2. Passed(e) <=> ev.period < copy.period \/ (Ended(copy.status) /\ ~Ended(ev.status) /\ ev.period <= copy.period)
    BY <2>1 DEF Passed, Stale, StaysEnded
  <2>3. doc.period = ev.period /\ (Ended(ev.status) => Ended(doc.status))
    BY <2>1 DEF AfterEvent, LocalCancel, Ended
  <2> HIDE DEF ev, copy, doc
  <2>4. ev.period \in Nat /\ copy.period \in Nat
    BY <1>1, <1>2
  <2>5. ~Passed(e) => copy.period <= doc.period /\ (Ended(copy.status) => Ended(doc.status) \/ doc.period > copy.period)
    BY <2>2, <2>3, <2>4
  <2> QED
    BY <2>2, <2>3, <2>4, <2>5, <1>4, <1>6 DEF ev, copy, doc
<1> QED
  BY <1>5, <1>6

\* An event is put over what it read, or passed over.
LEMMA ApplyStep ==
  ASSUME Shapes, Agreed, NEW e \in Events, ApplyEvent(e)
  PROVE  Shapes' /\ Agreed'
<1> DEFINE doc == AfterEvent(Found(e), told[e])
<1>1. /\ e \in Handlers /\ work[e] \in WorkRow /\ Row(e) /\ work[e].step = "put" /\ e \notin Actions
      /\ sub.period \in Nat /\ work[e].copy.period \in Nat /\ told[e].period \in Nat /\ Last.period \in Nat
      /\ told[e].period <= Last.period
  BY SubAssumption, Remembered, Documents, Tales DEF Handlers, Events, ApplyEvent, At, Shapes
<1>2. UNCHANGED <<told, grant, receipts, answered, lock, erased, faults>>
  BY DEF ApplyEvent
<1>3. IF Passed(e) THEN Goto(e, "grant") /\ UNCHANGED <<sub, apart>> ELSE PutSub(e, doc)
  BY DEF ApplyEvent, Passed, Found
<1>4. ASSUME ~apart, ~erased
      PROVE  work[e].copy.period <= sub.period /\ sub.period <= Last.period
  BY <1>1, <1>4 DEF Agreed, Periods
<1>5. CASE Passed(e)
  <2> DEFINE row == [work[e] EXCEPT !.step = "grant"]
  <2>1. row \in WorkRow /\ row.copy = work[e].copy /\ row.step = "grant"
    BY <1>1 DEF WorkRow, Steps
  <2>2. work' = [work EXCEPT ![e] = row] /\ sub' = sub /\ apart' = apart
    BY <1>1, <1>3, <1>5 DEF Goto
  <2> HIDE DEF row
  <2>3. work[e].copy # NoSub
    BY <1>5, Applied
  <2>4. work'[e] = row => Row(e)' /\ Obliged(e)'
    BY <2>1, <2>3, <1>1, <1>2 DEF Row, Obliged
  <2>5. ~apart /\ ~erased /\ e = Length => sub.period = Last.period /\ ~Ended(Last.status)
    <3> SUFFICES ASSUME ~apart, ~erased, e = Length
                 PROVE  sub.period = Last.period /\ ~Ended(Last.status)
      OBVIOUS
    <3>1. told[e] = Last /\ work[e].copy.period <= Last.period
      BY <1>1, <1>4 DEF Last
    <3>2. Last.period = work[e].copy.period /\ ~Ended(Last.status)
      BY <3>1, <1>1, <1>5, Applied
    <3> QED
      BY <3>2, <1>1, <1>4
  <2>6. /\ receipts' \in [Events -> {"new", "received", "processed", "failed"}]
        /\ answered' \subseteq Events /\ lock' \in Events \cup {Free} /\ faults' \in 0..MaxFaults /\ apart' \in BOOLEAN
    BY <2>2, <1>2 DEF Shapes
  <2> QED
    BY <2>1, <2>2, <2>4, <2>5, <2>6, <1>1, <1>2, QuietStep
<1>6. CASE ~Passed(e)
  <2>1. /\ doc \in SubDoc \ {NoSub} /\ doc.period = told[e].period /\ (Ended(told[e].status) => Ended(doc.status))
        /\ work[e].copy.period <= doc.period
        /\ Ended(work[e].copy.status) => Ended(doc.status) \/ doc.period > work[e].copy.period
    BY <1>6, Applied
  <2>2. PutSub(e, doc)
    BY <1>3, <1>6
  <2> HIDE DEF doc
  <2>3. ~apart' => sub = work[e].copy
    BY <2>2 DEF PutSub
  <2>4. ~apart' => sub.period <= doc.period /\ doc.period <= Last.period
    BY <2>1, <2>3, <1>1
  <2> QED
    BY <2>1, <2>2, <2>4, <1>1, <1>2, PutStep
<1> QED
  BY <1>5, <1>6

\* An action is put over what it read.
LEMMA PutActionStep ==
  ASSUME Shapes, Agreed, NEW a \in Actions, PutAction(a)
  PROVE  Shapes' /\ Agreed'
<1> DEFINE doc == AfterAction(work[a].copy, work[a].act)
<1>1. /\ a \in Handlers /\ a \notin Events /\ Row(a) /\ work[a].step = "put"
      /\ work[a].copy \in SubDoc \ {NoSub} /\ work[a].act \in Acts \ {"none"} /\ ~Ended(work[a].copy.status)
      /\ sub.period \in Nat /\ work[a].copy.period \in Nat
  BY SubAssumption, Remembered, Documents DEF Handlers, Events, PutAction, At, Shapes, Row
<1>2. doc \in SubDoc \ {NoSub} /\ doc.period = work[a].copy.period
  BY <1>1, Changes
<1>3. PutSub(a, doc) /\ UNCHANGED <<told, grant, receipts, answered, lock, erased, faults>>
  BY DEF PutAction
<1> HIDE DEF doc
<1>4. ~apart' => ~apart /\ sub = work[a].copy
  BY <1>3 DEF PutSub
<1>5. ~apart' /\ ~erased => sub.period <= doc.period /\ doc.period <= Last.period
  BY <1>1, <1>2, <1>4 DEF Agreed, Periods
<1> QED
  BY <1>1, <1>2, <1>3, <1>5, PutStep

\* The link to the entitlement changes nothing else.
LEMMA LinkStep ==
  ASSUME Shapes, Agreed, NEW h \in Handlers, Link(h)
  PROVE  Shapes' /\ Agreed'
<1> DEFINE doc == [work[h].copy EXCEPT !.linked = TRUE]
<1>1. /\ Row(h) /\ work[h].step = "link" /\ work[h].copy \in SubDoc /\ work[h].copy # NoSub
      /\ sub.period \in Nat /\ work[h].copy.period \in Nat
  BY Remembered, Documents DEF Link, At, Shapes, Row
<1>2. doc \in SubDoc \ {NoSub} /\ doc.period = work[h].copy.period /\ doc.status = work[h].copy.status
  <2>1. work[h].copy \in [status : Statuses \ {"none"}, period : Nat, linked : BOOLEAN]
    BY <1>1 DEF SubDoc
  <2> QED
    BY <2>1, <1>1, Documents
<1>3. PutSub(h, doc) /\ UNCHANGED <<told, grant, receipts, answered, lock, erased, faults>>
  BY DEF Link
<1> HIDE DEF doc
<1>4. ~apart' => ~apart /\ sub = work[h].copy
  BY <1>3 DEF PutSub
<1>5. ~apart' /\ ~erased => sub.period <= doc.period /\ doc.period <= Last.period
  BY <1>1, <1>2, <1>4 DEF Agreed, Periods
<1> QED
  BY <1>1, <1>2, <1>3, <1>5, PutStep

\* The entitlement that is put gives the access of the subscription that was read.
LEMMA PutGrantStep ==
  ASSUME Shapes, Agreed, NEW h \in Handlers, PutGrant(h)
  PROVE  Shapes' /\ Agreed'
<1>1. /\ work[h] \in WorkRow /\ Row(h) /\ work[h].step = "putgrant" /\ work[h].copy \in SubDoc
      /\ work[h].copy # NoSub /\ work[h].act \in Acts /\ sub \in SubDoc /\ sub.period \in Nat
      /\ work[h].copy.period \in Nat /\ apart \in BOOLEAN
  BY Remembered, Documents DEF PutGrant, At, Shapes, Row
<1>2. /\ told' = told /\ sub' = sub /\ receipts' = receipts /\ answered' = answered /\ lock' = lock
      /\ erased' = erased /\ faults' = faults
      /\ apart' = (apart \/ grant # work[h].grant \/ sub # work[h].copy)
      /\ grant' \in {Access(work[h].copy.status), "revoked"}
  BY DEF PutGrant, Granted
<1>3. PICK row \in WorkRow : /\ work' = [work EXCEPT ![h] = row] /\ row.copy \in {NoSub, work[h].copy}
                             /\ row.step \in {"mark", "link"} /\ (row.step = "link" => row.copy = work[h].copy)
  <2> DEFINE ready == [Idle EXCEPT !.act = work[h].act, !.step = "mark"]
             linking == [work[h] EXCEPT !.step = "link"]
  <2>1. ready \in WorkRow /\ ready.copy = NoSub /\ ready.step = "mark"
    BY <1>1, Changes DEF WorkRow, Steps, Idle
  <2>2. linking \in WorkRow /\ linking.copy = work[h].copy /\ linking.step = "link"
    BY <1>1 DEF WorkRow, Steps
  <2>3. work' = [work EXCEPT ![h] = ready] \/ work' = [work EXCEPT ![h] = linking]
    BY <1>1 DEF PutGrant, Ready, Goto
  <2> HIDE DEF ready, linking
  <2> QED
    BY <2>1, <2>2, <2>3
<1>4. work'[h] = row
  BY <1>3 DEF Shapes
<1>5. Row(h)'
  BY <1>1, <1>2, <1>3, <1>4 DEF Row
<1>6. Shapes'
  <2>1. grant' \in Grants
    BY <1>1, <1>2, Documents DEF Grants
  <2>2. /\ receipts' \in [Events -> {"new", "received", "processed", "failed"}] /\ sub' \in SubDoc
        /\ answered' \subseteq Events /\ lock' \in Events \cup {Free} /\ erased' \in BOOLEAN /\ faults' \in 0..MaxFaults
        /\ apart' \in BOOLEAN
    BY <1>1, <1>2 DEF Shapes
  <2> QED
    BY <2>1, <2>2, <1>2, <1>3, <1>5, ShapesStep
<1>7. ASSUME ~apart', ~erased'
      PROVE  /\ ~apart /\ ~erased
             /\ sub.period <= sub'.period /\ sub'.period <= Last.period /\ row.copy.period <= sub'.period
             /\ Ended(sub.status) => Ended(sub'.status) \/ sub'.period > sub.period
             /\ Told' => Told \/ (sub'.period = Last.period /\ (Ended(Last.status) => Ended(sub'.status)))
             /\ \/ Obliged(h)'
                \/ grant' \in {Access(sub'.status), "revoked"}
                \/ ~Obliged(h) /\ sub'.status = sub.status /\ grant' = grant
  <2>1. ~apart /\ ~erased /\ sub = work[h].copy /\ sub.period <= Last.period
    BY <1>2, <1>7 DEF Agreed, Periods
  <2>2. row.copy.period <= sub.period
    <3>1. NoSub.period = 0
      BY DEF NoSub
    <3> QED
      BY <3>1, <2>1, <1>1, <1>3
  <2>3. Told' => Told
    <3>1. CASE h = Length
      BY <3>1, <1>1 DEF Told
    <3>2. CASE h # Length
      <4>1. work'[Length] = work[Length]
        BY <3>2, <1>3, SubAssumption DEF Shapes, Events, Handlers
      <4> QED
        BY <4>1, <1>2 DEF Told
    <3> QED
      BY <3>1, <3>2
  <2>4. grant' \in {Access(sub'.status), "revoked"}
    BY <2>1, <1>2
  <2>5. sub.period <= sub'.period /\ sub'.period <= Last.period
    BY <2>1, <1>1, <1>2
  <2> QED
    BY <2>1, <2>2, <2>3, <2>4, <2>5, <1>2
<1>8. Agreed'
  BY <1>2, <1>3, <1>6, <1>7, AgreedStep DEF Shapes
<1> QED
  BY <1>6, <1>8

----------------------------------------------------------------------------
(* The subscription: theorems *)

\* In the beginning the last event has still to put the entitlement.
LEMMA Begins ==
  ASSUME SubInit
  PROVE  Shapes /\ Agreed
<1>1. told \in Timelines /\ sub = NoSub /\ grant = "none" /\ lock = Free /\ erased = FALSE /\ apart = FALSE /\ faults = 0
  BY DEF SubInit
<1>2. receipts = [e \in Events |-> "new"] /\ answered = {} /\ work = [h \in Handlers |-> Idle]
  BY DEF SubInit
<1>3. sub \in SubDoc /\ grant \in Grants /\ faults \in 0..MaxFaults
  BY <1>1, SubAssumption, Documents DEF Grants
<1>4. work \in [Handlers -> WorkRow] /\ \A h \in Handlers : work[h] = Idle
  BY <1>2, Changes
<1>5. Idle.step = "idle" /\ Idle.copy = NoSub /\ NoSub.period = 0
  BY DEF Idle, NoSub
<1>6. \A h \in Handlers : Row(h)
  BY <1>4, <1>5 DEF Row
<1>7. Shapes
  BY <1>1, <1>2, <1>3, <1>4, <1>6 DEF Shapes
<1>8. Length \in Events /\ Length \in Handlers /\ Last.period \in Nat
  BY <1>7, SubAssumption, Tales DEF Events, Handlers
<1>9. Obliged(Length) /\ ~Told
  BY <1>2, <1>4, <1>5, <1>8 DEF Obliged, Told
<1>10. Periods
  BY <1>1, <1>4, <1>5, <1>8 DEF Periods
<1> QED
  BY <1>7, <1>8, <1>9, <1>10 DEF Agreed, EndKept, Given

\* Every step preserves the inductive invariants.
LEMMA SubStep ==
  ASSUME Shapes, Agreed, [SubNext]_subVars
  PROVE  Shapes' /\ Agreed'
<1>1. ASSUME SubNext
      PROVE  Shapes' /\ Agreed'
  <2>1. ASSUME NEW e \in Events, Deliver(e) \/ Replay(e) \/ Find(e) \/ ApplyEvent(e) \/ Processed(e) \/ Throw(e)
        PROVE  Shapes' /\ Agreed'
    BY <2>1, DeliverStep, FindStep, ApplyStep, MarkStep
  <2>2. ASSUME NEW a \in Actions,
               \/ \E act \in {"cancel", "renew", "change"} : Ask(a, act)
               \/ CallProvider(a) \/ PutAction(a) \/ Answer(a)
        PROVE  Shapes' /\ Agreed'
    BY <2>2, ActionStep, PutActionStep
  <2>3. ASSUME NEW h \in Handlers, ReadGrant(h) \/ PutGrant(h) \/ Link(h) \/ Die(h)
        PROVE  Shapes' /\ Agreed'
    BY <2>3, ReadGrantStep, PutGrantStep, LinkStep, DieStep
  <2> QED
    BY <1>1, <2>1, <2>2, <2>3, WorldStep DEF SubNext
<1> QED
  BY <1>1, WorldStep

\* The inductive invariants hold.
LEMMA Invariant == SubSpec => [](Shapes /\ Agreed)
BY Begins, SubStep, PTL DEF SubSpec

\* The documents, the receipts and what the handlers remember have the values they should.
THEOREM TypeCorrect == SubSpec => []SubTypeOK
<1>1. Shapes => SubTypeOK
  <2>1. \A d \in SubDoc : d \in Sub
    <3>1. NoSub \in Sub
      BY DEF NoSub, Sub, Statuses
    <3> QED
      BY <3>1 DEF SubDoc, Sub
  <2>2. \A row \in WorkRow : row \in [step : Steps, act : Acts, copy : Sub, grant : Grants]
    BY <2>1 DEF WorkRow
  <2>3. work \in [Handlers -> WorkRow] => work \in [Handlers -> [step : Steps, act : Acts, copy : Sub, grant : Grants]]
    BY <2>2
  <2> QED
    BY <2>1, <2>3 DEF Shapes, SubTypeOK
<1> QED
  BY <1>1, Invariant, PTL

\* However the events arrive, and whichever of their processing died or was replayed,
\* in the end the subscription is in the provider's last period, ended if the provider
\* ended it, and the entitlement gives the access of its status, unless it was revoked
\* (updateSubscriptionFromEvent, updateSubscriptionEntitlement).
THEOREM EventsSettle == SubSpec => []SettledAgrees
<1>1. ASSUME Shapes, Agreed
      PROVE  SettledAgrees
  <2> SUFFICES ASSUME \A h \in Handlers : work[h].step \in {"idle", "done"},
                      \A e \in Events : receipts[e] = "processed", ~apart, ~erased
               PROVE  /\ sub.period = Last.period
                      /\ Ended(Last.status) => Ended(sub.status)
                      /\ grant \in {Access(sub.status), "revoked"}
    BY DEF SettledAgrees, Last
  <2>1. EndKept /\ Given
    BY <1>1 DEF Agreed
  <2>2. Told
    BY SubAssumption DEF Told, Events
  <2>3. \A h \in Handlers : ~Obliged(h)
    BY DEF Obliged
  <2> QED
    BY <2>1, <2>2, <2>3 DEF EndKept, Given
<1> QED
  BY <1>1, Invariant, PTL

\* A put that undoes no other's revives no ended subscription but by a new period, and
\* brings no period back.
LEMMA PutKeeps ==
  ASSUME Shapes, NEW h \in Handlers, (ApplyEvent(h) /\ h \in Events) \/ (PutAction(h) /\ h \in Actions) \/ Link(h), ~apart'
  PROVE  /\ Ended(sub.status) => Ended(sub'.status) \/ sub'.period > sub.period
         /\ sub'.period >= sub.period /\ grant' = grant
<1>1. /\ sub.period \in Nat /\ work[h].copy \in SubDoc /\ work[h].copy.period \in Nat /\ Row(h)
      /\ work[h].act \in Acts
  BY Remembered, Documents DEF Shapes
<1>2. CASE ApplyEvent(h) /\ h \in Events
  <2>1. grant' = grant
    BY <1>2 DEF ApplyEvent
  <2>2. IF Passed(h) THEN sub' = sub ELSE PutSub(h, AfterEvent(Found(h), told[h]))
    BY <1>2 DEF ApplyEvent, Passed, Found
  <2>3. CASE Passed(h)
    BY <2>1, <2>2, <2>3, <1>1
  <2>4. CASE ~Passed(h)
    <3>1. sub' = AfterEvent(Found(h), told[h]) /\ sub = work[h].copy
      BY <2>2, <2>4 DEF PutSub
    <3>2. sub.period <= sub'.period /\ sub'.period \in Nat
          /\ (Ended(sub.status) => Ended(sub'.status) \/ sub'.period > sub.period)
      BY <3>1, <2>4, <1>2, Applied, Documents
    <3> QED
      BY <3>2, <2>1, <1>1
  <2> QED
    BY <2>3, <2>4
<1>3. CASE PutAction(h) /\ h \in Actions
  <2>1. PutSub(h, AfterAction(work[h].copy, work[h].act)) /\ work[h].step = "put" /\ grant' = grant
    BY <1>3 DEF PutAction, At
  <2>2. work[h].copy # NoSub /\ ~Ended(work[h].copy.status) /\ work[h].act # "none"
    BY <2>1, <1>1, <1>3 DEF Row
  <2>3. sub' = AfterAction(work[h].copy, work[h].act) /\ sub = work[h].copy
    BY <2>1 DEF PutSub
  <2>4. sub'.period = sub.period
    BY <2>2, <2>3, <1>1, Changes
  <2> QED
    BY <2>1, <2>2, <2>3, <2>4, <1>1
<1>4. CASE Link(h)
  <2>1. PutSub(h, [work[h].copy EXCEPT !.linked = TRUE]) /\ work[h].step = "link" /\ grant' = grant
    BY <1>4 DEF Link, At
  <2>2. sub' = [sub EXCEPT !.linked = TRUE] /\ sub = work[h].copy /\ sub # NoSub
    BY <2>1, <1>1 DEF PutSub, Row
  <2>3. sub \in [status : Statuses \ {"none"}, period : Nat, linked : BOOLEAN]
    BY <2>2, <1>1 DEF SubDoc
  <2>4. sub'.period = sub.period /\ sub'.status = sub.status
    BY <2>2, <2>3
  <2> QED
    BY <2>1, <2>4, <1>1
<1> QED
  BY <1>2, <1>3, <1>4

\* Without a put that undoes another's, an ended subscription is revived only by a new
\* period, no period comes back, and a revoked entitlement stays revoked
\* (subscriptionEventIsStale, updateSubscriptionFromEvent).
THEOREM NeverRevived == SubSpec => NoRevival
<1>1. ASSUME Shapes, [SubNext]_subVars
      PROVE  [NoRevivalStep]_subVars
  <2> SUFFICES ASSUME SubNext, ~apart'
               PROVE  NoRevivalStep
    BY <1>1 DEF NoRevivalStep
  <2>1. sub.period \in Nat
    BY <1>1, Documents DEF Shapes
  <2>2. CASE \E h \in Handlers : (ApplyEvent(h) /\ h \in Events) \/ (PutAction(h) /\ h \in Actions) \/ Link(h)
    BY <2>2, <1>1, PutKeeps DEF NoRevivalStep
  <2>3. CASE \E h \in Handlers : PutGrant(h)
    <3>1. sub' = sub /\ (grant = "revoked" => grant' = "revoked")
      BY <2>3 DEF PutGrant, Granted
    <3> QED
      BY <3>1, <2>1 DEF NoRevivalStep
  <2>4. CASE sub' = sub /\ grant' \in {grant, "revoked"}
    BY <2>1, <2>4 DEF NoRevivalStep
  <2>5. ASSUME NEW e \in Events, Deliver(e) \/ Replay(e) \/ Find(e) \/ Processed(e) \/ Throw(e)
        PROVE  sub' = sub /\ grant' = grant
    BY <2>5 DEF Deliver, Replay, Find, Processed, Throw
  <2>6. ASSUME NEW a \in Actions,
               (\E act \in {"cancel", "renew", "change"} : Ask(a, act)) \/ CallProvider(a) \/ Answer(a)
        PROVE  sub' = sub /\ grant' = grant
    BY <2>6 DEF Ask, CallProvider, Answer
  <2>7. ASSUME NEW h \in Handlers, ReadGrant(h) \/ Die(h)
        PROVE  sub' = sub /\ grant' = grant
    BY <2>7 DEF ReadGrant, Die
  <2>8. ASSUME ExpireLock \/ Revoke \/ Erase
        PROVE  sub' = sub /\ grant' \in {grant, "revoked"}
    BY <2>8 DEF ExpireLock, Revoke, Erase
  <2>9. CASE \E e \in Events : \/ Deliver(e) \/ Replay(e) \/ Find(e) \/ ApplyEvent(e) \/ Processed(e) \/ Throw(e)
    <3>1. \A e \in Events : e \in Handlers
      BY DEF Handlers
    <3> QED
      BY <2>2, <2>4, <2>5, <2>9, <3>1
  <2>10. CASE \E a \in Actions : \/ \E act \in {"cancel", "renew", "change"} : Ask(a, act)
                                 \/ CallProvider(a) \/ PutAction(a) \/ Answer(a)
    <3>1. \A a \in Actions : a \in Handlers
      BY DEF Handlers
    <3> QED
      BY <2>2, <2>4, <2>6, <2>10, <3>1
  <2>11. CASE \E h \in Handlers : ReadGrant(h) \/ PutGrant(h) \/ Link(h) \/ Die(h)
    BY <2>2, <2>3, <2>4, <2>7, <2>11
  <2> QED
    BY <2>4, <2>8, <2>9, <2>10, <2>11 DEF SubNext
<1>2. SubSpec => []Shapes
  BY Invariant, PTL
<1> QED
  BY <1>1, <1>2, PTL DEF SubSpec, NoRevival
=============================================================================

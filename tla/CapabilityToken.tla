-------------------------- MODULE CapabilityToken --------------------------
(***************************************************************************)
(* The tokens that stand in for a session: links to a download, to sign    *)
(* in, to an account export and to an invoice, of one customer with one    *)
(* order line.  The first three may be used once, an invoice link again    *)
(* and again.  A download link answers two routes: resolve says what it    *)
(* leads to and leaves it, confirm uses it up.  One that was not used is   *)
(* handed out again, by a pointer; a sign-in that throws gives its token   *)
(* back.                                                                   *)
(***************************************************************************)
EXTENDS Integers

CONSTANTS
  Visits,    \* requests
  Tokens,    \* numbers of the tokens that may be made
  MaxThrows  \* bound: calls that throw, processes that die

VARIABLES
  tokens,    \* Tokens -> the record
  pointer,   \* the token that the download pointer names, or 0
  visits,    \* what a request remembers
  shown,     \* the tokens somebody was given
  entitled,  \* whether the entitlement of the line is active
  erasing,   \* how far the deletion of the account is
  uses,      \* history: Tokens -> how often a single-use token was used
  latecomers,  \* history: the requests that presented a token after it was used
  halves,    \* history: Tokens -> how many sign-ins threw when the session was written
  throws     \* history: how many calls threw and processes died

tokenVars == <<tokens, pointer, visits, shown, entitled, erasing, uses, latecomers, halves, throws>>

Purposes == {"download", "magic_link", "export", "invoice"}
SingleUse == {"download", "magic_link", "export"}

\* live: it has not expired.
NoToken == [purpose |-> "none", status |-> "none", live |-> FALSE]
Away == [step |-> "wait", token |-> 0]

TokenInit ==
  /\ tokens = [t \in Tokens |-> NoToken] /\ pointer = 0
  /\ visits = [v \in Visits |-> Away]
  /\ shown = {} /\ entitled = TRUE /\ erasing = "no"
  /\ uses = [t \in Tokens |-> 0] /\ latecomers = {} /\ halves = [t \in Tokens |-> 0]
  /\ throws = 0

At(v, step) == visits[v].step = step
Goto(v, step) == visits' = [visits EXCEPT ![v].step = step]
Leave(v) == visits' = [visits EXCEPT ![v] = [Away EXCEPT !.step = "done"]]

\* The name of a token is never used again.
Unnamed == {t \in Tokens : t \notin shown /\ tokens[t] = NoToken
                           /\ \A v \in Visits : visits[v].token # t}

Minted(purpose) ==
  [purpose |-> purpose, status |-> IF purpose \in SingleUse THEN "pending" ELSE "active", live |-> TRUE]

Mint(t, purpose) ==
  /\ t \in Unnamed /\ \A n \in Unnamed : t <= n
  /\ tokens' = [tokens EXCEPT ![t] = Minted(purpose)]

----------------------------------------------------------------------------
(* Handing out tokens *)

HandOut(v, purpose) ==
  /\ At(v, "wait")
  /\ \E t \in Tokens : Mint(t, purpose) /\ shown' = shown \cup {t}
  /\ Leave(v)
  /\ UNCHANGED <<pointer, entitled, erasing, uses, latecomers, halves, throws>>

RequestMagicLink(v) == HandOut(v, "magic_link")

RequestAccountExport(v) == HandOut(v, "export")

CreateOrderInvoiceToken(v) == HandOut(v, "invoice")

\* createOrderLineDownloadToken: the pointer, then its token.
ReadPointer(v) ==
  /\ At(v, "wait")
  /\ visits' = [visits EXCEPT ![v] = [step |-> IF pointer = 0 THEN "mint" ELSE "reuse", token |-> pointer]]
  /\ UNCHANGED <<tokens, pointer, shown, entitled, erasing, uses, latecomers, halves, throws>>

Usable(t) == tokens[t].status = "pending" /\ tokens[t].live

Reuse(v) ==
  LET t == visits[v].token
  IN  /\ At(v, "reuse")
      /\ IF Usable(t) THEN shown' = shown \cup {t} /\ Leave(v)
         ELSE UNCHANGED shown /\ Goto(v, "mint")
      /\ UNCHANGED <<tokens, pointer, entitled, erasing, uses, latecomers, halves, throws>>

MintDownload(v) ==
  /\ At(v, "mint")
  /\ \E t \in Tokens : /\ Mint(t, "download")
                       /\ visits' = [visits EXCEPT ![v] = [step |-> "point", token |-> t]]
  /\ UNCHANGED <<pointer, shown, entitled, erasing, uses, latecomers, halves, throws>>

Point(v) ==
  /\ At(v, "point")
  /\ pointer' = visits[v].token /\ shown' = shown \cup {visits[v].token}
  /\ Leave(v)
  /\ UNCHANGED <<tokens, entitled, erasing, uses, latecomers, halves, throws>>

----------------------------------------------------------------------------
(* Using them *)

Present(v, t) ==
  /\ At(v, "wait") /\ t \in shown
  /\ visits' = [visits EXCEPT ![v] = [step |-> "read", token |-> t]]
  /\ latecomers' = IF uses[t] > halves[t] THEN latecomers \cup {v} ELSE latecomers
  /\ UNCHANGED <<tokens, pointer, shown, entitled, erasing, uses, halves, throws>>

\* getOrderInvoice; an invoice is not served for an erased order.
Servable(t) == tokens[t].status = "active" /\ tokens[t].live /\ erasing # "done"

GetOrderInvoice(v) ==
  /\ At(v, "read") /\ Servable(visits[v].token)
  /\ Leave(v)
  /\ UNCHANGED <<tokens, pointer, shown, entitled, erasing, uses, latecomers, halves, throws>>

\* downloadTokenError, magicLinkTokenError and accountExportDownloadTokenError.
ReadToken(v) ==
  LET t == visits[v].token
  IN  /\ At(v, "read") /\ ~Servable(t)
      /\ IF Usable(t)
         THEN Goto(v, IF tokens[t].purpose = "download" THEN "check" ELSE "consume")
         ELSE Leave(v)
      /\ UNCHANGED <<tokens, pointer, shown, entitled, erasing, uses, latecomers, halves, throws>>

\* resolveDownload looks at the order and the entitlement.  For download.resolve
\* (consumeToken is false) it answers then, for download.confirm it goes on to use the token.
CheckAccess(v) ==
  /\ At(v, "check")
  /\ IF entitled /\ erasing # "done" THEN Goto(v, "answered") \/ Goto(v, "consume") ELSE Leave(v)
  /\ UNCHANGED <<tokens, pointer, shown, entitled, erasing, uses, latecomers, halves, throws>>

\* Seeded fault: what was read a moment ago is not looked at again.
AlwaysConsumable(t) == tokens[t] # NoToken

Consumable(t) == tokens[t].status = "pending" /\ tokens[t].live

Consume(v) ==
  LET t == visits[v].token
  IN  /\ At(v, "consume")
      /\ IF ~Consumable(t) THEN Leave(v) /\ UNCHANGED <<tokens, uses>>
         ELSE /\ tokens' = [tokens EXCEPT ![t].status = "consumed"]
              /\ IF tokens[t].purpose = "magic_link" THEN Goto(v, "session") /\ UNCHANGED uses
                 ELSE Leave(v) /\ uses' = [uses EXCEPT ![t] = @ + 1]
      /\ UNCHANGED <<pointer, shown, entitled, erasing, latecomers, halves, throws>>

\* verifyMagicLink writes the session key by key: it may throw before or after the key
\* that signs the visitor in.
SignIn(v) ==
  LET t == visits[v].token
  IN  /\ At(v, "session")
      /\ \/ Leave(v) /\ uses' = [uses EXCEPT ![t] = @ + 1] /\ UNCHANGED <<halves, throws>>
         \/ /\ throws < MaxThrows /\ throws' = throws + 1
            /\ Goto(v, "restore")
            /\ \/ UNCHANGED <<uses, halves>>
               \/ uses' = [uses EXCEPT ![t] = @ + 1] /\ halves' = [halves EXCEPT ![t] = @ + 1]
      /\ UNCHANGED <<tokens, pointer, shown, entitled, erasing, latecomers>>

\* restoreToken, which also restores a token that has expired; it may throw as well.
Restore(v) ==
  LET t == visits[v].token
  IN  /\ At(v, "restore")
      /\ tokens' = IF tokens[t].status = "consumed" THEN [tokens EXCEPT ![t].status = "pending"] ELSE tokens
      /\ Leave(v)
      /\ UNCHANGED <<pointer, shown, entitled, erasing, uses, latecomers, halves, throws>>

\* A process dies, or another call throws.
Stop(v) ==
  /\ visits[v].step \notin {"wait", "answered", "done"} /\ throws < MaxThrows
  /\ Leave(v) /\ throws' = throws + 1
  /\ UNCHANGED <<tokens, pointer, shown, entitled, erasing, uses, latecomers, halves>>

----------------------------------------------------------------------------
(* The world *)

Expire(t) ==
  /\ tokens[t].live
  /\ tokens' = [tokens EXCEPT ![t].live = FALSE]
  /\ UNCHANGED <<pointer, visits, shown, entitled, erasing, uses, latecomers, halves, throws>>

\* purgeExpired deletes the records, and the pointer that expires with its token.
Purge ==
  /\ \E t \in Tokens : tokens[t] # NoToken /\ ~tokens[t].live
  /\ tokens' = [t \in Tokens |-> IF tokens[t].live THEN tokens[t] ELSE NoToken]
  /\ pointer' = IF pointer # 0 /\ tokens[pointer].live THEN pointer ELSE 0
  /\ UNCHANGED <<visits, shown, entitled, erasing, uses, latecomers, halves, throws>>

RevokeAccess ==
  /\ entitled /\ entitled' = FALSE
  /\ UNCHANGED <<tokens, pointer, visits, shown, erasing, uses, latecomers, halves, throws>>

\* deleteTokensBySubjectHashes is the first step of the account deletion; its orders
\* come later.
DeleteTokens ==
  /\ erasing = "no" /\ erasing' = "tokens"
  /\ tokens' = [t \in Tokens |-> NoToken] /\ pointer' = 0
  /\ UNCHANGED <<visits, shown, entitled, uses, latecomers, halves, throws>>

EraseOrders ==
  /\ erasing = "tokens" /\ erasing' = "done"
  /\ UNCHANGED <<tokens, pointer, visits, shown, entitled, uses, latecomers, halves, throws>>

TokenNext ==
  \/ \E v \in Visits :
       \/ RequestMagicLink(v) \/ RequestAccountExport(v) \/ CreateOrderInvoiceToken(v)
       \/ ReadPointer(v) \/ Reuse(v) \/ MintDownload(v) \/ Point(v)
       \/ \E t \in Tokens : Present(v, t)
       \/ GetOrderInvoice(v) \/ ReadToken(v) \/ CheckAccess(v) \/ Consume(v) \/ SignIn(v) \/ Restore(v) \/ Stop(v)
  \/ \E t \in Tokens : Expire(t)
  \/ Purge \/ RevokeAccess \/ DeleteTokens \/ EraseOrders

TokenSpec == TokenInit /\ [][TokenNext]_tokenVars

----------------------------------------------------------------------------
(* Properties *)

Token == [purpose : Purposes \cup {"none"}, status : {"none", "pending", "active", "consumed"},
          live : BOOLEAN]

\* The records and what the requests remember have the values they should.
TokenTypeOK ==
  /\ tokens \in [Tokens -> Token] /\ pointer \in Tokens \cup {0}
  /\ visits \in [Visits -> [step : STRING, token : Tokens \cup {0}]]
  /\ shown \subseteq Tokens /\ entitled \in BOOLEAN /\ erasing \in {"no", "tokens", "done"}
  /\ uses \in [Tokens -> Nat] /\ latecomers \subseteq Visits /\ halves \in [Tokens -> Nat] /\ throws \in 0..MaxThrows

\* However many requests present a token at once, it is used once: one sign-in, one export,
\* one confirmed download.  Only a sign-in that throws after the session was written gives
\* its token back used.  download.resolve answers as often as it is asked while the link is
\* not used up, and nobody who comes after that (consumeToken, verifyMagicLink,
\* resolveDownload, downloadAccountExport).
UsedOnce ==
  /\ \A t \in Tokens : uses[t] <= 1 + halves[t]
  /\ \A v \in latecomers : ~At(v, "answered")

=============================================================================

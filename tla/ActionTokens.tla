---------------------------- MODULE ActionTokens -----------------------------
(***************************************************************************)
(* One-time action tokens and the accounts they act on: inviting an admin, *)
(* accepting, revoking and resending an invitation, asking for a password  *)
(* reset and doing it, racing with each other, with registration and with  *)
(* the order flow, which creates the customer's account.                   *)
(*                                                                         *)
(* The database is PostgreSQL at READ COMMITTED.  token, history and       *)
(* account hold committed rows.  Consuming and revoking a token are two    *)
(* steps each, SELECT ... FOR UPDATE and the commit, with the row locked   *)
(* in between; every other step is one statement that commits by itself or *)
(* a transaction nobody else can see into.                                 *)
(***************************************************************************)
EXTENDS Naturals, Sequences

CONSTANTS Requests,     \* HTTP requests; each is handled once
          Tokens,       \* rows auth_action_tokens may ever hold
          Tenants,
          Emails,       \* spellings of e-mail addresses
          Lower,        \* [Emails -> Emails], the lower-case spelling
          Kinds,        \* kinds of requests that arrive
          InitAccounts, \* users tables the system may start with
          InitTokens,   \* token tables it may start with: live tokens, mailed before
          InitTables,   \* which of them go together
          None

Accounts == Tenants \X Emails
Purposes == {"invite", "password_reset"}
Roles    == {"admin", "client"}

\* A password is named by the request that set it, None for one set before.
AccountRow == [live : BOOLEAN, role : Roles, password : Requests \cup {None}]
TokenRow   == [account : Accounts, purpose : Purposes, used : BOOLEAN, revoked : BOOLEAN]

\* Requests name an e-mail, carry a token, or give a token's id.
EmailKinds == {"invite", "forgot", "register", "order"}
RedeemKinds == {"accept", "reset"}
AdminKinds == {"revoke", "resend"}
Body == [kind : Kinds, tenant : Tenants, token : Tokens \cup {None}, named : BOOLEAN]

Grant == [account : Accounts, purpose : Purposes]

IssuedRow(row) == row \in TokenRow /\ ~row.used /\ ~row.revoked

ASSUME TokensAssumption ==
  /\ Kinds \subseteq EmailKinds \cup RedeemKinds \cup AdminKinds
  /\ Lower \in [Emails -> Emails]
  /\ InitAccounts \subseteq [Accounts -> AccountRow \cup {None}]
  /\ InitTokens \subseteq [Tokens -> TokenRow \cup {None}]
  /\ \A table \in InitTokens, t \in Tokens : table[t] # None => IssuedRow(table[t])
  /\ None \notin Requests \cup Tokens \cup TokenRow \cup AccountRow \cup Accounts \cup Body \cup Grant

VARIABLES
  token,     \* auth_action_tokens: committed rows, None when absent
  expired,   \* tokens whose expires_at has passed
  history,   \* auth_action_tokens_history: the actions recorded for each token
  mailed,    \* tokens whose link has reached a mailbox
  account,   \* users: committed rows, None when absent
  lock,      \* token -> the request whose transaction holds its row lock
  pc,        \* where each handler stands
  body,      \* what each request asks for
  subject,   \* the tenant and e-mail each handler is working on
  issued,    \* the token each handler has created
  \* Observers: they guard nothing.
  redeemers, \* the requests that committed the consumption of each token
  stale      \* requests whose token had expired before they arrived

rows      == <<token, expired, history, mailed, account>>
observers == <<redeemers, stale>>
vars == <<token, expired, history, mailed, account, lock, pc, body, subject, issued,
          redeemers, stale>>

CreatedAction(purpose) ==
  IF purpose = "invite" THEN "invite_created" ELSE "password_reset_issued"

Init ==
  /\ account \in InitAccounts
  /\ token \in InitTokens
  /\ <<account, token>> \in InitTables
  /\ expired = {}
  /\ mailed = {t \in Tokens : token[t] # None}
  /\ history = [t \in Tokens |->
       IF token[t] = None THEN << >> ELSE <<CreatedAction(token[t].purpose)>>]
  /\ lock = [t \in Tokens |-> None]
  /\ pc = [r \in Requests |-> "new"]
  /\ body = [r \in Requests |-> None]
  /\ subject = [r \in Requests |-> None]
  /\ issued = [r \in Requests |-> None]
  /\ redeemers = [t \in Tokens |-> {}]
  /\ stale = {}

-----------------------------------------------------------------------------
(* Steps of a handler *)

Goto(r, l) == pc' = [pc EXCEPT ![r] = l]
At(r, l)   == pc[r] = l
Kind(r)    == body[r].kind
Presented(r) == body[r].token
Row(r)     == token[Presented(r)]

Free(t) == lock[t] = None
LocksNothing(r) == UNCHANGED lock
Lock(r) == lock' = [lock EXCEPT ![Presented(r)] = r]

\* COMMIT and ROLLBACK release the row locks of the transaction.
UnlockKept(r) == UNCHANGED lock
Unlock(r) == lock' = [t \in Tokens |-> IF lock[t] = r THEN None ELSE lock[t]]

IsLive(a) == account[a] # None /\ account[a].live

FirstStep(kind) ==
  CASE kind \in {"invite", "register"} -> "check_email"
    [] kind \in {"forgot", "order"}    -> "find_user"
    [] kind \in RedeemKinds            -> "lock_token"
    [] kind = "revoke"                 -> "lock_revoke"
    [] kind = "resend"                 -> "read_token"

\* CreateInvitation lower-cases the address; the other handlers take it as it is.
Spelling(kind, e) == IF kind = "invite" THEN Lower[e] ELSE e

\* A request about an e-mail address.  One that is refused before anything is read,
\* for its form or for the caller's role, changes nothing and is left out.
ReceiveEmail(r) ==
  /\ At(r, "new")
  /\ \E k \in Kinds \cap EmailKinds, n \in Tenants, e \in Emails :
       /\ body' = [body EXCEPT ![r] = [kind |-> k, tenant |-> n, token |-> None, named |-> TRUE]]
       /\ subject' = [subject EXCEPT ![r] = <<n, Spelling(k, e)>>]
       /\ Goto(r, FirstStep(k))
  /\ UNCHANGED <<rows, lock, issued, observers>>

\* A request that carries a token: only who has the mail knows one.  An admin's
\* request gives the id of any token there is.
ReceiveToken(r) ==
  /\ At(r, "new")
  /\ \E k \in Kinds \ EmailKinds, n \in Tenants, t \in Tokens, named \in BOOLEAN :
       /\ token[t] # None
       /\ k \in RedeemKinds => t \in mailed
       /\ k # "accept" => named
       /\ body' = [body EXCEPT ![r] = [kind |-> k, tenant |-> n, token |-> t, named |-> named]]
       /\ stale' = IF t \in expired THEN stale \cup {r} ELSE stale
       /\ Goto(r, FirstStep(k))
  /\ UNCHANGED <<rows, lock, subject, issued, redeemers>>

\* An error, a disconnect or a crash: an open transaction rolls back.
Fail(r) ==
  /\ pc[r] \notin {"new", "ok", "error"}
  /\ Unlock(r)
  /\ Goto(r, "error")
  /\ UNCHANGED <<rows, body, subject, issued, observers>>

-----------------------------------------------------------------------------
(* ConsumeToken: accepting an invitation, resetting a password *)

PurposeOf(kind) == IF kind \in {"forgot", "reset"} THEN "password_reset" ELSE "invite"

\* The WHERE of GetTokenForUpdate, and the scope check of the admin's requests.
InTenant(r) == Row(r).account[1] = body[r].tenant
InScopeOfAnyTenant(r) == Row(r).purpose = PurposeOf(Kind(r))
InScopeOfAnyPurpose(r) == InTenant(r)
InScope(r) == InTenant(r) /\ Row(r).purpose = PurposeOf(Kind(r))

Unspent(r) == ~Row(r).used /\ ~Row(r).revoked
RedeemableEver(r)  == Unspent(r)
RedeemableTwice(r) == ~Row(r).revoked /\ Presented(r) \notin expired
Redeemable(r) == Unspent(r) /\ Presented(r) \notin expired

\* SELECT ... FOR UPDATE finds the row, and it is neither revoked, used nor expired.
LockToken(r) ==
  /\ At(r, "lock_token")
  /\ InScope(r) /\ Free(Presented(r)) /\ Redeemable(r)
  /\ Lock(r)
  /\ Goto(r, "consume")
  /\ UNCHANGED <<rows, body, subject, issued, observers>>

RefuseToken(r) ==
  /\ At(r, "lock_token")
  /\ ~InScope(r) \/ (Free(Presented(r)) /\ ~Redeemable(r))
  /\ Goto(r, "error")
  /\ UNCHANGED <<rows, lock, body, subject, issued, observers>>

\* used_at and, for a reset, its history row are committed before the account
\* is looked at.
Consume(r) ==
  /\ At(r, "consume")
  /\ LET t == Presented(r)
     IN /\ token' = [token EXCEPT ![t].used = TRUE]
        /\ history' = [history EXCEPT ![t] =
             IF Kind(r) = "reset" THEN Append(@, "password_reset_completed") ELSE @]
        /\ subject' = [subject EXCEPT ![r] = token[t].account]
        /\ redeemers' = [redeemers EXCEPT ![t] = @ \cup {r}]
  /\ Unlock(r)
  /\ Goto(r, IF Kind(r) = "reset" THEN "write_password" ELSE "check_email")
  /\ UNCHANGED <<expired, mailed, account, body, issued, stale>>

\* An account closed in the meantime is not written, and nobody is told.
PasswordWritten(r) ==
  IF IsLive(subject[r]) THEN [account EXCEPT ![subject[r]].password = r] ELSE account

WritePassword(r) ==
  /\ At(r, "write_password")
  /\ account' = PasswordWritten(r)
  /\ Goto(r, "ok")
  /\ UNCHANGED <<token, expired, history, mailed, lock, body, subject, issued, observers>>

-----------------------------------------------------------------------------
(* Users *)

AfterCheck(kind) ==
  CASE kind \in {"invite", "resend"} -> "create_token"
    [] kind = "register"             -> "insert_user"
    [] kind = "accept"               -> "find_user"

\* EmailExists asks for a live account; AcceptInvitation then wants a name.
CheckEmail(r) ==
  /\ At(r, "check_email")
  /\ Goto(r, IF IsLive(subject[r]) \/ ~body[r].named THEN "error" ELSE AfterCheck(Kind(r)))
  /\ UNCHANGED <<rows, lock, body, subject, issued, observers>>

\* GetUserByEmail finds live accounts, GetUserByTenantAndEmail closed ones too;
\* both answer "not found" when the query itself fails.
Found(r) ==
  CASE Kind(r) = "forgot" -> {IF IsLive(subject[r]) THEN "create_token" ELSE "ok", "ok"}
    [] Kind(r) = "order"  -> {IF IsLive(subject[r]) THEN "ok" ELSE "insert_user", "insert_user"}
    [] OTHER -> {CASE account[subject[r]] = None -> "insert_user"
                   [] IsLive(subject[r])         -> "error"
                   [] OTHER                      -> "reactivate", "insert_user"}

FindUser(r) ==
  /\ At(r, "find_user")
  /\ \E l \in Found(r) : Goto(r, l)
  /\ UNCHANGED <<rows, lock, body, subject, issued, observers>>

\* The account CreateUser inserts: a customer's has no password.
NewAccountWithToken(r) == [live |-> TRUE, role |-> "admin", password |-> Presented(r)]
NewAccount(r) ==
  [live |-> TRUE,
   role |-> IF Kind(r) = "order" THEN "client" ELSE "admin",
   password |-> IF Kind(r) = "order" THEN None ELSE r]

AfterUser(kind) ==
  CASE kind = "accept"   -> "record"
    [] kind = "register" -> "answer"
    [] kind = "order"    -> "ok"

\* The unique constraint on tenant and e-mail refuses a second row, closed or not.
NoUniqueIndex(r) == TRUE
Vacant(r) == account[subject[r]] = None
InsertUser(r) ==
  /\ At(r, "insert_user") /\ Vacant(r)
  /\ account' = [account EXCEPT ![subject[r]] = NewAccount(r)]
  /\ Goto(r, AfterUser(Kind(r)))
  /\ UNCHANGED <<token, expired, history, mailed, lock, body, subject, issued, observers>>

InsertFailureIgnored(r) == Goto(r, AfterUser(Kind(r)))
InsertRefused(r) == Goto(r, "error")
DuplicateUser(r) ==
  /\ At(r, "insert_user") /\ ~Vacant(r)
  /\ InsertRefused(r)
  /\ UNCHANGED <<rows, lock, body, subject, issued, observers>>

\* ReactivateUser's WHERE: the account must still be closed when it is written.
StillClosed(r) == account[subject[r]] # None /\ ~account[subject[r]].live

ReactivateUser(r) ==
  /\ At(r, "reactivate") /\ StillClosed(r)
  /\ account' = [account EXCEPT ![subject[r]] = NewAccount(r)]
  /\ Goto(r, AfterUser(Kind(r)))
  /\ UNCHANGED <<token, expired, history, mailed, lock, body, subject, issued, observers>>

ReactivateNobody(r) ==
  /\ At(r, "reactivate") /\ ~StillClosed(r)
  /\ Goto(r, "error")
  /\ UNCHANGED <<rows, lock, body, subject, issued, observers>>

\* RecordInvitationAccepted, a statement of its own.
RecordAccepted(r) ==
  /\ At(r, "record")
  /\ history' = [history EXCEPT ![Presented(r)] = Append(@, "invite_accepted")]
  /\ Goto(r, "answer")
  /\ UNCHANGED <<token, expired, mailed, account, lock, body, subject, issued, observers>>

\* The JWT is signed and, for a registration, the tenant renamed.
Answer(r) ==
  /\ At(r, "answer")
  /\ Goto(r, "ok")
  /\ UNCHANGED <<rows, lock, body, subject, issued, observers>>

-----------------------------------------------------------------------------
(* Issuing, revoking and resending *)

\* The sequence of identifiers: each is drawn once.
Unissued  == {t \in Tokens : token[t] = None}
NextToken == CHOOSE t \in Unissued : TRUE

\* The token and its first history row are one transaction.
CreateToken(r) ==
  /\ At(r, "create_token")
  /\ Unissued # {}
  /\ LET t == NextToken IN
       /\ token' = [token EXCEPT ![t] = [account |-> subject[r], purpose |-> PurposeOf(Kind(r)),
                                         used |-> FALSE, revoked |-> FALSE]]
       /\ history' = [history EXCEPT ![t] = <<CreatedAction(PurposeOf(Kind(r)))>>]
       /\ issued' = [issued EXCEPT ![r] = t]
  /\ Goto(r, "send_mail")
  /\ UNCHANGED <<expired, mailed, account, lock, body, subject, observers>>

AnswersAtOnce(r) == "ok"
AfterSend(r) == IF Kind(r) = "resend" THEN "lock_revoke" ELSE "ok"

SendMail(r) ==
  /\ At(r, "send_mail")
  /\ mailed' = mailed \cup {issued[r]}
  /\ Goto(r, AfterSend(r))
  /\ UNCHANGED <<token, expired, history, account, lock, body, subject, issued, observers>>

\* A mail reported as not sent may have left all the same.  ForgotPassword keeps
\* its answer neutral.
SendFails(r) ==
  /\ At(r, "send_mail")
  /\ mailed' \in {mailed, mailed \cup {issued[r]}}
  /\ Goto(r, IF Kind(r) = "forgot" THEN "ok" ELSE "error")
  /\ UNCHANGED <<token, expired, history, account, lock, body, subject, issued, observers>>

\* ResendInvitation reads the old token in a transaction that ends at once.
ReadToken(r) ==
  /\ At(r, "read_token")
  /\ Free(Presented(r))
  /\ IF InScope(r) /\ Unspent(r)
     THEN subject' = [subject EXCEPT ![r] = Row(r).account] /\ Goto(r, "check_email")
     ELSE UNCHANGED subject /\ Goto(r, "error")
  /\ UNCHANGED <<rows, lock, body, issued, observers>>

Revocable(r) == InScope(r) /\ Unspent(r)

LockRevoke(r) ==
  /\ At(r, "lock_revoke")
  /\ Free(Presented(r)) /\ Revocable(r)
  /\ Lock(r)
  /\ Goto(r, "revoke")
  /\ UNCHANGED <<rows, body, subject, issued, observers>>

\* Revoking a used token is an error, revoking twice is not.
RevokesNothing(r) ==
  /\ At(r, "lock_revoke")
  /\ Free(Presented(r)) /\ ~Revocable(r)
  /\ Goto(r, IF InScope(r) /\ ~Row(r).used THEN "ok" ELSE "error")
  /\ UNCHANGED <<rows, lock, body, subject, issued, observers>>

Revoke(r) ==
  /\ At(r, "revoke")
  /\ token' = [token EXCEPT ![Presented(r)].revoked = TRUE]
  /\ history' = [history EXCEPT ![Presented(r)] = Append(@, "invite_revoked")]
  /\ Unlock(r)
  /\ Goto(r, "ok")
  /\ UNCHANGED <<expired, mailed, account, body, subject, issued, observers>>

-----------------------------------------------------------------------------
(* The specification *)

\* A token's expires_at passes.
Expire(t) ==
  /\ token[t] # None /\ t \notin expired
  /\ expired' = expired \cup {t}
  /\ UNCHANGED <<token, history, mailed, account, lock, pc, body, subject, issued, observers>>

\* Accounts are closed by hand in the database; no handler sets deleted_at.
CloseAccount(a) ==
  /\ IsLive(a)
  /\ account' = [account EXCEPT ![a].live = FALSE]
  /\ UNCHANGED <<token, expired, history, mailed, lock, pc, body, subject, issued, observers>>

Handle(r) ==
  \/ LockToken(r) \/ RefuseToken(r) \/ Consume(r) \/ WritePassword(r)
  \/ CheckEmail(r) \/ FindUser(r) \/ InsertUser(r) \/ DuplicateUser(r)
  \/ ReactivateUser(r) \/ ReactivateNobody(r) \/ RecordAccepted(r) \/ Answer(r)
  \/ CreateToken(r) \/ SendMail(r) \/ SendFails(r)
  \/ ReadToken(r) \/ LockRevoke(r) \/ RevokesNothing(r) \/ Revoke(r)

Next ==
  \/ \E r \in Requests : ReceiveEmail(r) \/ ReceiveToken(r) \/ Handle(r) \/ Fail(r)
  \/ \E t \in Tokens : Expire(t)
  \/ \E a \in Accounts : CloseAccount(a)

Spec == Init /\ [][Next]_vars

\* The server goes on with what it has received; a row lock is granted in the
\* order of arrival, so who waits for one gets it.
FairSpec == Spec /\ \A r \in Requests : SF_vars(Handle(r))

-----------------------------------------------------------------------------
(* Correctness *)

PC == {"new", "check_email", "find_user", "lock_token", "consume", "write_password",
       "insert_user", "reactivate", "record", "answer", "create_token", "send_mail",
       "read_token", "lock_revoke", "revoke", "ok", "error"}

HistoryActions == {"invite_created", "invite_revoked", "invite_accepted",
                   "password_reset_issued", "password_reset_completed"}

\* Types of the variables.
TypeOK ==
  /\ token     \in [Tokens -> TokenRow \cup {None}]
  /\ expired   \in SUBSET Tokens
  /\ history   \in [Tokens -> Seq(HistoryActions)]
  /\ mailed    \in SUBSET Tokens
  /\ account   \in [Accounts -> AccountRow \cup {None}]
  /\ lock      \in [Tokens -> Requests \cup {None}]
  /\ pc        \in [Requests -> PC]
  /\ body      \in [Requests -> Body \cup {None}]
  /\ subject   \in [Requests -> Accounts \cup {None}]
  /\ issued    \in [Requests -> Tokens \cup {None}]
  /\ redeemers \in [Tokens -> SUBSET Requests]
  /\ stale     \in SUBSET Requests

\* Two requests with the same token, however they interleave, do not both pass
\* ConsumeToken: the second waits for the row lock and then finds it used.
RedeemedOnce == \A t \in Tokens : \A r, s \in redeemers[t] : r = s

\* A token that was revoked, by its admin or by a resend, is never used, nor the
\* reverse, although both check first and write later.
NeverUsedAndRevoked == \A t \in Tokens : token[t] # None => ~(token[t].used /\ token[t].revoked)

\* A token that had expired when a request arrived is of no use to that request.
ExpiredIsUseless == \A t \in Tokens : redeemers[t] \cap stale = {}

\* The audit trail tells each token's story exactly once and in agreement with its
\* row, although an acceptance is recorded two transactions after the consumption.
Story(t) ==
  LET row == token[t]
  IN CASE row.purpose = "password_reset" /\ ~row.used -> {<<"password_reset_issued">>}
       [] row.purpose = "password_reset" /\ row.used  ->
            {<<"password_reset_issued", "password_reset_completed">>}
       [] row.purpose = "invite" /\ row.revoked -> {<<"invite_created", "invite_revoked">>}
       [] row.purpose = "invite" /\ row.used /\ ~row.revoked ->
            {<<"invite_created">>, <<"invite_created", "invite_accepted">>}
       [] OTHER -> {<<"invite_created">>}
AuditTrail ==
  \A t \in Tokens : IF token[t] = None THEN history[t] = << >> ELSE history[t] \in Story(t)

\* An invitation recorded as accepted has an admin's account to show for it, though
\* somebody else may have registered or ordered under the address in between.
Accepted(t) == token[t] # None /\ history[t] = <<"invite_created", "invite_accepted">>
AcceptedHasAdmin ==
  \A t \in Tokens : Accepted(t) =>
    account[token[t].account] # None /\ account[token[t].account].role = "admin"

\* A resend that succeeded has left exactly one of the two invitations usable.
ResendReplaces ==
  \A r \in Requests : (At(r, "ok") /\ Kind(r) = "resend") =>
    /\ Row(r).revoked /\ ~Row(r).used
    /\ issued[r] \in mailed /\ token[issued[r]].account = Row(r).account

\* A live account is rewritten by nobody but the bearer of a reset token issued for
\* it: no invitation, registration or order takes it over, and its role stays.
LiveAccountsKept ==
  [][\A a \in Accounts : (IsLive(a) /\ account'[a] # account[a]) =>
       \/ account'[a] = [account[a] EXCEPT !.live = FALSE]
       \/ \E r \in Requests, t \in Tokens :
            /\ account'[a] = [account[a] EXCEPT !.password = r]
            /\ r \in redeemers[t]
            /\ token[t].account = a /\ token[t].purpose = "password_reset"]_vars

\* What one tenant's requests do never reaches the tokens or accounts of another,
\* although tokens are found by their id alone (RevokeTokenScoped).
TenantsKeptApart ==
  [][\A r \in Requests : pc'[r] # pc[r] =>
       /\ \A t \in Tokens : (token[t] # None /\ token'[t] # token[t]) =>
            token[t].account[1] = body'[r].tenant
       /\ \A a \in Accounts : account'[a] # account[a] => a[1] = body'[r].tenant]_vars

\* A token is worth at most one effect, on its own account and of its own kind, and
\* only while it is neither used nor revoked: ActionTokens implements TokenLedger.
Owes(r) ==
  \/ Kind(r) = "accept" /\ pc[r] \in {"check_email", "find_user", "insert_user", "reactivate"}
  \/ Kind(r) = "reset" /\ pc[r] = "write_password"
StateOf(row) ==
  IF row = None THEN "absent"
  ELSE IF row.used THEN "used" ELSE IF row.revoked THEN "revoked" ELSE "live"
GrantOf(row) == IF row = None THEN None ELSE [account |-> row.account, purpose |-> row.purpose]

TokenStates == [t \in Tokens |-> StateOf(token[t])]
Grants      == [t \in Tokens |-> GrantOf(token[t])]
Owed        == {Presented(r) : r \in {q \in Requests : pc[q] # "new" /\ Owes(q)}}

Ledger == INSTANCE TokenLedger WITH
            Writers <- Requests,
            InitGrants <- {[t \in Tokens |-> GrantOf(table[t])] : table \in InitTokens},
            state <- TokenStates, grant <- Grants, owed <- Owed
ImplementsLedger == Ledger!Spec

\* Every request received is answered: no transaction leaves its row lock behind.
RequestsFinish == \A r \in Requests : pc[r] # "new" ~> pc[r] \in {"ok", "error"}

-----------------------------------------------------------------------------
(* What the repository says and the code does not do; see the README. *)

\* internal/handlers/auth/password_reset.go:95, "Password reset successfully": a reset
\* that is answered so has written the password, whatever happened to the account.
ResetTakesEffect ==
  [][\A r \in Requests : (At(r, "write_password") /\ pc'[r] = "ok") =>
       account'[subject[r]] # None /\ account'[subject[r]].password = r]_vars

=============================================================================

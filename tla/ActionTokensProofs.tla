-------------------------- MODULE ActionTokensProofs --------------------------
(***************************************************************************)
(* The invariants of ActionTokens hold for any number of requests, tokens, *)
(* tenants and addresses, and ActionTokens implements TokenLedger.         *)
(*                                                                         *)
(* IInv is the inductive invariant.  Two things carry it: between its      *)
(* SELECT ... FOR UPDATE and its commit a request holds its token's lock,  *)
(* and a token that is used or revoked never changes again, so a request   *)
(* that has redeemed one is the only one to write its history.             *)
(***************************************************************************)
EXTENDS ActionTokens, TLAPS

-----------------------------------------------------------------------------
(* The inductive invariant *)

\* The kinds of requests that reach each place of a handler.
KindFits(r) ==
  /\ pc[r] = "check_email" => Kind(r) \in {"invite", "register", "accept", "resend"}
  /\ pc[r] = "find_user" => Kind(r) \in {"forgot", "order", "accept"}
  /\ pc[r] = "insert_user" => Kind(r) \in {"register", "order", "accept"}
  /\ pc[r] \in {"reactivate", "record"} => Kind(r) = "accept"
  /\ pc[r] = "answer" => Kind(r) \in {"accept", "register"}
  /\ pc[r] \in {"lock_token", "consume"} => Kind(r) \in {"accept", "reset"}
  /\ pc[r] = "write_password" => Kind(r) = "reset"
  /\ pc[r] \in {"create_token", "send_mail"} => Kind(r) \in {"invite", "resend", "forgot"}
  /\ pc[r] = "read_token" => Kind(r) = "resend"
  /\ pc[r] \in {"lock_revoke", "revoke"} => Kind(r) \in {"revoke", "resend"}

\* Places at which a handler works on an account.
OnAccount == {"check_email", "find_user", "write_password", "insert_user", "reactivate",
              "record", "create_token"}

\* Places at which an acceptance or a reset has used its token and not yet answered.
HasRedeemed(r) == Owes(r) \/ pc[r] = "record"

HasAdmin(a) == account[a] # None /\ account[a].role = "admin"

\* A request carries an existing token, and works on an account of its own tenant.
BodyAt(r) ==
  /\ body[r] \in Body
  /\ KindFits(r)
  /\ Kind(r) \notin EmailKinds => Presented(r) \in Tokens /\ Row(r) # None
  /\ pc[r] \in OnAccount => subject[r] \in Accounts /\ subject[r][1] = body[r].tenant

\* Only a consumption or a revocation in progress holds a lock, its own token's,
\* which is still unspent.
LockAt(r) ==
  /\ \A t \in Tokens : lock[t] = r => pc[r] \in {"consume", "revoke"} /\ Presented(r) = t
  /\ pc[r] \in {"consume", "revoke"} => lock[Presented(r)] = r /\ InScope(r) /\ Unspent(r)
  /\ pc[r] = "consume" => r \notin stale

\* Who has redeemed a token works on its account, and on nothing else.
RedeemedAt(r) ==
  /\ HasRedeemed(r) =>
       /\ r \in redeemers[Presented(r)] /\ InScope(r) /\ subject[r] = Row(r).account
       /\ Kind(r) = "accept" => history[Presented(r)] = <<"invite_created">>
  /\ pc[r] = "record" => HasAdmin(subject[r])

\* What a resend has done so far.
Replaced(r) ==
  /\ issued[r] \in Tokens /\ token[issued[r]] # None
  /\ token[issued[r]].account = Row(r).account
ResendAt(r) == Kind(r) = "resend" =>
  /\ pc[r] \in {"check_email", "create_token"} => subject[r] = Row(r).account
  /\ pc[r] = "send_mail" => Replaced(r)
  /\ pc[r] \in {"lock_revoke", "revoke", "ok"} => Replaced(r) /\ issued[r] \in mailed
  /\ pc[r] = "ok" => Row(r).revoked /\ ~Row(r).used

RequestAt(r) ==
  /\ pc[r] = "new" => r \notin stale /\ \A t \in Tokens : lock[t] # r /\ r \notin redeemers[t]
  /\ pc[r] # "new" => /\ BodyAt(r) /\ LockAt(r) /\ RedeemedAt(r) /\ ResendAt(r)
                      /\ r \in stale => Presented(r) \in expired
                      /\ pc[r] = "send_mail" => issued[r] \in Tokens

\* The life of a token.
TokenAt(t) ==
  /\ token[t] = None => redeemers[t] = {} /\ history[t] = << >>
  /\ token[t] # None =>
       /\ ~(token[t].used /\ token[t].revoked)
       /\ token[t].revoked => token[t].purpose = "invite"
       /\ token[t].used <=> redeemers[t] # {}
       /\ history[t] \in Story(t)
       /\ Accepted(t) => HasAdmin(token[t].account)
  /\ \A r, s \in redeemers[t] : r = s
  /\ redeemers[t] \cap stale = {}

IInv == TypeOK /\ (\A r \in Requests : RequestAt(r)) /\ (\A t \in Tokens : TokenAt(t))

USE DEF Goto, At

\* None is no request, token, account or record.
LEMMA Distinct ==
  /\ None \notin Requests /\ None \notin Tokens /\ None \notin Accounts
  /\ None \notin TokenRow /\ None \notin AccountRow /\ None \notin Body /\ None \notin Grant
BY TokensAssumption

\* Stories have at most two chapters.
LEMMA SecondAction ==
  ASSUME NEW S, NEW a \in S, NEW b \in S
  PROVE  Append(<<a>>, b) = <<a, b>> /\ <<a>> \in Seq(S) /\ <<a, b>> \in Seq(S)
<1> DEFINE s == Append(<<a>>, b)
<1>1. s \in Seq(S) /\ Len(s) = 2 /\ s[1] = a /\ s[2] = b
  OBVIOUS
<1> HIDE DEF s
<1>2. s = <<s[1], s[2]>>
  BY <1>1
<1> QED
  BY <1>1, <1>2 DEF s

\* The invariant holds in the initial states.
LEMMA InitInv == Init => IInv
<1> SUFFICES ASSUME Init PROVE IInv
  OBVIOUS
<1>1. /\ token \in [Tokens -> TokenRow \cup {None}] /\ account \in [Accounts -> AccountRow \cup {None}]
      /\ \A t \in Tokens : token[t] # None => IssuedRow(token[t])
  BY TokensAssumption DEF Init
<1>2. \A t \in Tokens : token[t] # None => CreatedAction(token[t].purpose) \in HistoryActions
  BY DEF CreatedAction, HistoryActions
<1>3. \A t \in Tokens : history[t] \in Seq(HistoryActions)
  BY <1>2 DEF Init
<1>4. TypeOK
  BY <1>1, <1>3 DEF Init, TypeOK, PC
<1>5. \A r \in Requests : RequestAt(r)
  BY Distinct DEF Init, RequestAt
<1>6. ASSUME NEW t \in Tokens PROVE TokenAt(t)
  <2>1. CASE token[t] = None
    BY <2>1 DEF Init, TokenAt
  <2>2. CASE token[t] # None
    <3>1. /\ token[t].purpose \in Purposes /\ ~token[t].used /\ ~token[t].revoked
          /\ history[t] = <<CreatedAction(token[t].purpose)>> /\ redeemers[t] = {}
      BY <1>1, <2>2 DEF Init, IssuedRow, TokenRow
    <3>2. history[t] \in Story(t)
      BY <3>1 DEF Story, CreatedAction, Purposes
    <3>3. ~Accepted(t)
      BY <3>1 DEF Accepted
    <3> QED
      BY <2>2, <3>1, <3>2, <3>3 DEF TokenAt
  <2> QED
    BY <2>1, <2>2
<1> QED
  BY <1>4, <1>5, <1>6 DEF IInv

-----------------------------------------------------------------------------
(* What a step of one request leaves alone *)

\* A step of r, or of nobody, changes no other request's part, no token another
\* request has locked, no token that is used or revoked, no history of a token
\* somebody else has redeemed; and no account ever goes away or loses its role.
StepOf(r) ==
  /\ \A s \in Requests \ {r} :
       /\ pc'[s] = pc[s] /\ body'[s] = body[s] /\ subject'[s] = subject[s] /\ issued'[s] = issued[s]
       /\ s \in stale' <=> s \in stale
  /\ expired \subseteq expired' /\ mailed \subseteq mailed'
  /\ \A t \in Tokens :
       /\ lock[t] \notin {None, r} => lock'[t] = lock[t]
       /\ lock'[t] \in {lock[t], None, r}
       /\ redeemers'[t] \in {redeemers[t], redeemers[t] \cup {r}}
       /\ token[t] # None =>
            /\ token'[t] # None
            /\ token'[t].account = token[t].account /\ token'[t].purpose = token[t].purpose
            /\ lock[t] \notin {None, r} => token'[t] = token[t]
            /\ token[t].used \/ token[t].revoked => token'[t] = token[t]
            /\ token[t].used /\ r \notin redeemers[t] => history'[t] = history[t]
  /\ \A a \in Accounts : /\ account[a] # None => account'[a] # None
                         /\ HasAdmin(a) => HasAdmin(a)'

\* Every other request keeps its part of the invariant.
LEMMA OthersKept ==
  ASSUME IInv, NEW r, StepOf(r), NEW s \in Requests \ {r}
  PROVE  RequestAt(s)'
<1> DEFINE t == Presented(s)
<1>1. /\ RequestAt(s) /\ pc'[s] = pc[s] /\ body'[s] = body[s] /\ subject'[s] = subject[s]
      /\ issued'[s] = issued[s] /\ (s \in stale' <=> s \in stale)
  BY DEF IInv, StepOf
<1>2. t' = t /\ Kind(s)' = Kind(s)
  BY <1>1 DEF Presented, Kind
<1>3. \A u \in Tokens : lock'[u] = s <=> lock[u] = s
  BY Distinct DEF StepOf
<1>4. CASE pc[s] = "new"
  <2>1. s \notin stale /\ \A u \in Tokens : lock[u] # s /\ s \notin redeemers[u]
    BY <1>1, <1>4 DEF RequestAt
  <2>2. \A u \in Tokens : s \notin redeemers'[u]
    BY <2>1 DEF StepOf
  <2> QED
    BY <1>1, <1>3, <1>4, <2>1, <2>2 DEF RequestAt
<1>5. CASE pc[s] # "new"
  <2>0. BodyAt(s) /\ LockAt(s) /\ RedeemedAt(s) /\ ResendAt(s)
    BY <1>1, <1>5 DEF RequestAt
  <2> HIDE DEF t
  <2>1. BodyAt(s)'
    <3>1. KindFits(s)' = KindFits(s)
      BY <1>1, <1>2 DEF KindFits
    <3>2. t \in Tokens /\ Row(s) # None => Row(s)' # None
      BY <1>2 DEF StepOf, Row, t
    <3> QED
      BY <1>1, <1>2, <2>0, <3>1, <3>2 DEF BodyAt, t
  <2>2. LockAt(s)'
    <3>1. pc[s] \in {"consume", "revoke"} => Kind(s) \notin EmailKinds
      BY <1>5, <2>0 DEF BodyAt, KindFits, EmailKinds, RedeemKinds, AdminKinds
    <3>2. pc[s] \in {"consume", "revoke"} => t \in Tokens /\ Row(s) # None /\ lock[t] = s
      BY <2>0, <3>1 DEF BodyAt, LockAt, t
    <3>3. pc[s] \in {"consume", "revoke"} => Row(s)' = Row(s) /\ lock'[t] = lock[t]
      BY <1>2, <3>2, Distinct DEF StepOf, Row, t
    <3> QED
      BY <1>1, <1>2, <1>3, <2>0, <3>3 DEF LockAt, InScope, InTenant, Unspent, t
  <2>3. RedeemedAt(s)'
    <3>1. HasRedeemed(s)' <=> HasRedeemed(s)
      BY <1>1, <1>2 DEF HasRedeemed, Owes
    <3>2. HasRedeemed(s) => Kind(s) \notin EmailKinds /\ pc[s] \in OnAccount
      BY <2>0 DEF HasRedeemed, Owes, BodyAt, KindFits, EmailKinds, OnAccount
    <3>3. ASSUME HasRedeemed(s)
          PROVE  /\ s \in redeemers'[t] /\ InScope(s)' /\ subject'[s] = Row(s)'.account
                 /\ Kind(s) = "accept" => history'[t] = <<"invite_created">>
      <4>1. /\ t \in Tokens /\ Row(s) # None /\ s \in redeemers[t]
            /\ InScope(s) /\ subject[s] = Row(s).account
        BY <2>0, <3>2, <3>3 DEF BodyAt, RedeemedAt, t
      <4>2. Row(s).used /\ r \notin redeemers[t]
        BY <4>1 DEF IInv, TokenAt, Row, t
      <4>3. Row(s)' = Row(s) /\ history'[t] = history[t] /\ s \in redeemers'[t]
        BY <1>2, <4>1, <4>2 DEF StepOf, Row, t
      <4> QED
        BY <1>1, <1>2, <2>0, <3>3, <4>1, <4>3 DEF RedeemedAt, InScope, InTenant, t
    <3>4. pc[s] = "record" => HasAdmin(subject[s])'
      BY <1>1, <2>0, <3>2 DEF RedeemedAt, BodyAt, StepOf, HasAdmin, OnAccount
    <3> QED
      BY <1>1, <1>2, <3>1, <3>3, <3>4 DEF RedeemedAt, t
  <2>4. ResendAt(s)'
    <3>1. CASE Kind(s) # "resend"
      BY <1>2, <3>1 DEF ResendAt
    <3>2. CASE Kind(s) = "resend"
      <4>1. t \in Tokens /\ Row(s) # None
        BY <2>0, <3>2 DEF BodyAt, EmailKinds, t
      <4>2. Row(s)' # None /\ Row(s)'.account = Row(s).account
        BY <1>2, <4>1 DEF StepOf, Row, t
      <4>3. Replaced(s) => Replaced(s)'
        BY <1>1, <4>2 DEF Replaced, StepOf
      <4>4. pc[s] = "ok" => Row(s)' = Row(s)
        BY <1>2, <2>0, <3>2, <4>1 DEF ResendAt, StepOf, Row, t
      <4> QED
        BY <1>1, <1>2, <2>0, <3>2, <4>2, <4>3, <4>4 DEF ResendAt, StepOf
    <3> QED
      BY <3>1, <3>2
  <2> QED
    BY <1>1, <1>2, <1>5, <2>1, <2>2, <2>3, <2>4 DEF RequestAt, StepOf, t
<1> QED
  BY <1>4, <1>5

\* So a step of r has only r's own part to re-establish.
LEMMA OnlyTheActor ==
  ASSUME IInv, NEW r \in Requests, StepOf(r), TypeOK', RequestAt(r)', \A t \in Tokens : TokenAt(t)'
  PROVE  IInv'
BY OthersKept DEF IInv

\* A token's part depends on its row, its history and who has redeemed it.
LEMMA TokensKept ==
  ASSUME IInv, UNCHANGED <<token, history, redeemers>>,
         \A a \in Accounts : HasAdmin(a) => HasAdmin(a)',
         \A t \in Tokens : redeemers[t] \cap stale' = {}
  PROVE  \A t \in Tokens : TokenAt(t)'
<1> SUFFICES ASSUME NEW t \in Tokens PROVE TokenAt(t)'
  OBVIOUS
<1>1. TokenAt(t) /\ token[t] \in TokenRow \cup {None}
  BY DEF IInv, TypeOK
<1>2. token[t] # None => token[t].account \in Accounts
  BY <1>1 DEF TokenRow
<1>3. Story(t)' = Story(t) /\ Accepted(t)' = Accepted(t)
  BY DEF Story, Accepted
<1> QED
  BY <1>1, <1>2, <1>3 DEF TokenAt

\* A step that only moves the handler on.
Moves(r) ==
  /\ UNCHANGED <<token, expired, history, mailed, account, lock, body, subject, issued, redeemers, stale>>
  /\ \E l \in PC \ {"new"} : pc' = [pc EXCEPT ![r] = l]

LEMMA MovesKeep ==
  ASSUME IInv, NEW r \in Requests, Moves(r), RequestAt(r)'
  PROVE  IInv'
<1>1. StepOf(r)
  BY DEF Moves, StepOf, IInv, TypeOK, HasAdmin
<1>2. TypeOK'
  BY DEF Moves, IInv, TypeOK
<1>3. \A t \in Tokens : TokenAt(t)'
  BY TokensKept DEF Moves, IInv, TokenAt, HasAdmin
<1> QED
  BY <1>1, <1>2, <1>3, OnlyTheActor

-----------------------------------------------------------------------------
(* The steps *)

\* What a request in progress knows of itself.
LEMMA InProgress ==
  ASSUME IInv, NEW r \in Requests, pc[r] # "new"
  PROVE  /\ BodyAt(r) /\ LockAt(r) /\ RedeemedAt(r) /\ ResendAt(r)
         /\ r \in stale => Presented(r) \in expired
         /\ pc[r] = "send_mail" => issued[r] \in Tokens
BY DEF IInv, RequestAt

\* A handler that has done none of its writing yet, or all of it, moves on.
LEMMA Move ==
  ASSUME IInv, NEW r \in Requests, pc[r] \in PC \ {"new", "consume", "revoke"},
         NEW l \in PC \ {"new", "consume", "revoke", "record", "send_mail", "write_password"},
         UNCHANGED <<token, expired, history, mailed, account, lock, body, subject, issued, redeemers, stale>>,
         pc' = [pc EXCEPT ![r] = l],
         KindFits(r)', l \in OnAccount => subject[r] \in Accounts /\ subject[r][1] = body[r].tenant,
         HasRedeemed(r)' => HasRedeemed(r),
         Kind(r) = "resend" =>
           /\ l \in {"check_email", "create_token"} => subject[r] = Row(r).account
           /\ l \in {"lock_revoke", "ok"} => Replaced(r) /\ issued[r] \in mailed
           /\ l = "ok" => Row(r).revoked /\ ~Row(r).used
  PROVE  IInv'
<1>1. pc'[r] = l
  BY DEF IInv, TypeOK
<1>2. BodyAt(r) /\ LockAt(r) /\ RedeemedAt(r) /\ ResendAt(r) /\ (r \in stale => Presented(r) \in expired)
  BY InProgress
<1>3. Kind(r)' = Kind(r) /\ Presented(r)' = Presented(r) /\ Row(r)' = Row(r)
  BY DEF Kind, Presented, Row
<1>4. BodyAt(r)'
  BY <1>1, <1>2, <1>3 DEF BodyAt
<1>5. LockAt(r)'
  BY <1>1, <1>2, <1>3 DEF LockAt
<1>6. RedeemedAt(r)'
  BY <1>1, <1>2, <1>3 DEF RedeemedAt, InScope, InTenant
<1>7. ResendAt(r)'
  BY <1>1, <1>2, <1>3 DEF ResendAt, Replaced
<1>8. RequestAt(r)'
  BY <1>1, <1>2, <1>3, <1>4, <1>5, <1>6, <1>7 DEF RequestAt
<1>9. Moves(r)
  BY DEF Moves
<1> QED
  BY <1>8, <1>9, MovesKeep

LEMMA RefuseTokenStep == ASSUME IInv, NEW r \in Requests, RefuseToken(r) PROVE IInv'
<1>1. pc[r] = "lock_token" /\ pc' = [pc EXCEPT ![r] = "error"] /\ pc'[r] = "error"
  BY DEF RefuseToken, IInv, TypeOK
<1>2. KindFits(r)' /\ ~HasRedeemed(r)'
  BY <1>1 DEF KindFits, HasRedeemed, Owes
<1> QED
  BY <1>1, <1>2, Move DEF RefuseToken, PC, OnAccount, rows, observers

\* The account is looked for before the token is created or the account written.
LEMMA CheckEmailStep == ASSUME IInv, NEW r \in Requests, CheckEmail(r) PROVE IInv'
<1>1. pc[r] = "check_email"
  BY DEF CheckEmail
<1>2. Kind(r) \in {"invite", "register", "accept", "resend"} /\ BodyAt(r) /\ ResendAt(r)
  BY <1>1, InProgress DEF BodyAt, KindFits
<1>3. PICK l : pc' = [pc EXCEPT ![r] = l] /\ l \in {"error", AfterCheck(Kind(r))}
  BY DEF CheckEmail
<1>4. /\ l \in {"error", "create_token", "insert_user", "find_user"} /\ pc'[r] = l
      /\ l = "create_token" => Kind(r) \in {"invite", "resend"}
      /\ l = "insert_user" => Kind(r) = "register"
      /\ l = "find_user" => Kind(r) = "accept"
  BY <1>2, <1>3 DEF AfterCheck, IInv, TypeOK
<1>5. Kind(r)' = Kind(r)
  BY DEF CheckEmail, Kind
<1>6. KindFits(r)' /\ (HasRedeemed(r)' => HasRedeemed(r))
  BY <1>1, <1>4, <1>5 DEF KindFits, HasRedeemed, Owes
<1>7. /\ subject[r] \in Accounts /\ subject[r][1] = body[r].tenant
      /\ Kind(r) = "resend" => subject[r] = Row(r).account
  BY <1>1, <1>2 DEF BodyAt, ResendAt, OnAccount
<1> QED
  BY <1>1, <1>3, <1>4, <1>6, <1>7, Move DEF CheckEmail, PC, rows, observers

LEMMA FindUserStep == ASSUME IInv, NEW r \in Requests, FindUser(r) PROVE IInv'
<1>1. pc[r] = "find_user"
  BY DEF FindUser
<1>2. Kind(r) \in {"forgot", "order", "accept"} /\ BodyAt(r)
  BY <1>1, InProgress DEF BodyAt, KindFits
<1>3. PICK l \in Found(r) : pc' = [pc EXCEPT ![r] = l]
  BY DEF FindUser
<1>4. CASE Kind(r) = "forgot"
  <2>1. l \in {"create_token", "ok"}
    BY <1>3, <1>4 DEF Found
  <2>2. pc'[r] = l /\ Kind(r)' = Kind(r)
    BY <1>3 DEF FindUser, Kind, IInv, TypeOK
  <2>3. KindFits(r)' /\ ~HasRedeemed(r)'
    BY <1>4, <2>1, <2>2 DEF KindFits, HasRedeemed, Owes
  <2> QED
    BY <1>1, <1>2, <1>3, <1>4, <2>1, <2>3, Move DEF FindUser, PC, BodyAt, OnAccount, rows, observers
<1>5. CASE Kind(r) = "order"
  <2>1. l \in {"insert_user", "ok"}
    BY <1>3, <1>5 DEF Found
  <2>2. pc'[r] = l /\ Kind(r)' = Kind(r)
    BY <1>3 DEF FindUser, Kind, IInv, TypeOK
  <2>3. KindFits(r)' /\ ~HasRedeemed(r)'
    BY <1>5, <2>1, <2>2 DEF KindFits, HasRedeemed, Owes
  <2> QED
    BY <1>1, <1>2, <1>3, <1>5, <2>1, <2>3, Move DEF FindUser, PC, BodyAt, OnAccount, rows, observers
<1>6. CASE Kind(r) = "accept"
  <2>1. l \in {"insert_user", "reactivate", "error"}
    BY <1>3, <1>6 DEF Found
  <2>2. pc'[r] = l /\ Kind(r)' = Kind(r)
    BY <1>3 DEF FindUser, Kind, IInv, TypeOK
  <2>3. KindFits(r)' /\ HasRedeemed(r)
    BY <1>1, <1>6, <2>1, <2>2 DEF KindFits, HasRedeemed, Owes
  <2> QED
    BY <1>1, <1>2, <1>3, <1>6, <2>1, <2>3, Move DEF FindUser, PC, BodyAt, OnAccount, rows, observers
<1> QED
  BY <1>2, <1>4, <1>5, <1>6

LEMMA DuplicateUserStep == ASSUME IInv, NEW r \in Requests, DuplicateUser(r) PROVE IInv'
<1>1. pc[r] = "insert_user" /\ pc' = [pc EXCEPT ![r] = "error"] /\ pc'[r] = "error"
  BY DEF DuplicateUser, InsertRefused, IInv, TypeOK
<1>2. KindFits(r)' /\ ~HasRedeemed(r)'
  BY <1>1 DEF KindFits, HasRedeemed, Owes
<1> QED
  BY <1>1, <1>2, Move DEF DuplicateUser, PC, OnAccount, rows, observers

LEMMA ReactivateNobodyStep == ASSUME IInv, NEW r \in Requests, ReactivateNobody(r) PROVE IInv'
<1>1. pc[r] = "reactivate" /\ pc' = [pc EXCEPT ![r] = "error"] /\ pc'[r] = "error"
  BY DEF ReactivateNobody, IInv, TypeOK
<1>2. KindFits(r)' /\ ~HasRedeemed(r)'
  BY <1>1 DEF KindFits, HasRedeemed, Owes
<1> QED
  BY <1>1, <1>2, Move DEF ReactivateNobody, PC, OnAccount, rows, observers

LEMMA AnswerStep == ASSUME IInv, NEW r \in Requests, Answer(r) PROVE IInv'
<1>1. pc[r] = "answer" /\ pc' = [pc EXCEPT ![r] = "ok"] /\ pc'[r] = "ok"
  BY DEF Answer, IInv, TypeOK
<1>2. Kind(r) # "resend"
  BY <1>1, InProgress DEF BodyAt, KindFits
<1>3. KindFits(r)' /\ ~HasRedeemed(r)'
  BY <1>1 DEF KindFits, HasRedeemed, Owes
<1> QED
  BY <1>1, <1>2, <1>3, Move DEF Answer, PC, OnAccount, rows, observers

\* A resend is answered well only when the old invitation is revoked by now.
LEMMA RevokesNothingStep == ASSUME IInv, NEW r \in Requests, RevokesNothing(r) PROVE IInv'
<1>1. pc[r] = "lock_revoke" /\ BodyAt(r) /\ ResendAt(r)
  BY InProgress DEF RevokesNothing
<1>2. PICK l \in {"ok", "error"} : /\ pc' = [pc EXCEPT ![r] = l]
                                   /\ l = "ok" => InScope(r) /\ ~Row(r).used
  BY DEF RevokesNothing
<1>3. l = "ok" => Row(r).revoked
  BY <1>2 DEF RevokesNothing, Revocable, Unspent
<1>4. pc'[r] = l
  BY <1>2 DEF IInv, TypeOK
<1>5. KindFits(r)' /\ ~HasRedeemed(r)'
  BY <1>2, <1>4 DEF KindFits, HasRedeemed, Owes
<1> QED
  BY <1>1, <1>2, <1>3, <1>5, Move DEF RevokesNothing, ResendAt, PC, OnAccount, rows, observers

\* A request that arrives holds nothing and has done nothing.
LEMMA ReceiveEmailStep == ASSUME IInv, NEW r \in Requests, ReceiveEmail(r) PROVE IInv'
<1>1. PICK k \in Kinds \cap EmailKinds, n \in Tenants, e \in Emails :
        /\ body' = [body EXCEPT ![r] = [kind |-> k, tenant |-> n, token |-> None, named |-> TRUE]]
        /\ subject' = [subject EXCEPT ![r] = <<n, Spelling(k, e)>>]
        /\ pc' = [pc EXCEPT ![r] = FirstStep(k)]
  BY DEF ReceiveEmail
<1>2. /\ pc[r] = "new" /\ r \notin stale /\ \A t \in Tokens : lock[t] # r
      /\ UNCHANGED <<token, expired, history, mailed, account, lock, issued, redeemers, stale>>
  BY DEF ReceiveEmail, IInv, RequestAt, rows, observers
<1>3. /\ FirstStep(k) \in {"check_email", "find_user"}
      /\ FirstStep(k) = "check_email" => k \in {"invite", "register"}
      /\ FirstStep(k) = "find_user" => k \in {"forgot", "order"}
  BY DEF FirstStep, EmailKinds, RedeemKinds
<1>4. Spelling(k, e) \in Emails /\ <<n, Spelling(k, e)>> \in Accounts
  BY TokensAssumption DEF Spelling, Accounts
<1>5. StepOf(r)
  BY <1>1, <1>2 DEF StepOf, IInv, TypeOK, HasAdmin
<1>6. [kind |-> k, tenant |-> n, token |-> None, named |-> TRUE] \in Body
  BY DEF Body
<1>7. TypeOK'
  BY <1>1, <1>2, <1>3, <1>4, <1>6 DEF IInv, TypeOK, PC
<1>8. /\ Kind(r)' = k /\ pc'[r] = FirstStep(k) /\ body'[r] \in Body
      /\ subject'[r] \in Accounts /\ subject'[r][1] = body'[r].tenant
  BY <1>1, <1>4, <1>6 DEF Kind, IInv, TypeOK
<1>9. RequestAt(r)'
  <2>1. KindFits(r)'
    BY <1>3, <1>8 DEF KindFits
  <2>2. BodyAt(r)' /\ LockAt(r)' /\ ~HasRedeemed(r)' /\ ResendAt(r)'
    BY <1>2, <1>3, <1>8, <2>1 DEF BodyAt, LockAt, HasRedeemed, Owes, ResendAt, EmailKinds
  <2> QED
    BY <1>2, <1>3, <1>8, <2>2 DEF RequestAt, RedeemedAt, HasRedeemed
<1>10. \A t \in Tokens : TokenAt(t)'
  BY <1>2, TokensKept DEF IInv, TokenAt, HasAdmin
<1> QED
  BY <1>5, <1>7, <1>9, <1>10, OnlyTheActor

LEMMA ReceiveTokenStep == ASSUME IInv, NEW r \in Requests, ReceiveToken(r) PROVE IInv'
<1>1. PICK k \in Kinds \ EmailKinds, n \in Tenants, t \in Tokens, named \in BOOLEAN :
        /\ token[t] # None
        /\ body' = [body EXCEPT ![r] = [kind |-> k, tenant |-> n, token |-> t, named |-> named]]
        /\ stale' = IF t \in expired THEN stale \cup {r} ELSE stale
        /\ pc' = [pc EXCEPT ![r] = FirstStep(k)]
  BY DEF ReceiveToken
<1>2. /\ pc[r] = "new" /\ r \notin stale /\ \A u \in Tokens : lock[u] # r /\ r \notin redeemers[u]
      /\ UNCHANGED <<token, expired, history, mailed, account, lock, subject, issued, redeemers>>
  BY DEF ReceiveToken, IInv, RequestAt, rows
<1>3. k \in RedeemKinds \cup AdminKinds
  BY TokensAssumption
<1>4. FirstStep(k) \in {"lock_token", "lock_revoke", "read_token"}
  BY <1>3 DEF FirstStep, RedeemKinds, AdminKinds
<1>5. StepOf(r)
  BY <1>1, <1>2 DEF StepOf, IInv, TypeOK, HasAdmin
<1>6. [kind |-> k, tenant |-> n, token |-> t, named |-> named] \in Body
  BY DEF Body
<1>7. TypeOK'
  BY <1>1, <1>2, <1>4, <1>6 DEF IInv, TypeOK, PC
<1>8. /\ Kind(r)' = k /\ Presented(r)' = t /\ pc'[r] = FirstStep(k) /\ body'[r] \in Body
      /\ r \in stale' => t \in expired
  BY <1>1, <1>2, <1>6 DEF Kind, Presented, IInv, TypeOK
<1>9. RequestAt(r)'
  <2>1. KindFits(r)'
    BY <1>3, <1>8 DEF KindFits, FirstStep, RedeemKinds, AdminKinds
  <2>2. LockAt(r)' /\ ~HasRedeemed(r)'
    BY <1>2, <1>4, <1>8 DEF LockAt, HasRedeemed, Owes
  <2>3. FirstStep(k) = "lock_revoke" => k = "revoke"
    BY <1>3 DEF FirstStep, RedeemKinds, AdminKinds
  <2>4. ResendAt(r)'
    BY <1>4, <1>8, <2>3 DEF ResendAt
  <2>5. BodyAt(r)'
    BY <1>1, <1>2, <1>4, <1>8, <2>1 DEF BodyAt, Row, OnAccount
  <2> QED
    BY <1>2, <1>4, <1>8, <2>2, <2>4, <2>5 DEF RequestAt, RedeemedAt, HasRedeemed
<1>10. \A u \in Tokens : redeemers[u] \cap stale' = {}
  BY <1>1, <1>2 DEF IInv, TokenAt
<1>11. \A u \in Tokens : TokenAt(u)'
  BY <1>2, <1>10, TokensKept DEF HasAdmin
<1> QED
  BY <1>5, <1>7, <1>9, <1>11, OnlyTheActor

LEMMA FailStep == ASSUME IInv, NEW r \in Requests, Fail(r) PROVE IInv'
<1>1. /\ pc' = [pc EXCEPT ![r] = "error"] /\ pc[r] # "new"
      /\ lock' = [t \in Tokens |-> IF lock[t] = r THEN None ELSE lock[t]]
      /\ UNCHANGED <<token, expired, history, mailed, account, body, subject, issued, redeemers, stale>>
  BY DEF Fail, Unlock, rows, observers
<1>2. StepOf(r)
  BY <1>1 DEF StepOf, IInv, TypeOK, HasAdmin
<1>3. TypeOK'
  BY <1>1 DEF IInv, TypeOK, PC
<1>4. RequestAt(r)'
  <2>1. pc'[r] = "error" /\ BodyAt(r) /\ (r \in stale => Presented(r) \in expired)
    BY <1>1, InProgress DEF IInv, TypeOK
  <2>2. Kind(r)' = Kind(r) /\ Presented(r)' = Presented(r) /\ Row(r)' = Row(r)
    BY <1>1 DEF Kind, Presented, Row
  <2>3. KindFits(r)' /\ ~HasRedeemed(r)' /\ ResendAt(r)'
    BY <2>1 DEF KindFits, HasRedeemed, Owes, ResendAt
  <2>4. BodyAt(r)'
    BY <1>1, <2>1, <2>2, <2>3 DEF BodyAt, OnAccount
  <2>5. LockAt(r)'
    BY <1>1, <2>1, Distinct DEF LockAt
  <2> QED
    BY <1>1, <2>1, <2>2, <2>3, <2>4, <2>5 DEF RequestAt, RedeemedAt, HasRedeemed
<1>5. \A t \in Tokens : TokenAt(t)'
  BY <1>1, TokensKept DEF IInv, TokenAt, HasAdmin
<1> QED
  BY <1>2, <1>3, <1>4, <1>5, OnlyTheActor

\* The two SELECT ... FOR UPDATE: the row is free, unspent and in scope.
Locks(r, kinds, l) ==
  /\ pc[r] # "new" /\ l \in {"consume", "revoke"}
  /\ Free(Presented(r)) /\ InScope(r) /\ Unspent(r)
  /\ Lock(r) /\ pc' = [pc EXCEPT ![r] = l]
  /\ Kind(r) \in kinds /\ kinds \subseteq RedeemKinds \cup AdminKinds
  /\ pc[r] \notin {"consume", "revoke"}
  /\ UNCHANGED <<rows, body, subject, issued, observers>>

LEMMA LockStep ==
  ASSUME IInv, NEW r \in Requests, NEW kinds, NEW l, Locks(r, kinds, l),
         l = "consume" => kinds = {"accept", "reset"} /\ Presented(r) \notin expired,
         l = "revoke" => kinds = {"revoke", "resend"} /\ (Kind(r) = "resend" => Replaced(r) /\ issued[r] \in mailed)
  PROVE  IInv'
<1>1. /\ pc' = [pc EXCEPT ![r] = l] /\ l \in {"consume", "revoke"} /\ pc[r] \notin {"new", "consume", "revoke"}
      /\ lock' = [lock EXCEPT ![Presented(r)] = r] /\ Kind(r) \in kinds
      /\ UNCHANGED <<token, expired, history, mailed, account, body, subject, issued, redeemers, stale>>
  BY DEF Locks, Lock, rows, observers
<1>2. /\ BodyAt(r) /\ LockAt(r) /\ (r \in stale => Presented(r) \in expired)
      /\ Presented(r) \in Tokens /\ Row(r) # None /\ InScope(r) /\ Unspent(r) /\ lock[Presented(r)] = None
  BY InProgress DEF Locks, BodyAt, Free, EmailKinds, RedeemKinds, AdminKinds
<1>3. StepOf(r)
  BY <1>1, <1>2 DEF StepOf, IInv, TypeOK, HasAdmin
<1>4. TypeOK'
  BY <1>1, <1>2 DEF IInv, TypeOK, PC
<1>5. pc'[r] = l /\ Kind(r)' = Kind(r) /\ Presented(r)' = Presented(r) /\ Row(r)' = Row(r)
  BY <1>1 DEF Kind, Presented, Row, IInv, TypeOK
<1>6. RequestAt(r)'
  <2>1. KindFits(r)' /\ ~HasRedeemed(r)'
    BY <1>1, <1>5 DEF KindFits, HasRedeemed, Owes
  <2>2. BodyAt(r)'
    BY <1>1, <1>2, <1>5, <2>1 DEF BodyAt, OnAccount
  <2>3. \A t \in Tokens : lock'[t] = r => t = Presented(r)
    BY <1>1, <1>2 DEF LockAt, IInv, TypeOK
  <2>4. lock'[Presented(r)] = r
    BY <1>1, <1>2 DEF IInv, TypeOK
  <2>5. LockAt(r)'
    BY <1>1, <1>2, <1>5, <2>3, <2>4 DEF LockAt, InScope, InTenant, Unspent
  <2>6. ResendAt(r)'
    BY <1>1, <1>5 DEF ResendAt, Replaced
  <2> QED
    BY <1>1, <1>2, <1>5, <2>1, <2>2, <2>5, <2>6 DEF RequestAt, RedeemedAt, HasRedeemed
<1>7. \A t \in Tokens : TokenAt(t)'
  BY <1>1, TokensKept DEF IInv, TokenAt, HasAdmin
<1> QED
  BY <1>3, <1>4, <1>6, <1>7, OnlyTheActor

LEMMA LockTokenStep == ASSUME IInv, NEW r \in Requests, LockToken(r) PROVE IInv'
<1>1. pc[r] = "lock_token" /\ Kind(r) \in {"accept", "reset"} /\ Presented(r) \notin expired
  BY InProgress DEF LockToken, BodyAt, KindFits, Redeemable
<1>2. Locks(r, {"accept", "reset"}, "consume")
  BY <1>1 DEF LockToken, Locks, Redeemable, RedeemKinds
<1> QED
  BY <1>1, <1>2, LockStep

LEMMA LockRevokeStep == ASSUME IInv, NEW r \in Requests, LockRevoke(r) PROVE IInv'
<1>1. /\ pc[r] = "lock_revoke" /\ Kind(r) \in {"revoke", "resend"}
      /\ Kind(r) = "resend" => Replaced(r) /\ issued[r] \in mailed
  BY InProgress DEF LockRevoke, BodyAt, KindFits, ResendAt
<1>2. Locks(r, {"revoke", "resend"}, "revoke")
  BY <1>1 DEF LockRevoke, Locks, Revocable, AdminKinds
<1> QED
  BY <1>1, <1>2, LockStep

\* The commit of a consumption: the token was locked and unspent, so nobody has
\* redeemed it before and its history is still that of its creation.
LEMMA ConsumeStep == ASSUME IInv, NEW r \in Requests, Consume(r) PROVE IInv'
<1> DEFINE t == Presented(r)
           next == IF Kind(r) = "reset" THEN "write_password" ELSE "check_email"
<1>1. /\ pc[r] = "consume" /\ pc' = [pc EXCEPT ![r] = next]
      /\ token' = [token EXCEPT ![t].used = TRUE]
      /\ history' = [history EXCEPT ![t] =
           IF Kind(r) = "reset" THEN Append(@, "password_reset_completed") ELSE @]
      /\ subject' = [subject EXCEPT ![r] = token[t].account]
      /\ redeemers' = [redeemers EXCEPT ![t] = @ \cup {r}]
      /\ lock' = [u \in Tokens |-> IF lock[u] = r THEN None ELSE lock[u]]
      /\ UNCHANGED <<expired, mailed, account, body, issued, stale>>
  BY DEF Consume, Unlock
<1>2. /\ BodyAt(r) /\ Kind(r) \in {"accept", "reset"} /\ t \in Tokens /\ token[t] # None
      /\ LockAt(r) /\ lock[t] = r /\ r \notin stale /\ InScope(r) /\ ~token[t].used /\ ~token[t].revoked
  BY <1>1, InProgress DEF BodyAt, KindFits, LockAt, EmailKinds, Unspent, Row
<1>3. token[t] \in TokenRow /\ token[t].account \in Accounts /\ TokenAt(t)
  BY <1>2 DEF IInv, TypeOK, TokenRow
<1>4. /\ redeemers[t] = {}
      /\ Kind(r) = "accept" => token[t].purpose = "invite" /\ history[t] = <<"invite_created">>
      /\ Kind(r) = "reset"  => token[t].purpose = "password_reset" /\ history[t] = <<"password_reset_issued">>
  <2>1. /\ Kind(r) = "accept" => token[t].purpose = "invite"
        /\ Kind(r) = "reset" => token[t].purpose = "password_reset"
    BY <1>2 DEF InScope, PurposeOf, Row
  <2>2. history[t] \in Story(t) /\ redeemers[t] = {}
    BY <1>2, <1>3 DEF TokenAt
  <2> QED
    BY <1>2, <2>1, <2>2 DEF Story
<1> DEFINE row == [token[t] EXCEPT !.used = TRUE]
<1>5. /\ row \in TokenRow /\ row.used /\ row.revoked = token[t].revoked
      /\ row.account = token[t].account /\ row.purpose = token[t].purpose
  BY <1>3 DEF TokenRow
<1>6. token' = [token EXCEPT ![t] = row] /\ token'[t] = row
  BY <1>1, <1>2 DEF IInv, TypeOK
<1>7. row # None
  BY <1>5, Distinct
<1>8. /\ redeemers'[t] = {r} /\ \A u \in Tokens \ {t} : redeemers'[u] = redeemers[u]
  BY <1>1, <1>2, <1>4 DEF IInv, TypeOK
<1>9. /\ history'[t] = IF Kind(r) = "reset" THEN <<"password_reset_issued", "password_reset_completed">>
                                            ELSE <<"invite_created">>
      /\ \A u \in Tokens \ {t} : history'[u] = history[u]
  <2>1. /\ history'[t] = IF Kind(r) = "reset" THEN Append(history[t], "password_reset_completed")
                                              ELSE history[t]
        /\ \A u \in Tokens \ {t} : history'[u] = history[u]
    BY <1>1, <1>2 DEF IInv, TypeOK
  <2>2. Append(<<"password_reset_issued">>, "password_reset_completed")
          = <<"password_reset_issued", "password_reset_completed">>
    <3>1. /\ "password_reset_issued" \in HistoryActions
          /\ "password_reset_completed" \in HistoryActions
      BY DEF HistoryActions
    <3> QED
      BY <3>1, SecondAction
  <2> QED
    BY <1>2, <1>4, <2>1, <2>2
<1> HIDE DEF t, next, row
<1>10. StepOf(r)
  <2>1. \A u \in Tokens : lock'[u] = IF lock[u] = r THEN None ELSE lock[u]
    BY <1>1
  <2>2. \A u \in Tokens \ {t} : token'[u] = token[u]
    BY <1>6 DEF IInv, TypeOK
  <2>3. \A s \in Requests \ {r} : pc'[s] = pc[s] /\ subject'[s] = subject[s]
    BY <1>1 DEF IInv, TypeOK
  <2>4. ASSUME NEW u \in Tokens
        PROVE  /\ redeemers'[u] \in {redeemers[u], redeemers[u] \cup {r}}
               /\ token[u] # None =>
                    /\ token'[u] # None
                    /\ token'[u].account = token[u].account /\ token'[u].purpose = token[u].purpose
                    /\ lock[u] \notin {None, r} => token'[u] = token[u]
                    /\ token[u].used \/ token[u].revoked => token'[u] = token[u]
                    /\ token[u].used /\ r \notin redeemers[u] => history'[u] = history[u]
    BY <1>2, <1>4, <1>5, <1>6, <1>7, <1>8, <1>9, <2>2
  <2>5. \A a \in Accounts : HasAdmin(a) => HasAdmin(a)'
    BY <1>1 DEF HasAdmin
  <2> QED
    BY <1>1, <2>1, <2>3, <2>4, <2>5 DEF StepOf
<1>11. TypeOK'
  <2>1. next \in PC
    BY DEF next, PC
  <2>2. \A u \in Tokens : history'[u] \in Seq(HistoryActions)
    <3>1. /\ <<"password_reset_issued", "password_reset_completed">> \in Seq(HistoryActions)
          /\ <<"invite_created">> \in Seq(HistoryActions)
      BY DEF HistoryActions
    <3> QED
      BY <1>9, <3>1 DEF IInv, TypeOK
  <2>3. history' \in [Tokens -> Seq(HistoryActions)]
    BY <1>1, <2>2 DEF IInv, TypeOK
  <2> QED
    BY <1>1, <1>2, <1>3, <1>5, <1>6, <2>1, <2>3 DEF IInv, TypeOK
<1>12. RequestAt(r)'
  <2>1. /\ pc'[r] = next /\ Kind(r)' = Kind(r) /\ Presented(r)' = t /\ Row(r)' = row
        /\ subject'[r] = row.account /\ subject'[r] \in Accounts
    BY <1>1, <1>3, <1>5, <1>6 DEF Kind, Presented, Row, IInv, TypeOK, t
  <2>2. KindFits(r)'
    BY <1>2, <2>1 DEF KindFits, next
  <2>3. BodyAt(r)'
    <3>1. subject'[r][1] = body'[r].tenant
      BY <1>1, <1>2, <1>5, <2>1 DEF InScope, InTenant, Row, t
    <3> QED
      BY <1>1, <1>2, <1>7, <2>1, <2>2, <3>1 DEF BodyAt
  <2>4. LockAt(r)'
    BY <1>1, <2>1, Distinct DEF LockAt, next
  <2>5. InScope(r)'
    BY <1>1, <1>2, <1>5, <2>1 DEF InScope, InTenant, Row, t
  <2>6. RedeemedAt(r)'
    BY <1>8, <1>9, <2>1, <2>5 DEF RedeemedAt, next
  <2>7. ResendAt(r)'
    BY <1>2, <2>1 DEF ResendAt
  <2> QED
    BY <1>1, <1>2, <2>1, <2>3, <2>4, <2>6, <2>7 DEF RequestAt, next
<1>13. ASSUME NEW u \in Tokens PROVE TokenAt(u)'
  <2>1. CASE u # t
    BY <1>1, <1>6, <1>8, <1>9, <2>1 DEF IInv, TypeOK, TokenAt, Story, Accepted, HasAdmin
  <2>2. CASE u = t
    <3>1. history'[u] \in Story(u)'
      BY <1>2, <1>4, <1>5, <1>6, <1>9, <2>2 DEF Story
    <3>2. ~Accepted(u)'
      BY <1>9, <2>2 DEF Accepted
    <3>3. token'[u] # None /\ ~token'[u].revoked /\ token'[u].used
      BY <1>2, <1>5, <1>6, <1>7, <2>2
    <3>4. redeemers'[u] = {r} /\ r \notin stale'
      BY <1>1, <1>2, <1>8, <2>2
    <3> QED
      BY <3>1, <3>2, <3>3, <3>4 DEF TokenAt
  <2> QED
    BY <2>1, <2>2
<1> QED
  BY <1>10, <1>11, <1>12, <1>13, OnlyTheActor

\* A step that writes the users table: no account goes away or loses its role.
LEMMA AccountStep ==
  ASSUME IInv, NEW r \in Requests, pc[r] \in PC \ {"new", "consume", "revoke"},
         NEW l \in {"ok", "record", "answer"},
         UNCHANGED <<token, expired, history, mailed, lock, body, subject, issued, redeemers, stale>>,
         pc' = [pc EXCEPT ![r] = l],
         account' \in [Accounts -> AccountRow \cup {None}],
         \A a \in Accounts : /\ account[a] # None => account'[a] # None
                             /\ HasAdmin(a) => HasAdmin(a)',
         KindFits(r)', Kind(r) # "resend",
         l = "record" => HasRedeemed(r) /\ pc[r] \in OnAccount /\ HasAdmin(subject[r])'
  PROVE  IInv'
<1>1. StepOf(r)
  BY DEF StepOf, IInv, TypeOK
<1>2. TypeOK'
  BY DEF IInv, TypeOK, PC
<1>3. RequestAt(r)'
  <2>1. BodyAt(r) /\ LockAt(r) /\ RedeemedAt(r) /\ (r \in stale => Presented(r) \in expired)
    BY InProgress
  <2>2. pc'[r] = l /\ Kind(r)' = Kind(r) /\ Presented(r)' = Presented(r) /\ Row(r)' = Row(r)
    BY DEF Kind, Presented, Row, IInv, TypeOK
  <2>3. BodyAt(r)' /\ LockAt(r)' /\ ResendAt(r)'
    BY <2>1, <2>2 DEF BodyAt, LockAt, ResendAt, OnAccount
  <2>4. HasRedeemed(r)' => l = "record"
    BY <2>2 DEF HasRedeemed, Owes
  <2>5. RedeemedAt(r)'
    BY <2>1, <2>2, <2>4 DEF RedeemedAt, InScope, InTenant
  <2> QED
    BY <2>1, <2>2, <2>3, <2>5 DEF RequestAt
<1>4. \A t \in Tokens : TokenAt(t)'
  BY TokensKept DEF IInv, TokenAt
<1> QED
  BY <1>1, <1>2, <1>3, <1>4, OnlyTheActor

LEMMA WritePasswordStep == ASSUME IInv, NEW r \in Requests, WritePassword(r) PROVE IInv'
<1>1. /\ pc[r] = "write_password" /\ pc' = [pc EXCEPT ![r] = "ok"]
      /\ UNCHANGED <<token, expired, history, mailed, lock, body, subject, issued, redeemers, stale>>
  BY DEF WritePassword, observers
<1>2. Kind(r) = "reset" /\ subject[r] \in Accounts
  BY <1>1, InProgress DEF BodyAt, KindFits, OnAccount
<1>3. CASE ~IsLive(subject[r])
  <2>1. account' = account
    BY <1>3 DEF WritePassword, PasswordWritten
  <2>2. KindFits(r)'
    BY <1>1 DEF KindFits, IInv, TypeOK
  <2> QED
    BY <1>1, <1>2, <2>1, <2>2, AccountStep DEF IInv, TypeOK, PC, HasAdmin
<1>4. CASE IsLive(subject[r])
  <2> DEFINE row == [account[subject[r]] EXCEPT !.password = r]
  <2>1. account' = [account EXCEPT ![subject[r]] = row]
    BY <1>2, <1>4 DEF WritePassword, PasswordWritten, IInv, TypeOK
  <2>2. row \in AccountRow /\ row.role = account[subject[r]].role
    <3>1. account[subject[r]] \in AccountRow
      BY <1>2, <1>4 DEF IsLive, IInv, TypeOK
    <3> QED
      BY <3>1 DEF AccountRow
  <2> HIDE DEF row
  <2>3. account' \in [Accounts -> AccountRow \cup {None}]
    BY <1>2, <2>1, <2>2 DEF IInv, TypeOK
  <2>4. \A a \in Accounts : /\ account[a] # None => account'[a] # None
                            /\ HasAdmin(a) => HasAdmin(a)'
    <3>1. ASSUME NEW a \in Accounts PROVE account'[a] = IF a = subject[r] THEN row ELSE account[a]
      BY <1>2, <2>1 DEF IInv, TypeOK
    <3>2. row # None
      BY <2>2, Distinct
    <3> QED
      BY <2>2, <3>1, <3>2 DEF HasAdmin
  <2>5. KindFits(r)'
    BY <1>1 DEF KindFits, IInv, TypeOK
  <2> QED
    BY <1>1, <1>2, <2>3, <2>4, <2>5, AccountStep DEF PC
<1> QED
  BY <1>3, <1>4

\* Inserting where there is no row, or reopening a closed account: an acceptance
\* leaves an admin's account behind.
LEMMA OpenStep ==
  ASSUME IInv, NEW r \in Requests, pc[r] \in {"insert_user", "reactivate"},
         pc[r] = "insert_user" => account[subject[r]] = None,
         account' = [account EXCEPT ![subject[r]] = NewAccount(r)],
         pc' = [pc EXCEPT ![r] = AfterUser(Kind(r))],
         UNCHANGED <<token, expired, history, mailed, lock, body, subject, issued, redeemers, stale>>
  PROVE  IInv'
<1>1. /\ Kind(r) \in {"register", "order", "accept"} /\ subject[r] \in Accounts
      /\ pc[r] = "reactivate" => Kind(r) = "accept"
  BY InProgress DEF BodyAt, KindFits, OnAccount
<1>2. /\ NewAccount(r) \in AccountRow
      /\ Kind(r) = "accept" => NewAccount(r).role = "admin"
  BY DEF NewAccount, AccountRow, Roles
<1>3. account'[subject[r]] = NewAccount(r) /\ account' \in [Accounts -> AccountRow \cup {None}]
  BY <1>1, <1>2 DEF IInv, TypeOK
<1>4. \A a \in Accounts : /\ account[a] # None => account'[a] # None
                          /\ HasAdmin(a) => HasAdmin(a)'
  BY <1>1, <1>2, Distinct DEF HasAdmin, IInv, TypeOK
<1>5. /\ AfterUser(Kind(r)) \in {"ok", "record", "answer"}
      /\ AfterUser(Kind(r)) = "record" => Kind(r) = "accept"
      /\ AfterUser(Kind(r)) = "answer" => Kind(r) = "register"
  BY <1>1 DEF AfterUser
<1>6. KindFits(r)'
  BY <1>5 DEF KindFits, Kind, IInv, TypeOK
<1>7. AfterUser(Kind(r)) = "record" => HasRedeemed(r) /\ pc[r] \in OnAccount /\ HasAdmin(subject[r])'
  BY <1>2, <1>3, <1>5, Distinct DEF HasRedeemed, Owes, HasAdmin, OnAccount
<1> QED
  BY <1>1, <1>3, <1>4, <1>5, <1>6, <1>7, AccountStep DEF PC

LEMMA InsertUserStep == ASSUME IInv, NEW r \in Requests, InsertUser(r) PROVE IInv'
BY OpenStep DEF InsertUser, Vacant, observers

LEMMA ReactivateUserStep == ASSUME IInv, NEW r \in Requests, ReactivateUser(r) PROVE IInv'
BY OpenStep DEF ReactivateUser, observers

-----------------------------------------------------------------------------
(* Histories, new tokens and mails *)

\* Only the request that has redeemed the token adds its acceptance.
LEMMA RecordAcceptedStep == ASSUME IInv, NEW r \in Requests, RecordAccepted(r) PROVE IInv'
<1> DEFINE t == Presented(r)
<1>1. /\ pc[r] = "record" /\ pc' = [pc EXCEPT ![r] = "answer"]
      /\ history' = [history EXCEPT ![t] = Append(@, "invite_accepted")]
      /\ UNCHANGED <<token, expired, mailed, account, lock, body, subject, issued, redeemers, stale>>
  BY DEF RecordAccepted, observers
<1>2. /\ BodyAt(r) /\ LockAt(r) /\ Kind(r) = "accept" /\ t \in Tokens /\ token[t] # None
      /\ r \in redeemers[t] /\ InScope(r) /\ subject[r] = token[t].account
      /\ history[t] = <<"invite_created">> /\ HasAdmin(subject[r])
      /\ r \in stale => t \in expired
  BY <1>1, InProgress DEF BodyAt, KindFits, EmailKinds, RedeemedAt, HasRedeemed, Row
<1>3. /\ TokenAt(t) /\ token[t].used /\ ~token[t].revoked /\ token[t].purpose = "invite"
  BY <1>2 DEF IInv, TokenAt, InScope, PurposeOf, Row
<1>4. /\ history'[t] = <<"invite_created", "invite_accepted">>
      /\ \A u \in Tokens \ {t} : history'[u] = history[u]
      /\ history' \in [Tokens -> Seq(HistoryActions)]
  <2>1. "invite_created" \in HistoryActions /\ "invite_accepted" \in HistoryActions
    BY DEF HistoryActions
  <2>2. /\ Append(history[t], "invite_accepted") = <<"invite_created", "invite_accepted">>
        /\ <<"invite_created", "invite_accepted">> \in Seq(HistoryActions)
    BY <1>2, <2>1, SecondAction
  <2> QED
    BY <1>1, <1>2, <2>2 DEF IInv, TypeOK
<1> HIDE DEF t
<1>5. StepOf(r)
  <2>1. \A u \in Tokens : r \notin redeemers[u] => history'[u] = history[u]
    BY <1>2, <1>4
  <2> QED
    BY <1>1, <2>1 DEF StepOf, IInv, TypeOK, HasAdmin
<1>6. TypeOK'
  BY <1>1, <1>4 DEF IInv, TypeOK, PC
<1>7. RequestAt(r)'
  <2>1. pc'[r] = "answer" /\ Kind(r)' = Kind(r) /\ Presented(r)' = t
    BY <1>1 DEF Kind, Presented, IInv, TypeOK, t
  <2>2. KindFits(r)' /\ ~HasRedeemed(r)' /\ ResendAt(r)'
    BY <1>2, <2>1 DEF KindFits, HasRedeemed, Owes, ResendAt
  <2>3. BodyAt(r)' /\ LockAt(r)'
    BY <1>1, <1>2, <2>1, <2>2 DEF BodyAt, LockAt, OnAccount, Row, t
  <2> QED
    BY <1>1, <1>2, <2>1, <2>2, <2>3 DEF RequestAt, RedeemedAt, HasRedeemed
<1>8. ASSUME NEW u \in Tokens PROVE TokenAt(u)'
  <2>1. CASE u # t
    BY <1>1, <1>4, <2>1 DEF IInv, TypeOK, TokenAt, Story, Accepted, HasAdmin
  <2>2. CASE u = t
    <3>1. history'[u] \in Story(u)'
      BY <1>1, <1>2, <1>3, <1>4, <2>2 DEF Story
    <3>2. HasAdmin(token[u].account)'
      BY <1>1, <1>2, <2>2 DEF HasAdmin
    <3> QED
      BY <1>1, <1>2, <1>3, <2>2, <3>1, <3>2 DEF TokenAt
  <2> QED
    BY <2>1, <2>2
<1> QED
  BY <1>5, <1>6, <1>7, <1>8, OnlyTheActor

\* The next identifier was not drawn before.
LEMMA NextIsUnissued ==
  ASSUME Unissued # {}
  PROVE  NextToken \in Tokens /\ token[NextToken] = None
BY DEF NextToken, Unissued

\* A token is created under an identifier that was free, so it is not the one the
\* request itself presented.
LEMMA CreateTokenStep == ASSUME IInv, NEW r \in Requests, CreateToken(r) PROVE IInv'
<1> DEFINE row == [account |-> subject[r], purpose |-> PurposeOf(Kind(r)),
                   used |-> FALSE, revoked |-> FALSE]
           story == <<CreatedAction(PurposeOf(Kind(r)))>>
<1>1. PICK t \in Tokens : /\ token[t] = None
                          /\ token' = [token EXCEPT ![t] = row]
                          /\ history' = [history EXCEPT ![t] = story]
                          /\ issued' = [issued EXCEPT ![r] = t]
  BY NextIsUnissued DEF CreateToken
<1>2. /\ pc[r] = "create_token" /\ pc' = [pc EXCEPT ![r] = "send_mail"]
      /\ UNCHANGED <<expired, mailed, account, lock, body, subject, redeemers, stale>>
  BY DEF CreateToken, observers
<1>3. /\ BodyAt(r) /\ LockAt(r) /\ Kind(r) \in {"invite", "resend", "forgot"} /\ subject[r] \in Accounts
      /\ Kind(r) = "resend" => subject[r] = Row(r).account
      /\ r \in stale => Presented(r) \in expired
  BY <1>2, InProgress DEF BodyAt, KindFits, OnAccount, ResendAt
<1>4. row \in TokenRow /\ row # None
  <2>1. row \in TokenRow
    BY <1>3 DEF TokenRow, PurposeOf, Purposes
  <2> QED
    BY <2>1, Distinct
<1>5. story \in Seq(HistoryActions)
  <2>1. CreatedAction(PurposeOf(Kind(r))) \in HistoryActions
    BY DEF CreatedAction, HistoryActions
  <2> QED
    BY <2>1
<1>6. /\ token'[t] = row /\ history'[t] = story /\ issued'[r] = t
      /\ \A u \in Tokens \ {t} : token'[u] = token[u] /\ history'[u] = history[u]
  BY <1>1 DEF IInv, TypeOK
<1>7. story = IF row.purpose = "password_reset" THEN <<"password_reset_issued">> ELSE <<"invite_created">>
  BY DEF CreatedAction, PurposeOf
<1>8. row.account = subject[r] /\ ~row.used /\ ~row.revoked /\ row.purpose \in Purposes
  BY DEF PurposeOf, Purposes
<1> HIDE DEF row, story
<1>9. StepOf(r)
  BY <1>1, <1>2, <1>6 DEF StepOf, IInv, TypeOK, HasAdmin
<1>10. TypeOK'
  BY <1>1, <1>2, <1>4, <1>5 DEF IInv, TypeOK, PC
<1>11. RequestAt(r)'
  <2>1. pc'[r] = "send_mail" /\ Kind(r)' = Kind(r) /\ Presented(r)' = Presented(r)
    BY <1>2 DEF Kind, Presented, IInv, TypeOK
  <2>2. Kind(r) = "resend" => Presented(r) \in Tokens \ {t} /\ Row(r) # None
    BY <1>1, <1>3 DEF BodyAt, Row, EmailKinds
  <2>3. Presented(r) \in Tokens \ {t} => Row(r)' = Row(r)
    BY <1>6, <2>1 DEF Row
  <2>4. KindFits(r)' /\ ~HasRedeemed(r)'
    BY <1>3, <2>1 DEF KindFits, HasRedeemed, Owes
  <2>5. BodyAt(r)'
    BY <1>2, <1>3, <2>1, <2>2, <2>3, <2>4 DEF BodyAt, OnAccount, EmailKinds
  <2>6. LockAt(r)'
    BY <1>2, <1>3, <2>1 DEF LockAt
  <2>7. ResendAt(r)'
    BY <1>3, <1>4, <1>6, <1>8, <2>1, <2>2, <2>3 DEF ResendAt, Replaced
  <2> QED
    BY <1>2, <1>3, <1>6, <2>1, <2>4, <2>5, <2>6, <2>7 DEF RequestAt, RedeemedAt, HasRedeemed
<1>12. ASSUME NEW u \in Tokens PROVE TokenAt(u)'
  <2>1. CASE u # t
    BY <1>2, <1>6, <2>1 DEF IInv, TypeOK, TokenAt, Story, Accepted, HasAdmin
  <2>2. CASE u = t
    <3>1. redeemers'[u] = {}
      BY <1>1, <1>2, <2>2 DEF IInv, TokenAt
    <3>2. history'[u] \in Story(u)'
      BY <1>6, <1>7, <1>8, <2>2 DEF Story
    <3>3. ~Accepted(u)'
      BY <1>6, <1>7, <2>2 DEF Accepted
    <3> QED
      BY <1>4, <1>6, <1>8, <2>2, <3>1, <3>2, <3>3 DEF TokenAt
  <2> QED
    BY <2>1, <2>2
<1> QED
  BY <1>9, <1>10, <1>11, <1>12, OnlyTheActor

\* The mail leaves, or may have left: mailed grows by the new token at most.
LEMMA MailStep ==
  ASSUME IInv, NEW r \in Requests, pc[r] = "send_mail",
         NEW l \in {"ok", "error", "lock_revoke"}, pc' = [pc EXCEPT ![r] = l],
         mailed' \in {mailed, mailed \cup {issued[r]}},
         Kind(r) = "resend" => l # "ok",
         l = "lock_revoke" => Kind(r) = "resend" /\ issued[r] \in mailed',
         UNCHANGED <<token, expired, history, account, lock, body, subject, issued, redeemers, stale>>
  PROVE  IInv'
<1>1. /\ BodyAt(r) /\ LockAt(r) /\ ResendAt(r) /\ issued[r] \in Tokens
      /\ r \in stale => Presented(r) \in expired
  BY InProgress
<1>2. StepOf(r)
  BY DEF StepOf, IInv, TypeOK, HasAdmin
<1>3. TypeOK'
  BY <1>1 DEF IInv, TypeOK, PC
<1>4. RequestAt(r)'
  <2>1. pc'[r] = l /\ Kind(r)' = Kind(r) /\ Presented(r)' = Presented(r) /\ Row(r)' = Row(r)
    BY DEF Kind, Presented, Row, IInv, TypeOK
  <2>2. KindFits(r)' /\ ~HasRedeemed(r)'
    BY <2>1 DEF KindFits, HasRedeemed, Owes
  <2>3. BodyAt(r)' /\ LockAt(r)'
    BY <1>1, <2>1, <2>2 DEF BodyAt, LockAt, OnAccount
  <2>4. ResendAt(r)'
    BY <1>1, <2>1 DEF ResendAt, Replaced
  <2> QED
    BY <1>1, <2>1, <2>2, <2>3, <2>4 DEF RequestAt, RedeemedAt, HasRedeemed
<1>5. \A t \in Tokens : TokenAt(t)'
  BY TokensKept DEF IInv, TokenAt, HasAdmin
<1> QED
  BY <1>2, <1>3, <1>4, <1>5, OnlyTheActor

LEMMA SendMailStep == ASSUME IInv, NEW r \in Requests, SendMail(r) PROVE IInv'
<1>1. AfterSend(r) \in {"ok", "error", "lock_revoke"} /\ (AfterSend(r) = "lock_revoke" <=> Kind(r) = "resend")
  BY DEF AfterSend
<1> QED
  BY <1>1, MailStep DEF SendMail, observers

LEMMA SendFailsStep == ASSUME IInv, NEW r \in Requests, SendFails(r) PROVE IInv'
<1>1. PICK l \in {"ok", "error"} : l = (IF Kind(r) = "forgot" THEN "ok" ELSE "error")
  OBVIOUS
<1> QED
  BY <1>1, MailStep DEF SendFails, observers

LEMMA ReadTokenStep == ASSUME IInv, NEW r \in Requests, ReadToken(r) PROVE IInv'
<1>1. /\ pc[r] = "read_token" /\ BodyAt(r) /\ LockAt(r) /\ Kind(r) = "resend"
      /\ Presented(r) \in Tokens /\ Row(r) # None /\ (r \in stale => Presented(r) \in expired)
      /\ UNCHANGED <<token, expired, history, mailed, account, lock, body, issued, redeemers, stale>>
  BY InProgress DEF ReadToken, BodyAt, KindFits, EmailKinds, rows, observers
<1>2. CASE ~(InScope(r) /\ Unspent(r))
  <2>1. pc' = [pc EXCEPT ![r] = "error"] /\ UNCHANGED subject
    BY <1>2 DEF ReadToken
  <2>2. KindFits(r)' /\ ~HasRedeemed(r)'
    BY <2>1 DEF KindFits, HasRedeemed, Owes, IInv, TypeOK
  <2> QED
    BY <1>1, <2>1, <2>2, Move DEF PC, OnAccount
<1>3. CASE InScope(r) /\ Unspent(r)
  <2>1. /\ pc' = [pc EXCEPT ![r] = "check_email"]
        /\ subject' = [subject EXCEPT ![r] = Row(r).account]
    BY <1>3 DEF ReadToken
  <2>2. Row(r).account \in Accounts /\ Row(r).account[1] = body[r].tenant
    BY <1>1, <1>3 DEF Row, IInv, TypeOK, TokenRow, InScope, InTenant
  <2>3. StepOf(r)
    BY <1>1, <2>1 DEF StepOf, IInv, TypeOK, HasAdmin
  <2>4. TypeOK'
    BY <1>1, <2>1, <2>2 DEF IInv, TypeOK, PC
  <2>5. RequestAt(r)'
    <3>1. /\ pc'[r] = "check_email" /\ Kind(r)' = Kind(r) /\ Presented(r)' = Presented(r)
          /\ Row(r)' = Row(r) /\ subject'[r] = Row(r).account
      BY <1>1, <2>1 DEF Kind, Presented, Row, IInv, TypeOK
    <3>2. KindFits(r)' /\ ~HasRedeemed(r)'
      BY <1>1, <3>1 DEF KindFits, HasRedeemed, Owes
    <3>3. BodyAt(r)' /\ LockAt(r)' /\ ResendAt(r)'
      BY <1>1, <2>2, <3>1, <3>2 DEF BodyAt, LockAt, ResendAt
    <3> QED
      BY <1>1, <3>1, <3>2, <3>3 DEF RequestAt, RedeemedAt, HasRedeemed
  <2>6. \A t \in Tokens : TokenAt(t)'
    BY <1>1, TokensKept DEF IInv, TokenAt, HasAdmin
  <2> QED
    BY <2>3, <2>4, <2>5, <2>6, OnlyTheActor
<1> QED
  BY <1>2, <1>3

\* The commit of a revocation: the invitation was locked and unspent.
LEMMA RevokeStep == ASSUME IInv, NEW r \in Requests, Revoke(r) PROVE IInv'
<1> DEFINE t == Presented(r)
<1>1. /\ pc[r] = "revoke" /\ pc' = [pc EXCEPT ![r] = "ok"]
      /\ token' = [token EXCEPT ![t].revoked = TRUE]
      /\ history' = [history EXCEPT ![t] = Append(@, "invite_revoked")]
      /\ lock' = [u \in Tokens |-> IF lock[u] = r THEN None ELSE lock[u]]
      /\ UNCHANGED <<expired, mailed, account, body, subject, issued, redeemers, stale>>
  BY DEF Revoke, Unlock, observers
<1>2. /\ BodyAt(r) /\ Kind(r) \in {"revoke", "resend"} /\ t \in Tokens /\ token[t] # None
      /\ LockAt(r) /\ lock[t] = r /\ InScope(r) /\ ~token[t].used /\ ~token[t].revoked
      /\ r \in stale => t \in expired
      /\ Kind(r) = "resend" => Replaced(r) /\ issued[r] \in mailed
  BY <1>1, InProgress DEF BodyAt, KindFits, LockAt, EmailKinds, Unspent, Row, ResendAt
<1>3. token[t] \in TokenRow /\ TokenAt(t) /\ token[t].purpose = "invite"
  BY <1>2 DEF IInv, TypeOK, InScope, PurposeOf, Row
<1>4. redeemers[t] = {} /\ history[t] = <<"invite_created">>
  BY <1>2, <1>3 DEF TokenAt, Story
<1> DEFINE row == [token[t] EXCEPT !.revoked = TRUE]
<1>5. /\ row \in TokenRow /\ row.revoked /\ ~row.used
      /\ row.account = token[t].account /\ row.purpose = "invite"
  BY <1>2, <1>3 DEF TokenRow
<1>6. token' = [token EXCEPT ![t] = row] /\ token'[t] = row
  BY <1>1, <1>2 DEF IInv, TypeOK
<1>7. row # None
  BY <1>5, Distinct
<1>8. /\ history'[t] = <<"invite_created", "invite_revoked">>
      /\ \A u \in Tokens \ {t} : history'[u] = history[u]
      /\ history' \in [Tokens -> Seq(HistoryActions)]
  <2>1. "invite_created" \in HistoryActions /\ "invite_revoked" \in HistoryActions
    BY DEF HistoryActions
  <2>2. /\ Append(history[t], "invite_revoked") = <<"invite_created", "invite_revoked">>
        /\ <<"invite_created", "invite_revoked">> \in Seq(HistoryActions)
    BY <1>4, <2>1, SecondAction
  <2> QED
    BY <1>1, <1>2, <2>2 DEF IInv, TypeOK
<1> HIDE DEF t, row
<1>9. StepOf(r)
  <2>1. \A u \in Tokens \ {t} : token'[u] = token[u]
    BY <1>6 DEF IInv, TypeOK
  <2>2. \A u \in Tokens : lock'[u] = IF lock[u] = r THEN None ELSE lock[u]
    BY <1>1
  <2>3. \A s \in Requests \ {r} : pc'[s] = pc[s]
    BY <1>1 DEF IInv, TypeOK
  <2>4. ASSUME NEW u \in Tokens
        PROVE  token[u] # None =>
                 /\ token'[u] # None
                 /\ token'[u].account = token[u].account /\ token'[u].purpose = token[u].purpose
                 /\ lock[u] \notin {None, r} => token'[u] = token[u]
                 /\ token[u].used \/ token[u].revoked => token'[u] = token[u]
                 /\ token[u].used /\ r \notin redeemers[u] => history'[u] = history[u]
    BY <1>2, <1>3, <1>5, <1>6, <1>7, <1>8, <2>1
  <2>5. \A a \in Accounts : HasAdmin(a) => HasAdmin(a)'
    BY <1>1 DEF HasAdmin
  <2> QED
    BY <1>1, <2>2, <2>3, <2>4, <2>5 DEF StepOf
<1>10. TypeOK'
  <2>1. token' \in [Tokens -> TokenRow \cup {None}] /\ pc' \in [Requests -> PC]
    BY <1>1, <1>5, <1>6 DEF IInv, TypeOK, PC
  <2>2. lock' \in [Tokens -> Requests \cup {None}]
    BY <1>1 DEF IInv, TypeOK
  <2> QED
    BY <1>1, <1>8, <2>1, <2>2 DEF IInv, TypeOK
<1>11. RequestAt(r)'
  <2>1. pc'[r] = "ok" /\ Kind(r)' = Kind(r) /\ Presented(r)' = t /\ Row(r)' = row
    BY <1>1, <1>6 DEF Kind, Presented, Row, IInv, TypeOK, t
  <2>2. KindFits(r)' /\ ~HasRedeemed(r)'
    BY <2>1 DEF KindFits, HasRedeemed, Owes
  <2>3. BodyAt(r)'
    BY <1>1, <1>2, <1>7, <2>1, <2>2 DEF BodyAt, OnAccount
  <2>4. LockAt(r)'
    BY <1>1, <2>1, Distinct DEF LockAt
  <2>5. Kind(r) = "resend" => Replaced(r)'
    <3>1. Kind(r) = "resend" => /\ issued[r] \in Tokens /\ token[issued[r]] # None
                                /\ token[issued[r]].account = row.account /\ issued[r] \in mailed
      BY <1>2, <1>5 DEF Replaced, Row, t
    <3>2. Kind(r) = "resend" => token'[issued[r]] # None /\ token'[issued[r]].account = row.account
      BY <1>5, <1>6, <1>7, <3>1 DEF IInv, TypeOK
    <3> QED
      BY <1>1, <2>1, <3>1, <3>2 DEF Replaced
  <2>6. ResendAt(r)'
    BY <1>1, <1>2, <1>5, <2>1, <2>5 DEF ResendAt
  <2> QED
    BY <1>1, <1>2, <2>1, <2>2, <2>3, <2>4, <2>6 DEF RequestAt, RedeemedAt, HasRedeemed
<1>12. ASSUME NEW u \in Tokens PROVE TokenAt(u)'
  <2>1. CASE u # t
    BY <1>1, <1>6, <1>8, <2>1 DEF IInv, TypeOK, TokenAt, Story, Accepted, HasAdmin
  <2>2. CASE u = t
    <3>1. history'[u] \in Story(u)'
      BY <1>5, <1>6, <1>8, <2>2 DEF Story
    <3>2. ~Accepted(u)'
      BY <1>8, <2>2 DEF Accepted
    <3> QED
      BY <1>1, <1>4, <1>5, <1>6, <1>7, <2>2, <3>1, <3>2 DEF TokenAt
  <2> QED
    BY <2>1, <2>2
<1> QED
  BY <1>9, <1>10, <1>11, <1>12, OnlyTheActor

\* A step of no request is a step of None: every request keeps its part.
LEMMA NobodysStep ==
  ASSUME IInv, StepOf(None), TypeOK', \A t \in Tokens : TokenAt(t)'
  PROVE  IInv'
<1>1. \A r \in Requests : RequestAt(r)'
  BY OthersKept, Distinct
<1> QED
  BY <1>1 DEF IInv

LEMMA ExpireStep == ASSUME IInv, NEW t \in Tokens, Expire(t) PROVE IInv'
<1>1. StepOf(None)
  BY DEF Expire, StepOf, IInv, TypeOK, HasAdmin, observers
<1>2. TypeOK'
  BY DEF Expire, IInv, TypeOK, observers
<1>3. \A u \in Tokens : TokenAt(u)'
  BY TokensKept DEF Expire, IInv, TokenAt, HasAdmin, observers
<1> QED
  BY <1>1, <1>2, <1>3, NobodysStep

LEMMA CloseAccountStep == ASSUME IInv, NEW a \in Accounts, CloseAccount(a) PROVE IInv'
<1> DEFINE row == [account[a] EXCEPT !.live = FALSE]
<1>1. /\ account' = [account EXCEPT ![a] = row] /\ account[a] \in AccountRow
      /\ UNCHANGED <<token, expired, history, mailed, lock, pc, body, subject, issued, redeemers, stale>>
  BY DEF CloseAccount, IsLive, IInv, TypeOK, observers
<1>2. row \in AccountRow /\ row.role = account[a].role
  BY <1>1 DEF AccountRow
<1> HIDE DEF row
<1>3. \A b \in Accounts : /\ account[b] # None => account'[b] # None
                          /\ HasAdmin(b) => HasAdmin(b)'
  <2>1. row # None
    BY <1>2, Distinct
  <2>2. \A b \in Accounts : account'[b] = IF b = a THEN row ELSE account[b]
    BY <1>1 DEF IInv, TypeOK
  <2> QED
    BY <1>2, <2>1, <2>2 DEF HasAdmin
<1>4. StepOf(None)
  BY <1>1, <1>3 DEF StepOf
<1>5. TypeOK'
  BY <1>1, <1>2 DEF IInv, TypeOK
<1>6. \A t \in Tokens : TokenAt(t)'
  BY <1>1, <1>3, TokensKept DEF IInv, TokenAt
<1> QED
  BY <1>4, <1>5, <1>6, NobodysStep

-----------------------------------------------------------------------------
(* The theorems *)

\* IInv is inductive: one case for each action.
LEMMA NextInv == IInv /\ [Next]_vars => IInv'
<1> SUFFICES ASSUME IInv, [Next]_vars PROVE IInv'
  OBVIOUS
<1>1. CASE UNCHANGED vars
  <2>1. StepOf(None)
    BY <1>1 DEF vars, StepOf, HasAdmin
  <2>2. TypeOK'
    BY <1>1 DEF vars, IInv, TypeOK
  <2>3. \A t \in Tokens : TokenAt(t)'
    BY <1>1, TokensKept DEF vars, IInv, TokenAt, HasAdmin
  <2> QED
    BY <2>1, <2>2, <2>3, NobodysStep
<1>2. ASSUME NEW r \in Requests, ReceiveEmail(r) \/ ReceiveToken(r) \/ Fail(r) PROVE IInv'
  BY <1>2, ReceiveEmailStep, ReceiveTokenStep, FailStep
<1>3. ASSUME NEW r \in Requests, Handle(r) PROVE IInv'
  BY <1>3, LockTokenStep, RefuseTokenStep, ConsumeStep, WritePasswordStep, CheckEmailStep,
     FindUserStep, InsertUserStep, DuplicateUserStep, ReactivateUserStep, ReactivateNobodyStep,
     RecordAcceptedStep, AnswerStep, CreateTokenStep, SendMailStep, SendFailsStep, ReadTokenStep,
     LockRevokeStep, RevokesNothingStep, RevokeStep DEF Handle
<1> QED
  BY <1>1, <1>2, <1>3, ExpireStep, CloseAccountStep DEF Next

\* The inductive invariant holds in every reachable state.
THEOREM Invariance == Spec => []IInv
BY InitInv, NextInv, PTL DEF Spec

\* The variables keep their types.
THEOREM TypeCorrectness == Spec => []TypeOK
<1>1. IInv => TypeOK
  BY DEF IInv
<1> QED
  BY <1>1, Invariance, PTL

\* No token is redeemed by two requests, however they interleave (GetTokenForUpdate,
\* MarkTokenUsed).
THEOREM RedeemedOnceHolds == Spec => []RedeemedOnce
<1>1. IInv => RedeemedOnce
  BY DEF IInv, TokenAt, RedeemedOnce
<1> QED
  BY <1>1, Invariance, PTL

\* No token is both used and revoked (MarkTokenUsed, MarkTokenRevoked).
THEOREM NeverUsedAndRevokedHolds == Spec => []NeverUsedAndRevoked
<1>1. IInv => NeverUsedAndRevoked
  BY DEF IInv, TokenAt, NeverUsedAndRevoked
<1> QED
  BY <1>1, Invariance, PTL

\* No request redeems a token that had expired when it arrived (ConsumeToken).
THEOREM ExpiredIsUselessHolds == Spec => []ExpiredIsUseless
<1>1. IInv => ExpiredIsUseless
  BY DEF IInv, TokenAt, ExpiredIsUseless
<1> QED
  BY <1>1, Invariance, PTL

\* The history of every token tells what its row says (auth_action_tokens_history).
THEOREM AuditTrailHolds == Spec => []AuditTrail
<1>1. IInv => AuditTrail
  BY DEF IInv, TokenAt, AuditTrail
<1> QED
  BY <1>1, Invariance, PTL

\* An invitation recorded as accepted has left an admin's account (AcceptInvitation).
THEOREM AcceptedHasAdminHolds == Spec => []AcceptedHasAdmin
<1>1. IInv => AcceptedHasAdmin
  BY DEF IInv, TokenAt, AcceptedHasAdmin, Accepted, HasAdmin
<1> QED
  BY <1>1, Invariance, PTL

\* A resend that is answered well has replaced the old invitation (ResendInvitation).
THEOREM ResendReplacesHolds == Spec => []ResendReplaces
<1>1. IInv => ResendReplaces
  <2> SUFFICES ASSUME IInv, NEW r \in Requests, pc[r] = "ok", Kind(r) = "resend"
               PROVE  /\ Row(r).revoked /\ ~Row(r).used
                      /\ issued[r] \in mailed /\ token[issued[r]].account = Row(r).account
    BY DEF ResendReplaces
  <2> QED
    BY InProgress DEF ResendAt, Replaced
<1> QED
  BY <1>1, Invariance, PTL

-----------------------------------------------------------------------------
(* What a step may never do *)

\* The steps that write the token and users tables.
LEMMA WhoWrites ==
  ASSUME [Next]_vars
  PROVE  \/ UNCHANGED <<token, account>>
         \/ \E r \in Requests : \/ Consume(r) \/ CreateToken(r) \/ Revoke(r)
                                \/ WritePassword(r) \/ InsertUser(r) \/ ReactivateUser(r)
         \/ \E a \in Accounts : CloseAccount(a)
<1>1. ASSUME NEW r \in Requests, ReceiveEmail(r) \/ ReceiveToken(r) \/ Fail(r)
      PROVE  UNCHANGED <<token, account>>
  BY <1>1 DEF ReceiveEmail, ReceiveToken, Fail, rows
<1>2. ASSUME NEW r \in Requests, Handle(r)
      PROVE  \/ UNCHANGED <<token, account>>
             \/ \/ Consume(r) \/ CreateToken(r) \/ Revoke(r)
                \/ WritePassword(r) \/ InsertUser(r) \/ ReactivateUser(r)
  <2>1. LockToken(r) \/ RefuseToken(r) \/ CheckEmail(r) \/ FindUser(r) \/ DuplicateUser(r)
          \/ ReactivateNobody(r) \/ Answer(r) => UNCHANGED <<token, account>>
    BY DEF LockToken, RefuseToken, CheckEmail, FindUser, DuplicateUser, ReactivateNobody, Answer, rows
  <2>2. ReadToken(r) \/ LockRevoke(r) \/ RevokesNothing(r) => UNCHANGED <<token, account>>
    BY DEF ReadToken, LockRevoke, RevokesNothing, rows
  <2>3. SendMail(r) \/ SendFails(r) \/ RecordAccepted(r) => UNCHANGED <<token, account>>
    BY DEF SendMail, SendFails, RecordAccepted
  <2> QED
    BY <1>2, <2>1, <2>2, <2>3 DEF Handle
<1>3. ASSUME NEW t \in Tokens, Expire(t) PROVE UNCHANGED <<token, account>>
  BY <1>3 DEF Expire
<1>4. UNCHANGED vars => UNCHANGED <<token, account>>
  BY DEF vars
<1> QED
  BY <1>1, <1>2, <1>3, <1>4 DEF Next

\* What LiveAccountsKept and TenantsKeptApart say of one step.
KeepsLive ==
  \A a \in Accounts : (IsLive(a) /\ account'[a] # account[a]) =>
    \/ account'[a] = [account[a] EXCEPT !.live = FALSE]
    \/ \E r \in Requests, t \in Tokens :
         /\ account'[a] = [account[a] EXCEPT !.password = r]
         /\ r \in redeemers[t]
         /\ token[t].account = a /\ token[t].purpose = "password_reset"
KeepsApart ==
  \A r \in Requests : pc'[r] # pc[r] =>
    /\ \A t \in Tokens : (token[t] # None /\ token'[t] # token[t]) =>
         token[t].account[1] = body'[r].tenant
    /\ \A a \in Accounts : account'[a] # account[a] => a[1] = body'[r].tenant

LEMMA StepKeepsLive == IInv /\ [Next]_vars => KeepsLive
<1> SUFFICES ASSUME IInv, [Next]_vars PROVE KeepsLive
  OBVIOUS
<1>1. account' = account => KeepsLive
  BY DEF KeepsLive
<1>2. ASSUME NEW r \in Requests, Consume(r) \/ CreateToken(r) \/ Revoke(r) PROVE account' = account
  BY <1>2 DEF Consume, CreateToken, Revoke
<1>3. ASSUME NEW r \in Requests, WritePassword(r) PROVE KeepsLive
  <2>1. pc[r] = "write_password" /\ BodyAt(r) /\ RedeemedAt(r)
    BY <1>3, InProgress DEF WritePassword
  <2>2. /\ Kind(r) = "reset" /\ Presented(r) \in Tokens /\ subject[r] \in Accounts
        /\ r \in redeemers[Presented(r)] /\ subject[r] = Row(r).account
        /\ Row(r).purpose = "password_reset"
    BY <2>1 DEF BodyAt, KindFits, RedeemedAt, HasRedeemed, Owes, OnAccount, EmailKinds, InScope, PurposeOf
  <2>3. \A a \in Accounts : account'[a] # account[a] =>
          a = subject[r] /\ account'[a] = [account[a] EXCEPT !.password = r]
    BY <1>3, <2>2 DEF WritePassword, PasswordWritten, IInv, TypeOK
  <2> QED
    BY <2>2, <2>3 DEF KeepsLive, Row
<1>4. ASSUME NEW r \in Requests, InsertUser(r) \/ ReactivateUser(r) PROVE KeepsLive
  <2>1. ~IsLive(subject[r]) /\ account' = [account EXCEPT ![subject[r]] = NewAccount(r)]
    BY <1>4 DEF InsertUser, ReactivateUser, Vacant, StillClosed, IsLive
  <2>2. \A a \in Accounts : account'[a] # account[a] => ~IsLive(a)
    BY <2>1 DEF IInv, TypeOK
  <2> QED
    BY <2>2 DEF KeepsLive
<1>5. ASSUME NEW a \in Accounts, CloseAccount(a) PROVE KeepsLive
  <2>1. \A b \in Accounts : account'[b] # account[b] => account'[b] = [account[b] EXCEPT !.live = FALSE]
    BY <1>5 DEF CloseAccount, IInv, TypeOK
  <2> QED
    BY <2>1 DEF KeepsLive
<1> QED
  BY <1>1, <1>2, <1>3, <1>4, <1>5, WhoWrites

\* The tenant is part of the WHERE, and no request works outside its own.
LEMMA StepKeepsApart == IInv /\ [Next]_vars => KeepsApart
<1> SUFFICES ASSUME IInv, [Next]_vars PROVE KeepsApart
  OBVIOUS
<1>1. UNCHANGED <<token, account>> => KeepsApart
  BY DEF KeepsApart
<1>2. ASSUME NEW r \in Requests, Consume(r) \/ Revoke(r) PROVE KeepsApart
  <2>1. Row(r).account[1] = body[r].tenant /\ body' = body /\ account' = account
    BY <1>2, InProgress DEF Consume, Revoke, LockAt, InScope, InTenant
  <2>2. /\ \A t \in Tokens : token'[t] # token[t] => t = Presented(r)
        /\ \A s \in Requests : pc'[s] # pc[s] => s = r
    BY <1>2 DEF Consume, Revoke, IInv, TypeOK
  <2> QED
    BY <2>1, <2>2 DEF KeepsApart, Row
<1>3. ASSUME NEW r \in Requests, CreateToken(r) PROVE KeepsApart
  <2>1. account' = account /\ \A t \in Tokens : token'[t] # token[t] => token[t] = None
    BY <1>3, NextIsUnissued DEF CreateToken, IInv, TypeOK
  <2> QED
    BY <2>1 DEF KeepsApart
<1>4. ASSUME NEW r \in Requests, WritePassword(r) \/ InsertUser(r) \/ ReactivateUser(r) PROVE KeepsApart
  <2>1. pc[r] \in OnAccount /\ pc[r] # "new" /\ body' = body /\ token' = token
    BY <1>4 DEF WritePassword, InsertUser, ReactivateUser, OnAccount
  <2>2. subject[r][1] = body[r].tenant
    BY <2>1, InProgress DEF BodyAt
  <2>3. /\ \A a \in Accounts : account'[a] # account[a] => a = subject[r]
        /\ \A s \in Requests : pc'[s] # pc[s] => s = r
    BY <1>4 DEF WritePassword, PasswordWritten, InsertUser, ReactivateUser, IInv, TypeOK
  <2> QED
    BY <2>1, <2>2, <2>3 DEF KeepsApart
<1>5. ASSUME NEW a \in Accounts, CloseAccount(a) PROVE KeepsApart
  BY <1>5 DEF CloseAccount, KeepsApart
<1> QED
  BY <1>1, <1>2, <1>3, <1>4, <1>5, WhoWrites

\* A live account is only rewritten by the bearer of its own reset token
\* (UpdatePasswordHash, CreateUser, ReactivateUser).
THEOREM LiveAccountsKeptHolds == Spec => LiveAccountsKept
<1>1. IInv /\ [Next]_vars => [KeepsLive]_vars
  BY StepKeepsLive
<1>2. Spec => [][KeepsLive]_vars
  BY <1>1, Invariance, PTL DEF Spec
<1> QED
  BY <1>2 DEF KeepsLive, LiveAccountsKept

\* No request changes a token or an account of another tenant (GetTokenForUpdate,
\* RevokeTokenScoped).
THEOREM TenantsKeptApartHolds == Spec => TenantsKeptApart
<1>1. IInv /\ [Next]_vars => [KeepsApart]_vars
  BY StepKeepsApart
<1>2. Spec => [][KeepsApart]_vars
  BY <1>1, Invariance, PTL DEF Spec
<1> QED
  BY <1>2 DEF KeepsApart, TenantsKeptApart

=============================================================================

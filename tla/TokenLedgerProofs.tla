--------------------------- MODULE TokenLedgerProofs ---------------------------
(***************************************************************************)
(* ActionTokens implements TokenLedger, for any number of requests,        *)
(* tokens, tenants and addresses: every step of a handler is one of the    *)
(* ledger's or changes nothing the ledger speaks of.  The inductive        *)
(* invariant of ActionTokensProofs says who owes the effect of a redeemed  *)
(* token: one request, and no other.                                       *)
(***************************************************************************)
EXTENDS ActionTokensProofs

Owing(r) == pc[r] # "new" /\ Owes(r)

\* A step that is one of the ledger's.
LedgerStep == [Ledger!Next]_(Ledger!vars)

USE DEF Goto, At

-----------------------------------------------------------------------------
(* Who owes an effect *)

\* Nobody but r changes what it owes.
OthersOwe(r) == \A s \in Requests \ {r} : pc'[s] = pc[s] /\ body'[s] = body[s]

LEMMA OwingFacts ==
  ASSUME IInv, NEW r \in Requests, Owing(r)
  PROVE  /\ Presented(r) \in Tokens /\ Row(r) # None /\ r \in redeemers[Presented(r)]
         /\ subject[r] = Row(r).account /\ subject[r] \in Accounts
         /\ Kind(r) = "accept" => Row(r).purpose = "invite"
         /\ Kind(r) = "reset" => Row(r).purpose = "password_reset"
         /\ Presented(r) \in Owed
<1>1. BodyAt(r) /\ RedeemedAt(r) /\ HasRedeemed(r) /\ pc[r] \in OnAccount
  BY InProgress DEF Owing, Owes, HasRedeemed, OnAccount
<1>2. Kind(r) \in {"accept", "reset"}
  BY DEF Owing, Owes
<1> QED
  BY <1>1, <1>2 DEF BodyAt, RedeemedAt, EmailKinds, InScope, PurposeOf, Owed, Owing

\* The debts after a step of r are those of the others, and r's.
LEMMA OwedKept ==
  ASSUME IInv, NEW r, OthersOwe(r),
         r \in Requests => (Owing(r)' <=> Owing(r)) /\ (Owing(r) => Presented(r)' = Presented(r))
  PROVE  Owed' = Owed
<1>1. ASSUME NEW s \in Requests
      PROVE  (Owing(s)' <=> Owing(s)) /\ (Owing(s) => Presented(s)' = Presented(s))
  BY <1>1 DEF OthersOwe, Owing, Owes, Kind, Presented
<1>2. Owed = {Presented(s) : s \in {q \in Requests : Owing(q)}}
  BY DEF Owed, Owing
<1>3. Owed' = {Presented(s)' : s \in {q \in Requests : Owing(q)'}}
  BY DEF Owed, Owing
<1> QED
  BY <1>1, <1>2, <1>3

\* Paying a debt pays it for good: nobody else owes the same.
LEMMA OwedPaid ==
  ASSUME IInv, NEW r \in Requests, OthersOwe(r), Owing(r), ~Owing(r)'
  PROVE  Owed' = Owed \ {Presented(r)}
<1>1. ASSUME NEW s \in Requests \ {r}
      PROVE  (Owing(s)' <=> Owing(s)) /\ Presented(s)' = Presented(s)
  BY <1>1 DEF OthersOwe, Owing, Owes, Kind, Presented
<1>2. ASSUME NEW s \in Requests \ {r}, Owing(s) PROVE Presented(s) # Presented(r)
  <2>1. s \in redeemers[Presented(s)] /\ r \in redeemers[Presented(r)] /\ Presented(r) \in Tokens
    BY <1>2, OwingFacts
  <2> QED
    BY <1>2, <2>1 DEF IInv, TokenAt
<1>3. Owed = {Presented(s) : s \in {q \in Requests : Owing(q)}}
  BY DEF Owed, Owing
<1>4. Owed' = {Presented(s)' : s \in {q \in Requests : Owing(q)'}}
  BY DEF Owed, Owing
<1> QED
  BY <1>1, <1>2, <1>3, <1>4

LEMMA OwedMore ==
  ASSUME IInv, NEW r \in Requests, OthersOwe(r), ~Owing(r), Owing(r)'
  PROVE  Owed' = Owed \cup {Presented(r)'}
<1>1. ASSUME NEW s \in Requests \ {r}
      PROVE  (Owing(s)' <=> Owing(s)) /\ Presented(s)' = Presented(s)
  BY <1>1 DEF OthersOwe, Owing, Owes, Kind, Presented
<1>2. Owed = {Presented(s) : s \in {q \in Requests : Owing(q)}}
  BY DEF Owed, Owing
<1>3. Owed' = {Presented(s)' : s \in {q \in Requests : Owing(q)'}}
  BY DEF Owed, Owing
<1> QED
  BY <1>1, <1>2, <1>3

-----------------------------------------------------------------------------
(* The mapping *)

\* The ledger's view of the token table.
LEMMA View ==
  ASSUME NEW t \in Tokens
  PROVE  /\ TokenStates[t] = StateOf(token[t]) /\ Grants[t] = GrantOf(token[t])
         /\ TokenStates'[t] = StateOf(token'[t]) /\ Grants'[t] = GrantOf(token'[t])
BY DEF TokenStates, Grants, StateOf, GrantOf

LEMMA ViewKept == token' = token => TokenStates' = TokenStates /\ Grants' = Grants
BY DEF TokenStates, Grants, StateOf, GrantOf

\* The ledger starts from the grants of the tokens the table starts with.
LEMMA InitMaps == Init => Ledger!Init
<1> SUFFICES ASSUME Init PROVE Ledger!Init
  OBVIOUS
<1>1. Owed = {}
  BY DEF Init, Owed
<1>2. Grants \in {[t \in Tokens |-> GrantOf(table[t])] : table \in InitTokens}
  BY DEF Init, Grants
<1>3. \A t \in Tokens : /\ token[t] # None => ~token[t].used /\ ~token[t].revoked
                        /\ token[t] # None => GrantOf(token[t]) # None
  <2> SUFFICES ASSUME NEW t \in Tokens, token[t] # None
               PROVE  ~token[t].used /\ ~token[t].revoked /\ GrantOf(token[t]) # None
    OBVIOUS
  <2>1. token[t] \in TokenRow /\ ~token[t].used /\ ~token[t].revoked
    BY TokensAssumption DEF Init, IssuedRow
  <2>2. GrantOf(token[t]) \in Grant
    BY <2>1 DEF GrantOf, Grant, TokenRow
  <2> QED
    BY <2>1, <2>2, Distinct
<1>4. TokenStates = [t \in Tokens |-> IF Grants[t] = None THEN "absent" ELSE "live"]
  <2>1. \A t \in Tokens : StateOf(token[t]) = IF GrantOf(token[t]) = None THEN "absent" ELSE "live"
    BY <1>3 DEF StateOf, GrantOf
  <2> QED
    BY <2>1 DEF TokenStates, Grants
<1>5. account \in InitAccounts
  BY DEF Init
<1> QED
  BY <1>1, <1>2, <1>4, <1>5 DEF Ledger!Init

\* A step that writes neither table: it changes nothing, or gives up what it owes.
LEMMA MovesMap ==
  ASSUME IInv, NEW r \in Requests, UNCHANGED <<token, account>>, OthersOwe(r),
         Owing(r) => body'[r] = body[r], Owing(r)' => Owing(r)
  PROVE  LedgerStep
<1>1. TokenStates' = TokenStates /\ Grants' = Grants
  BY ViewKept
<1>2. CASE Owing(r)' <=> Owing(r)
  <2>1. Owing(r) => Presented(r)' = Presented(r)
    BY DEF Presented
  <2>2. Owed' = Owed
    BY <1>2, <2>1, OwedKept
  <2> QED
    BY <1>1, <2>2 DEF LedgerStep, Ledger!vars
<1>3. CASE Owing(r) /\ ~Owing(r)'
  <2>1. Owed' = Owed \ {Presented(r)} /\ Presented(r) \in Owed /\ Presented(r) \in Tokens
    BY <1>3, OwedPaid, OwingFacts
  <2>2. Ledger!Forfeit(Presented(r))
    BY <1>1, <2>1 DEF Ledger!Forfeit
  <2> QED
    BY <2>1, <2>2 DEF LedgerStep, Ledger!Next
<1> QED
  BY <1>2, <1>3

\* Where a step of r leads, when its request stays as it is.
LEMMA Goes ==
  ASSUME IInv, NEW r \in Requests, NEW l, pc' = [pc EXCEPT ![r] = l], body' = body
  PROVE  /\ pc'[r] = l /\ Kind(r)' = Kind(r) /\ Presented(r)' = Presented(r) /\ OthersOwe(r)
         /\ l \notin {"check_email", "find_user", "insert_user", "reactivate", "write_password"}
              => ~Owing(r)'
<1>1. pc'[r] = l /\ OthersOwe(r)
  BY DEF IInv, TypeOK, OthersOwe
<1>2. Kind(r)' = Kind(r) /\ Presented(r)' = Presented(r)
  BY DEF Kind, Presented
<1> QED
  BY <1>1, <1>2 DEF Owing, Owes

\* The steps of a handler that write neither table never start to owe an effect.
LEMMA MoveSteps ==
  ASSUME IInv, NEW r \in Requests,
         \/ ReceiveEmail(r) \/ ReceiveToken(r) \/ Fail(r) \/ LockToken(r) \/ RefuseToken(r)
         \/ CheckEmail(r) \/ FindUser(r) \/ DuplicateUser(r) \/ ReactivateNobody(r)
         \/ RecordAccepted(r) \/ Answer(r) \/ SendMail(r) \/ SendFails(r) \/ ReadToken(r)
         \/ LockRevoke(r) \/ RevokesNothing(r)
  PROVE  LedgerStep
<1>1. CASE ReceiveEmail(r) \/ ReceiveToken(r)
  <2>1. /\ pc[r] = "new" /\ UNCHANGED <<token, account>>
        /\ \E k \in Kinds : pc' = [pc EXCEPT ![r] = FirstStep(k)] /\ body'[r].kind = k
        /\ \A s \in Requests \ {r} : body'[s] = body[s]
    BY <1>1 DEF ReceiveEmail, ReceiveToken, IInv, TypeOK, rows
  <2>2. PICK k \in Kinds : pc' = [pc EXCEPT ![r] = FirstStep(k)] /\ body'[r].kind = k
    BY <2>1
  <2>3. k \in EmailKinds \cup RedeemKinds \cup AdminKinds
    BY TokensAssumption
  <2>4. /\ k = "accept" => FirstStep(k) = "lock_token"
        /\ k = "reset" => FirstStep(k) = "lock_token"
    BY DEF FirstStep, RedeemKinds
  <2>5. ~Owing(r) /\ ~Owing(r)'
    BY <2>1, <2>2, <2>4 DEF Owing, Owes, Kind, IInv, TypeOK
  <2>6. OthersOwe(r)
    BY <2>1 DEF OthersOwe, IInv, TypeOK
  <2> QED
    BY <2>1, <2>5, <2>6, MovesMap
<1>2. CASE Fail(r) \/ RefuseToken(r) \/ DuplicateUser(r) \/ ReactivateNobody(r)
  <2>1. (\E l \in {"error"} : pc' = [pc EXCEPT ![r] = l]) /\ UNCHANGED <<token, account, body>>
    BY <1>2 DEF Fail, RefuseToken, DuplicateUser, InsertRefused, ReactivateNobody, rows
  <2>2. ~Owing(r)' /\ OthersOwe(r)
    BY <2>1, Goes
  <2> QED
    BY <2>1, <2>2, MovesMap
<1>3. CASE LockToken(r) \/ LockRevoke(r) \/ RecordAccepted(r) \/ Answer(r) \/ RevokesNothing(r)
  <2>1. /\ \E l \in {"consume", "revoke", "answer", "ok", "error"} : pc' = [pc EXCEPT ![r] = l]
        /\ UNCHANGED <<token, account, body>>
    BY <1>3 DEF LockToken, LockRevoke, RecordAccepted, Answer, RevokesNothing, rows
  <2>2. ~Owing(r)' /\ OthersOwe(r)
    BY <2>1, Goes
  <2> QED
    BY <2>1, <2>2, MovesMap
<1>4. CASE SendMail(r) \/ SendFails(r)
  <2>1. /\ \E l \in {"lock_revoke", "ok", "error"} : pc' = [pc EXCEPT ![r] = l]
        /\ UNCHANGED <<token, account, body>>
    BY <1>4 DEF SendMail, SendFails, AfterSend
  <2>2. ~Owing(r)' /\ OthersOwe(r)
    BY <2>1, Goes
  <2> QED
    BY <2>1, <2>2, MovesMap
<1>5. CASE ReadToken(r)
  <2>1. /\ \E l \in {"check_email", "error"} : pc' = [pc EXCEPT ![r] = l]
        /\ UNCHANGED <<token, account, body>> /\ Kind(r) = "resend"
    BY <1>5, InProgress DEF ReadToken, rows, BodyAt, KindFits
  <2>2. ~Owing(r)' /\ OthersOwe(r)
    <3>1. PICK l \in {"check_email", "error"} : pc' = [pc EXCEPT ![r] = l]
      BY <2>1
    <3>2. Kind(r)' = "resend" /\ pc'[r] = l /\ OthersOwe(r)
      BY <2>1, <3>1, Goes
    <3> QED
      BY <3>1, <3>2 DEF Owing, Owes
  <2> QED
    BY <2>1, <2>2, MovesMap
<1>6. CASE CheckEmail(r) \/ FindUser(r)
  <2>1. /\ pc[r] \in {"check_email", "find_user"} /\ UNCHANGED <<token, account, body>>
        /\ \E l : pc' = [pc EXCEPT ![r] = l]
    BY <1>6 DEF CheckEmail, FindUser, rows
  <2>2. BodyAt(r) /\ IInv'
    BY <1>6, <2>1, InProgress, CheckEmailStep, FindUserStep
  <2>3. Kind(r)' = Kind(r)
    BY <2>1 DEF Kind
  <2>4. Owing(r)' => Kind(r) \in {"accept", "reset"}
    BY <2>3 DEF Owing, Owes
  <2>5. Kind(r) # "reset"
    BY <2>1, <2>2 DEF BodyAt, KindFits
  <2>6. Owing(r)' => Owing(r)
    BY <2>1, <2>4, <2>5 DEF Owing, Owes
  <2>7. OthersOwe(r)
    BY <2>1 DEF OthersOwe, IInv, TypeOK
  <2> QED
    BY <2>1, <2>6, <2>7, MovesMap
<1> QED
  BY <1>1, <1>2, <1>3, <1>4, <1>5, <1>6

-----------------------------------------------------------------------------
(* The steps that write *)

LEMMA ConsumeMaps == ASSUME IInv, NEW r \in Requests, Consume(r) PROVE LedgerStep
<1> DEFINE t == Presented(r)
<1>1. /\ pc[r] = "consume" /\ UNCHANGED <<account, body>> /\ token' = [token EXCEPT ![t].used = TRUE]
      /\ pc' = [pc EXCEPT ![r] = IF Kind(r) = "reset" THEN "write_password" ELSE "check_email"]
  BY DEF Consume
<1>2. /\ t \in Tokens /\ token[t] \in TokenRow /\ ~token[t].used /\ ~token[t].revoked
      /\ Kind(r) \in {"accept", "reset"}
  BY <1>1, InProgress DEF BodyAt, KindFits, EmailKinds, LockAt, Unspent, Row, IInv, TypeOK
<1> DEFINE row == [token[t] EXCEPT !.used = TRUE]
<1>3. /\ row \in TokenRow /\ row.used /\ row.account = token[t].account /\ row.purpose = token[t].purpose
      /\ row # None /\ token[t] # None
  BY <1>2, Distinct DEF TokenRow
<1>4. t' = t /\ Kind(r)' = Kind(r)
  BY <1>1 DEF Presented, Kind
<1>5. Owed' = Owed \cup {t}
  <2>1. ~Owing(r) /\ Owing(r)' /\ OthersOwe(r)
    <3>1. pc'[r] = (IF Kind(r) = "reset" THEN "write_password" ELSE "check_email") /\ OthersOwe(r)
      BY <1>1, Goes
    <3> QED
      BY <1>1, <1>2, <1>4, <3>1 DEF Owing, Owes
  <2> QED
    BY <1>4, <2>1, OwedMore
<1> HIDE DEF t, row
<1>6. \A u \in Tokens : token'[u] = IF u = t THEN row ELSE token[u]
  BY <1>1, <1>2 DEF IInv, TypeOK, row
<1>7. TokenStates[t] = "live" /\ TokenStates' = [TokenStates EXCEPT ![t] = "used"]
  BY <1>2, <1>3, <1>6 DEF TokenStates, StateOf
<1>8. Grants' = Grants
  BY <1>2, <1>3, <1>6 DEF Grants, GrantOf
<1>9. Ledger!Redeem(t)
  BY <1>1, <1>5, <1>7, <1>8 DEF Ledger!Redeem
<1> QED
  BY <1>2, <1>9 DEF LedgerStep, Ledger!Next

LEMMA RevokeMaps == ASSUME IInv, NEW r \in Requests, Revoke(r) PROVE LedgerStep
<1> DEFINE t == Presented(r)
<1>1. /\ pc[r] = "revoke" /\ UNCHANGED <<account, body>> /\ token' = [token EXCEPT ![t].revoked = TRUE]
      /\ pc' = [pc EXCEPT ![r] = "ok"]
  BY DEF Revoke
<1>2. /\ t \in Tokens /\ token[t] \in TokenRow /\ ~token[t].used /\ ~token[t].revoked
      /\ Kind(r) \in {"revoke", "resend"}
  <2>1. BodyAt(r) /\ LockAt(r) /\ Kind(r) \in {"revoke", "resend"}
    BY <1>1, InProgress DEF BodyAt, KindFits
  <2>2. t \in Tokens /\ token[t] # None
    BY <1>1, <2>1 DEF BodyAt, EmailKinds, Row
  <2>3. token[t] \in TokenRow
    BY <2>2 DEF IInv, TypeOK
  <2> QED
    BY <1>1, <2>1, <2>2, <2>3 DEF LockAt, Unspent, Row
<1> DEFINE row == [token[t] EXCEPT !.revoked = TRUE]
<1>3. /\ row \in TokenRow /\ ~row.used /\ row.revoked
      /\ row.account = token[t].account /\ row.purpose = token[t].purpose
      /\ row # None /\ token[t] # None
  BY <1>2, Distinct DEF TokenRow
<1>4. Owed' = Owed
  <2>1. ~Owing(r) /\ ~Owing(r)' /\ OthersOwe(r)
    BY <1>1, Goes DEF Owing, Owes
  <2> QED
    BY <2>1, OwedKept
<1> HIDE DEF t, row
<1>5. \A u \in Tokens : token'[u] = IF u = t THEN row ELSE token[u]
  BY <1>1, <1>2 DEF IInv, TypeOK, row
<1>6. TokenStates[t] = "live" /\ TokenStates' = [TokenStates EXCEPT ![t] = "revoked"]
  BY <1>2, <1>3, <1>5 DEF TokenStates, StateOf
<1>7. Grants' = Grants
  BY <1>2, <1>3, <1>5 DEF Grants, GrantOf
<1>8. Ledger!Revoke(t)
  BY <1>1, <1>4, <1>6, <1>7 DEF Ledger!Revoke
<1> QED
  BY <1>2, <1>8 DEF LedgerStep, Ledger!Next

\* A new token is issued for the account its request works on.
LEMMA CreateTokenMaps == ASSUME IInv, NEW r \in Requests, CreateToken(r) PROVE LedgerStep
<1> DEFINE row == [account |-> subject[r], purpose |-> PurposeOf(Kind(r)),
                   used |-> FALSE, revoked |-> FALSE]
<1>1. PICK t \in Tokens : token[t] = None /\ token' = [token EXCEPT ![t] = row]
  BY NextIsUnissued DEF CreateToken
<1>2. /\ pc[r] = "create_token" /\ UNCHANGED <<account, body>>
      /\ \E l \in {"send_mail"} : pc' = [pc EXCEPT ![r] = l]
  BY DEF CreateToken
<1>3. subject[r] \in Accounts
  BY <1>2, InProgress DEF BodyAt, OnAccount
<1>4. row \in TokenRow /\ row # None
  <2>1. row \in TokenRow
    BY <1>3 DEF TokenRow, PurposeOf, Purposes
  <2> QED
    BY <2>1, Distinct
<1>5. /\ row.account = subject[r] /\ row.purpose \in {"invite", "password_reset"}
      /\ ~row.used /\ ~row.revoked
  BY DEF PurposeOf
<1> HIDE DEF row
<1>6. Owed' = Owed
  <2>1. ~Owing(r) /\ ~Owing(r)' /\ OthersOwe(r)
    BY <1>2, Goes DEF Owing, Owes
  <2> QED
    BY <2>1, OwedKept
<1>7. \A u \in Tokens : token'[u] = IF u = t THEN row ELSE token[u]
  BY <1>1 DEF IInv, TypeOK
<1>8. TokenStates[t] = "absent" /\ TokenStates' = [TokenStates EXCEPT ![t] = "live"]
  BY <1>1, <1>4, <1>5, <1>7 DEF TokenStates, StateOf
<1>9. Grants' = [Grants EXCEPT ![t] = [account |-> subject[r], purpose |-> row.purpose]]
  BY <1>1, <1>4, <1>5, <1>7 DEF Grants, GrantOf
<1>10. Ledger!Issue(t, subject[r])
  BY <1>2, <1>5, <1>6, <1>8, <1>9 DEF Ledger!Issue
<1> QED
  BY <1>3, <1>10 DEF LedgerStep, Ledger!Next

\* The password is written if the account is live, and the debt forgotten if not.
LEMMA WritePasswordMaps == ASSUME IInv, NEW r \in Requests, WritePassword(r) PROVE LedgerStep
<1> DEFINE t == Presented(r)
<1>1. /\ pc[r] = "write_password" /\ UNCHANGED <<token, body>>
      /\ \E l \in {"ok"} : pc' = [pc EXCEPT ![r] = l]
      /\ account' = PasswordWritten(r)
  BY DEF WritePassword
<1>2. Owing(r) /\ Kind(r) = "reset"
  BY <1>1, InProgress DEF BodyAt, KindFits, Owing, Owes
<1>3. /\ t \in Tokens /\ token[t] # None /\ subject[r] = token[t].account
      /\ token[t].purpose = "password_reset" /\ t \in Owed
  BY <1>2, OwingFacts DEF Row
<1>4. Owed' = Owed \ {t}
  <2>1. ~Owing(r)' /\ OthersOwe(r)
    BY <1>1, Goes
  <2> QED
    BY <1>2, <2>1, OwedPaid
<1>5. TokenStates' = TokenStates /\ Grants' = Grants
  BY <1>1, ViewKept
<1>6. Grants[t].account = subject[r] /\ Grants[t].purpose = "password_reset"
  BY <1>3 DEF Grants, GrantOf
<1> HIDE DEF t
<1>7. CASE IsLive(subject[r])
  <2>1. account' = [account EXCEPT ![subject[r]].password = r]
    BY <1>1, <1>7 DEF PasswordWritten
  <2>2. Ledger!ResetPassword(t)
    BY <1>3, <1>4, <1>5, <1>6, <1>7, <2>1 DEF Ledger!ResetPassword, Ledger!IsLive, IsLive
  <2> QED
    BY <1>3, <2>2 DEF LedgerStep, Ledger!Next
<1>8. CASE ~IsLive(subject[r])
  <2>1. account' = account
    BY <1>1, <1>8 DEF PasswordWritten
  <2>2. Ledger!Forfeit(t)
    BY <1>3, <1>4, <1>5, <2>1 DEF Ledger!Forfeit
  <2> QED
    BY <1>3, <2>2 DEF LedgerStep, Ledger!Next
<1> QED
  BY <1>7, <1>8

\* An account is opened for an invitation, or where nobody has had one.
LEMMA OpenMaps ==
  ASSUME IInv, NEW r \in Requests, InsertUser(r) \/ ReactivateUser(r)
  PROVE  LedgerStep
<1> DEFINE t == Presented(r)
<1>1. /\ pc[r] \in {"insert_user", "reactivate"} /\ UNCHANGED <<token, body>>
      /\ pc[r] = "insert_user" => account[subject[r]] = None
      /\ ~IsLive(subject[r])
      /\ account' = [account EXCEPT ![subject[r]] = NewAccount(r)]
      /\ pc' = [pc EXCEPT ![r] = AfterUser(Kind(r))]
  BY DEF InsertUser, ReactivateUser, Vacant, StillClosed, IsLive
<1>2. /\ Kind(r) \in {"register", "order", "accept"} /\ subject[r] \in Accounts
      /\ pc[r] = "reactivate" => Kind(r) = "accept"
  BY <1>1, InProgress DEF BodyAt, KindFits, OnAccount
<1>3. ~Owing(r)' /\ OthersOwe(r)
  <2>1. AfterUser(Kind(r)) \in {"ok", "record", "answer"}
    BY <1>2 DEF AfterUser
  <2>2. \E l \in {"ok", "record", "answer"} : pc' = [pc EXCEPT ![r] = l]
    BY <1>1, <2>1
  <2> QED
    BY <1>1, <2>2, Goes
<1>4. TokenStates' = TokenStates /\ Grants' = Grants
  BY <1>1, ViewKept
<1>5. CASE Kind(r) = "accept"
  <2>1. Owing(r)
    BY <1>1, <1>5 DEF Owing, Owes
  <2>2. /\ t \in Tokens /\ token[t] # None /\ subject[r] = token[t].account
        /\ token[t].purpose = "invite" /\ t \in Owed
    BY <1>5, <2>1, OwingFacts DEF Row
  <2>3. Owed' = Owed \ {t}
    BY <1>3, <2>1, OwedPaid
  <2>4. Grants[t].account = subject[r] /\ Grants[t].purpose = "invite"
    BY <2>2 DEF Grants, GrantOf
  <2>5. NewAccount(r) = [live |-> TRUE, role |-> "admin", password |-> r]
    BY <1>5 DEF NewAccount
  <2> HIDE DEF t
  <2>6. Ledger!OpenInvited(t)
    BY <1>1, <1>4, <2>2, <2>3, <2>4, <2>5 DEF Ledger!OpenInvited, Ledger!IsLive, IsLive
  <2> QED
    BY <2>2, <2>6 DEF LedgerStep, Ledger!Next
<1>6. CASE Kind(r) # "accept"
  <2>1. ~Owing(r) /\ account[subject[r]] = None
    BY <1>1, <1>2, <1>6 DEF Owing, Owes
  <2>2. Owed' = Owed
    BY <1>3, <2>1, OwedKept
  <2>3. PICK role \in {"admin", "client"}, w \in Requests \cup {None} :
          NewAccount(r) = [live |-> TRUE, role |-> role, password |-> w]
    BY DEF NewAccount
  <2>4. Ledger!Enrol(subject[r])
    BY <1>1, <1>4, <2>1, <2>2, <2>3 DEF Ledger!Enrol
  <2> QED
    BY <1>2, <2>4 DEF LedgerStep, Ledger!Next
<1> QED
  BY <1>5, <1>6

\* Time and the database's operator.
LEMMA ExpireMaps == ASSUME IInv, NEW t \in Tokens, Expire(t) PROVE LedgerStep
<1>1. UNCHANGED <<token, account, pc, body>>
  BY DEF Expire
<1>2. Owed' = Owed
  BY <1>1 DEF Owed, Owes, Presented, Kind
<1> QED
  BY <1>1, <1>2, ViewKept DEF LedgerStep, Ledger!vars

LEMMA CloseAccountMaps == ASSUME IInv, NEW a \in Accounts, CloseAccount(a) PROVE LedgerStep
<1>1. /\ UNCHANGED <<token, pc, body>> /\ IsLive(a)
      /\ account' = [account EXCEPT ![a].live = FALSE]
  BY DEF CloseAccount
<1>2. Owed' = Owed
  BY <1>1 DEF Owed, Owes, Presented, Kind
<1>3. Ledger!Close(a)
  BY <1>1, <1>2, ViewKept DEF Ledger!Close, Ledger!IsLive, IsLive
<1> QED
  BY <1>3 DEF LedgerStep, Ledger!Next

-----------------------------------------------------------------------------
(* The refinement *)

LEMMA NextMaps == IInv /\ [Next]_vars => LedgerStep
<1> SUFFICES ASSUME IInv, [Next]_vars PROVE LedgerStep
  OBVIOUS
<1>1. CASE UNCHANGED vars
  <2>1. UNCHANGED <<token, account, pc, body>>
    BY <1>1 DEF vars
  <2>2. Owed' = Owed
    BY <2>1 DEF Owed, Owes, Presented, Kind
  <2> QED
    BY <2>1, <2>2, ViewKept DEF LedgerStep, Ledger!vars
<1>2. ASSUME NEW r \in Requests, ReceiveEmail(r) \/ ReceiveToken(r) \/ Handle(r) \/ Fail(r)
      PROVE  LedgerStep
  BY <1>2, MoveSteps, ConsumeMaps, RevokeMaps, CreateTokenMaps, WritePasswordMaps, OpenMaps DEF Handle
<1> QED
  BY <1>1, <1>2, ExpireMaps, CloseAccountMaps DEF Next

\* Every behaviour of the handlers is one of the ledger's: a token is worth at most
\* one effect, on its own account and of its own kind (ConsumeToken and what follows).
THEOREM TokensImplementLedger == Spec => ImplementsLedger
<1>1. Init => Ledger!Init
  BY InitMaps
<1>2. IInv /\ [Next]_vars => [Ledger!Next]_(Ledger!vars)
  BY NextMaps DEF LedgerStep
<1> QED
  BY <1>1, <1>2, Invariance, PTL DEF Spec, ImplementsLedger, Ledger!Spec

=============================================================================

----------------------------- MODULE TokenLedger ------------------------------
(***************************************************************************)
(* What one-time tokens promise: a token is issued for one account and one *)
(* purpose, and from then on it is redeemed at most once or revoked, never *)
(* both.  Redeeming it owes its bearer one effect on that very account: an *)
(* invitation opens it, a password reset changes its password.  The effect *)
(* happens at most once, and may be lost.  ActionTokens implements this.   *)
(***************************************************************************)
CONSTANTS Tokens, Accounts, Writers, InitAccounts, InitGrants, None

VARIABLES state,    \* of each token: absent, live, used or revoked
          grant,    \* the account and the purpose a token was issued for
          owed,     \* redeemed tokens whose effect is still to come
          account   \* user rows, None when absent

vars == <<state, grant, owed, account>>

Init ==
  /\ account \in InitAccounts
  /\ grant \in InitGrants
  /\ state = [t \in Tokens |-> IF grant[t] = None THEN "absent" ELSE "live"]
  /\ owed = {}

IsLive(a) == account[a] # None /\ account[a].live

Issue(t, a) ==
  /\ state[t] = "absent"
  /\ state' = [state EXCEPT ![t] = "live"]
  /\ \E p \in {"invite", "password_reset"} :
       grant' = [grant EXCEPT ![t] = [account |-> a, purpose |-> p]]
  /\ UNCHANGED <<owed, account>>

Revoke(t) ==
  /\ state[t] = "live"
  /\ state' = [state EXCEPT ![t] = "revoked"]
  /\ UNCHANGED <<grant, owed, account>>

Redeem(t) ==
  /\ state[t] = "live"
  /\ state' = [state EXCEPT ![t] = "used"]
  /\ owed' = owed \cup {t}
  /\ UNCHANGED <<grant, account>>

\* An invitation opens an account that is absent or closed, as an admin's.
OpenInvited(t) ==
  /\ t \in owed /\ grant[t].purpose = "invite"
  /\ ~IsLive(grant[t].account)
  /\ \E w \in Writers :
       account' = [account EXCEPT ![grant[t].account] =
                     [live |-> TRUE, role |-> "admin", password |-> w]]
  /\ owed' = owed \ {t}
  /\ UNCHANGED <<state, grant>>

\* A reset changes the password of a live account and nothing else.
ResetPassword(t) ==
  /\ t \in owed /\ grant[t].purpose = "password_reset"
  /\ IsLive(grant[t].account)
  /\ \E w \in Writers :
       account' = [account EXCEPT ![grant[t].account].password = w]
  /\ owed' = owed \ {t}
  /\ UNCHANGED <<state, grant>>

\* The effect is lost: the request failed after the token was used.
Forfeit(t) ==
  /\ t \in owed
  /\ owed' = owed \ {t}
  /\ UNCHANGED <<state, grant, account>>

\* Registering, or placing a first order, opens an account nobody has had.
Enrol(a) ==
  /\ account[a] = None
  /\ \E role \in {"admin", "client"}, w \in Writers \cup {None} :
       account' = [account EXCEPT ![a] = [live |-> TRUE, role |-> role, password |-> w]]
  /\ UNCHANGED <<state, grant, owed>>

Close(a) ==
  /\ IsLive(a)
  /\ account' = [account EXCEPT ![a].live = FALSE]
  /\ UNCHANGED <<state, grant, owed>>

Next ==
  \/ \E t \in Tokens, a \in Accounts : Issue(t, a)
  \/ \E t \in Tokens : \/ Revoke(t) \/ Redeem(t) \/ OpenInvited(t)
                       \/ ResetPassword(t) \/ Forfeit(t)
  \/ \E a \in Accounts : Enrol(a) \/ Close(a)

Spec == Init /\ [][Next]_vars

=============================================================================

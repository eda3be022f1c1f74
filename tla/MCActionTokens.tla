---------------------------- MODULE MCActionTokens ----------------------------
(* Constants of the TLC runs of ActionTokens. *)
EXTENDS ActionTokens, TLC

CONSTANTS n1, n2, ana, Ana, t1, t2

Redemptions  == {"accept", "reset", "register", "order", "forgot"}
AllKinds     == EmailKinds \cup RedeemKinds \cup AdminKinds

\* "Ana" and "ana" are the same address in two spellings.
LowerCase == [e \in Emails |-> IF e = Ana THEN ana ELSE e]

Customer(live) == [live |-> live, role |-> "client", password |-> None]
Nobody == [a \in Accounts |-> None]
JustOne(a, row) == [Nobody EXCEPT ![a] = row]

\* The address is unknown, a customer's, or that of an account closed before.
AnyCustomer == {Nobody} \cup {JustOne(<<n1, ana>>, Customer(live)) : live \in BOOLEAN}

Fresh(purpose) == [account |-> <<n1, ana>>, purpose |-> purpose, used |-> FALSE, revoked |-> FALSE]
Mailed(to, purpose) == [t \in Tokens |-> IF t \in to THEN Fresh(purpose) ELSE None]
NoTokens   == {Mailed({}, "invite")}
SomeMailed == {Mailed({t1}, "password_reset"), Mailed({t1}, "invite"), Mailed({t1, t2}, "invite")}

AnyTables == AnyCustomer \X NoTokens

\* A customer's reset, an invitation of somebody new, two of somebody whose account is closed.
SomeTables == {<<JustOne(<<n1, ana>>, Customer(TRUE)), Mailed({t1}, "password_reset")>>,
               <<Nobody, Mailed({t1}, "invite")>>,
               <<JustOne(<<n1, ana>>, Customer(FALSE)), Mailed({t1, t2}, "invite")>>}
=============================================================================

-------------------------- MODULE TenantSignupProofs --------------------------
(* The safety properties of TenantSignup, for every instance. *)
EXTENDS TenantSignup, TLAPS

USE TenantSignupAssumption

InTx == {"insert_tenant", "insert_admin", "consume", "commit"}
Places == Final \cup InTx \cup {"new", "send", "persist", "lock", "sign"}

\* What is asked, by where the handler stands.
Asks(r) ==
  /\ body[r] \in Body
  /\ Code(r) # None <=> Kind(r) \in {"create", "register"}
  /\ body[r].base # None <=> Kind(r) \in {"register", "bootstrap"}
  /\ pc[r] \in {"send", "persist"} => Kind(r) = "create"
  /\ pc[r] \in InTx \cup {"sign", "lock", "refused", "conflict"} => Kind(r) # "create"
  /\ pc[r] \in {"lock", "consume"} => Kind(r) = "register"
  /\ Kind(r) # "register" => attempt[r] = 1

\* A code that is being created is the request's own.
Creates(r) == Kind(r) = "create" =>
  /\ Code(r) \in issued
  /\ pc[r] \in {"send", "persist"} => code[Code(r)] = None
  /\ pc[r] = "persist" => Code(r) \in mailed

\* What a transaction holds, and what it has seen in the row it holds.
Holds(r) ==
  /\ pc[r] \in InTx /\ Kind(r) = "register" =>
       /\ lock[Code(r)] = r /\ code[Code(r)] # None
       /\ code[Code(r)].usedBy = None /\ ~code[Code(r)].revoked
  /\ \A c \in Codes : lock[c] = r => pc[r] \in InTx /\ Kind(r) = "register" /\ c = Code(r)
  /\ pc[r] \in {"insert_admin", "consume", "commit"} => claim[Slug(r)] = r /\ tenant[Slug(r)] = None
  /\ r \in late => Kind(r) = "register" /\ Dead(Code(r)) /\ pc[r] \notin InTx

\* Who has a tenant has been through the commit.
Owns(r) ==
  /\ \A s \in Slugs : Has(r, s) => pc[r] \in {"sign", "ok", "error"} /\ r \notin late
  /\ pc[r] = "sign" \/ (pc[r] = "ok" /\ Kind(r) # "create") => Has(r, Slug(r))

\* The slugs tried before.
Tried(r) == Kind(r) # "create" =>
  \A n \in 1..attempt[r] : (n < attempt[r] \/ pc[r] = "conflict") => tenant[Candidate(r, n)] # None

Local(r) == IF pc[r] = "new"
  THEN body[r] = None /\ attempt[r] = 1 /\ r \notin late
       /\ (\A s \in Slugs : ~Has(r, s)) /\ (\A c \in Codes : lock[c] # r)
  ELSE Asks(r) /\ Creates(r) /\ Holds(r) /\ Owns(r) /\ Tried(r)

CreatedOnce == \A q, r \in Requests :
  pc[q] # "new" /\ pc[r] # "new" /\ Kind(q) = "create" /\ Kind(r) = "create" /\ Code(q) = Code(r) => q = r

Rows == \A c \in Codes : code[c] # None =>
  c \in issued /\ c \in mailed /\ (code[c].revoked => code[c].usedBy = None)

IInv == TypeOK /\ (\A r \in Requests : Local(r)) /\ CreatedOnce /\ Rows /\ OneTenantPerCode

-----------------------------------------------------------------------------
(* What a step of one handler leaves to the others *)

Stays(q) == /\ pc'[q] = pc[q] /\ body'[q] = body[q] /\ attempt'[q] = attempt[q]
            /\ q \in late' <=> q \in late

LeavesTo(q) ==
  /\ Stays(q)
  /\ \A c \in Codes : (lock[c] = q <=> lock'[c] = q) /\ (lock[c] = q => code'[c] = code[c])
  /\ \A c \in Codes : code[c] = None /\ code'[c] # None =>
       ~(pc[q] \in {"send", "persist"} /\ Kind(q) = "create" /\ Code(q) = c)
  /\ \A s \in Slugs : claim[s] = q => claim'[s] = q /\ tenant'[s] = tenant[s]
  /\ \A s \in Slugs : tenant'[s] = tenant[s] \/ (tenant[s] = None /\ tenant'[s] # None /\ tenant'[s].by # q)

Grows ==
  /\ issued \subseteq issued' /\ mailed \subseteq mailed' /\ expired \subseteq expired'
  /\ \A c \in Codes : code[c] # None => code'[c] # None /\ (code[c].revoked => code'[c].revoked)

\* The parts of a request.
LEMMA Parts ==
  ASSUME NEW q \in Requests, Asks(q)
  PROVE  /\ body[q] # None /\ Kind(q) \in {"create", "register", "bootstrap"}
         /\ Kind(q) \in {"create", "register"} => Code(q) \in Codes
         /\ Kind(q) = "bootstrap" => Code(q) = None
         /\ Kind(q) # "create" => body[q].base \in Bases
BY DEF Asks, Body, Kind, Code

LEMMA CandidateIsSlug ==
  ASSUME NEW q \in Requests, Asks(q), Kind(q) # "create", NEW n \in 1..MaxAttempts
  PROVE  Candidate(q, n) \in Slugs
BY Parts DEF Candidate

LEMMA LocalStays ==
  ASSUME TypeOK, NEW q \in Requests, Local(q), LeavesTo(q), Grows
  PROVE  Local(q)'
<1>1. pc'[q] = pc[q] /\ body'[q] = body[q] /\ attempt'[q] = attempt[q] /\ (q \in late' <=> q \in late)
  BY DEF LeavesTo, Stays
<1>0. Kind(q)' = Kind(q) /\ Code(q)' = Code(q) /\ Slug(q)' = Slug(q)
  BY <1>1 DEF Kind, Code, Slug, Candidate
<1>2. \A s \in Slugs : Has(q, s)' <=> Has(q, s)
  BY DEF LeavesTo, Has
<1>3. CASE pc[q] = "new"
  BY <1>1, <1>2, <1>3 DEF Local, LeavesTo
<1>4. CASE pc[q] # "new"
  <2>1. Asks(q)'
    BY <1>0, <1>1, <1>4 DEF Local, Asks
  <2>2. Creates(q)'
    <3>1. Kind(q) = "create" => Code(q) \in Codes
      BY <1>4, Parts DEF Local
    <3> QED
      BY <1>0, <1>1, <1>4, <3>1 DEF Local, Creates, LeavesTo, Grows
  <2>3. Slug(q) \in Slugs \/ Kind(q) = "create"
    <3>1. attempt[q] \in 1..MaxAttempts
      BY DEF TypeOK
    <3> QED
      BY <1>4, <3>1, CandidateIsSlug DEF Local, Slug
  <2>4. Holds(q)'
    <3>1. Kind(q) = "register" => Code(q) \in Codes
      BY <1>4, Parts DEF Local
    <3> QED
      BY <1>0, <1>1, <1>4, <2>3, <3>1 DEF Local, Asks, Holds, LeavesTo, Grows, Dead, InTx
  <2>5. Owns(q)'
    BY <1>0, <1>1, <1>2, <1>4, <2>3 DEF Local, Asks, Owns, InTx
  <2>6. Tried(q)'
    <3> SUFFICES ASSUME Kind(q) # "create", NEW n \in 1..attempt[q], n < attempt[q] \/ pc[q] = "conflict"
                 PROVE  tenant'[Candidate(q, n)] # None
      BY <1>0, <1>1 DEF Tried, Candidate, Kind
    <3>1. tenant[Candidate(q, n)] # None
      BY <1>4 DEF Local, Tried
    <3>2. n \in 1..MaxAttempts
      BY DEF TypeOK
    <3>3. Candidate(q, n) \in Slugs
      BY <1>4, <3>2, CandidateIsSlug DEF Local
    <3> QED
      BY <3>1, <3>3 DEF LeavesTo
  <2> QED
    BY <1>1, <1>4, <2>1, <2>2, <2>4, <2>5, <2>6 DEF Local
<1> QED
  BY <1>3, <1>4

Effect(r) ==
  /\ TypeOK' /\ (\A q \in Requests \ {r} : LeavesTo(q)) /\ Grows
  /\ Local(r)' /\ Rows' /\ CreatedOnce' /\ OneTenantPerCode'

LEMMA EffectKeeps ==
  ASSUME IInv, NEW r \in Requests, Effect(r)
  PROVE  IInv'
<1>1. ASSUME NEW q \in Requests PROVE Local(q)'
  BY LocalStays DEF IInv, Effect
<1> QED
  BY <1>1 DEF IInv, Effect

\* Most steps change neither the committed rows nor what is asked.
LEMMA Quiet ==
  ASSUME IInv, NEW r \in Requests, pc[r] # "new", TypeOK',
         UNCHANGED <<rows, issued, body, late>>, mailed \subseteq mailed', expired \subseteq expired',
         \A q \in Requests \ {r} : pc'[q] = pc[q] /\ attempt'[q] = attempt[q],
         \A q \in Requests \ {r} : /\ \A c \in Codes : lock[c] = q <=> lock'[c] = q
                                   /\ \A s \in Slugs : claim[s] = q => claim'[s] = q,
         Local(r)'
  PROVE  Effect(r)
<1>1. CreatedOnce'
  BY DEF IInv, CreatedOnce, Kind, Code
<1>2. Rows'
  BY DEF IInv, Rows, rows
<1>3. OneTenantPerCode'
  BY DEF IInv, OneTenantPerCode, BoughtWith, rows
<1>4. Grows /\ \A q \in Requests \ {r} : LeavesTo(q)
  BY DEF Grows, LeavesTo, Stays, rows
<1> QED
  BY <1>1, <1>2, <1>3, <1>4 DEF Effect

\* The handler's own conditions when it goes on without a new attempt.
LEMMA Same ==
  ASSUME IInv, NEW r \in Requests, pc[r] # "new", UNCHANGED <<body, attempt>>
  PROVE  /\ body'[r] = body[r] /\ Kind(r)' = Kind(r) /\ Code(r)' = Code(r) /\ Slug(r)' = Slug(r)
         /\ attempt'[r] = attempt[r] /\ attempt[r] \in 1..MaxAttempts
         /\ Asks(r) /\ Creates(r) /\ Holds(r) /\ Owns(r) /\ Tried(r)
         /\ Kind(r) # "create" => Slug(r) \in Slugs
<1>1. Asks(r) /\ Creates(r) /\ Holds(r) /\ Owns(r) /\ Tried(r) /\ attempt[r] \in 1..MaxAttempts
  BY DEF IInv, Local, TypeOK
<1>2. Kind(r) # "create" => Slug(r) \in Slugs
  BY <1>1, CandidateIsSlug DEF Slug
<1> QED
  BY <1>1, <1>2 DEF Kind, Code, Slug, Candidate

\* What was tried stays tried.
LEMMA TriedStays ==
  ASSUME IInv, NEW r \in Requests, pc[r] # "new", UNCHANGED <<body, attempt, tenant>>,
         pc'[r] # "conflict"
  PROVE  Tried(r)'
BY Same DEF Tried, Candidate, Kind

LEMMA GotoOf ==
  ASSUME TypeOK, NEW r \in Requests, NEW l, Goto(r, l)
  PROVE  /\ pc'[r] = l /\ \A q \in Requests \ {r} : pc'[q] = pc[q]
         /\ l \in Places => pc' \in [Requests -> Places]
BY DEF TypeOK, Goto, Places, InTx

LEMMA SendStep ==
  ASSUME IInv, NEW r \in Requests, SendTenantSignupCode(r) \/ SendFails(r)
  PROVE  Effect(r)
<1>1. /\ pc[r] = "send" /\ UNCHANGED <<rows, issued, expired, locks, body, attempt, late>>
      /\ mailed \subseteq mailed' /\ mailed' \subseteq mailed \cup {Code(r)}
      /\ \/ pc'[r] = "persist" /\ Code(r) \in mailed'
         \/ pc'[r] = "error"
      /\ pc' \in [Requests -> Places] /\ \A q \in Requests \ {r} : pc'[q] = pc[q]
  BY GotoOf DEF SendTenantSignupCode, SendFails, At, IInv, Places, Final
<1>2. Kind(r) = "create" /\ Code(r) \in Codes
  BY <1>1, Same, Parts DEF Asks
<1>3. TypeOK'
  BY <1>1, <1>2 DEF IInv, TypeOK, Places, InTx, rows, locks
<1>4. Asks(r)' /\ Creates(r)' /\ Holds(r)'
  BY <1>1, <1>2, Same DEF Asks, Creates, Holds, InTx, rows, locks, Dead
<1>5. Owns(r)'
  BY <1>1, <1>2, Same DEF Owns, Has, rows
<1>6. Tried(r)'
  BY <1>1, <1>2, Same DEF Tried
<1>7. Local(r)'
  BY <1>1, <1>4, <1>5, <1>6 DEF Local
<1> QED
  BY <1>1, <1>3, <1>7, Quiet DEF locks

LEMMA CreateStep ==
  ASSUME IInv, NEW r \in Requests, CreateSignupCode(r)
  PROVE  Effect(r)
<1>1. /\ pc[r] = "persist" /\ UNCHANGED <<tenant, mail, expired, locks, body, attempt, late>>
      /\ code' = [code EXCEPT ![Code(r)] = [usedBy |-> None, revoked |-> FALSE]]
      /\ pc'[r] \in {"ok", "error"}
      /\ pc' \in [Requests -> Places] /\ \A q \in Requests \ {r} : pc'[q] = pc[q]
  BY GotoOf DEF CreateSignupCode, At, IInv, Places, Final
<1>2. /\ Kind(r) = "create" /\ Code(r) \in Codes /\ code[Code(r)] = None
      /\ Code(r) \in issued /\ Code(r) \in mailed
  BY <1>1, Same, Parts DEF Asks, Creates
<1>0. code \in [Codes -> CodeRow \cup {None}] /\ None \notin CodeRow
  BY DEF IInv, TypeOK
<1>3. /\ code'[Code(r)].usedBy = None /\ ~code'[Code(r)].revoked /\ code'[Code(r)] # None
      /\ \A c \in Codes \ {Code(r)} : code'[c] = code[c]
      /\ code' \in [Codes -> CodeRow \cup {None}]
  <2>1. [usedBy |-> None, revoked |-> FALSE] \in CodeRow
    BY DEF CodeRow
  <2> QED
    BY <1>0, <1>1, <1>2, <2>1
<1>4. TypeOK'
  BY <1>1, <1>3 DEF IInv, TypeOK, Places, InTx, mail, locks
<1>5. Local(r)'
  <2>1. Asks(r)' /\ Creates(r)' /\ Holds(r)'
    BY <1>1, <1>2, Same DEF Asks, Creates, Holds, InTx, mail, locks
  <2>2. Owns(r)' /\ Tried(r)'
    BY <1>1, <1>2, Same DEF Owns, Has, Tried
  <2> QED
    BY <1>1, <2>1, <2>2 DEF Local
<1>6. ASSUME NEW q \in Requests \ {r} PROVE LeavesTo(q)
  <2>1. \A c \in Codes : lock[c] = q => c # Code(r)
    \* A row that is locked is a row that is there.
    <3>1. ASSUME NEW c \in Codes, lock[c] = q, c = Code(r) PROVE FALSE
      <4>1. Local(q) /\ pc[q] # "new"
        BY <3>1 DEF IInv, Local
      <4>2. code[Code(q)] # None /\ c = Code(q)
        BY <3>1, <4>1 DEF Local, Holds
      <4> QED
        BY <1>2, <3>1, <4>2
    <3> QED
      BY <3>1
  <2>2. ~(pc[q] \in {"send", "persist"} /\ Kind(q) = "create" /\ Code(q) = Code(r))
    BY <1>1, <1>2, <1>6 DEF IInv, CreatedOnce
  <2> QED
    BY <1>1, <1>3, <1>6, <2>1, <2>2 DEF LeavesTo, Stays, locks
<1>7. Grows
  BY <1>1, <1>2, <1>3 DEF Grows, mail
<1>8. Rows' /\ CreatedOnce'
  BY <1>1, <1>2, <1>3 DEF IInv, Rows, CreatedOnce, Kind, Code, mail
<1>9. OneTenantPerCode'
  BY <1>1, <1>2, <1>3 DEF IInv, OneTenantPerCode, BoughtWith
<1> QED
  BY <1>4, <1>5, <1>6, <1>7, <1>8, <1>9 DEF Effect

LEMMA LockStep ==
  ASSUME IInv, NEW r \in Requests, LockCode(r)
  PROVE  Effect(r)
<1>1. /\ pc[r] = "lock" /\ lock[Code(r)] = None /\ Usable(Code(r))
      /\ UNCHANGED <<rows, mail, expired, claim, body, attempt, late>>
      /\ lock' = [lock EXCEPT ![Code(r)] = r] /\ pc'[r] = "insert_tenant"
      /\ pc' \in [Requests -> Places] /\ \A q \in Requests \ {r} : pc'[q] = pc[q]
  BY GotoOf DEF LockCode, Lock, At, IInv, Places, InTx
<1>2. Kind(r) = "register" /\ Code(r) \in Codes
  BY <1>1, Same, Parts DEF Asks
<1>3. /\ lock'[Code(r)] = r /\ lock' \in [Codes -> Requests \cup {None}]
      /\ \A c \in Codes, q \in Requests \ {r} : lock[c] = q <=> lock'[c] = q
      /\ \A c \in Codes \ {Code(r)} : lock'[c] = lock[c]
  BY <1>1, <1>2 DEF IInv, TypeOK
<1>4. TypeOK'
  BY <1>1, <1>3 DEF IInv, TypeOK, Places, InTx, rows, mail
<1>5. Asks(r)' /\ Creates(r)'
  BY <1>1, <1>2, Same DEF Asks, Creates, InTx
<1>6. Holds(r)'
  BY <1>1, <1>2, <1>3, Same DEF Holds, Usable, Dead, InTx, rows
<1>7. Owns(r)'
  BY <1>1, <1>2, Same DEF Owns, Has, rows
<1>8. Tried(r)'
  BY <1>1, TriedStays DEF rows
<1>9. Local(r)'
  BY <1>1, <1>5, <1>6, <1>7, <1>8 DEF Local
<1> QED
  BY <1>1, <1>3, <1>4, <1>9, Quiet DEF mail

LEMMA RefuseStep ==
  ASSUME IInv, NEW r \in Requests, RefuseCode(r)
  PROVE  Effect(r)
<1>1. /\ pc[r] = "lock" /\ UNCHANGED <<rows, mail, expired, locks, body, attempt, late>>
      /\ pc'[r] = "refused"
      /\ pc' \in [Requests -> Places] /\ \A q \in Requests \ {r} : pc'[q] = pc[q]
  BY GotoOf DEF RefuseCode, At, IInv, Places, Final
<1>2. Kind(r) = "register"
  BY <1>1, Same DEF Asks
<1>4. TypeOK'
  BY <1>1 DEF IInv, TypeOK, Places, InTx, rows, mail, locks
<1>5. Asks(r)' /\ Creates(r)' /\ Holds(r)'
  BY <1>1, <1>2, Same DEF Asks, Creates, Holds, Dead, InTx, rows, locks
<1>7. Owns(r)'
  BY <1>1, <1>2, Same DEF Owns, Has, rows
<1>8. Tried(r)'
  BY <1>1, TriedStays DEF rows
<1>9. Local(r)'
  BY <1>1, <1>5, <1>7, <1>8 DEF Local
<1> QED
  BY <1>1, <1>4, <1>9, Quiet DEF mail, locks

\* What a handler holds when it has let go of the row and the slug.
LEMMA Released ==
  ASSUME IInv, NEW r \in Requests, Release(r)
  PROVE  /\ lock' \in [Codes -> Requests \cup {None}] /\ claim' \in [Slugs -> Requests \cup {None}]
         /\ \A c \in Codes : lock'[c] # r
         /\ \A q \in Requests \ {r} : /\ \A c \in Codes : lock[c] = q <=> lock'[c] = q
                                   /\ \A s \in Slugs : claim[s] = q => claim'[s] = q
BY DEF IInv, TypeOK, Release

LEMMA InsertTenantStep ==
  ASSUME IInv, NEW r \in Requests, InsertTenant(r)
  PROVE  Effect(r)
<1>1. /\ pc[r] = "insert_tenant" /\ tenant[Slug(r)] = None /\ claim[Slug(r)] = None
      /\ claim' = [claim EXCEPT ![Slug(r)] = r]
      /\ UNCHANGED <<rows, mail, expired, lock, body, attempt, late>>
      /\ pc'[r] = "insert_admin"
      /\ pc' \in [Requests -> Places] /\ \A q \in Requests \ {r} : pc'[q] = pc[q]
  BY GotoOf DEF InsertTenant, NoOneInserting, At, IInv, Places, InTx
<1>2. Kind(r) # "create" /\ Slug(r) \in Slugs
  BY <1>1, Same DEF Asks, InTx
<1>3. /\ claim'[Slug(r)] = r /\ claim' \in [Slugs -> Requests \cup {None}]
      /\ \A s \in Slugs, q \in Requests \ {r} : claim[s] = q => claim'[s] = q
  BY <1>1, <1>2 DEF IInv, TypeOK
<1>4. TypeOK'
  BY <1>1, <1>3 DEF IInv, TypeOK, Places, InTx, rows, mail
<1>5. Asks(r)' /\ Creates(r)'
  BY <1>1, <1>2, Same DEF Asks, Creates, InTx
<1>6. Holds(r)'
  BY <1>1, <1>2, <1>3, Same DEF Holds, Dead, InTx, rows
<1>7. Owns(r)'
  BY <1>1, <1>2, Same DEF Owns, Has, rows
<1>8. Tried(r)'
  BY <1>1, TriedStays DEF rows
<1>9. Local(r)'
  BY <1>1, <1>5, <1>6, <1>7, <1>8 DEF Local
<1> QED
  BY <1>1, <1>3, <1>4, <1>9, Quiet DEF mail

LEMMA AdminAndCodeStep ==
  ASSUME IInv, NEW r \in Requests, InsertAdmin(r) \/ ConsumeCode(r)
  PROVE  Effect(r)
<1>1. /\ pc[r] \in {"insert_admin", "consume"} /\ UNCHANGED <<rows, mail, expired, locks, body, attempt, late>>
      /\ pc'[r] = "commit" \/ (pc'[r] = "consume" /\ Kind(r) = "register")
      /\ pc' \in [Requests -> Places] /\ \A q \in Requests \ {r} : pc'[q] = pc[q]
  BY GotoOf DEF InsertAdmin, ConsumeCode, At, IInv, Places, InTx
<1>2. Kind(r) # "create" /\ Slug(r) \in Slugs
  BY <1>1, Same DEF Asks, InTx
<1>4. TypeOK'
  BY <1>1 DEF IInv, TypeOK, Places, InTx, rows, mail, locks
<1>5. Asks(r)' /\ Creates(r)'
  BY <1>1, <1>2, Same DEF Asks, Creates, InTx
<1>6. Holds(r)'
  BY <1>1, <1>2, Same DEF Holds, Dead, InTx, rows, locks
<1>7. Owns(r)'
  BY <1>1, <1>2, Same DEF Owns, Has, rows
<1>8. Tried(r)'
  BY <1>1, TriedStays DEF rows
<1>9. Local(r)'
  BY <1>1, <1>5, <1>6, <1>7, <1>8 DEF Local
<1> QED
  BY <1>1, <1>4, <1>9, Quiet DEF mail, locks

LEMMA SignStep ==
  ASSUME IInv, NEW r \in Requests, SignToken(r)
  PROVE  Effect(r)
<1>1. /\ pc[r] = "sign" /\ UNCHANGED <<rows, mail, expired, locks, body, attempt, late>>
      /\ pc'[r] \in {"ok", "error"}
      /\ pc' \in [Requests -> Places] /\ \A q \in Requests \ {r} : pc'[q] = pc[q]
  BY GotoOf DEF SignToken, At, IInv, Places, Final
<1>2. Kind(r) # "create" /\ Slug(r) \in Slugs
  BY <1>1, Same DEF Asks, InTx
<1>4. TypeOK'
  BY <1>1 DEF IInv, TypeOK, Places, InTx, rows, mail, locks
<1>5. Asks(r)' /\ Creates(r)'
  BY <1>1, <1>2, Same DEF Asks, Creates, InTx
<1>6. Holds(r)'
  BY <1>1, <1>2, Same DEF Holds, Dead, InTx, rows, locks
<1>7. Owns(r)'
  BY <1>1, <1>2, Same DEF Owns, Has, rows
<1>8. Tried(r)'
  BY <1>1, TriedStays DEF rows
<1>9. Local(r)'
  BY <1>1, <1>5, <1>6, <1>7, <1>8 DEF Local
<1> QED
  BY <1>1, <1>4, <1>9, Quiet DEF mail, locks

LEMMA FailStep ==
  ASSUME IInv, NEW r \in Requests, Fail(r)
  PROVE  Effect(r)
<1>1. /\ pc[r] \in {"persist", "lock", "insert_tenant", "insert_admin", "consume", "commit"}
      /\ UNCHANGED <<rows, mail, expired, body, attempt, late>>
      /\ pc'[r] = "error"
      /\ pc' \in [Requests -> Places] /\ \A q \in Requests \ {r} : pc'[q] = pc[q]
      /\ Release(r)
  BY GotoOf DEF Fail, AfterFailure, IInv, Places, Final
<1>4. TypeOK'
  BY <1>1, Released DEF IInv, TypeOK, Places, InTx, rows, mail
<1>2. UNCHANGED <<body, attempt, code, tenant, late, issued, mailed, expired>> /\ pc[r] # "new"
  BY <1>1 DEF rows, mail
<1>5. Asks(r)' /\ Creates(r)'
  BY <1>1, <1>2, Same DEF Asks, Creates, InTx
<1>6. Holds(r)'
  BY <1>1, <1>2, Same, Released DEF Holds, Dead, InTx
<1>7. Owns(r)'
  BY <1>1, <1>2, Same DEF Owns, Has
<1>8. Tried(r)'
  BY <1>1, TriedStays DEF rows
<1>9. Local(r)'
  BY <1>1, <1>5, <1>6, <1>7, <1>8 DEF Local
<1> QED
  BY <1>1, <1>4, <1>9, Released, Quiet DEF mail

LEMMA SlugExistsStep ==
  ASSUME IInv, NEW r \in Requests, SlugExists(r)
  PROVE  Effect(r)
<1>1. /\ pc[r] = "insert_tenant" /\ tenant[Slug(r)] # None /\ Release(r)
      /\ UNCHANGED <<rows, mail, expired, body, late>>
      /\ \/ /\ Kind(r) = "register" /\ attempt[r] < MaxAttempts
            /\ attempt' = [attempt EXCEPT ![r] = @ + 1] /\ pc'[r] = "lock"
         \/ attempt' = attempt /\ pc'[r] = "conflict"
      /\ pc' \in [Requests -> Places] /\ \A q \in Requests \ {r} : pc'[q] = pc[q]
  BY GotoOf DEF SlugExists, MoreAttempts, At, IInv, Places, Final
<1>2. /\ Asks(r) /\ Creates(r) /\ Holds(r) /\ Owns(r) /\ Tried(r) /\ Kind(r) # "create"
      /\ attempt \in [Requests -> 1..MaxAttempts] /\ attempt[r] \in 1..MaxAttempts
  BY <1>1 DEF IInv, Local, TypeOK, Asks, InTx
<1>3. /\ Kind(r)' = Kind(r) /\ Code(r)' = Code(r) /\ body'[r] = body[r]
      /\ \A n : Candidate(r, n)' = Candidate(r, n)
  BY <1>1 DEF Kind, Code, Candidate
<1>4. /\ attempt' \in [Requests -> 1..MaxAttempts]
      /\ \A q \in Requests \ {r} : attempt'[q] = attempt[q]
      /\ attempt'[r] = attempt[r] \/ (Kind(r) = "register" /\ pc'[r] = "lock" /\ attempt'[r] = attempt[r] + 1)
  BY <1>1, <1>2
<1>5. TypeOK'
  BY <1>1, <1>4, Released DEF IInv, TypeOK, Places, InTx, rows, mail
<1>6. Asks(r)' /\ Creates(r)' /\ Holds(r)'
  BY <1>1, <1>2, <1>3, <1>4, Released DEF Asks, Creates, Holds, Dead, InTx, rows
<1>7. Owns(r)'
  BY <1>1, <1>2, <1>3 DEF Owns, Has, rows, InTx
<1>8. ASSUME NEW n \in 1..attempt'[r], n < attempt'[r] \/ pc'[r] = "conflict"
      PROVE  tenant'[Candidate(r, n)] # None
  <2>1. n \in 1..attempt[r]
    BY <1>1, <1>2, <1>4, <1>8
  <2>2. CASE n < attempt[r]
    BY <1>1, <1>2, <2>1, <2>2 DEF Tried, rows
  <2>3. CASE n = attempt[r]
    BY <1>1, <2>3 DEF Slug, rows
  <2> QED
    BY <1>2, <2>1, <2>2, <2>3
<1>9. Tried(r)'
  BY <1>3, <1>8 DEF Tried
<1>10. Local(r)'
  BY <1>1, <1>6, <1>7, <1>9 DEF Local
<1> QED
  BY <1>1, <1>4, <1>5, <1>10, Released, Quiet DEF mail

LEMMA CommitStep ==
  ASSUME IInv, NEW r \in Requests, Commit(r)
  PROVE  Effect(r)
<1>1. /\ pc[r] = "commit"
      /\ tenant' = [tenant EXCEPT ![Slug(r)] = [code |-> Code(r), by |-> r]]
      /\ code' = IF Kind(r) = "register" THEN [code EXCEPT ![Code(r)].usedBy = Slug(r)] ELSE code
      /\ Release(r) /\ UNCHANGED <<mail, expired, body, attempt, late>>
      /\ pc'[r] \in {"sign", "error"}
      /\ pc' \in [Requests -> Places] /\ \A q \in Requests \ {r} : pc'[q] = pc[q]
  BY GotoOf DEF Commit, At, IInv, Places, Final
<1>2. /\ Kind(r) # "create" /\ Slug(r) \in Slugs /\ claim[Slug(r)] = r /\ tenant[Slug(r)] = None
      /\ Kind(r) = "register" => /\ Code(r) \in Codes /\ lock[Code(r)] = r /\ code[Code(r)] # None
                                 /\ code[Code(r)].usedBy = None /\ ~code[Code(r)].revoked
      /\ Kind(r) # "register" => Code(r) = None
      /\ r \notin late
  BY <1>1, Same, Parts DEF Asks, Holds, InTx
<1>3. /\ tenant' \in [Slugs -> TenantRow \cup {None}]
      /\ tenant'[Slug(r)].by = r /\ tenant'[Slug(r)].code = Code(r) /\ tenant'[Slug(r)] # None
      /\ \A s \in Slugs \ {Slug(r)} : tenant'[s] = tenant[s]
  <2>1. [code |-> Code(r), by |-> r] \in TenantRow
    BY <1>2 DEF TenantRow, IInv, Local, Asks, Body
  <2>2. tenant \in [Slugs -> TenantRow \cup {None}]
    BY DEF IInv, TypeOK
  <2> QED
    BY <1>1, <1>2, <2>1, <2>2
<1>4. /\ code' \in [Codes -> CodeRow \cup {None}]
      /\ \A c \in Codes : \/ code'[c] = code[c] /\ ~(c = Code(r) /\ Kind(r) = "register")
                          \/ /\ c = Code(r) /\ Kind(r) = "register" /\ code'[c] # None
                             /\ code'[c].usedBy = Slug(r) /\ ~code'[c].revoked
  <2>1. code \in [Codes -> CodeRow \cup {None}]
    BY DEF IInv, TypeOK
  <2>2. CASE Kind(r) = "register"
    <3>1. code[Code(r)] \in CodeRow
      BY <1>2, <2>1, <2>2
    <3>2. [code[Code(r)] EXCEPT !.usedBy = Slug(r)] \in CodeRow
      BY <1>2, <3>1 DEF CodeRow
    <3>3. [code[Code(r)] EXCEPT !.usedBy = Slug(r)].usedBy = Slug(r)
          /\ [code[Code(r)] EXCEPT !.usedBy = Slug(r)].revoked = code[Code(r)].revoked
      BY <3>1 DEF CodeRow
    <3>4. code' = [code EXCEPT ![Code(r)] = [code[Code(r)] EXCEPT !.usedBy = Slug(r)]]
      BY <1>1, <2>2
    <3> QED
      BY <1>2, <2>1, <2>2, <3>2, <3>3, <3>4
  <2>3. CASE Kind(r) # "register"
    BY <1>1, <2>1, <2>3
  <2> QED
    BY <2>2, <2>3
<1>5. TypeOK'
  BY <1>1, <1>3, <1>4, Released DEF IInv, TypeOK, Places, InTx, mail
<1>6. Asks(r)' /\ Creates(r)'
  BY <1>1, <1>2, Same DEF Asks, Creates, InTx
<1>7. Holds(r)'
  BY <1>1, <1>2, Same, Released DEF Holds, InTx
<1>8. Owns(r)'
  BY <1>1, <1>2, <1>3, Same DEF Owns, Has
<1>9. Tried(r)'
  <2> SUFFICES ASSUME NEW n \in 1..attempt[r], n < attempt[r] PROVE tenant'[Candidate(r, n)] # None
    BY <1>1, Same DEF Tried, Candidate, Kind
  <2>1. tenant[Candidate(r, n)] # None /\ n \in 1..MaxAttempts
    BY <1>1, <1>2, Same DEF Tried, IInv
  <2>2. Candidate(r, n) \in Slugs
    BY <1>1, <1>2, <2>1, Same, CandidateIsSlug
  <2> QED
    BY <1>2, <1>3, <2>1, <2>2
<1>10. Local(r)'
  BY <1>1, <1>6, <1>7, <1>8, <1>9 DEF Local
<1>11. ASSUME NEW q \in Requests \ {r} PROVE LeavesTo(q)
  BY <1>1, <1>2, <1>3, <1>4, <1>11, Released DEF LeavesTo, Stays
<1>12. Grows
  BY <1>1, <1>2, <1>4 DEF Grows, mail
<1>13. Rows' /\ CreatedOnce'
  BY <1>1, <1>2, <1>4 DEF IInv, Rows, CreatedOnce, Kind, Code, mail
<1>14. ASSUME NEW c \in Codes
       PROVE  BoughtWith(c)' = IF code'[c] = None \/ code'[c].usedBy = None THEN {} ELSE {code'[c].usedBy}
  <2>1. BoughtWith(c) = IF code[c] = None \/ code[c].usedBy = None THEN {} ELSE {code[c].usedBy}
    BY DEF IInv, OneTenantPerCode
  <2>2. BoughtWith(c)' = IF Code(r) = c THEN BoughtWith(c) \cup {Slug(r)} ELSE BoughtWith(c)
    BY <1>2, <1>3 DEF BoughtWith
  <2>3. Code(r) = c => Kind(r) = "register"
    BY <1>2
  <2> QED
    BY <1>2, <1>4, <2>1, <2>2, <2>3
<1>15. OneTenantPerCode'
  BY <1>14 DEF OneTenantPerCode
<1> QED
  BY <1>5, <1>10, <1>11, <1>12, <1>13, <1>15 DEF Effect

LEMMA ReceiveStep ==
  ASSUME IInv, NEW r \in Requests, Receive(r)
  PROVE  Effect(r)
<1>1. PICK b \in Body :
        /\ WellFormed(b) /\ body' = [body EXCEPT ![r] = b] /\ Goto(r, FirstStep(b.kind))
        /\ issued' = IF b.kind = "create" THEN issued \cup {b.code} ELSE issued
        /\ late' = IF b.kind = "register" /\ Dead(b.code) THEN late \cup {r} ELSE late
  BY DEF Receive
<1>2. pc[r] = "new" /\ UNCHANGED <<code, tenant, mailed, expired, lock, claim, attempt>>
  BY DEF Receive, At, rows, locks
<1>3. /\ b.kind \in {"create", "register", "bootstrap"}
      /\ b.code # None => b.code \in Codes
      /\ b.base # None => b.base \in Bases
  BY DEF Body
<1>4. /\ body'[r] = b /\ body' \in [Requests -> Body \cup {None}]
      /\ \A q \in Requests \ {r} : body'[q] = body[q]
  BY <1>1 DEF IInv, TypeOK
<1>5. /\ pc'[r] = FirstStep(b.kind) /\ FirstStep(b.kind) \in {"send", "lock", "insert_tenant"}
      /\ b.kind = "create" <=> FirstStep(b.kind) = "send"
      /\ b.kind = "register" <=> FirstStep(b.kind) = "lock"
      /\ \A q \in Requests \ {r} : pc'[q] = pc[q]
      /\ pc' \in [Requests -> Places]
  <2>1. /\ FirstStep(b.kind) \in {"send", "lock", "insert_tenant"}
        /\ b.kind = "create" <=> FirstStep(b.kind) = "send"
        /\ b.kind = "register" <=> FirstStep(b.kind) = "lock"
    <3>1. b.kind = "create" => FirstStep(b.kind) = "send"
      BY DEF FirstStep
    <3>2. b.kind = "register" => FirstStep(b.kind) = "lock"
      BY DEF FirstStep
    <3>3. b.kind = "bootstrap" => FirstStep(b.kind) = "insert_tenant"
      BY DEF FirstStep
    <3> QED
      BY <1>3, <3>1, <3>2, <3>3
  <2>2. FirstStep(b.kind) \in Places
    BY <2>1 DEF Places, InTx
  <2> QED
    BY <1>1, <2>1, <2>2, GotoOf DEF IInv
<1>6. /\ r \notin late /\ attempt[r] = 1 /\ (\A s \in Slugs : ~Has(r, s)) /\ (\A c \in Codes : lock[c] # r)
  BY <1>2 DEF IInv, Local
<1>0. Kind(r)' = b.kind /\ Code(r)' = b.code
  BY <1>4 DEF Kind, Code
<1>7. TypeOK'
  BY <1>1, <1>2, <1>3, <1>4, <1>5 DEF IInv, TypeOK, Places, InTx, WellFormed
<1>8. Asks(r)'
  BY <1>0, <1>1, <1>2, <1>4, <1>5, <1>6 DEF Asks, WellFormed, InTx
<1>9. Creates(r)'
  BY <1>0, <1>1, <1>2, <1>3, <1>5 DEF Creates, WellFormed, IInv, Rows
<1>10. Holds(r)'
  BY <1>0, <1>1, <1>2, <1>3, <1>5, <1>6 DEF Holds, InTx, Dead
<1>11. Owns(r)' /\ Tried(r)'
  BY <1>2, <1>5, <1>6 DEF Owns, Has, Tried
<1>12. Local(r)'
  BY <1>5, <1>8, <1>9, <1>10, <1>11 DEF Local
<1>13. \A q \in Requests \ {r} : LeavesTo(q)
  BY <1>1, <1>2, <1>4, <1>5 DEF LeavesTo, Stays
<1>14. Grows /\ Rows' /\ OneTenantPerCode'
  BY <1>1, <1>2 DEF Grows, IInv, Rows, OneTenantPerCode, BoughtWith
<1>15. CreatedOnce'
  <2>1. ASSUME NEW q \in Requests \ {r}, b.kind = "create", pc[q] # "new", Kind(q) = "create"
        PROVE  Code(q) # b.code
    BY <1>1, <2>1 DEF WellFormed, IInv, Local, Creates
  <2>2. \A q \in Requests \ {r} : Kind(q)' = Kind(q) /\ Code(q)' = Code(q)
    BY <1>4 DEF Kind, Code
  <2> QED
    BY <1>0, <1>5, <2>1, <2>2 DEF IInv, CreatedOnce
<1> QED
  BY <1>7, <1>12, <1>13, <1>14, <1>15 DEF Effect

-----------------------------------------------------------------------------
(* Time and the operator *)

LEMMA CodeStep ==
  ASSUME IInv, NEW c \in Codes, Expire(c) \/ RevokeSignupCode(c)
  PROVE  IInv'
<1>1. /\ UNCHANGED <<tenant, mail, locks, pc, body, attempt, late>>
      /\ expired \subseteq expired' /\ expired' \subseteq Codes
  BY DEF Expire, RevokeSignupCode, IInv, TypeOK, rows
<1>2. /\ code' \in [Codes -> CodeRow \cup {None}]
      /\ \A d \in Codes : \/ code'[d] = code[d]
                          \/ /\ lock[d] = None /\ code[d] # None /\ code'[d] # None
                             /\ code[d].usedBy = None /\ code'[d].usedBy = None /\ code'[d].revoked
  <2>1. code \in [Codes -> CodeRow \cup {None}]
    BY DEF IInv, TypeOK
  <2>2. CASE Expire(c)
    BY <2>1, <2>2 DEF Expire, rows
  <2>3. CASE RevokeSignupCode(c)
    <3>1. code[c] \in CodeRow /\ code[c].usedBy = None /\ lock[c] = None /\ code[c] # None
      BY <2>1, <2>3 DEF RevokeSignupCode
    <3>2. /\ [code[c] EXCEPT !.revoked = TRUE] \in CodeRow
          /\ [code[c] EXCEPT !.revoked = TRUE].revoked
          /\ [code[c] EXCEPT !.revoked = TRUE].usedBy = None
      BY <3>1 DEF CodeRow
    <3>3. code' = [code EXCEPT ![c] = [code[c] EXCEPT !.revoked = TRUE]]
      BY <2>3 DEF RevokeSignupCode
    <3>4. /\ code'[c] = [code[c] EXCEPT !.revoked = TRUE] /\ \A d \in Codes \ {c} : code'[d] = code[d]
          /\ code' \in [Codes -> CodeRow \cup {None}]
      BY <2>1, <3>2, <3>3
    <3> QED
      BY <3>1, <3>2, <3>4
  <2> QED
    BY <2>2, <2>3
<1>3. TypeOK'
  BY <1>1, <1>2 DEF IInv, TypeOK, mail, locks
<1>4. Grows
  BY <1>1, <1>2 DEF Grows, mail
<1>5. ASSUME NEW q \in Requests PROVE LeavesTo(q)
  BY <1>1, <1>2 DEF LeavesTo, Stays, locks
<1>6. \A q \in Requests : Local(q)'
  BY <1>4, <1>5, LocalStays DEF IInv
<1>7. Rows' /\ CreatedOnce'
  BY <1>1, <1>2 DEF IInv, Rows, CreatedOnce, Kind, Code, mail
<1>8. OneTenantPerCode'
  BY <1>1, <1>2 DEF IInv, OneTenantPerCode, BoughtWith
<1> QED
  BY <1>3, <1>6, <1>7, <1>8 DEF IInv

-----------------------------------------------------------------------------
(* The theorems *)

LEMMA InitIInv == Init => IInv
<1> SUFFICES ASSUME Init PROVE IInv
  OBVIOUS
<1>0. \A s \in Slugs : tenant[s] = None \/ (tenant[s].code = None /\ tenant[s].by = None /\ tenant[s] \in TenantRow)
  BY DEF Init, TenantRow
<1>1. TypeOK
  BY <1>0 DEF Init, TypeOK
<1>2. (\A r \in Requests : Local(r)) /\ CreatedOnce
  BY <1>0 DEF Init, Local, Has, CreatedOnce
<1>3. Rows /\ OneTenantPerCode
  BY <1>0 DEF Init, Rows, OneTenantPerCode, BoughtWith
<1> QED
  BY <1>1, <1>2, <1>3 DEF IInv

LEMMA NextIInv == IInv /\ [Next]_vars => IInv'
<1> SUFFICES ASSUME IInv, [Next]_vars PROVE IInv'
  OBVIOUS
<1>1. CASE UNCHANGED vars
  <2>1. TypeOK' /\ CreatedOnce' /\ Rows' /\ OneTenantPerCode' /\ Grows
    BY <1>1 DEF vars, IInv, TypeOK, CreatedOnce, Kind, Code, Rows, OneTenantPerCode, BoughtWith, Grows
  <2>2. ASSUME NEW q \in Requests PROVE LeavesTo(q)
    BY <1>1 DEF vars, LeavesTo, Stays
  <2> QED
    BY <2>1, <2>2, LocalStays DEF IInv
<1>2. ASSUME NEW r \in Requests, Receive(r) \/ Handle(r) \/ Fail(r) PROVE IInv'
  <2>1. Effect(r)
    BY <1>2, ReceiveStep, SendStep, CreateStep, LockStep, RefuseStep, InsertTenantStep, SlugExistsStep,
       AdminAndCodeStep, CommitStep, SignStep, FailStep DEF Handle
  <2> QED
    BY <2>1, EffectKeeps
<1> QED
  BY <1>1, <1>2, CodeStep DEF Next

\* The inductive invariant holds in every state.
LEMMA Invariance == Spec => []IInv
<1> QED
  BY InitIInv, NextIInv, PTL DEF Spec

\* The type invariant holds whatever requests, codes and slugs there are.
THEOREM TypeCorrect == Spec => []TypeOK
<1>1. IInv => TypeOK
  BY DEF IInv
<1> QED
  BY <1>1, Invariance, PTL

\* A code brings one tenant at most, and is used exactly when it has: the row is locked
\* from the check to the commit, however many registrations present the code.
THEOREM OneTenant == Spec => []OneTenantPerCode
<1>1. IInv => OneTenantPerCode
  BY DEF IInv
<1> QED
  BY <1>1, Invariance, PTL

\* A revoked code has brought nothing: what the transaction saw of the row it holds
\* cannot change before it commits.
THEOREM RevokedIsUnused == Spec => []NeverUsedAndRevoked
<1>1. IInv => NeverUsedAndRevoked
  BY DEF IInv, OneTenantPerCode, NeverUsedAndRevoked, Rows
<1> QED
  BY <1>1, Invariance, PTL

\* Success is answered to those who have their slug, a refusal to those who have none.
THEOREM AnswersTrue == Spec => []AnswersAreTrue
<1>1. IInv => AnswersAreTrue
  BY DEF IInv, Local, Owns, AnswersAreTrue
<1> QED
  BY <1>1, Invariance, PTL

\* A registration passes over a slug only when a tenant has it.
THEOREM SlugsInOrder == Spec => []NoSlugSkipped
<1>1. IInv => NoSlugSkipped
  BY DEF IInv, Local, Tried, NoSlugSkipped
<1> QED
  BY <1>1, Invariance, PTL

\* A code that was dead when the registration came brings it nothing.
THEOREM LateGetsNothing == Spec => []LateIsRefused
<1>1. IInv => LateIsRefused
  BY DEF IInv, Local, Owns, LateIsRefused, TypeOK
<1> QED
  BY <1>1, Invariance, PTL

\* A code works once and only while it is valid: the three theorems together.
THEOREM CodesWorkOnce == Spec => []OnceWhileValid
<1>1. OneTenantPerCode /\ NeverUsedAndRevoked /\ LateIsRefused => OnceWhileValid
  BY DEF OnceWhileValid
<1> QED
  BY <1>1, OneTenant, RevokedIsUnused, LateGetsNothing, PTL

\* Every code that is stored was mailed before.
THEOREM MailedFirst == Spec => []StoredCodesWereMailed
<1>1. IInv => StoredCodesWereMailed
  BY DEF IInv, Rows, StoredCodesWereMailed
<1> QED
  BY <1>1, Invariance, PTL
=============================================================================

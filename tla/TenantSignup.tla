----------------------------- MODULE TenantSignup -----------------------------
(***************************************************************************)
(* How a tenant comes to be.  The superadmin has a one-time code mailed,   *)
(* and whoever has the code registers a tenant and its admin with it: one  *)
(* transaction for each slug tried, the next one when a slug is taken.  An *)
(* operator may also set a tenant up without a code.  The row of the code  *)
(* is locked for the transaction, and the unique index on slugs makes an   *)
(* insert wait for the transaction that inserted the same slug before.     *)
(*                                                                         *)
(* The tenant, its admin and the use of the code are committed together,   *)
(* so that the rows are written here when the transaction commits.         *)
(***************************************************************************)
EXTENDS Naturals

CONSTANTS Requests,    \* HTTP requests; each is handled once
          Codes,       \* one-time codes that may ever be generated
          Bases,       \* slugs asked for, or made of a name
          Slugs,
          MaxAttempts, \* maxTenantSlugSuffixAttempts
          TenantSlugCandidate, \* the slug each attempt at a base tries
          TakenSlugs,  \* slugs of the tenants there are at the start
          Kinds,       \* kinds of requests that arrive
          None

CodeRow   == [usedBy : Slugs \cup {None}, revoked : BOOLEAN]
TenantRow == [code : Codes \cup {None}, by : Requests \cup {None}]
Body == [kind : Kinds, code : Codes \cup {None}, base : Bases \cup {None}]

ASSUME TenantSignupAssumption ==
  /\ MaxAttempts \in Nat \ {0} /\ Bases \subseteq Slugs
  /\ TenantSlugCandidate \in [Bases -> [1..MaxAttempts -> Slugs]]
  /\ TakenSlugs \subseteq Slugs
  /\ Kinds \subseteq {"create", "register", "bootstrap"}
  /\ None \notin Requests \cup Codes \cup Bases \cup Slugs \cup CodeRow \cup TenantRow \cup Body

VARIABLES
  code,    \* tenant_signup_codes: committed rows
  tenant,  \* tenants, by slug: the code and the request that brought each
  issued,  \* codes generated so far
  mailed,  \* codes whose mail has arrived
  expired, \* codes past their expires_at
  lock,    \* code -> the request whose transaction holds its row
  claim,   \* slug -> the request that has inserted it and not committed
  pc,      \* where each handler stands
  body,    \* what each request asks for
  attempt, \* the attempt each registration is at
  late     \* observer: registrations whose code was already dead when they came

rows  == <<code, tenant>>
mail  == <<issued, mailed>>
locks == <<lock, claim>>
vars == <<code, tenant, issued, mailed, expired, lock, claim, pc, body, attempt, late>>

Init ==
  /\ code = [c \in Codes |-> None]
  /\ tenant = [s \in Slugs |-> IF s \in TakenSlugs THEN [code |-> None, by |-> None] ELSE None]
  /\ issued = {} /\ mailed = {} /\ expired = {}
  /\ lock = [c \in Codes |-> None]
  /\ claim = [s \in Slugs |-> None]
  /\ pc = [r \in Requests |-> "new"]
  /\ body = [r \in Requests |-> None]
  /\ attempt = [r \in Requests |-> 1]
  /\ late = {}

-----------------------------------------------------------------------------
(* Requests *)

At(r, l)   == pc[r] = l
Goto(r, l) == pc' = [pc EXCEPT ![r] = l]
Kind(r)    == body[r].kind
Code(r)    == body[r].code

\* The slug of the n-th attempt; setting up without a code takes the slug as it is asked.
Candidate(r, n) == IF Kind(r) = "register" THEN TenantSlugCandidate[body[r].base][n] ELSE body[r].base
Slug(r) == Candidate(r, attempt[r])

\* COMMIT and ROLLBACK end the waiting for the row and for the slug.
ReleaseKeepingCode(r) ==
  /\ claim' = [s \in Slugs |-> IF claim[s] = r THEN None ELSE claim[s]]
  /\ UNCHANGED lock
Release(r) ==
  /\ claim' = [s \in Slugs |-> IF claim[s] = r THEN None ELSE claim[s]]
  /\ lock' = [c \in Codes |-> IF lock[c] = r THEN None ELSE lock[c]]

FirstStep(kind) ==
  CASE kind = "create"    -> "send"
    [] kind = "register"  -> "lock"
    [] kind = "bootstrap" -> "insert_tenant"

\* A code that is generated is a new one; one that is presented may never have been
\* generated at all.
WellFormed(b) ==
  /\ b.code # None <=> b.kind \in {"create", "register"}
  /\ b.kind = "create" => b.code \notin issued
  /\ b.base # None <=> b.kind \in {"register", "bootstrap"}

Usable(c) == code[c] # None /\ code[c].usedBy = None /\ ~code[c].revoked /\ c \notin expired

Dead(c) == c \in expired \/ (code[c] # None /\ code[c].revoked)

\* Requests refused for their form or the caller's role change nothing and are left out.
Receive(r) ==
  /\ At(r, "new")
  /\ \E b \in Body :
       /\ WellFormed(b)
       /\ body' = [body EXCEPT ![r] = b]
       /\ Goto(r, FirstStep(b.kind))
       /\ issued' = IF b.kind = "create" THEN issued \cup {b.code} ELSE issued
       /\ late' = IF b.kind = "register" /\ Dead(b.code) THEN late \cup {r} ELSE late
  /\ UNCHANGED <<rows, mailed, expired, locks, attempt>>

-----------------------------------------------------------------------------
(* CreateSignupCode *)

SendTenantSignupCode(r) ==
  /\ At(r, "send")
  /\ mailed' = mailed \cup {Code(r)}
  /\ Goto(r, "persist")
  /\ UNCHANGED <<rows, issued, expired, locks, body, attempt, late>>

\* A delivery that is reported as failed may have arrived all the same.
SendFails(r) ==
  /\ At(r, "send")
  /\ mailed' \in {mailed, mailed \cup {Code(r)}}
  /\ Goto(r, "error")
  /\ UNCHANGED <<rows, issued, expired, locks, body, attempt, late>>

\* The code is answered to the superadmin as well, unless the answer is lost.
CreateSignupCode(r) ==
  /\ At(r, "persist")
  /\ code' = [code EXCEPT ![Code(r)] = [usedBy |-> None, revoked |-> FALSE]]
  /\ Goto(r, "ok") \/ Goto(r, "error")
  /\ UNCHANGED <<tenant, mail, expired, locks, body, attempt, late>>

-----------------------------------------------------------------------------
(* RegisterTenantWithCode and BootstrapTenant *)

LocksNothing(r) == UNCHANGED lock
Lock(r) == lock' = [lock EXCEPT ![Code(r)] = r]

\* SELECT ... FOR UPDATE, at the start of every attempt.
LockCode(r) ==
  /\ At(r, "lock") /\ lock[Code(r)] = None /\ Usable(Code(r))
  /\ Lock(r)
  /\ Goto(r, "insert_tenant")
  /\ UNCHANGED <<rows, mail, expired, claim, body, attempt, late>>

\* ErrInvalidOrUnavailableCode
RefuseCode(r) ==
  /\ At(r, "lock") /\ lock[Code(r)] = None /\ ~Usable(Code(r))
  /\ Goto(r, "refused")
  /\ UNCHANGED <<rows, mail, expired, locks, body, attempt, late>>

\* The unique index on slugs: an insert waits for a transaction that has inserted the slug.
Unguarded(r) == TRUE
NoOneInserting(r) == claim[Slug(r)] = None

InsertTenant(r) ==
  /\ At(r, "insert_tenant") /\ NoOneInserting(r) /\ tenant[Slug(r)] = None
  /\ claim' = [claim EXCEPT ![Slug(r)] = r]
  /\ Goto(r, "insert_admin")
  /\ UNCHANGED <<rows, mail, expired, lock, body, attempt, late>>

\* A slug somebody has: the transaction is rolled back, and only a registration
\* goes on to another slug.
OneTooMany(r) == Kind(r) = "register" /\ attempt[r] <= MaxAttempts
MoreAttempts(r) == Kind(r) = "register" /\ attempt[r] < MaxAttempts

SlugExists(r) ==
  /\ At(r, "insert_tenant") /\ NoOneInserting(r) /\ tenant[Slug(r)] # None
  /\ Release(r)
  /\ \/ /\ MoreAttempts(r)
        /\ attempt' = [attempt EXCEPT ![r] = @ + 1]
        /\ Goto(r, "lock")
     \/ /\ ~MoreAttempts(r)
        /\ Goto(r, "conflict")
        /\ UNCHANGED attempt
  /\ UNCHANGED <<rows, mail, expired, body, late>>

\* The unique index on a tenant's users has nothing to say on a tenant's first.
InsertAdmin(r) ==
  /\ At(r, "insert_admin")
  /\ Goto(r, IF Kind(r) = "register" THEN "consume" ELSE "commit")
  /\ UNCHANGED <<rows, mail, expired, locks, body, attempt, late>>

ConsumeCode(r) ==
  /\ At(r, "consume")
  /\ Goto(r, "commit")
  /\ UNCHANGED <<rows, mail, expired, locks, body, attempt, late>>

\* The rows show; the answer to the commit may be lost.
Commit(r) ==
  /\ At(r, "commit")
  /\ tenant' = [tenant EXCEPT ![Slug(r)] = [code |-> Code(r), by |-> r]]
  /\ code' = IF Kind(r) = "register" THEN [code EXCEPT ![Code(r)].usedBy = Slug(r)] ELSE code
  /\ Release(r)
  /\ Goto(r, "sign") \/ Goto(r, "error")
  /\ UNCHANGED <<mail, expired, body, attempt, late>>

\* GenerateJWT
SignToken(r) ==
  /\ At(r, "sign")
  /\ Goto(r, "ok") \/ Goto(r, "error")
  /\ UNCHANGED <<rows, mail, expired, locks, body, attempt, late>>

\* A statement or the process fails: what was not committed is rolled back, and
\* no other slug is tried.
AfterFailureRetry(r) == IF Kind(r) = "register" /\ attempt[r] < MaxAttempts
  THEN Goto(r, "lock") /\ attempt' = [attempt EXCEPT ![r] = @ + 1]
  ELSE Goto(r, "error") /\ UNCHANGED attempt
AfterFailure(r) == Goto(r, "error") /\ UNCHANGED attempt

Fail(r) ==
  /\ pc[r] \in {"persist", "lock", "insert_tenant", "insert_admin", "consume", "commit"}
  /\ Release(r)
  /\ AfterFailure(r)
  /\ UNCHANGED <<rows, mail, expired, body, late>>

-----------------------------------------------------------------------------
(* Codes *)

Expire(c) ==
  /\ c \in issued \ expired
  /\ expired' = expired \cup {c}
  /\ UNCHANGED <<rows, mail, locks, pc, body, attempt, late>>

\* One UPDATE, which waits for the row; no handler calls it yet.
RevokeSignupCode(c) ==
  /\ code[c] # None /\ lock[c] = None
  /\ ~code[c].revoked /\ code[c].usedBy = None
  /\ code' = [code EXCEPT ![c].revoked = TRUE]
  /\ UNCHANGED <<tenant, mail, expired, locks, pc, body, attempt, late>>

-----------------------------------------------------------------------------
Handle(r) ==
  \/ SendTenantSignupCode(r) \/ SendFails(r) \/ CreateSignupCode(r)
  \/ LockCode(r) \/ RefuseCode(r) \/ InsertTenant(r) \/ SlugExists(r)
  \/ InsertAdmin(r) \/ ConsumeCode(r) \/ Commit(r) \/ SignToken(r)

Next ==
  \/ \E r \in Requests : Receive(r) \/ Handle(r) \/ Fail(r)
  \/ \E c \in Codes : Expire(c) \/ RevokeSignupCode(c)

Spec == Init /\ [][Next]_vars

\* Go runs a handler that can go on, and PostgreSQL lets those who wait for a row or
\* for a slug go on in turn.
FairSpec == Spec /\ \A r \in Requests : SF_vars(Handle(r))

-----------------------------------------------------------------------------
(* Correctness *)

Final == {"ok", "refused", "conflict", "error"}

\* Types of the variables.
TypeOK ==
  /\ code \in [Codes -> CodeRow \cup {None}]
  /\ tenant \in [Slugs -> TenantRow \cup {None}]
  /\ issued \in SUBSET Codes /\ mailed \in SUBSET Codes /\ expired \in SUBSET Codes
  /\ lock \in [Codes -> Requests \cup {None}]
  /\ claim \in [Slugs -> Requests \cup {None}]
  /\ pc \in [Requests -> Final \cup {"new", "send", "persist", "lock", "insert_tenant",
                                     "insert_admin", "consume", "commit", "sign"}]
  /\ body \in [Requests -> Body \cup {None}]
  /\ attempt \in [Requests -> 1..MaxAttempts]
  /\ late \in SUBSET Requests

\* A code brings one tenant at most, and is used exactly when it has: whoever else
\* presents it, and however often, a transaction that fails leaves it usable and one
\* that commits does not.
BoughtWith(c) == {s \in Slugs : tenant[s] # None /\ tenant[s].code = c}
OneTenantPerCode == \A c \in Codes :
  BoughtWith(c) = IF code[c] = None \/ code[c].usedBy = None THEN {} ELSE {code[c].usedBy}

\* A code that was revoked before it was used is never used, and the other way round.
NeverUsedAndRevoked == \A c \in Codes : code[c] # None /\ code[c].revoked => BoughtWith(c) = {}

\* Who is answered with success has the slug it was told; who is refused has none.
Has(r, s) == tenant[s] # None /\ tenant[s].by = r
AnswersAreTrue == \A r \in Requests :
  /\ pc[r] = "ok" /\ Kind(r) # "create" => Has(r, Slug(r))
  /\ pc[r] \in {"refused", "conflict"} => \A s \in Slugs : ~Has(r, s)

\* A registration has tried every slug before the one it is at, and found it taken;
\* it gives up only when it has found all of them taken.
NoSlugSkipped == \A r \in Requests : body[r] # None /\ Kind(r) # "create" =>
  \A n \in 1..attempt[r] : (n < attempt[r] \/ pc[r] = "conflict") =>
    tenant[Candidate(r, n)] # None

\* No registration that came with an expired or revoked code gets a tenant.
LateIsRefused == \A r \in late, s \in Slugs : ~Has(r, s)

\* A code works once and only while it is valid.
OnceWhileValid == OneTenantPerCode /\ NeverUsedAndRevoked /\ LateIsRefused

\* services/tenantsignup/service.go:73, "Send email before persisting so failed
\* deliveries leave no orphan/revoked rows": every code that can be used was mailed.
StoredCodesWereMailed == \A c \in Codes : code[c] # None => c \in mailed

\* Every request received is answered, whatever codes and slugs the others hold.
RequestsFinish == \A r \in Requests : pc[r] # "new" ~> pc[r] \in Final

=============================================================================

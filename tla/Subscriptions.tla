---------------------------- MODULE Subscriptions ----------------------------
(***************************************************************************)
(* A tenant's subscription: paid until the end of a period, pending for    *)
(* some days of grace, then canceled.  The superadmin changes it at any    *)
(* time, a worker on every replica moves it on by the clock, public and    *)
(* authenticated routes look at it, and the worker that expires unpaid     *)
(* orders goes by its own list of tenants.                                 *)
(*                                                                         *)
(* Every statement here is a transaction of its own.  Go's clock and the   *)
(* database's are one, now; what a handler or a worker has read from it    *)
(* may be old when it is used.                                             *)
(***************************************************************************)
EXTENDS Integers, FiniteSets

CONSTANTS Tenants,
          DefaultTenant, \* the tenant of the routes without a slug
          Requests,      \* HTTP requests; each is handled once
          Workers,       \* the replicas' subscription workers
          Sweepers,      \* the replicas' ghost-order workers
          Orders,        \* orders that may ever be placed
          Day,           \* instants of the clock in a day
          GraceDays,     \* days between the end of the period and the cancellation
          PeriodDays,    \* DefaultPeriodDays
          GhostTimeout,  \* instants an order may stay unpaid
          Horizon,       \* bounds the clock
          Kinds,         \* kinds of requests that arrive
          Ends, Lengths, \* current_period_end and period_days the superadmin sends
          InitTenants,   \* tables of tenants the system may start with
          None

Statuses == {"active", "pending", "canceled"}
Row      == [status : Statuses, end : Int \cup {None}]
OrderRow == [tenant : Tenants, expires : Int, open : BOOLEAN]

PublicKinds == {"order", "login"}
LoginKinds  == {"login", "legacy_login"}
Grants == [status : Statuses, end : Ends \cup {None}, days : Lengths \cup {None}]
Body == [kind : Kinds, tenant : Tenants, superadmin : BOOLEAN, grant : Grants \cup {None}]

ASSUME SubscriptionsAssumption ==
  /\ Day \in Nat \ {0} /\ GraceDays \in Nat \ {0} /\ PeriodDays \in Nat \ {0}
  /\ GhostTimeout \in Nat /\ Horizon \in Nat
  /\ DefaultTenant \in Tenants
  /\ Kinds \subseteq PublicKinds \cup {"legacy_login", "subscription", "update"}
  /\ Ends \subseteq Int /\ Lengths \subseteq Int
  /\ InitTenants \subseteq [Tenants -> Row]
  /\ None \notin Int \cup Body \cup Grants \cup OrderRow

VARIABLES
  now,     \* the clock
  tenant,  \* tenants: committed rows
  order,   \* orders: the tenant, expires_at and whether still unpaid and pending
  pc,      \* where each handler stands
  body,    \* what each request asks for
  at,      \* the time each handler has read
  run,     \* the subscription worker of each replica
  sweep,   \* the ghost-order worker of each replica
  \* Observers: they guard nothing.
  paid,    \* the end of the period the last renewal of each tenant granted
  promise, \* the latest day of cancellation announced to each tenant
  shut     \* requests whose tenant has been canceled ever since they arrived

handlers  == <<pc, body, at>>
observers == <<paid, promise, shut>>
vars == <<now, tenant, order, pc, body, at, run, sweep, paid, promise, shut>>

IdleRun   == [step |-> "idle", at |-> 0]
IdleSweep == [step |-> "idle", at |-> 0, left |-> {}]

Init ==
  /\ now = 0
  /\ tenant \in InitTenants
  /\ order = [o \in Orders |-> None]
  /\ pc = [r \in Requests |-> "new"]
  /\ body = [r \in Requests |-> None]
  /\ at = [r \in Requests |-> 0]
  /\ run = [w \in Workers |-> IdleRun]
  /\ sweep = [w \in Sweepers |-> IdleSweep]
  /\ paid = [n \in Tenants |-> None]
  /\ promise = [n \in Tenants |-> None]
  /\ shut = {}

Tick ==
  /\ now < Horizon
  /\ now' = now + 1
  /\ UNCHANGED <<tenant, order, handlers, run, sweep, observers>>

-----------------------------------------------------------------------------
(* Who may do what *)

Days(n) == n * Day
Running(n) == tenant[n].end = None \/ tenant[n].end > now
Canceled(n) == tenant[n].status = "canceled"

\* GetBySlug, which decides on the public routes.
Available(n) == ~Canceled(n) /\ Running(n)

\* ListActiveTenantIDs, whose orders the ghost-order worker looks after.
SweptIfActive(n) == tenant[n].status = "active" /\ Running(n)
Swept(n) == ~Canceled(n) /\ Running(n)

\* RequireOperableSubscription and Login look at the status only.
OperableWhileRunning(n) == Running(n)
Operable(n) == ~Canceled(n)

-----------------------------------------------------------------------------
(* Requests *)

Goto(r, l) == pc' = [pc EXCEPT ![r] = l]
At(r, l)   == pc[r] = l
Kind(r)    == body[r].kind
Of(r)      == body[r].tenant

\* Login leaves the superadmin's status check out.
AfterResolve(b) ==
  CASE b.kind = "order" -> "clock"
    [] b.kind # "order" -> IF b.superadmin THEN "ok" ELSE "operable"

FirstStep(b) ==
  CASE b.kind \in PublicKinds     -> "resolve"
    [] b.kind = "legacy_login"    -> AfterResolve(b)
    [] b.kind = "subscription"    -> "operable"
    [] b.kind = "update"          -> "clock"

\* The form of a request; only updates carry a grant, and only the superadmin's
\* are looked at any further.
WellFormed(b) ==
  /\ b.grant # None <=> b.kind = "update"
  /\ b.superadmin => b.kind \in LoginKinds \cup {"update"}
  /\ b.kind = "update" => b.superadmin
  /\ b.kind = "legacy_login" => b.tenant = DefaultTenant

Receive(r) ==
  /\ At(r, "new")
  /\ \E b \in Body :
       /\ WellFormed(b)
       /\ body' = [body EXCEPT ![r] = b]
       /\ Goto(r, FirstStep(b))
       /\ shut' = IF Canceled(b.tenant) /\ ~b.superadmin THEN shut \cup {r} ELSE shut
  /\ UNCHANGED <<now, tenant, order, at, run, sweep, paid, promise>>

\* TenantFromPathOrHeader.
Resolve(r) ==
  /\ At(r, "resolve")
  /\ Goto(r, IF Available(Of(r)) THEN AfterResolve(body[r]) ELSE "refused")
  /\ UNCHANGED <<now, tenant, order, body, at, run, sweep, observers>>

CheckOperable(r) ==
  /\ At(r, "operable")
  /\ Goto(r, IF ~Operable(Of(r)) THEN "refused"
             ELSE IF Kind(r) \in LoginKinds THEN "ok" ELSE "clock")
  /\ UNCHANGED <<now, tenant, order, body, at, run, sweep, observers>>

AfterClock(kind) ==
  CASE kind = "order" -> "place" [] kind = "update" -> "write" [] OTHER -> "read"

ReadClock(r) ==
  /\ At(r, "clock")
  /\ at' = [at EXCEPT ![r] = now]
  /\ Goto(r, AfterClock(Kind(r)))
  /\ UNCHANGED <<now, tenant, order, body, run, sweep, observers>>

\* Creator.CreateOrder, which does not look at the tenant again.
Place(r) ==
  /\ At(r, "place")
  /\ \E o \in Orders :
       /\ order[o] = None
       /\ order' = [order EXCEPT ![o] =
                      [tenant |-> Of(r), expires |-> at[r] + GhostTimeout, open |-> TRUE]]
  /\ Goto(r, "ok")
  /\ UNCHANGED <<now, tenant, body, at, run, sweep, observers>>

\* An explicit end comes first, then a positive number of days, then the default.
HasDays(g) == g.days # None /\ g.days > 0
ResolvePeriodEnd(g, t) ==
  CASE g.end # None                 -> g.end
    [] g.end = None /\ HasDays(g)   -> t + Days(g.days)
    [] g.end = None /\ ~HasDays(g)  -> IF g.status = "active" THEN t + Days(PeriodDays) ELSE None

\* UpdateTenantSubscription leaves the end alone when none was resolved.
NewRow(r) ==
  LET grant == body[r].grant
      end   == ResolvePeriodEnd(grant, at[r])
  IN [status |-> grant.status, end |-> IF end = None THEN tenant[Of(r)].end ELSE end]

WriteSubscription(r) ==
  /\ At(r, "write")
  /\ tenant' = [tenant EXCEPT ![Of(r)] = NewRow(r)]
  /\ paid' = [paid EXCEPT ![Of(r)] = IF NewRow(r).status = "active" THEN NewRow(r).end ELSE None]
  /\ promise' = [promise EXCEPT ![Of(r)] = None]
  /\ shut' = IF NewRow(r).status = "canceled" THEN shut ELSE {s \in shut : Of(s) # Of(r)}
  /\ Goto(r, "read")
  /\ UNCHANGED <<now, order, body, at, run, sweep>>

GraceEnd(n) == tenant[n].end + Days(GraceDays)

\* Go's conversion to int drops the fraction of a day; a negative number becomes 0.
DaysUnclamped(n, t) == (GraceEnd(n) - t) \div Day
DaysRoundedUp(n, t) == IF GraceEnd(n) < t THEN 0 ELSE (GraceEnd(n) - t + Day - 1) \div Day
DaysUntilCancel(n, t) == IF GraceEnd(n) < t THEN 0 ELSE (GraceEnd(n) - t) \div Day

Later(d, e) == IF d # None /\ d > e THEN d ELSE e

\* GetSubscriptionForTenant names the days left to a pending tenant: until when.
Told(r) == tenant[Of(r)].status = "pending" /\ tenant[Of(r)].end # None
LastDay(r) == at[r] + Days(DaysUntilCancel(Of(r), at[r]))

ReadSnapshot(r) ==
  /\ At(r, "read")
  /\ promise' = IF Told(r) THEN [promise EXCEPT ![Of(r)] = Later(@, LastDay(r))] ELSE promise
  /\ Goto(r, "ok")
  /\ UNCHANGED <<now, tenant, order, body, at, run, sweep, paid, shut>>

\* An error, a disconnect or a crash.
Fail(r) ==
  /\ pc[r] \notin {"new", "ok", "refused", "error"}
  /\ Goto(r, "error")
  /\ UNCHANGED <<now, tenant, order, body, at, run, sweep, observers>>

-----------------------------------------------------------------------------
(* The subscription worker *)

StartRun(w) ==
  /\ run[w].step \in {"idle", "failed"}
  /\ run' = [run EXCEPT ![w] = [step |-> "pending", at |-> now]]
  /\ UNCHANGED <<now, tenant, order, handlers, sweep, observers>>

LapsedSooner(n, t) == tenant[n].status = "active" /\ tenant[n].end # None /\ tenant[n].end <= t + 1
LapsedAvailable(n, t) ==
  Available(n) /\ tenant[n].status = "active" /\ tenant[n].end # None /\ tenant[n].end <= t
Lapsed(n, t) == tenant[n].status = "active" /\ tenant[n].end # None /\ tenant[n].end <= t

GraceOver(n, t) == tenant[n].status = "pending" /\ tenant[n].end # None /\ GraceEnd(n) <= t

\* One UPDATE: a row somebody else writes first is evaluated again.
Moved(rows, status) ==
  [n \in Tenants |-> IF n \in rows THEN [tenant[n] EXCEPT !.status = status] ELSE tenant[n]]

MarkExpiredActiveAsPending(w) ==
  /\ run[w].step = "pending"
  /\ tenant' = Moved({n \in Tenants : Lapsed(n, run[w].at)}, "pending")
  /\ run' = [run EXCEPT ![w].step = "cancel"]
  /\ UNCHANGED <<now, order, handlers, sweep, observers>>

MarkExpiredPendingAsCanceled(w) ==
  /\ run[w].step = "cancel"
  /\ tenant' = Moved({n \in Tenants : GraceOver(n, run[w].at)}, "canceled")
  /\ run' = [run EXCEPT ![w] = IdleRun]
  /\ UNCHANGED <<now, order, handlers, sweep, observers>>

\* A statement fails: the rest of the run is skipped.  Or the process dies.
RunFails(w) ==
  /\ run[w].step \in {"pending", "cancel"}
  /\ run' = [run EXCEPT ![w] = [IdleRun EXCEPT !.step = "failed"]]
  /\ UNCHANGED <<now, tenant, order, handlers, sweep, observers>>

-----------------------------------------------------------------------------
(* The ghost-order worker *)

StartSweep(w) ==
  /\ sweep[w].step \in {"idle", "failed"}
  /\ sweep' = [sweep EXCEPT ![w] = [step |-> "list", at |-> now, left |-> {}]]
  /\ UNCHANGED <<now, tenant, order, handlers, run, observers>>

ListTenants(w) ==
  /\ sweep[w].step = "list"
  /\ LET left == {n \in Tenants : Swept(n)}
     IN sweep' = [sweep EXCEPT ![w] = IF left = {} THEN IdleSweep
                                      ELSE [@ EXCEPT !.step = "expire", !.left = left]]
  /\ UNCHANGED <<now, tenant, order, handlers, run, observers>>

Without(s, n) == IF s.left = {n} THEN IdleSweep ELSE [s EXCEPT !.left = s.left \ {n}]

\* One tenant's transaction; its statements are the subject of the module Orders.
ExpireOrders(w) ==
  /\ sweep[w].step = "expire"
  /\ \E n \in sweep[w].left :
       /\ order' = [o \in Orders |->
            IF /\ order[o] # None
               /\ order[o].tenant = n /\ order[o].open /\ order[o].expires < sweep[w].at
            THEN [order[o] EXCEPT !.open = FALSE] ELSE order[o]]
       /\ sweep' = [sweep EXCEPT ![w] = Without(@, n)]
  /\ UNCHANGED <<now, tenant, handlers, run, observers>>

\* A tenant's transaction fails, and with it the run: the tenants left are skipped.
SweepFails(w) ==
  /\ sweep[w].step \in {"list", "expire"}
  /\ sweep' = [sweep EXCEPT ![w] = [IdleSweep EXCEPT !.step = "failed"]]
  /\ UNCHANGED <<now, tenant, order, handlers, run, observers>>

\* The order is paid, confirmed or cancelled by a PATCH.
Settle(o) ==
  /\ order[o] # None /\ order[o].open
  /\ order' = [order EXCEPT ![o].open = FALSE]
  /\ UNCHANGED <<now, tenant, handlers, run, sweep, observers>>

-----------------------------------------------------------------------------
(* The specification *)

Handle(r) ==
  \/ Receive(r) \/ Resolve(r) \/ CheckOperable(r) \/ ReadClock(r) \/ Place(r)
  \/ WriteSubscription(r) \/ ReadSnapshot(r) \/ Fail(r)
RunStep(w) ==
  StartRun(w) \/ MarkExpiredActiveAsPending(w) \/ MarkExpiredPendingAsCanceled(w)
SweepStep(w) == StartSweep(w) \/ ListTenants(w) \/ ExpireOrders(w)

Next ==
  \/ Tick
  \/ \E r \in Requests : Handle(r)
  \/ \E w \in Workers : RunStep(w) \/ RunFails(w)
  \/ \E w \in Sweepers : SweepStep(w) \/ SweepFails(w)
  \/ \E o \in Orders : Settle(o)

Spec == Init /\ [][Next]_vars

\* The tickers go on, and neither worker's runs fail for ever.
FairSpec ==
  /\ Spec
  /\ \A w \in Workers : WF_vars(RunStep(w)) /\ <>[][~RunFails(w)]_vars
  /\ \A w \in Sweepers : WF_vars(SweepStep(w)) /\ <>[][~SweepFails(w)]_vars

-----------------------------------------------------------------------------
(* Correctness *)

PC == {"new", "resolve", "operable", "clock", "place", "write", "read", "ok", "refused", "error"}

\* Types of the variables.
TypeOK ==
  /\ now     \in Nat
  /\ tenant  \in [Tenants -> Row]
  /\ order   \in [Orders -> OrderRow \cup {None}]
  /\ pc      \in [Requests -> PC]
  /\ body    \in [Requests -> Body \cup {None}]
  /\ at      \in [Requests -> Nat]
  /\ run     \in [Workers -> [step : {"idle", "pending", "cancel", "failed"}, at : Nat]]
  /\ sweep   \in [Sweepers -> [step : {"idle", "list", "expire", "failed"}, at : Nat,
                              left : SUBSET Tenants]]
  /\ paid    \in [Tenants -> Int \cup {None}]
  /\ promise \in [Tenants -> Nat \cup {None}]
  /\ shut    \in SUBSET Requests

\* What the superadmin's last update paid for stands until its end: the public routes
\* stay open, whatever runs were under way when the tenant was renewed.
RenewalStands ==
  \A n \in Tenants : (paid[n] # None /\ now < paid[n]) => tenant[n].status = "active" /\ Available(n)

\* The worker never cancels a tenant before the day the tenant was told, although the
\* days are counted from a clock read before the row was, and rounded.
AnnouncementKept ==
  [][\A w \in Workers, n \in Tenants :
       (run'[w] # run[w] /\ ~Canceled(n) /\ Canceled(n)' /\ promise[n] # None) => promise[n] <= now]_vars

\* A request of a tenant that was canceled before it came, and has been ever since,
\* is not served, whichever of the three access checks it meets.
CanceledAreShutOut == \A r \in shut : pc[r] \in {"resolve", "operable", "refused", "error"}

\* A period that is over leads on to pending and a grace that is over to canceled,
\* unless the tenant is renewed, whatever runs have failed.
Overdue(n) ==
  /\ tenant[n].end # None
  /\ \/ tenant[n].status = "active"  /\ tenant[n].end <= now
     \/ tenant[n].status = "pending" /\ tenant[n].end + Days(GraceDays) <= now
LapsedTenantsEnd == \A n \in Tenants : Overdue(n) ~> ~Overdue(n)

\* An unpaid order of a tenant open to the public does not hold its units for ever.
Stuck(o) == /\ order[o] # None
            /\ order[o].open /\ order[o].expires < now /\ Available(order[o].tenant)
GhostOrdersEnd == \A o \in Orders : Stuck(o) ~> ~Stuck(o)

-----------------------------------------------------------------------------
(* What the repository says and the code does not do; see the README. *)

\* model/tenant/subscription_status.go:38, "OperableSubscriptionStatuses are tenants that
\* may use public routes and /auth/*": active and pending tenants.
OperableUsePublicRoutes ==
  [][\A r \in Requests : (At(r, "resolve") /\ pc'[r] = "refused") => Canceled(Of(r))]_vars

=============================================================================

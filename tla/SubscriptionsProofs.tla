-------------------------- MODULE SubscriptionsProofs --------------------------
(* The safety properties of Subscriptions, for every instance. *)
EXTENDS Subscriptions, TLAPS

USE SubscriptionsAssumption

\* What a handler has at each place.
BodyAt(r) ==
  /\ pc[r] = "new" => r \notin shut
  /\ pc[r] # "new" => body[r] \in Body /\ WellFormed(body[r])
  /\ pc[r] = "write" => Kind(r) = "update"

\* A request that is shut out has got to no business yet.
ShutAt(r) ==
  r \in shut => /\ pc[r] \in {"resolve", "operable", "refused", "error"}
                /\ Canceled(Of(r)) /\ ~body[r].superadmin

\* A renewal leaves its mark on the row until the next one; only when its period is
\* over does the worker touch the status.
PaidAt(n) ==
  paid[n] # None => /\ tenant[n].end = paid[n]
                    /\ tenant[n].status = "active" \/ paid[n] <= now

\* A day that was announced is over, or before the end of the grace.
PromiseAt(n) ==
  promise[n] # None => \/ promise[n] <= now
                       \/ tenant[n].end # None /\ promise[n] <= GraceEnd(n)

IInv ==
  /\ TypeOK
  /\ \A r \in Requests : at[r] <= now /\ BodyAt(r) /\ ShutAt(r)
  /\ \A w \in Workers : run[w].at <= now
  /\ \A n \in Tenants : PaidAt(n) /\ PromiseAt(n)

\* Whole days, counted down, are not more than the time they are counted from.
LEMMA WholeDays ==
  ASSUME NEW x \in Nat
  PROVE  x \div Day \in Nat /\ Days(x \div Day) \in Nat /\ Days(x \div Day) <= x
BY SMT DEF Days

LEMMA DaysInt == \A n \in Int : Days(n) \in Int
BY DEF Days

-----------------------------------------------------------------------------
(* Types *)

LEMMA InitTypes == Init => TypeOK
BY DEF Init, TypeOK, PC, IdleRun, IdleSweep

\* What the superadmin writes is a row.
LEMMA NewRowType ==
  ASSUME TypeOK, NEW r \in Requests, body[r] \in Body, body[r].grant # None
  PROVE  /\ NewRow(r) \in Row
         /\ NewRow(r).status = body[r].grant.status
         /\ NewRow(r).status = "active" /\ body[r].grant.end = None => NewRow(r).end # None
<1> DEFINE g == body[r].grant
           end == ResolvePeriodEnd(g, at[r])
<1>1. g \in Grants /\ at[r] \in Nat /\ tenant[Of(r)].end \in Int \cup {None}
  BY DEF Body, TypeOK, Row, Of
<1>2. /\ g.status \in Statuses /\ g.end \in Int \cup {None}
      /\ HasDays(g) => g.days \in Int
  BY <1>1 DEF Grants, HasDays
<1>3. at[r] + Days(PeriodDays) \in Int /\ (HasDays(g) => at[r] + Days(g.days) \in Int)
  BY <1>1, <1>2, DaysInt
<1>4. end \in Int \cup {None} /\ (g.status = "active" => end \in Int)
  BY <1>2, <1>3 DEF ResolvePeriodEnd
<1>5. NewRow(r) = [status |-> g.status, end |-> IF end = None THEN tenant[Of(r)].end ELSE end]
  BY DEF NewRow
<1> QED
  BY <1>1, <1>2, <1>4, <1>5 DEF Row

\* The days announced end at a time, and at one the tenant will still be there.
LEMMA Announced ==
  ASSUME TypeOK, NEW n \in Tenants, tenant[n].end # None, NEW t \in Nat
  PROVE  /\ t + Days(DaysUntilCancel(n, t)) \in Nat
         /\ \/ t + Days(DaysUntilCancel(n, t)) <= t
            \/ t + Days(DaysUntilCancel(n, t)) <= GraceEnd(n)
<1>1. GraceEnd(n) \in Int
  BY DaysInt DEF TypeOK, Row, GraceEnd
<1>2. CASE GraceEnd(n) < t
  <2>1. Days(DaysUntilCancel(n, t)) = 0
    BY <1>2 DEF DaysUntilCancel, Days
  <2> QED
    BY <2>1
<1>3. CASE ~(GraceEnd(n) < t)
  <2>1. GraceEnd(n) - t \in Nat
    BY <1>1, <1>3
  <2>2. DaysUntilCancel(n, t) = (GraceEnd(n) - t) \div Day
    BY <1>3 DEF DaysUntilCancel
  <2>3. Days(DaysUntilCancel(n, t)) \in Nat /\ Days(DaysUntilCancel(n, t)) <= GraceEnd(n) - t
    BY <2>1, <2>2, WholeDays
  <2> QED
    BY <1>1, <2>3
<1> QED
  BY <1>2, <1>3

LEMMA ClosedOrder ==
  ASSUME TypeOK, NEW o \in Orders, order[o] # None
  PROVE  [order[o] EXCEPT !.open = FALSE] \in OrderRow
<1>1. order[o] \in OrderRow
  BY DEF TypeOK
<1> QED
  BY <1>1 DEF OrderRow

LEMMA TypeStep == ASSUME TypeOK, \A r \in Requests : BodyAt(r), [Next]_vars PROVE TypeOK'
<1>0. UNCHANGED vars => TypeOK'
  BY DEF vars, TypeOK
<1>1. Tick => TypeOK'
  BY DEF Tick, TypeOK, handlers, observers
<1>2. ASSUME NEW r \in Requests PROVE Handle(r) => TypeOK'
  <2>1. ASSUME Receive(r) PROVE TypeOK'
    <3>1. PICK b \in Body :
            /\ body' = [body EXCEPT ![r] = b]
            /\ Goto(r, FirstStep(b))
            /\ shut' = IF Canceled(b.tenant) /\ ~b.superadmin THEN shut \cup {r} ELSE shut
      BY <2>1 DEF Receive
    <3>2. FirstStep(b) \in PC
      BY DEF Body, FirstStep, AfterResolve, PublicKinds, PC
    <3> QED
      BY <2>1, <3>1, <3>2 DEF Receive, Goto, TypeOK
  <2>2. Resolve(r) => TypeOK'
    BY DEF Resolve, Goto, AfterResolve, TypeOK, PC, observers
  <2>3. CheckOperable(r) => TypeOK'
    BY DEF CheckOperable, Goto, TypeOK, PC, observers
  <2>4. ReadClock(r) => TypeOK'
    BY DEF ReadClock, Goto, AfterClock, TypeOK, PC, observers
  <2>5. ASSUME Place(r) PROVE TypeOK'
    <3>1. Of(r) \in Tenants
      BY <2>5 DEF Place, At, BodyAt, Body, Of
    <3>2. PICK o \in Orders :
            order' = [order EXCEPT ![o] =
                        [tenant |-> Of(r), expires |-> at[r] + GhostTimeout, open |-> TRUE]]
      BY <2>5 DEF Place
    <3>3. order' \in [Orders -> OrderRow \cup {None}]
      BY <3>1, <3>2 DEF TypeOK, OrderRow
    <3> QED
      BY <2>5, <3>3 DEF Place, Goto, TypeOK, PC, observers
  <2>6. ASSUME WriteSubscription(r) PROVE TypeOK'
    <3>1. body[r] \in Body /\ body[r].grant # None
      BY <2>6 DEF WriteSubscription, At, BodyAt, WellFormed, Kind
    <3>2. Of(r) \in Tenants /\ NewRow(r) \in Row
      BY <3>1, NewRowType DEF Body, Of
    <3>3. tenant' \in [Tenants -> Row]
      BY <2>6, <3>2 DEF WriteSubscription, TypeOK
    <3>4. paid' \in [Tenants -> Int \cup {None}] /\ promise' \in [Tenants -> Nat \cup {None}]
      BY <2>6, <3>2 DEF WriteSubscription, TypeOK, Row
    <3>5. pc' \in [Requests -> PC] /\ shut' \in SUBSET Requests
      BY <2>6 DEF WriteSubscription, Goto, TypeOK, PC
    <3> QED
      BY <2>6, <3>3, <3>4, <3>5 DEF WriteSubscription, TypeOK
  <2>7. ASSUME ReadSnapshot(r) PROVE TypeOK'
    <3>1. Of(r) \in Tenants
      BY <2>7 DEF ReadSnapshot, At, BodyAt, Body, Of
    <3>2. Told(r) => LastDay(r) \in Nat
      BY <3>1, Announced DEF TypeOK, Told, LastDay
    <3>3. Told(r) => Later(promise[Of(r)], LastDay(r)) \in Nat \cup {None}
      BY <3>1, <3>2 DEF Later, TypeOK
    <3>4. promise' \in [Tenants -> Nat \cup {None}]
      BY <2>7, <3>3 DEF ReadSnapshot, TypeOK
    <3> QED
      BY <2>7, <3>4 DEF ReadSnapshot, Goto, TypeOK, PC
  <2>8. Fail(r) => TypeOK'
    BY DEF Fail, Goto, TypeOK, PC, observers
  <2> QED
    BY <2>1, <2>2, <2>3, <2>4, <2>5, <2>6, <2>7, <2>8 DEF Handle
<1>3. ASSUME NEW w \in Workers PROVE RunStep(w) \/ RunFails(w) => TypeOK'
  <2>1. ASSUME NEW rows, NEW status \in Statuses PROVE Moved(rows, status) \in [Tenants -> Row]
    BY DEF Moved, TypeOK, Row
  <2>2. StartRun(w) => TypeOK'
    BY DEF StartRun, TypeOK, handlers, observers
  <2>3. MarkExpiredActiveAsPending(w) => TypeOK'
    <3>1. MarkExpiredActiveAsPending(w) => tenant' \in [Tenants -> Row]
      BY <2>1 DEF MarkExpiredActiveAsPending, Statuses
    <3> QED
      BY <3>1 DEF MarkExpiredActiveAsPending, TypeOK, handlers, observers
  <2>4. MarkExpiredPendingAsCanceled(w) => TypeOK'
    <3>1. MarkExpiredPendingAsCanceled(w) => tenant' \in [Tenants -> Row]
      BY <2>1 DEF MarkExpiredPendingAsCanceled, Statuses
    <3> QED
      BY <3>1 DEF MarkExpiredPendingAsCanceled, IdleRun, TypeOK, handlers, observers
  <2>5. RunFails(w) => TypeOK'
    BY DEF RunFails, IdleRun, TypeOK, handlers, observers
  <2> QED
    BY <2>2, <2>3, <2>4, <2>5 DEF RunStep
<1>4. ASSUME NEW w \in Sweepers PROVE SweepStep(w) \/ SweepFails(w) => TypeOK'
  <2>1. StartSweep(w) => TypeOK'
    BY DEF StartSweep, TypeOK, handlers, observers
  <2>2. ASSUME ListTenants(w) PROVE TypeOK'
    <3>1. sweep[w] \in [step : {"idle", "list", "expire", "failed"}, at : Nat, left : SUBSET Tenants]
      BY DEF TypeOK
    <3>2. \A left \in SUBSET Tenants :
            [sweep[w] EXCEPT !.step = "expire", !.left = left]
              \in [step : {"idle", "list", "expire", "failed"}, at : Nat, left : SUBSET Tenants]
      BY <3>1
    <3>3. sweep' \in [Sweepers -> [step : {"idle", "list", "expire", "failed"}, at : Nat,
                                   left : SUBSET Tenants]]
      BY <2>2, <3>2 DEF ListTenants, IdleSweep, TypeOK
    <3> QED
      BY <2>2, <3>3 DEF ListTenants, TypeOK, handlers, observers
  <2>3. ASSUME ExpireOrders(w) PROVE TypeOK'
    <3>1. order' \in [Orders -> OrderRow \cup {None}]
      BY <2>3, ClosedOrder DEF ExpireOrders, TypeOK
    <3>2. sweep' \in [Sweepers -> [step : {"idle", "list", "expire", "failed"}, at : Nat,
                                   left : SUBSET Tenants]]
      <4>1. \A n \in Tenants : Without(sweep[w], n)
              \in [step : {"idle", "list", "expire", "failed"}, at : Nat, left : SUBSET Tenants]
        BY DEF Without, IdleSweep, TypeOK
      <4>2. PICK n \in sweep[w].left : sweep' = [sweep EXCEPT ![w] = Without(@, n)]
        BY <2>3 DEF ExpireOrders
      <4>3. n \in Tenants
        BY DEF TypeOK
      <4> QED
        BY <4>1, <4>2, <4>3 DEF TypeOK
    <3> QED
      BY <2>3, <3>1, <3>2 DEF ExpireOrders, TypeOK, handlers, observers
  <2>4. SweepFails(w) => TypeOK'
    BY DEF SweepFails, IdleSweep, TypeOK, handlers, observers
  <2> QED
    BY <2>1, <2>2, <2>3, <2>4 DEF SweepStep
<1>5. ASSUME NEW o \in Orders PROVE Settle(o) => TypeOK'
  BY ClosedOrder DEF Settle, TypeOK, handlers, observers
<1> QED
  BY <1>0, <1>1, <1>2, <1>3, <1>4, <1>5 DEF Next

-----------------------------------------------------------------------------
(* What a step leaves alone *)

\* The workers and the customers' PATCHes touch no handler and no observer.
Background ==
  \/ \E w \in Workers : RunStep(w) \/ RunFails(w)
  \/ \E w \in Sweepers : SweepStep(w) \/ SweepFails(w)
  \/ \E o \in Orders : Settle(o)

LEMMA BackgroundFrame == Background => UNCHANGED <<now, pc, body, at, paid, promise, shut>>
BY DEF Background, RunStep, RunFails, SweepStep, SweepFails, Settle, StartRun,
       MarkExpiredActiveAsPending, MarkExpiredPendingAsCanceled, StartSweep, ListTenants,
       ExpireOrders, handlers, observers

\* A handler's step is about its own request; only an update writes a tenant's row.
LEMMA HandleFrame ==
  ASSUME TypeOK, NEW r \in Requests, Handle(r)
  PROVE  /\ UNCHANGED <<now, run, sweep>>
         /\ \A s \in Requests \ {r} :
              /\ pc'[s] = pc[s] /\ body'[s] = body[s] /\ at'[s] = at[s]
              /\ s \in shut' => s \in shut
         /\ WriteSubscription(r) \/ UNCHANGED <<tenant, paid>>
         /\ WriteSubscription(r) \/ ReadSnapshot(r) \/ UNCHANGED promise
<1>1. Receive(r) \/ Resolve(r) \/ CheckOperable(r) \/ ReadClock(r) \/ Place(r)
      \/ WriteSubscription(r) \/ ReadSnapshot(r) \/ Fail(r)
  BY DEF Handle
<1>2. UNCHANGED <<now, run, sweep>>
  BY <1>1 DEF Receive, Resolve, CheckOperable, ReadClock, Place, WriteSubscription, ReadSnapshot,
              Fail, observers
<1>3. ASSUME NEW s \in Requests \ {r}
      PROVE  pc'[s] = pc[s] /\ body'[s] = body[s] /\ at'[s] = at[s]
  BY <1>1 DEF Receive, Resolve, CheckOperable, ReadClock, Place, WriteSubscription, ReadSnapshot,
              Fail, Goto, TypeOK
<1>4. ASSUME NEW s \in Requests \ {r} PROVE s \in shut' => s \in shut
  BY <1>1 DEF Receive, Resolve, CheckOperable, ReadClock, Place, WriteSubscription, ReadSnapshot,
              Fail, observers
<1>5. /\ WriteSubscription(r) \/ UNCHANGED <<tenant, paid>>
      /\ WriteSubscription(r) \/ ReadSnapshot(r) \/ UNCHANGED promise
  BY <1>1 DEF Receive, Resolve, CheckOperable, ReadClock, Place, ReadSnapshot, Fail, observers
<1> QED
  BY <1>2, <1>3, <1>4, <1>5

\* The worker keeps every end and moves a tenant on only when its time has come.
LEMMA RunFrame ==
  ASSUME IInv, NEW w \in Workers, RunStep(w) \/ RunFails(w), NEW n \in Tenants
  PROVE  /\ tenant'[n].end = tenant[n].end
         /\ Canceled(n) => Canceled(n)'
         /\ tenant'[n].status = tenant[n].status
            \/ /\ tenant[n].status = "active" /\ tenant'[n].status = "pending"
               /\ tenant[n].end # None /\ tenant[n].end <= now
            \/ /\ tenant[n].status = "pending" /\ tenant'[n].status = "canceled"
               /\ tenant[n].end # None /\ GraceEnd(n) <= now
<1>0. tenant[n] \in Row /\ run[w].at \in Nat /\ run[w].at <= now /\ now \in Nat
  BY DEF IInv, TypeOK
<1>1. CASE MarkExpiredActiveAsPending(w)
  <2>1. tenant'[n] = IF Lapsed(n, run[w].at) THEN [tenant[n] EXCEPT !.status = "pending"]
                                             ELSE tenant[n]
    BY <1>1 DEF MarkExpiredActiveAsPending, Moved
  <2>2. Lapsed(n, run[w].at) => tenant[n].status = "active" /\ tenant[n].end # None /\ tenant[n].end <= now
    BY <1>0 DEF Lapsed, Row
  <2> QED
    BY <1>0, <2>1, <2>2 DEF Row, Canceled
<1>2. CASE MarkExpiredPendingAsCanceled(w)
  <2>1. tenant'[n] = IF GraceOver(n, run[w].at) THEN [tenant[n] EXCEPT !.status = "canceled"]
                                                ELSE tenant[n]
    BY <1>2 DEF MarkExpiredPendingAsCanceled, Moved
  <2>2. GraceOver(n, run[w].at) => tenant[n].status = "pending" /\ tenant[n].end # None /\ GraceEnd(n) <= now
    <3>1. tenant[n].end # None => GraceEnd(n) \in Int
      BY <1>0, DaysInt DEF GraceEnd, Row
    <3> QED
      BY <1>0, <3>1 DEF GraceOver
  <2> QED
    BY <1>0, <2>1, <2>2 DEF Row, Canceled
<1>3. CASE StartRun(w) \/ RunFails(w)
  BY <1>3 DEF StartRun, RunFails, Canceled
<1> QED
  BY <1>1, <1>2, <1>3 DEF RunStep

-----------------------------------------------------------------------------
(* The invariant *)

LEMMA InitInv == Init => IInv
<1> SUFFICES ASSUME Init PROVE IInv
  OBVIOUS
<1>1. TypeOK
  BY InitTypes
<1>2. \A r \in Requests : at[r] <= now /\ BodyAt(r) /\ ShutAt(r)
  BY DEF Init, BodyAt, ShutAt
<1>3. \A w \in Workers : run[w].at <= now
  BY DEF Init, IdleRun
<1>4. \A n \in Tenants : PaidAt(n) /\ PromiseAt(n)
  BY DEF Init, PaidAt, PromiseAt
<1> QED
  BY <1>1, <1>2, <1>3, <1>4 DEF IInv

\* No clock reading is of the future.
LEMMA ClockStep ==
  ASSUME IInv, Next
  PROVE  /\ now <= now'
         /\ \A r \in Requests : at'[r] <= now'
         /\ \A w \in Workers : run'[w].at <= now'
<1>0. /\ TypeOK
      /\ \A r \in Requests : at[r] <= now
      /\ \A w \in Workers : run[w].at <= now
  BY DEF IInv
<1>1. CASE Tick
  BY <1>0, <1>1 DEF Tick, handlers, TypeOK
<1>2. ASSUME NEW r \in Requests, Handle(r)
      PROVE  now' = now /\ run' = run /\ \A s \in Requests : at'[s] <= now'
  <2>1. at'[r] \in {at[r], now}
    BY <1>0, <1>2 DEF Handle, Receive, Resolve, CheckOperable, ReadClock, Place, WriteSubscription,
                      ReadSnapshot, Fail, TypeOK
  <2> QED
    BY <1>0, <1>2, <2>1, HandleFrame DEF TypeOK
<1>3. ASSUME Background PROVE \A w \in Workers : run'[w].at <= now
  <2>1. ASSUME NEW w \in Workers, RunStep(w) \/ RunFails(w)
        PROVE  \A v \in Workers : run'[v].at <= now
    BY <1>0, <2>1 DEF RunStep, StartRun, MarkExpiredActiveAsPending, MarkExpiredPendingAsCanceled,
                      RunFails, IdleRun, TypeOK
  <2>2. (\E w \in Workers : RunStep(w) \/ RunFails(w)) \/ run' = run
    BY <1>3 DEF Background, SweepStep, SweepFails, Settle, StartSweep, ListTenants, ExpireOrders
  <2> QED
    BY <1>0, <2>1, <2>2
<1>4. Tick \/ (\E r \in Requests : Handle(r)) \/ Background
  BY DEF Next, Background
<1> QED
  BY <1>0, <1>1, <1>2, <1>3, <1>4, BackgroundFrame DEF TypeOK

\* Where a new request begins; one that is shut out begins at a check.
LEMMA Received ==
  ASSUME IInv, NEW r \in Requests, Receive(r)
  PROVE  /\ body'[r] \in Body /\ WellFormed(body'[r]) /\ pc'[r] \notin {"new", "write"}
         /\ r \in shut' => /\ pc'[r] \in {"resolve", "operable"}
                           /\ Canceled(Of(r))' /\ ~body'[r].superadmin
<1>1. PICK b \in Body :
        /\ WellFormed(b)
        /\ body' = [body EXCEPT ![r] = b]
        /\ Goto(r, FirstStep(b))
        /\ shut' = IF Canceled(b.tenant) /\ ~b.superadmin THEN shut \cup {r} ELSE shut
  BY DEF Receive
<1>2. body'[r] = b /\ pc'[r] = FirstStep(b) /\ r \notin shut /\ UNCHANGED tenant
  BY <1>1 DEF Receive, Goto, At, BodyAt, IInv, TypeOK
<1>3. b.kind \in {"order", "login", "legacy_login", "subscription", "update"} /\ b.superadmin \in BOOLEAN
  BY DEF Body, PublicKinds
<1>4. FirstStep(b) \in {"resolve", "operable", "ok", "clock"}
  BY <1>3 DEF FirstStep, AfterResolve, PublicKinds
<1>5. ~b.superadmin => FirstStep(b) \in {"resolve", "operable"}
  BY <1>1, <1>3 DEF FirstStep, AfterResolve, PublicKinds, WellFormed
<1>6. r \in shut' => Canceled(b.tenant) /\ ~b.superadmin
  BY <1>1, <1>2
<1>7. Canceled(Of(r))' <=> Canceled(b.tenant)
  BY <1>2 DEF Canceled, Of
<1> QED
  BY <1>1, <1>2, <1>4, <1>5, <1>6, <1>7

LEMMA BodyStep == ASSUME IInv, Next, NEW s \in Requests PROVE BodyAt(s)'
<1>0. TypeOK /\ BodyAt(s)
  BY DEF IInv
<1>1. CASE UNCHANGED <<pc, body, shut>>
  BY <1>0, <1>1 DEF BodyAt, Kind
<1>2. ASSUME NEW r \in Requests \ {s}, Handle(r) PROVE BodyAt(s)'
  BY <1>0, <1>2, HandleFrame DEF BodyAt, Kind
<1>3. ASSUME Receive(s) PROVE BodyAt(s)'
  BY <1>3, Received DEF BodyAt
<1>4. ASSUME Resolve(s) \/ CheckOperable(s) \/ ReadClock(s) \/ Place(s)
             \/ WriteSubscription(s) \/ ReadSnapshot(s) \/ Fail(s)
      PROVE  BodyAt(s)'
  <2>1. pc[s] # "new" /\ body' = body /\ pc'[s] # "new"
    BY <1>0, <1>4 DEF Resolve, CheckOperable, ReadClock, Place, WriteSubscription, ReadSnapshot, Fail,
                      Goto, At, AfterResolve, AfterClock, TypeOK
  <2>2. pc'[s] = "write" => Kind(s) = "update"
    BY <1>0, <1>4 DEF Resolve, CheckOperable, ReadClock, Place, WriteSubscription, ReadSnapshot, Fail,
                      Goto, At, AfterResolve, AfterClock, TypeOK
  <2> QED
    BY <1>0, <2>1, <2>2 DEF BodyAt, Kind
<1>5. Tick => UNCHANGED <<pc, body, shut>>
  BY DEF Tick, handlers, observers
<1>6. Background => UNCHANGED <<pc, body, shut>>
  BY BackgroundFrame
<1> QED
  BY <1>1, <1>2, <1>3, <1>4, <1>5, <1>6 DEF Next, Background, Handle

LEMMA ShutStep == ASSUME IInv, Next, NEW s \in Requests PROVE ShutAt(s)'
<1> SUFFICES ASSUME s \in shut'
             PROVE  /\ pc'[s] \in {"resolve", "operable", "refused", "error"}
                    /\ Canceled(Of(s))' /\ ~body'[s].superadmin
  BY DEF ShutAt
<1>0. TypeOK /\ BodyAt(s) /\ ShutAt(s)
  BY DEF IInv
<1>1. CASE Receive(s)
  BY <1>1, Received
<1>2. CASE ~Receive(s)
  \* s was shut out before, and the step did not open its tenant again.
  <2>1. s \in shut /\ body'[s] = body[s]
    <3>1. ASSUME NEW r \in Requests, Handle(r) PROVE s \in shut /\ body'[s] = body[s]
      <4>1. CASE r # s
        BY <1>0, <3>1, <4>1, HandleFrame
      <4>2. CASE r = s
        BY <1>2, <3>1, <4>2 DEF Handle, Resolve, CheckOperable, ReadClock, Place, WriteSubscription,
                                ReadSnapshot, Fail, observers
      <4> QED
        BY <4>1, <4>2
    <3>2. Tick \/ Background => UNCHANGED <<body, shut>>
      BY BackgroundFrame DEF Tick, handlers, observers
    <3> QED
      BY <3>1, <3>2 DEF Next, Background
  <2>2. pc[s] \in {"resolve", "operable", "refused", "error"} /\ Canceled(Of(s)) /\ ~body[s].superadmin
    BY <1>0, <2>1 DEF ShutAt
  <2>3. Of(s) \in Tenants /\ Of(s)' = Of(s)
    BY <1>0, <2>1, <2>2 DEF BodyAt, Body, Of
  <2>4. Canceled(Of(s))'
    <3>1. ASSUME NEW r \in Requests, WriteSubscription(r) PROVE Canceled(Of(s))'
      <4>1. CASE Of(r) # Of(s)
        BY <1>0, <2>2, <2>3, <3>1, <4>1 DEF WriteSubscription, Canceled, TypeOK
      <4>2. CASE Of(r) = Of(s)
        <5>1. NewRow(r).status = "canceled"
          BY <3>1, <4>2 DEF WriteSubscription
        <5> QED
          BY <1>0, <2>3, <3>1, <4>2, <5>1 DEF WriteSubscription, Canceled, TypeOK
      <4> QED
        BY <4>1, <4>2
    <3>2. ASSUME NEW w \in Workers, RunStep(w) \/ RunFails(w) PROVE Canceled(Of(s))'
      BY <2>2, <2>3, <3>2, RunFrame
    <3>3. CASE UNCHANGED tenant
      BY <2>2, <2>3, <3>3 DEF Canceled
    <3>4. (\E r \in Requests : WriteSubscription(r)) \/ UNCHANGED tenant
          \/ (\E w \in Workers : RunStep(w) \/ RunFails(w))
      <4>1. Tick \/ (\E w \in Sweepers : SweepStep(w) \/ SweepFails(w)) \/ (\E o \in Orders : Settle(o))
            => UNCHANGED tenant
        BY DEF Tick, SweepStep, SweepFails, Settle, StartSweep, ListTenants, ExpireOrders
      <4> QED
        BY <1>0, <4>1, HandleFrame DEF Next
    <3> QED
      BY <3>1, <3>2, <3>3, <3>4
  <2>5. pc'[s] \in {"resolve", "operable", "refused", "error"}
    <3>1. ASSUME Handle(s) PROVE pc'[s] \in {"refused", "error"}
      <4>1. Resolve(s) => pc'[s] = "refused"
        BY <1>0, <2>2 DEF Resolve, Goto, Available, TypeOK
      <4>2. CheckOperable(s) => pc'[s] = "refused"
        BY <1>0, <2>2 DEF CheckOperable, Goto, Operable, TypeOK
      <4>3. Fail(s) => pc'[s] = "error"
        BY <1>0 DEF Fail, Goto, TypeOK
      <4>4. Resolve(s) \/ CheckOperable(s) \/ Fail(s)
        BY <1>2, <2>2, <3>1 DEF Handle, ReadClock, Place, WriteSubscription, ReadSnapshot, At
      <4> QED
        BY <4>1, <4>2, <4>3, <4>4
    <3>2. ASSUME ~Handle(s) PROVE pc'[s] = pc[s]
      BY <1>0, <3>2, HandleFrame, BackgroundFrame DEF Next, Background, Tick, handlers
    <3> QED
      BY <2>2, <3>1, <3>2
  <2> QED
    BY <2>1, <2>2, <2>4, <2>5
<1> QED
  BY <1>1, <1>2

\* How a step treats what was granted and announced to a tenant.
LEMMA PaidStep == ASSUME IInv, Next, NEW n \in Tenants PROVE PaidAt(n)'
<1>0. /\ TypeOK /\ PaidAt(n)
      /\ now \in Nat /\ now <= now' /\ now' \in Nat
      /\ tenant[n] \in Row /\ paid[n] \in Int \cup {None}
  BY ClockStep, TypeStep DEF IInv, TypeOK
<1>1. ASSUME UNCHANGED <<tenant, paid>> PROVE PaidAt(n)'
  BY <1>0, <1>1 DEF PaidAt
<1>2. ASSUME NEW r \in Requests, WriteSubscription(r) PROVE PaidAt(n)'
  <2>1. Of(r) # n => tenant'[n] = tenant[n] /\ paid'[n] = paid[n] /\ now' = now
    BY <1>0, <1>2 DEF WriteSubscription, TypeOK
  <2>2. Of(r) = n => /\ tenant'[n] = NewRow(r)
                     /\ paid'[n] = IF NewRow(r).status = "active" THEN NewRow(r).end ELSE None
    BY <1>0, <1>2 DEF WriteSubscription, TypeOK
  <2> QED
    BY <1>0, <2>1, <2>2 DEF PaidAt
<1>3. ASSUME NEW w \in Workers, RunStep(w) \/ RunFails(w) PROVE PaidAt(n)'
  <2>1. UNCHANGED <<now, paid>>
    BY <1>3, BackgroundFrame DEF Background
  <2>2. /\ tenant'[n].end = tenant[n].end
        /\ tenant[n].status = "active" => tenant'[n].status = "active" \/ tenant[n].end <= now
    BY <1>3, RunFrame
  <2> QED
    BY <1>0, <2>1, <2>2 DEF PaidAt
<1>4. Tick \/ (\E w \in Sweepers : SweepStep(w) \/ SweepFails(w)) \/ (\E o \in Orders : Settle(o))
      => UNCHANGED <<tenant, paid>>
  BY DEF Tick, SweepStep, SweepFails, Settle, StartSweep, ListTenants, ExpireOrders, observers
<1> QED
  BY <1>0, <1>1, <1>2, <1>3, <1>4, HandleFrame DEF Next

LEMMA PromiseStep == ASSUME IInv, Next, NEW n \in Tenants PROVE PromiseAt(n)'
<1>0. /\ TypeOK /\ PromiseAt(n)
      /\ now \in Nat /\ now <= now' /\ now' \in Nat
      /\ tenant[n] \in Row /\ promise[n] \in Nat \cup {None}
  BY ClockStep, TypeStep DEF IInv, TypeOK
<1>1. ASSUME tenant'[n].end = tenant[n].end, promise'[n] = promise[n] PROVE PromiseAt(n)'
  BY <1>0, <1>1 DEF PromiseAt, GraceEnd
<1>2. ASSUME NEW r \in Requests, WriteSubscription(r) PROVE PromiseAt(n)'
  <2>1. Of(r) # n => tenant'[n] = tenant[n] /\ promise'[n] = promise[n]
    BY <1>0, <1>2 DEF WriteSubscription, TypeOK
  <2>2. Of(r) = n => promise'[n] = None
    BY <1>0, <1>2 DEF WriteSubscription, TypeOK
  <2> QED
    BY <1>1, <2>1, <2>2 DEF PromiseAt
<1>3. ASSUME NEW r \in Requests, ReadSnapshot(r) PROVE PromiseAt(n)'
  <2>1. tenant' = tenant /\ now' = now
    BY <1>3 DEF ReadSnapshot
  <2>2. CASE ~Told(r) \/ Of(r) # n
    BY <1>0, <1>1, <1>3, <2>1, <2>2 DEF ReadSnapshot, TypeOK
  <2>3. CASE Told(r) /\ Of(r) = n
    <3>1. at[r] \in Nat /\ at[r] <= now /\ tenant[n].end # None
      BY <2>3 DEF IInv, TypeOK, Told
    <3>2. LastDay(r) \in Nat /\ (LastDay(r) <= at[r] \/ LastDay(r) <= GraceEnd(n))
      BY <1>0, <2>3, <3>1, Announced DEF LastDay
    <3>3. promise'[n] = Later(promise[n], LastDay(r))
      BY <1>0, <1>3, <2>3 DEF ReadSnapshot, TypeOK
    <3>4. promise'[n] \in {promise[n], LastDay(r)}
      BY <3>3 DEF Later
    <3>5. GraceEnd(n)' = GraceEnd(n) /\ tenant'[n].end # None
      BY <2>1, <3>1 DEF GraceEnd
    <3> QED
      BY <1>0, <2>1, <3>1, <3>2, <3>4, <3>5 DEF PromiseAt
  <2> QED
    BY <2>2, <2>3
<1>4. ASSUME NEW w \in Workers, RunStep(w) \/ RunFails(w) PROVE PromiseAt(n)'
  BY <1>1, <1>4, RunFrame, BackgroundFrame DEF Background
<1>5. Tick \/ (\E w \in Sweepers : SweepStep(w) \/ SweepFails(w)) \/ (\E o \in Orders : Settle(o))
      => UNCHANGED <<tenant, promise>>
  BY DEF Tick, SweepStep, SweepFails, Settle, StartSweep, ListTenants, ExpireOrders, observers
<1> QED
  BY <1>0, <1>1, <1>2, <1>3, <1>4, <1>5, HandleFrame DEF Next

LEMMA NextInv == IInv /\ [Next]_vars => IInv'
<1> SUFFICES ASSUME IInv, [Next]_vars PROVE IInv'
  OBVIOUS
<1>1. TypeOK'
  BY TypeStep DEF IInv
<1>2. CASE Next
  BY <1>1, <1>2, ClockStep, BodyStep, ShutStep, PaidStep, PromiseStep DEF IInv
<1>3. CASE UNCHANGED vars
  BY <1>1, <1>3 DEF IInv, BodyAt, ShutAt, PaidAt, PromiseAt, Kind, Of, Canceled, GraceEnd, vars
<1> QED
  BY <1>2, <1>3

\* The inductive invariant: what each handler has come to, and what of a renewal and of
\* an announcement is still to be seen in the tenant's row.
THEOREM Invariance == Spec => []IInv
BY InitInv, NextInv, PTL DEF Spec

-----------------------------------------------------------------------------
(* The properties *)

\* Every variable keeps its type.
THEOREM TypesHold == Spec => []TypeOK
<1>1. IInv => TypeOK
  BY DEF IInv
<1> QED
  BY <1>1, Invariance, PTL

\* A renewed tenant stays open until the end of what was paid for, whatever runs of the
\* worker, with however old a clock reading, are under way.
THEOREM RenewalStandsHolds == Spec => []RenewalStands
<1>1. IInv => RenewalStands
  BY DEF IInv, TypeOK, PaidAt, RenewalStands, Available, Running, Canceled, Row
<1> QED
  BY <1>1, Invariance, PTL

\* The worker never cancels a tenant before the day it was told.
THEOREM AnnouncementKeptHolds == Spec => AnnouncementKept
<1> DEFINE Kept == \A w \in Workers, n \in Tenants :
                     (run'[w] # run[w] /\ ~Canceled(n) /\ Canceled(n)' /\ promise[n] # None)
                       => promise[n] <= now
<1>1. ASSUME IInv, [Next]_vars PROVE [Kept]_vars
  <2>1. ASSUME NEW w \in Workers, run'[w] # run[w], NEW n \in Tenants,
               ~Canceled(n), Canceled(n)', promise[n] # None
        PROVE  promise[n] <= now
    <3>1. PICK v \in Workers : RunStep(v) \/ RunFails(v)
      <4>1. run' # run
        BY <2>1
      <4>2. \A r \in Requests : ~Handle(r)
        BY <1>1, <4>1, HandleFrame DEF IInv
      <4>3. ~Tick /\ (\A u \in Sweepers : ~SweepStep(u) /\ ~SweepFails(u)) /\ (\A o \in Orders : ~Settle(o))
        BY <4>1 DEF Tick, SweepStep, SweepFails, Settle, StartSweep, ListTenants, ExpireOrders
      <4>4. ~UNCHANGED vars
        BY <4>1 DEF vars
      <4> QED
        BY <1>1, <4>2, <4>3, <4>4 DEF Next
    <3>2. tenant[n].end # None /\ GraceEnd(n) <= now
      BY <1>1, <2>1, <3>1, RunFrame DEF Canceled
    <3>3. PromiseAt(n) /\ promise[n] \in Nat /\ now \in Nat /\ tenant[n].end \in Int
      BY <1>1, <2>1, <3>2 DEF IInv, TypeOK, Row
    <3>4. GraceEnd(n) \in Int
      BY <3>3, DaysInt DEF GraceEnd
    <3> QED
      BY <2>1, <3>2, <3>3, <3>4 DEF PromiseAt
  <2> QED
    BY <2>1
<1> QED
  BY <1>1, Invariance, PTL DEF Spec, AnnouncementKept

\* A canceled tenant's requests are served by none of the three access checks.
THEOREM CanceledAreShutOutHolds == Spec => []CanceledAreShutOut
<1>1. IInv => CanceledAreShutOut
  BY DEF IInv, TypeOK, ShutAt, CanceledAreShutOut
<1> QED
  BY <1>1, Invariance, PTL

=============================================================================

# A formal model of the Hellfire Gatekeeper backend

The backend is a multi-tenant shop for bakeries written in Go: HTTP handlers over
services over repositories, all state in PostgreSQL (READ COMMITTED, the driver's
default), two background workers per replica, uploaded images on disk or in object
storage. This directory holds TLA+ models of its stateful parts, TLC runs over small
instances, and TLAPS proofs for every instance. Paths below are relative to `src/`.

## 1. Inventory

| Component | State | Operations | Interacts with | Hard part |
|---|---|---|---|---|
| Order flow (`internal/services/orders`, `repository/orders`, `handlers/orders.go`) | `orders`, `order_items`, `orders_history` | create, PATCH status/paid, expire (ghost-order worker), history entry by hand | products (stock) in one transaction; tenants (timeout, list of tenants); users | interleaved transactions, reads before the transaction, lock order, rollback, ignored errors inside a transaction |
| Products (`repository/products`, `handlers/product.go`) | `products`, `products_history` | create, edit, status, decrement, revert | order flow, images | absolute writes against decrements, `track_inventory` switched in between |
| Images (`services/images`, `handlers/images.go`) | files, image columns of `products` | save, append, replace, delete, thumbnail | products, tenants (logo) | two stores without a common transaction |
| Subscriptions (`services/subscriptions`, `repository/tenant`, `middleware/subscription.go`, `middleware/tenant.go`) | `tenants`: status and period | hourly transitions, admin update, access decision | every public route, the ghost-order worker | clock, worker against admin, two different access rules |
| Action tokens (`services/auth_action_tokens`) | tokens and their history | create, consume, revoke | invitations, password reset | single use, expiry, consume against revoke |
| Invitations (`services/invitations`), password reset (`services/passwordreset`) | users | invite, accept, resend, revoke; forgot, reset | action tokens, users, e-mail | token consumed in its own transaction, account read and written later |
| Tenant signup (`services/tenantsignup`), bootstrap | signup codes, tenants, users | create code, register, bootstrap | e-mail, subscriptions | single use, slug collisions |
| Rate limiter (`middleware/rate_limit.go`) | map of buckets | allow | every public route | window boundary, growth |
| Pagination (`internal/pagination`, the two listings) | none; the cursor is the client's | page by cursor | orders, products | rows added, committed and changed between pages and within one |
| Users and sessions | `users` | login, register, get-or-create | order flow, middleware | duplicate creation |

What makes each correct: stock is neither lost nor invented and never oversold; an order
ends once and its units come back once; a reservation does not outlive its order; a
token, an invitation or a signup code works once and only while valid; a tenant's access
follows its subscription; a gallery never names a file that was deleted; a page never skips
or repeats a row that did not change.

`PROJECT.json` lists every component with what is and is not modelled, and the hazards,
each at its line.

## 2. Modules

In the order they were written, the most important behaviour first:

| Module | Models | Abstract specification | Proofs |
|---|---|---|---|
| `Orders` | order flow, stock, the ghost-order worker in one tenant | `OrderLedger` (proved) | `OrdersProofs`, `OrderLedgerProofs` |
| `ActionTokens` | one-time tokens, invitations, password reset, registration | `TokenLedger` (proved) | `ActionTokensProofs`, `TokenLedgerProofs` |
| `Subscriptions` | clock, hourly worker, superadmin, access decisions, the ghost-order worker over several tenants | | `SubscriptionsProofs` |
| `TenantSignup` | signup codes, registration, bootstrap | | `TenantSignupProofs` |
| `Images` | galleries, thumbnails and logos against their files | | `ImagesProofs` |
| `Pages` | walks through a listing, page by page | | `PagesProofs` |

`MC...` modules give the constants of the runs. The components meet where they share
state, and the module that needs the other side has it: `Orders` has the product edits
and the worker beside the orders, `ActionTokens` has everything that writes users of a tenant there is,
`Subscriptions` has orders placed and swept under a tenant's status, `Images` has what
edits and soft deletes of products do to files. Nothing else is shared but the tenant's
id, by which every statement is scoped.

A definition such as `TakesNoLock` that stands before another of the same shape (`Take`)
is a mutated form: put in its place, it must make a run fail (`PROJECT.json`, "mutants").

## 3. `Orders`

### State and actions

`product`, `order` and `history` are the committed rows; a transaction's own writes are
in `delta` (stock change per product), `credit` (the same per order, an observer),
`claimed` (orders the worker has marked expired) and, for a new order or a PATCH, in the
request's `body` until it commits. `lock` says which transaction has locked a row; a
statement that needs a row another transaction has locked is not enabled. `pc` is the
place of each handler or worker, `seen` what a handler read before its transaction,
`walk` the order whose items a transaction is giving back. `due` is the clock: the orders
whose `expires_at` has passed. `drawn`, `returned`, `supplied`, `untracked` and
`expiries` only observe.

| Action | Code |
|---|---|
| `BeginCreate`, `ReserveItem`, `RejectItem`, `CommitCreate` | `Creator.CreateOrder`: the unlocked product check, `AssertProductActiveTx` + `DecrementProductStockTx` per item, the inserts and the commit |
| `BeginPatch` | `OrderHandler.UpdateOrder` up to the updater |
| `ValidateTransition` | the updater's read outside the transaction and the decision between the transactional and the plain path |
| `WriteOrder`, `WriteHistory` | the plain path: two statements without a transaction |
| `LockOrder`, `RestoreItem`, `CommitPatch` | `updateStatusInTx` with `revertOrderStockTx` |
| `HistoryInsertFails`, `CommitAborted` | an ignored error inside a transaction and PostgreSQL's answer to the commit |
| `StartRun`, `ScanExpired`, `ClaimRow`, `RowsLocked`, `NextClaimed`, `RestoreItem`, `CommitRun` | `CancelExpiredOrders` for one tenant; the UPDATE locks its rows one by one and evaluates its WHERE again on a row it had to wait for |
| `BeginEdit`, `WriteEdit`, `SetProductStatus` | `UpdateProduct` (read, merge, absolute write) and `UpdateProductStatus` |
| `Fail`, `DeadlockVictim` | any error, disconnect or crash: the transaction rolls back; PostgreSQL's deadlock detector |
| `TimePasses` | an order's `expires_at` passes |

One action is one statement; several statements share an action only when the row lock
taken by the first (or the invisibility of uncommitted rows) keeps everybody else out
until the last. Prices, dates, notes and the customer are left out.

### Runs

| Run | Instance | Shows |
|---|---|---|
| `orders` | 3 requests, 2 workers, 2 products with three units and two, 2 orders, small (a unit of one product) or large (a unit and two of the other) | `TypeOK` (no negative stock), `ReservationsHold`, `AuditTrail`, `ExpiredOnce`, `StockLedger`, `DeadlockKinds` (a cycle of waits is among claims or among transactions that move stock, never mixed), `ExpiresOnlyUnpaidPending` |
| `orders_liveness` | 2 requests, 1 worker, 2 products of which one may be untracked, 2 orders, baskets that lock the products in both orders, admin edits of stock, status and tracking, no symmetry | `RequestsFinish`, `AbandonedOrdersEnd`, and `ImplementsLedger`: every behaviour is one of `OrderLedger` |
| `terminal_status` | 3 requests, 1 product, 1 order | the violation of section 10 |
| `history_best_effort` | 1 request, 1 worker, 1 product, 1 order | the violation of section 10 |

Why the bounds are enough to be interesting: three requests let one order be placed and
two others (a cancellation and a payment, or two more orders) race for it; two workers
let runs overlap; two products are what a deadlock needs; the stock is enough for a small
and a large order, whose transactions then meet, and too little for two large ones, so
that a buyer fails; two orders let a worker claim a batch. `Baskets`, `NewStatuses` and
`StockLevels` bound what clients send. No state constraint is used: a request is handled
once, so the state space is finite.

### Fairness

`FairSpec` assumes strong fairness of each request's own steps and of each worker's:
PostgreSQL queues waiters of a row lock, so a statement that can get its lock again and
again does get it; the ticker starts a run as long as the process lives; the deadlock
detector always acts. `<>[][~RunFails(w)]_vars` says that a worker's runs do not fail for
ever; without it no worker could promise anything. (A run that claimed nothing may still
"fail" at its end: rolling it back and committing it are the same step, which is why
`RunFails` is not simply `Fail`.) A run the deadlock detector rolled back has not failed in
this sense; with one worker and finitely many requests that cannot go on for ever. With two
it could, if they kept locking the same two orders in opposite order, and then
`AbandonedOrdersEnd` would not hold: the run has one worker. Nothing is assumed about clients: a
request need not ever arrive.

### The abstract specification

`OrderLedger` knows no transactions: an order is placed in one step, all of it or
nothing; a cancellation and the return of its units are one step; a batch of unpaid
pending orders expires together with the return of its units. `Orders` implements it with
the identity on `product`, `order` and `untracked`. What the ledger leaves open is what
the code leaves open: `Revise` may take an order out of a terminal state, and a product
whose tracking was switched may be passed over by a return (`GiveBack`).

## 4. `ActionTokens`

### State and actions

`token`, `history` and `account` are the committed rows of `auth_action_tokens`,
`auth_action_tokens_history` and `users`; an account is named by its tenant and its
e-mail, in the spelling it is stored under (`Lower` gives the lower-case one). `expired`
is the clock, `mailed` the tokens whose link is in a mailbox. `lock` is the row lock of
`SELECT ... FOR UPDATE`, `pc` the place of a handler, `body` what was asked, `subject` the
account the handler is working on, `issued` the token it created. `redeemers` and `stale`
only observe. A password is named by the request that set it.

| Action | Code |
|---|---|
| `ReceiveEmail`, `ReceiveToken` | the handlers up to the first statement: invite, forgot, register, place an order; accept, reset, revoke, resend |
| `LockToken`, `RefuseToken`, `Consume` | `ConsumeToken`: the checks on the locked row, then the update, a reset's history row and the commit |
| `CheckEmail`, `FindUser` | `EmailExists`, `GetUserByEmail`, `GetUserByTenantAndEmail`; the last two answer "not found" when the query itself fails |
| `InsertUser`, `DuplicateUser` | `CreateUser` and the unique constraint |
| `ReactivateUser`, `ReactivateNobody` | the UPDATE and its check of the number of rows |
| `RecordAccepted`, `Answer` | `RecordInvitationAccepted`; the JWT and the tenant's name |
| `WritePassword` | `UpdatePasswordHash`, which does not check the number of rows |
| `CreateToken`, `SendMail`, `SendFails` | the token and its history row; the e-mail, which may leave although it is reported as not sent |
| `ReadToken`, `LockRevoke`, `RevokesNothing`, `Revoke` | `ResendInvitation`'s read; `RevokeTokenScoped` |
| `Fail`, `Expire`, `CloseAccount` | an error, a disconnect or a crash; `expires_at` passes; `deleted_at` is set (no handler does it, the queries all allow for it) |

### Runs

| Run | Instance | Shows |
|---|---|---|
| `tokens` | 2 requests of any kind, 2 tenants, 2 spellings of one address, 4 token rows, no symmetry | `TypeOK`, `NeverUsedAndRevoked`, `ResendReplaces`, `RedeemedOnce`, `ExpiredIsUseless`, `AuditTrail`, `AcceptedHasAdmin`, `LiveAccountsKept`, `TenantsKeptApart`, `RequestsFinish`, and `ImplementsLedger`: every behaviour is one of `TokenLedger` |
| `reset_of_closed_account` | 2 requests, 2 token rows | the violation of section 10 |

Three tables to start with (`SomeTables`) are the three cases `resolveInvitedUserID` tells
apart: a customer with a reset in the mail, nobody with an invitation, a closed account
with two invitations (two people at once reopen it, and one of them finds nobody to
reopen). Two requests let two people present one
token, or one present it while another revokes, resends, registers or invites again. The
only bound on counters is `Tokens`: `CreateToken` waits when every row is taken, and there
are enough rows for every request. Identifiers come from a sequence, so which free row is
taken next is fixed (`NextToken`). There is no state constraint; the runs may end when
every request is answered.

`FairSpec` assumes strong fairness of each request's own steps, for the same reason as in
`Orders`: waiters of a row lock are queued. Nothing is assumed about clients, the clock or
who closes accounts.

### The abstract specification

In `TokenLedger` a token is absent, live, used or revoked, and redeeming it leaves one
effect owed on the account it was issued for: an invitation opens it as an admin's, a
reset changes its password. `OpenInvited` and `ResetPassword` pay what is owed, `Forfeit`
loses it. The refinement mapping takes `account` as it is, reads a token's state off its
row (`StateOf`) and takes as owed the used tokens whose redeemer is on its way from
`Consume` to the account (`Owed`). So the ledger says what the handlers promise in spite
of their separate statements: no effect without a redemption, one effect per redemption,
only on the account named, and never on a live account that an invitation has no business
with.

## 5. `Subscriptions`

### State and actions

`now` is the clock, Go's and the database's taken as one. `tenant` holds the columns
`subscription_status` and `current_period_end`, `order` the unpaid orders the ghost-order
worker looks for. `pc`, `body` and `at` are the place of a handler, what was asked and the
time it has read; `run` and `sweep` are the two workers of each replica. `paid`, `promise`
and `shut` only observe: the end the last renewal granted, the latest day of cancellation
a tenant was told, and the requests whose tenant has been canceled since before they came.

| Action | Code |
|---|---|
| `Tick` | time goes on |
| `Receive` | the middleware that gives a request its tenant and role |
| `Resolve` | `TenantFromPathOrHeader` with `GetBySlug`, on the public routes |
| `CheckOperable` | `RequireOperableSubscription` on `/auth`, and the check of the same status in `Login` (which a superadmin passes) |
| `ReadClock` | `time.Now()` in `CreateOrder` and in the subscription handlers, before the database is asked |
| `Place` | `CreateOrder`, which does not look at the tenant again |
| `WriteSubscription` | `AdminUpdateSubscription`: `resolvePeriodEnd` and the UPDATE |
| `ReadSnapshot` | `GetSubscriptionForTenant`, which tells a pending tenant the days it has left |
| `StartRun`, `MarkExpiredActiveAsPending`, `MarkExpiredPendingAsCanceled`, `RunFails` | `RunWorker` and `ProcessTransitions`: one clock reading, two statements |
| `StartSweep`, `ListTenants`, `ExpireOrders`, `SweepFails` | `RunGhostOrderWorker` and `CancelExpiredOrders`: one list of tenants, then a transaction for each (its statements are in `Orders`) |
| `Settle` | an order is paid, confirmed or cancelled by a PATCH |
| `Fail` | an error, a disconnect or a crash |

### Runs

| Run | Instance | Shows |
|---|---|---|
| `subscriptions` | 2 tenants in different phases, 1 request of any kind, both workers, 1 order, 3 instants, no symmetry | `TypeOK`, `RenewalStands`, `AnnouncementKept`, `CanceledAreShutOut`, `LapsedTenantsEnd`, `GhostOrdersEnd` |
| `pending_operates` | 1 tenant, 1 request, 1 worker | the violation of section 10 |

A day has two instants, so that a period can end in the middle of one and the rounding of
`DaysUntilCancel` matters. `Horizon` bounds the clock: with one day of grace, three
instants see a period end, the grace pass and a renewal arrive at each point in between,
since the tenants start in different phases. The superadmin grants a period that is
already over, one that ends later or the default one (`Ends`, `PeriodDays`); one of a number of
days (`Lengths`) is the default one with another number. One request at a time is enough
because a handler meets the others only in the rows the workers and the superadmin write,
and the proofs are about any number of them. `Place` waits when `Orders`
has no free row. After the horizon is reached the workers go on, with the clock standing
still, so nothing deadlocks.

What the runs show is less obvious than it looks. The worker uses a clock reading that may
be older than a renewal, and `RenewalStands` holds because an old reading can only make
fewer tenants overdue. The days told to a tenant are counted from a reading older than the
row, and `AnnouncementKept` holds only because the conversion drops the fraction of a day;
rounding up, as a friendlier message would, breaks it.

Two consequences of the code that no property calls wrong: `ListActiveTenantIDs` leaves
out tenants whose period is over, so their unpaid orders keep their units until they are
renewed (`GhostOrdersEnd` is about tenants open to the public); and `CancelExpiredOrders`
stops at the first tenant whose transaction fails, so a tenant that fails every time
starves those behind it (excluded by the fairness assumption).

### Fairness

`FairSpec` assumes weak fairness of each worker's next step, as its ticker goes on for as
long as the process lives, and `<>[][~RunFails(w)]_vars` and `<>[][~SweepFails(w)]_vars`:
runs do not fail for ever. A failed run stands at "failed", not at "idle", so that failing
is a step of its own even when nothing was to be done. Nothing is assumed about clients or
the clock.

## 6. `TenantSignup`

### State and actions

`code` and `tenant` are the committed rows of `tenant_signup_codes` and `tenants`; a
tenant's row stands for its admin too, as both are committed together. `lock` is the row
lock on a code, `claim` the transaction that has inserted a slug and not committed, for
which PostgreSQL makes every other insert of that slug wait. `issued`, `mailed` and
`expired` are the codes generated, in a mailbox and past their time; `pc`, `body` and
`attempt` the place of a handler, what was asked and the slug it is trying. `late` only
observes: the registrations whose code was dead when they came.

| Action | Code |
|---|---|
| `Receive` | the three handlers up to the mail or the first statement |
| `SendTenantSignupCode`, `SendFails`, `CreateSignupCode` | `TenantSignupService.CreateSignupCode`: mail first, then the row |
| `LockCode`, `RefuseCode` | `SELECT ... FOR UPDATE` and the check of the row, at the start of each attempt |
| `InsertTenant`, `SlugExists` | the insert, and the unique index: wait, conflict, next slug or give up |
| `InsertAdmin`, `ConsumeCode`, `Commit` | the rest of the transaction, of `Repository.BootstrapTenant` as well |
| `SignToken` | the JWT and the answer |
| `Fail` | an error, a disconnect or a crash; no other slug is tried after it |
| `Expire`, `RevokeSignupCode` | `expires_at` passes; the UPDATE that revokes (nothing calls it yet) |

### Run

`signup`: 3 requests of any kind, 2 codes, slugs of which two are taken from the start,
`MaxAttempts` 3. It shows `TypeOK`, `OnceWhileValid` (a code brings one tenant at most, is
used exactly when it has, never when revoked, and brings nothing to who came too late),
`AnswersAreTrue`, `NoSlugSkipped` and `RequestsFinish`. The slugs are laid out so that a
registration passes over two taken ones, that two registrations meet on the third, and
that what one is asked for is what another tries second (`Candidates`). `TenantSlugCandidate`
is a constant, any function from a base and an attempt to a slug. The run may end when
every request is answered.

`FairSpec` assumes strong fairness of each request's own steps: those who wait for a row
or for a slug are let on in turn.

The mail leaves before the row is stored, so that a failure leaves a code in a mailbox
that never existed; that no stored code lacks its mail is the theorem `MailedFirst`.

## 7. `Images`

### State and actions

`files` are the files in each owner's directory, `used` the names ever given (a name holds
the nanosecond of the upload, so none is given twice); `row` is a product's `image_urls`,
`thumbnail_url` and `status`, `logo` the tenant's `logo_url`; `lock` the row lock. A
handler serves one request after another: `pc` is its place, `body` what was asked, `seen`
the row as it read it, `new` what it has uploaded and no row names, `left` what it still
has to delete. `condemned`, `unsure` and `leaked` only observe; they name the exceptions
below.

| Action | Code |
|---|---|
| `Receive`, `ReadRow` | the handlers of `handlers/images.go`, `handlers/product.go` and `UploadTenantLogo` up to `GetProductByID` or `GetBranding` |
| `SaveFile`, `SaveFails` | the image service, on disk or in object storage, one file after another |
| `LockRow` | `SELECT ... FOR UPDATE` |
| `AppendProductImages`, `PrependImageAndSetThumbnail`, `UpdateProductImages`, `RemoveProductImage`, `RefuseRemoval` | the transactions of the repository, to the commit |
| `UpdateProductThumbnail`, `RefuseChoice` | the choice of a thumbnail, checked against the row as it was read; the first thumbnail after an upload |
| `UpdateProduct`, `UpdateProductStatus` | the edit, which writes back the thumbnail it read, and the soft delete |
| `UpdateTenantLogoURL` | the logo, one UPDATE |
| `DeleteImage`, `DeleteProductImages` | the clean-up, best effort: one file, or the product's directory or any part of it |
| `DbFails`, `Crash` | an error of the database, after which uploads are deleted again; the end of the process |

A commit, or a statement, whose answer is lost is a disjunct of the action that makes it.

### Runs

`images`: 2 handlers serve any sequence of the eight kinds of requests on one product and
the logo, with 2 uploads between them. Two handlers are two sides of every race, and go on
for ever, so that a third request meets what two have left; two files are one that is
replaced and one that replaces it. It shows `TypeOK`, `RowsNameStoredFiles` (what is
served exists), `NoStrayFiles` (what exists is named or in somebody's hands) and
`OnlyRemovedOnPurpose` (no append and no edit drops another's image).
`thumbnail_race` is the violation of section 10.

What the first two except is what the code does, and no documentation promises otherwise:

- `condemned`: a soft delete removes the files and keeps the row, and a later PATCH makes
  the product active again, with URLs of files that are gone;
- `unsure`: when the answer to a commit is lost, the handler takes it for a failure and
  deletes files that the row now names;
- `leaked`: two replacements, or two logos, that read the same old row leave the loser's
  files behind; a save that fails half-way leaves the earlier files of its request; a
  crash leaves what was in hand, a failed deletion its file.

Left out: the order of a gallery (where the code takes the first image the model takes
any), an inactive product (the same as an active one here), products from before the column `image_urls`
was added, where it is NULL. A product is created without images.

## 8. `Pages`

### State and actions

`listing` is the one that is walked, the orders or the products. `clock` is the
database's, `drawn` the ids drawn from the sequence, `tx` what each open transaction has:
its time (`created_on` is the time its transaction began) and the id it has inserted;
`row` is the committed rows. On the client's side, `filter` is what it asks for, `cursor`
what it was given last, `ids` and `more` the page on its way, `items` what it has been
shown. `owed` and `left` only observe: the rows the walk has had ahead of it and that
stayed in the filter, and whether some row has left the filter since a page announced the
next one.

| Action | Code |
|---|---|
| `BeginTx`, `Insert`, `Commit`, `Rollback` | `CreateOrder`, `CreateProduct` |
| `SetStatus` | any of the updates of status (also a soft delete: rows are never removed) |
| `Tick` | time goes on |
| `StartWalk` | a first request, without a cursor |
| `ListPage` | the query with one row more than the page |
| `FetchDetails` | the orders' second query, by id, the cursor made from its last row, and the answer |
| `Lost` | an error or a lost answer: the client asks again |

A cursor is modelled by the key it carries. One that does not decode, or belongs to
the other listing, is refused and changes nothing.

### Run

`pages`: both listings, 2 writers, 4 ids, 2 instants, pages of 1 or 2 rows. Two writers
commit in another order than they began or drew their ids; two instants for four ids give
ties in `created_on`, also at a page's border; four rows are a walk of several pages. It
shows `TypeOK` (no page longer than asked for), `InOrder` (nothing twice, nothing out of
order), `Complete` (a finished walk has shown every row that stayed in its filter from
when it was ahead) and `MoreIsTrue`. One client is enough because readers change nothing.
The status stands for all columns a filter looks at.

Three consequences of the code that no property calls wrong: an order whose transaction
began before, and commits after, a page that ends with a later `created_on` is behind the
cursor and shows in the next walk only; the second query does not look at the filter
again, so an order may be shown with a status that was not asked for; an endless stream of
new orders makes an endless walk, so there is no liveness to check.

## 9. Proofs

TLC's instances are small; the following holds for every value of the constants that
satisfies the module's assumption. No other assumption is made. Liveness is out of the
prover's reach and stays with TLC throughout.

### Orders

`OrdersProofs` proves, for any sets of requests, workers, products, orders, baskets and
stock levels that satisfy `OrdersAssumption`:

- `TypesHold`: `Spec => []TypeOK`, which includes that no committed stock is negative;
- `NoOversell`: `Spec => []ReservationsHold`;
- `AtMostOneExpiry`: `Spec => []ExpiredOnce`;
- `HistoryComplete`: `Spec => []AuditTrail`;
- `OnlyUnpaidPendingExpire`: `Spec => ExpiresOnlyUnpaidPending`;
- `NoLockLeftBehind`: no lock outlives its transaction (`LocksHeld`);
- `DeadlocksAreOfOneKind`: `Spec => []DeadlockKinds`.

None of them is inductive. The argument is about locks, and `IInv` states it per process:
`ProcAt` (a staged stock change holds the product's lock and leaves no negative stock),
`RequestAt` (what a handler knows at each of its places; every product reserved so far is
locked and still active), `WorkerAt` (every claimed order is locked, due, pending and
unpaid). `StepOf(t)` is the frame: a step of `t` changes no other process's part and no
row another process has locked. `OthersKept` shows once that every other process then
keeps its part, so each action's lemma has to re-establish the actor's part only
(`OnlyTheActor`). The four actions that end a transaction share `EndTxStep`.
`PendingNotExpired` is what `ExpiredOnce` needs besides: no order that is pending has
expired before, because a PATCH cannot write `pending`.

Which deadlocks there are follows from where a process may hold which locks
(`LocksHeld`): an order's from the claim or the PATCH's first statement, a product's from
the first reservation or return. A transaction that waits for a product therefore waits for
others that do (`WaitedFor`), so those in a cycle are a cycle by themselves (`CyclesSplit`).
A run that returned one order's items before it claimed the next would break this;
`CancelExpiredOrders` claims everything first.

`OrderLedgerProofs` proves what needs the amounts and not only the locks:

- `StockAddsUp`: `Spec => []StockLedger`;
- `OrdersImplementLedger`: `Spec => ImplementsLedger`.

Neither follows from `IInv`, which bounds a staged stock change but does not say what it
is. The second inductive invariant, `Books`, does. `Drawing`: a creation has staged, for
each line it visited, its quantity if the product is tracked, and nothing for any other
product. `Returning`: whatever a PATCH or a worker has staged for return on behalf of an
order is the quantity of a line it visited, of a tracked product it has locked; a visited
line for which nothing is staged is about a product that has at some time been untracked
(`LineCredited`); and the staged stock change is the sum of these over the orders.
`NothingDrawn` and `UntrackedKept` are what the tables contribute: an order not there yet
has taken nothing, and a product that is not tracked is in `untracked`. An admin may turn
`track_inventory` off and on between two commits, so `Returning` cannot say
that the units given back are those of the order, and `OrderLedger` has to allow for products
passed over. The locks matter once more: the product of a staged return is locked, so
nobody changes its `track_inventory` before the commit (`OthersBooked`, over
`StepOf` again).

The proof of the refinement is then a comparison of sums at the four commits. `LineUnits`
and `NoLineUnits` evaluate the ledger's `Units`, `StagedSum` equates the staged change with
the sum over the orders not passed over, and `CommitCreateMaps`, `CommitPatchMaps`,
`CommitRunMaps`, `WriteOrderMaps`, `WriteEditMaps` and `SetProductStatusMaps` exhibit the
ledger's step; every other action leaves the three tables alone. A run that claimed nothing
commits without a step of the ledger.

`SumFunction` is a recursive definition, and the theorem on induction over finite sets
cannot be instantiated by the provers. The lemmas on sums do without: what fails for some
subset of a finite set fails for one all of whose smaller subsets are good (`LeastSubset`,
from the well-foundedness of strict inclusion), which gives existence and uniqueness of
the recursive function (`SumExists`, `SumIsSum`), and from these how a sum
changes with one value, adds pointwise and depends on its support only. That is why
`OrdersAssumption` has `IsFiniteSet(OrderIds)`: an order id is a 32-bit serial.

The run `orders` checks the first and `orders_liveness` the second on a small instance; of
`Orders` only the liveness properties are model-checked alone.

### Action tokens

`ActionTokensProofs` proves every safety property the run `tokens` checks
(`TypeCorrectness`, `RedeemedOnceHolds`, `NeverUsedAndRevokedHolds`,
`ExpiredIsUselessHolds`, `AuditTrailHolds`, `AcceptedHasAdminHolds`,
`ResendReplacesHolds`, `LiveAccountsKeptHolds`, `TenantsKeptApartHolds`) for any sets that
satisfy `TokensAssumption`. `IInv` has two families of parts. `RequestAt` says for each
place of a handler what its request has read, locked and done: between the SELECT and the
commit it holds the row's lock and the row is unspent (`LockAt`), after `Consume` it is
the token's one redeemer and works on the token's account (`RedeemedAt`), a resend that
goes on has issued and mailed another token (`ResendAt`). `TokenAt` relates a token's row,
history and redeemers. A step of a request touches its own parts and, of the tokens, only
one that is absent or that it has locked (`StepOf`); `OthersKept` shows once that this
leaves every other request's part alone, so that an action's lemma is about its actor.

`TokenLedgerProofs` proves `Spec => ImplementsLedger` from `IInv`: each action maps to one
step of the ledger or to none. What has to be proved is that paying removes exactly one
token from `Owed`, that is, that a used token is owed by exactly one request; this is
`RedeemedOnce` again, seen from the other side.

### Subscriptions

`SubscriptionsProofs` proves `TypesHold`, `RenewalStandsHolds`, `AnnouncementKeptHolds` and
`CanceledAreShutOutHolds`, for any tenants, length of a day, grace, periods and grants that
satisfy `SubscriptionsAssumption` and with the clock bounded by any `Horizon`. `IInv` adds
to the types: a clock reading is never ahead of `now` (of handlers and workers); `PaidAt`,
a renewal's end stands in the row and the status is active or the period over; `PromiseAt`,
a day that was announced has come or is not after the end of the grace; `ShutAt`, a request
that came after the cancellation is at a check or refused, and its tenant still canceled.
`WholeDays` is the one fact of arithmetic needed: dividing by `Day` and multiplying again
never gives more than there was.

### Tenant signup

`TenantSignupProofs` proves `TypeCorrect`, `CodesWorkOnce` (from `OneTenant`,
`RevokedIsUnused` and `LateGetsNothing`), `AnswersTrue`, `SlugsInOrder` and `MailedFirst`.
`IInv` adds to the types: `Local(r)`, what a request knows at each place (a registration
past its check holds the code's row, unused and not revoked, and past its insert the
slug; who is answered owns what it was told; the slugs before the present attempt are
taken); `CreatedOnce`, a code is generated by one request; `Rows`, a stored code was
issued and mailed, and a used one is not revoked. A code may
expire while its row is locked, and the registration that checked it before still gets its
tenant; so `LateIsRefused` is about those whose code was dead when they came.
Each action leaves every other request's locks and slugs alone (`Effect`), and
`EffectKeeps` shows once that this is enough.

### Images

`ImagesProofs` proves `TypeCorrect`, `NamedFilesAreStored`, `NoFileForgotten` and
`NothingIsOverwritten`. That a named file is stored needs to know where files to delete
come from. `IInv` adds: `NamesUsed`, whatever anybody holds or a row names was given out
before; `NewIsPrivate`, an upload is known to its uploader alone until a row names it;
`NewIsStored`; `LeftIsDropped`, what is left to delete is not named any more (but for
the commits in `unsure`); and `Local`, what stands in a handler's variables at each place.
A gallery is written from the row under its lock and from private uploads, so no later
write brings a dropped name back. The one that could is that of a thumbnail,
which is why the properties are about galleries and logos, and thumbnails are in
section 10.

### Pages

`PagesProofs` proves `TypeCorrect`, `PagesInOrder`, `NothingMissed` and `CursorsAreTrue`,
for any page sizes and any number of rows, writers and instants. The heart of `IInv` is
`CursorOK`: the cursor is the key of the last row shown, so that "after the cursor" and
"not shown yet" agree. `OwedOK` then says that a row the walk owes is shown, on the page
under way, or beyond both. `TableOK` has what makes keys differ: an id is drawn once and
its row's time never changes.

## 10. Where the code and its documentation disagree

- `TerminalIsFinal`. `internal/errors/errors.go:43` says a cancelled order cannot be
  modified. `update_status.go:63` validates what it read before the transaction and
  writes without looking again: an order cancelled or expired in between becomes
  `preparing` while its units are back in stock, and two concurrent admin cancellations
  of one order both give its units back (`update_status.go:83`), so that stock grows by
  units nobody supplied.
- `HistoryIsBestEffort`. `update_status.go:142` and `create.go:225` say a failed history
  insert does not undo the order. It is a statement of the same transaction, so
  PostgreSQL refuses everything after it and the commit rolls back.
- `ResetTakesEffect`. `handlers/auth/password_reset.go:95` answers "Password reset
  successfully", also when the account was closed after the mail went out:
  `UpdatePasswordHash` (`repository/user/user.go:183`) ignores that its UPDATE matched no
  row. The token is used up and the history says the reset was completed.
- `OperableUsePublicRoutes`. `model/tenant/subscription_status.go:38` says active and
  pending tenants may use the public routes. `GetBySlug` (`repository/tenant/tenant.go:70`)
  also asks that the period is not over, and the worker makes a tenant pending when it is:
  the shop and the login of a pending tenant answer 404, while `/auth` stays open to the
  sessions its admins already have.
- `ThumbnailInImages`. `handlers/product.go:366` says the thumbnail must be one of the
  images. It is compared with the images read before and then written by an UPDATE that
  looks at nothing; so is the first thumbnail after an upload (`handlers/images.go:115`)
  and the one an edit writes back. When the image is removed in between, the
  product's thumbnail is the URL of a deleted file.

## 11. Not modelled

- The rate limiter: each request makes one step under one mutex, so the counter is a
  sequential fixed window that its unit tests cover, and nothing else reads it.
- `products_history` and an admin's manual entry in `orders_history`: logs written by
  requests of their own and read by nothing that is modelled.
- A tenant's colours and display name: one statement each, on which nothing depends.
- Login and the token middleware, beyond the check of the subscription: they only read.
  JWT, bcrypt, e-mail and logging are library calls and I/O; that a mail fails is
  modelled.
- Format checks of payloads, and requests they refuse before anything is read. Of the
  order validator the shape of a basket is modelled, of the listings' the filters and
  page sizes.
- Of the token handlers: `ValidateToken` and the unscoped `RevokeToken` (nothing calls
  them), and what sets `superadmin` apart from `admin`.
- Of subscriptions: `is_active` (no statement writes it), the plan code and the slug, a
  token's validity, a difference between Go's clock and the database's, and the rows of
  one UPDATE, which change in one step.
- The migration command and the local AI review tool under `cmd/ai`: neither has
  concurrent state, and the second is not part of the service.

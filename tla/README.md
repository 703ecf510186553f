# TLA+ models of the payment ledger platform

This directory holds TLA+ specifications of the payment ledger platform, the
TLC configurations that check them on small instances, and TLAPS proofs of the
results that matter most for every instance. `PROJECT.json` maps each
definition to the lines of Go or SQL it models and lists runs, hazards,
findings and theorems in machine-readable form. Paths below are relative to
the root of the repository.

## 1. The system

| Component | State | Operations | Talks to |
|---|---|---|---|
| Domain rules (`internal/domain/payment.go`) | none | `CanTransition`, `ValidateCapture`, `ValidateRefund`, `ValidateBalanced`, constructors | used by all services |
| Payment service (`internal/service/payment_service.go`, `fakes.go`) | none of its own | `Create`, `Authorize`, `Capture`, `Refund` | store, provider, risk engine |
| PostgreSQL store (`internal/store/postgres.go`, `migrations/`) | `payments`, `idempotency_keys`, `ledger_entries`, `outbox_events`, `processed_webhooks`, `payouts`, `disputes` | one transaction per command | called by everything |
| Memory store (`internal/store/store.go`) | the same tables as maps behind one mutex | the same | used without `DATABASE_URL` |
| Payouts (`internal/service/payout.go`) | rows of `payouts` | `Create`, `Complete` | store; `Complete` is called by payout webhooks |
| Disputes (`internal/service/dispute.go`) | rows of `disputes` | `Open`, `Resolve` | store |
| Outbox worker (`cmd/worker`, `internal/service/outbox.go`) | leases and `published_at` of `outbox_events` | `Deliver`: claim, publish, webhook, dead letter, mark | store, JetStream, merchant endpoint |
| Provider webhooks (`internal/httpapi/webhook.go`) | `processed_webhooks` | payment and payout callbacks | payment and payout services |
| HTTP API (`internal/httpapi/server.go`) | none | decoding, ownership checks, status codes | services |
| Authentication, rate limiting (`internal/httpapi/security.go`) | window per merchant, in memory or Redis | `Allow` | Redis |
| Reconciliation (`internal/service/reconciliation.go`) | none | `Reconcile` | store |
| Migration tool (`cmd/migrate`) | `schema_migrations` | apply files in order | PostgreSQL |
| Metrics, tracing, wiring, load script | counters | - | - |

How they interact: every HTTP request runs in its own goroutine, in any number
of API replicas, so that all services run concurrently against one database.
A payment command reads the payment without a lock, calls the provider, and
then runs one transaction that locks the row, validates again, and writes row,
ledger entries and event. Workers poll the outbox. The provider calls back
through webhooks that run the same commands. Merchant routes pass the rate
limiter first, whose counters live in the process or in Redis. An admin may
compare a report of the provider with the database at any time. Nothing else is
shared.

What is hard here:

- commands on one payment that overlap, with the provider call between the
  check and the lock (`PaymentService`);
- payouts, refunds and disputes that draw on one balance under different locks,
  or none (`MerchantLedger`);
- leases without an owner, abandoned batches, retries with one message id for
  two subjects (`Outbox`);
- requests with one idempotency key that race, and clients that retry
  (`IdempotentCreate`);
- callbacks that are duplicated, reordered, and recorded before they take
  effect (`ProviderWebhooks`);
- a limit that is kept by two Redis commands (`RateLimiter`);
- a provider that is asked before the commit, amounts that are rounded on one
  side only, and a comparison that reads while others write (`Reconciliation`);
- migrations that are executed in one transaction and recorded in another
  (`Migrate`);
- handlers that die, or whose answer is lost, between any two of these steps.

What makes the components correct:

- payment service: row, ledger entries, events and provider agree; money is
  held once, captured within the hold, refunded within the captures;
- payouts and disputes: balances are the sums of the rows, no balance is
  reserved twice, each row is settled once;
- outbox: an event that is marked was delivered, a lease belongs to one
  worker, every event is published in the end;
- idempotent creation: one payment per key, agreeing answers;
- webhooks: no event takes effect twice, contradicting callbacks do not both win;
- rate limiter: admissions per window are bounded, a full window ends;
- reconciliation: exact for payments that are left alone, every difference has
  a known cause;
- migration tool: schema and record stay in step;
- all that lock: whoever waits for a lock gets it;
- the PostgreSQL store: its transactions behave like the single steps of the
  in-memory store.

## 2. The modules

| Module | Models |
|---|---|
| `Domain` | the pure rules of `domain/payment.go`, and the rounding of a numeric column |
| `PaymentMoney` | abstract: the money of a payment, one step per movement |
| `MemoryStore` | the in-memory store; abstract specification of the PostgreSQL transactions |
| `PaymentService` | authorize, capture and refund on PostgreSQL; implements `PaymentMoney` and, with one exception, `MemoryStore` |
| `MerchantLedger` | payouts and disputes with the captures and refunds on the same account; implements `MemoryStore` with one exception |
| `Outbox` | workers, leases, JetStream's duplicate window, webhook attempts, dead letters |
| `IdempotentCreate` | `Create` and the transaction of `CreatePayment`; implements `MemoryStore` |
| `ProviderWebhooks` | both callback handlers |
| `RateLimiter` | the middleware of the merchant routes with both of its limiters |
| `Reconciliation` | captures at the provider and in the database, and the job that compares them |
| `Migrate` | the migration tool |
| `DomainTheorems` | lemmas that the proofs share: sums over finite sets, rounding, and what a ledger transaction does to balances |
| `PaymentServiceProofs`, `MerchantLedgerProofs`, `OutboxProofs`, `IdempotentCreateProofs`, `ProviderWebhooksProofs`, `ReconciliationProofs` | theorems about the module each extends |
| `OperationsProofs` | theorems about `RateLimiter` and `Migrate`. It extends both, hence the names `MigrateInit`, `MigrateNext`, `MigrateSpec` |
| `MC...` | bounded instances for TLC |

An operator whose name starts with `Faulty`, `Extra` or `Renewing` stands before the one
it spoils and is used by no specification. Replacing the definition by it must
make TLC report the property that is paired with it under "mutants".

### PaymentService

`payments`, `ledger`, `outbox` are the committed contents of the tables, with
the ledger seen through the sums `SUM(credit - debit)` per payment and account,
which is all the program reads of it. `rowLock` is PostgreSQL's lock on the row
of a payment, `req` the local variables of the handlers, and `executed` what
the provider did. One call runs through

| Action | Code |
|---|---|
| `Authorize`, `AuthorizeBlocked`, `Capture`, `Refund`, `Reject` | `GetPayment`, first validation, risk check |
| `ProviderSucceeds`, `ProviderFails` | the provider call; an error leaves open whether the provider acted |
| `LockRow`, `CommandRefused` | `SELECT ... FOR UPDATE` and the validation of the locked row |
| `Commit` | `UPDATE`, ledger and outbox `INSERT`s, `COMMIT` |
| `TransitionRead`, `TransitionUpdate` | `Transition` to failed: unlocked read, `UPDATE` by id |
| `Abort` | a handler dies or a statement fails: rollback |

Statements inside a transaction that neither wait nor read what others write
are one step with the next that does. That is exact: nobody sees uncommitted
rows. The payload of an event is computed from the snapshot of the first
read, as `commit` does, and not from the locked row.

Clients may send any number of decimals (`server.go:299`, `webhook.go:94`) and
the program rounds nothing. So amounts are integers in a unit finer than the
database's, of which `Unit` make its smallest amount. Validation, the provider
and the JSON payload use the amount as it came; `Stored`, `StoredRow` and
`StoredEntries` are what the `numeric(20,6)` columns keep of it, the new sum in
the row and the amounts of the entries separately. `CommandAllowed` includes the
`CHECK` of `ledger_entries` (`EntriesStorable`), which refuses an amount that is
rounded to nothing, and `CreatePayment` the one on the amount of a payment.

### MerchantLedger

The tables `payouts` and `disputes`, the ledger per merchant, the advisory lock
of `CreatePayout` and the row locks of `TransitionPayout` and `ResolveDispute`.
`Capture` and `Refund` are single steps because `PaymentService` shows that each
takes effect in one. `OpenDispute` reads the payment in one step and commits in
a later one without a lock. Merchants stand for pairs of merchant and currency.

### Outbox

`rows` is ordered by `created_at`, the start of the inserting transaction, so
a row may be inserted anywhere. The statement of `ClaimOutbox` is two steps:
`Select` is its CTE, which locks the oldest free rows and passes over those that
another claim has locked, and `Claim` the `UPDATE` that leases and commits; in
between, other workers claim, and one that wants to mark a locked row waits.
`ClaimFails` returns an error, with or without the commit. The table has the time
of a claim only; `lease` also records who claimed a row in the last minute, so that
`OneWorkerPerLease` can be stated. Time is the action `LeaseExpires`, which may
happen while the worker is still busy. JetStream is external: `Publish` acknowledges
and drops a message whose id is in the duplicate window, and `WindowCloses`
forgets an id at any time.

### IdempotentCreate

The steps of `CreatePayment`: lookup, insert of the payment, insert of the key,
commit. The lookup fails when it finds a payment without provider reference,
because it scans NULL into a string. The insert of a key waits for a
transaction that has inserted the same key. The id drawn by request `r` is
written `r`. `SetReference` stands for `Authorize`.

### ProviderWebhooks

`Deliver`/`Reject` are the checks of a handler, `Register` and
`DuplicateIgnored` the statement of `RegisterWebhook`, `Process` and `Refused`
the command. The commands are single steps on one payment and one payout.

### MemoryStore and the refinements

`MemoryStore` is `internal/store/store.go`: one mutex, so each operation is one
guarded step on all tables. It is what the services' tests run on. The property
`ImplementsStore` of three modules says that a step of the PostgreSQL
transactions that changes the tables is such an operation, whatever interleaves
and wherever handlers die, with the exceptions that the code really has:

| Module | Mapping | Exception |
|---|---|---|
| `PaymentService` | events by payment and kind, each payment under a key of its own | `LateFailure`: `Transition` reads and updates in two steps, so the failure of a slow authorization may hit a payment that was captured, refunded or failed since; only status and reference change |
| `MerchantLedger` | events of payments derived from their amounts; starts with authorized payments | `OvertakenPayout`: refunds and disputes do not take the advisory lock, so a payout may commit after they spent its balance; what is missing is at most what they took |
| `IdempotentCreate` | ledger and outbox derived from whether the payment was authorized | none |

Reads, replays and errors change nothing and are stuttering steps.

### RateLimiter

`hits` is the list behind the mutex, `count` and `ttl` the key in Redis. `Incr`
and `Expire` are the two commands of a request, `IncrLost` and `ExpireFails`
their failures; after a lost answer go-redis may send `INCR` again, which is
another `Incr`. Time is `Tick`; ages and remaining times replace points in time,
which keeps the model finite. `admitted` and `lost` are history. A request
without a valid key is refused and one to an API without merchant keys is not
limited; neither changes anything.

### Reconciliation

`row`, `entries` and `provider` are what was captured according to the row, the
ledger and the provider. Amounts are finer than the database's: `Stored` rounds
as `numeric(20,6)` does. A capture begins with an unlocked check, moves money at
the provider and commits or not; one that comes from a callback has moved money
before. The job reads one line per step; `quiet` is history. A line stands for
its provider reference, and references are assumed to be unique, which no
constraint of the schema enforces.

### Migrate

`executed` is the schema, `recorded` the table `schema_migrations`. A file takes
effect as a whole (pgx sends a query without arguments through the simple
protocol, and PostgreSQL runs it as one transaction), and executing it again
fails. A database may also start with all files executed and none recorded,
because `docker-compose.yml` mounts them as initialisation scripts.

## 3. Runs

| Run | Question | Instance | Distinct states |
|---|---|---|---|
| `payment_service` | Do row, ledger, events and provider agree, is the money specification implemented, is every call answered? | 1 payment, 3 calls, amounts -1, 1, 2, 4, 6, 8, unit 3, risk limit 6, provider errors, crashes | 226 460 |
| `merchant_ledger` | Are balances the sums of the rows, is each row settled once, is every call answered? | 1 merchant, 1 payment of 2, 3 calls, amounts -1..2, crashes | 120 014 |
| `outbox` | Is a marked event delivered, is a lease exclusive? | 2 workers, 2 events, batch of 2, 3 attempts, crashes | 1 357 736 (with symmetry) |
| `outbox_live` | Is every event published? | 1 worker with webhook, 2 events, 2 attempts, crashes | 63 869 |
| `idempotent_create` | One payment per key, agreeing answers, is every request answered? | 3 requests, 2 keys, amounts -1..2 | 67 944 |
| `provider_webhooks` | Do duplicates and contradictions stay without effect? | 4 deliveries, 6 events, crashes | 100 254 (with symmetry) |
| `rate_limiter` | Are admissions bounded, does a full window end? | 2 merchants, 3 keys, 2 handlers, limit 2, window of 3 ticks, lost answers | 35 745 |
| `reconciliation` | Do row and entries agree after rounding, is every drift explained and found? | 2 payments of 8, 2 calls, amounts 0, 1, 2, 6, unit 4 | 1 101 392 (with symmetry) |
| `migrate` | Do schema and record stay in step, is the schema completed? | 4 files, 3 processes, 2 crashes | 25 075 |

`payment_service`, `merchant_ledger` and `idempotent_create` also check
`ImplementsStore`.

Deadlock is checked for `rate_limiter` and `migrate`. The other systems stop
when the bounded number of requests has been handled, and an empty outbox leaves
nothing to do. That nobody waits for ever is what the liveness properties
check.

**Bounds.** Payments do not share state with one another, so one payment
is enough for `PaymentService`. Three calls are an authorization and two
commands that race or depend on each other. Longer sequences, a capture after a
refund or two refunds that race, are not in that run: that no capture follows a
refund rests on the theorem `ClosedPaymentsStayClosed`, which bounds nothing.
With a unit of 3 and a risk limit of 6, the amount 8 is stored as 9 and blocked,
6 is captured in full, 2 is rounded up to 3 and 4 down to it, so that captures of
2 and 4 are partial and their payloads lie below and above what is stored; 1 is
rounded to nothing and -1 malformed. In
`MerchantLedger` captures and refunds come on top of the three calls: two
payouts compete while a third call settles one of them or opens a dispute, or
two callbacks race for one payout. Two events and two workers let a batch be
abandoned in the middle, a lease be taken over and two claims overlap. `outbox_live` has one
worker, whose own expired leases it takes over: with a second one the fairness
conditions are out of TLC's reach. Three requests on two keys let two collide
while a third retries or uses another key. Four deliveries of six events let
each ordering of two events occur with a duplicate of each. The number of
requests, calls or deliveries bounds every counter: each runs once. A window of
three ticks with a limit of two has room for the end of one Redis counter and
the start of the next, and `AdmissionsBounded` is tight there; the counter is
cut off at `CountBound`, beyond which the code does not tell values apart. With
a unit of 4, the amount 1 rounds to nothing, 2 is exactly half a unit and 6
rounds up to the authorized amount; two calls are two captures that race, or one
and a callback. Four files are the repository's, two crashes can hit two runs of
the tool, and three processes let one skip what a second records while a third
executes.

**Fairness.** Weak fairness of the steps of a running handler: Go schedules it,
calls return, PostgreSQL grants a lock that is free. Arrivals, deaths and (in
the outbox) the closing of the duplicate window are never forced. The outbox
also needs time to pass (`LeaseExpires`) and strong fairness of the successful
outcomes of claim, publish, webhook and mark: the worker's loop in `cmd/worker/main.go`
tries for ever, and without a broker or an endpoint that works now and then
no implementation publishes anything. `rate_limiter` assumes that time passes
and that a handler sends its second command or fails; `migrate` that statements
are answered and that somebody runs the tool again after it has ended.

## 4. Findings

Each is a run that must end in a counterexample; `PROJECT.json` quotes the
sentence it refutes.

| Run | What TLC shows |
|---|---|
| `outbox_dead_letter` | The dead letter has the message id and the stream of the event itself, so JetStream drops it as a duplicate. |
| `idempotent_retry` | A retry before authorization fails on a NULL `provider_reference`. |
| `webhook_retry` | A callback is recorded, refused, and ignored when it is retried. |

Four more disagreements are part of passing runs, as what the code does
instead:

- `src/README.md:5-7` says "every money movement is idempotent" and "retries are
  safe". Capture and Refund take no idempotency key (`payment_service.go:73`,
  `:88`; `server.go:135-165`), so a client that lost the answer to a partial
  capture and sends it again captures twice. To the model a retry is another
  call, and no property tells it from a capture that was meant:
  `ImplementsMoney` and `LedgerMatchesPayment` only say that both together stay
  within the hold, that both are in the ledger and that each has its event.
- `src/README.md:6-7` says "Payment state transitions are guarded". `Transition`
  (`postgres.go:106-118`) checks an unlocked read and updates by id, so a payment
  that was captured meanwhile becomes `failed` with the reference
  `provider_error`. `ImplementsStore` of `PaymentService` needs the exception
  `LateFailure` for it and no other; `LedgerMatchesPayment` shows that amounts and
  ledger entries still agree, and `ReconcileFindsDrift` that reconciliation no
  longer finds the payment.
- `src/README.md:5-6` says that every money movement is "represented by balanced
  ledger entries". Capture and Refund ask the provider before
  `CommitPaymentCommand`, which may refuse (`payment_service.go:81`), and a
  callback asks it again (`webhook.go:115`). `DriftExplained` accounts for every
  such difference and `ReconcileFindsDrift` shows that it is reported.
- `src/README.md:115-116` says that the advisory lock prevents payouts from
  "overspending the available ledger balance". Refunds and disputes do not take
  it. `ImplementsStore` of `MerchantLedger` needs the exception
  `OvertakenPayout`, in which what is missing is what they took;
  `PayoutsWithinCaptures` shows that payouts compete correctly with one another.

A counter in Redis whose `EXPIRE` was lost stays for ever, and a migration that
was executed and not recorded makes every later run panic. No sentence of the
repository rules that out; `OrphanOnlyByFault`, `WindowEnds`,
`WedgedOnlyByCrash` and `MigrationSettles` say that nothing else goes wrong
there: races alone cause neither.

Two other weaknesses of that kind are stated as what does hold. The payload of an
event comes from the read before the provider call, so overlapping commands
publish amounts that the row never had. `PayloadNeverAhead` says that, rounded to
the precision of the table, they are never too large; unrounded they may be, by
less than the smallest amount the table stores. `DisputeService.Open` ignores the disputes a payment already has, so two
disputes of the full amount are both accepted; `DisputeWithinCaptured` says that
each alone is covered.

## 5. Proofs

All theorems hold for arbitrary sets of payments, requests, keys, events,
workers and amounts, and any limit, window or unit; the assumptions are the named
`ASSUME`s of the modules (constants have their types, `None` is none of the
ids). `MerchantLedger` also assumes finitely many calls and payments, because
its totals are sums over them: a sum of infinitely many rows has no value, and any
reachable state has only finitely many rows. In `PaymentService` and
`Reconciliation` that is part of the inductive invariant instead.

Each safety property is a theorem `Spec => []P`, by an inductive invariant that
implies it; `ImplementsMoney` and `ImplementsStore` follow from the invariant,
the initial condition and a lemma that maps every step to a step or to stuttering.

**DomainTheorems.** The totals of tables, events and captures are
`SumFunctionOnSet`, which is defined by recursion on sets with `CHOOSE`. Its
laws (`SumEqual`, `SumRemove`, `SumStep`, `SumNat`, `SumZero`) need induction,
which is replaced by minimal counterexamples: a nonempty set of natural numbers
has a least member (`LeastNatural`), a nonempty set of subsets of a finite set a
minimal one (`MinimalSubset`), both from the well-foundedness theorems of the
library. `RoundToLaws` says that rounding yields multiples of the unit and that
adding to a multiple commutes with it; `RoundToLimit` that a limit which is a
multiple is not passed by rounding up.
`TransferBalanced` and `PostTransfer` say that a two-entry transaction
is balanced and moves its amount between two accounts.

**PaymentServiceProofs.** `IInv` is the conjunction of

- `TypeOK`;
- `CallsKnowTheirPayment`: a running call works on an existing payment, and
  the amount it read is still the row's (rows are never deleted, amounts never
  updated). `Authorize` posts the amount of its snapshot, so the ledger
  would drift without this;
- `LockedRowIsCurrent`: between lock and commit the row is the one that was
  validated. `LedgerMatchesPayment` alone says nothing of a commit about to
  happen;
- `LedgerMatchesPayment`;
- `RowsAreStored`: the amounts in a row are multiples of the unit. Without it
  rounding the new sum in the row and rounding the amount in the entries
  could differ.

`CommandRounds` reduces a commit to whole units: what a command with any amount
writes to row and ledger is what the same command with the rounded amount would
write, and it passes its checks if the former does.

`LocalStep` deals with steps that change handlers only; the steps that write
have a lemma each, and `CommitAgrees` does the arithmetic of the three commands.
From `IInv` follow `TypeCorrect`, `LockProtectsRow`, `LedgerCorrect`; from
`IInv` and `TableSteps`, a summary of what a step can do to the tables, follow
`ClosedPaymentsStayClosed` and `MoneyRefinement`.

`EInv` adds the outbox. An event belongs to one call, which is over and whose
amount no longer changes (`EventsOfCalls`, `OneEventPerCall`), so a commit adds
exactly one summand to `EventSum`; nobody asks for the lock before the provider
has acted (`ProviderFirst`); and what a running call read is at most behind the
row (`SnapBehind`), from which its payload is at most behind. `EventsExplain`,
`ProviderBacked` and `PayloadsBehind` follow.

`SInv` adds that amounts and failure reasons come from the sets the store's
commands choose theirs from. `StoreRefinement` then maps each commit and each
failure to an operation of `MemoryStore`, or to `LateFailure`.

**MerchantLedgerProofs.** None of the five invariants is inductive, and each needs
the others. `CallOK` says what a call knows at each of its steps: the id it draws
is unused (`FreshId`); a call that settles a row carries the row's merchant and
amount (`Settles`), and at its commit holds the row lock while the row is still
pending or open; a payout that has read the balance holds the advisory lock and
still finds its amount within the captures next to what is reserved and paid;
the payment of a dispute has captured at least its amount, since captures only
grow. `RowOK` says that an id is a payout or a dispute and not both, without which
the two halves of a row's history could mix. Each commit moves one row from one total
to another (`SumStep`) and posts one transfer (`PostTransfer`), and
`LedgerMatchesRows` is their agreement. `StoreRefinement` maps each commit to an
operation of `MemoryStore`; a payout whose balance was spent meanwhile is
`OvertakenPayout`, with `PayoutsWithinCaptures` and `LedgerMatchesRows` bounding
what is missing.

**OutboxProofs.** `MarkedAfterDelivery` needs that an event in the duplicate
window is stored under its own subject (`WindowIsStored`; otherwise an
acknowledged publish might have been dropped) and that a worker past a stage has
delivered there (`DeliveredSoFar`). `LeaseIsExclusive` needs that the rows which a
claim has selected stay without a lease, and in no other claim's selection, until
it commits (`LockedRows`).

**IdempotentCreateProofs.** `OnePaymentPerKey` needs that a transaction which
has inserted its key is the only one with that key, which is still unbound
(`CommitHoldsKey`), that an id is unused until its request commits (`FreshIds`),
and what a running request has for input (`KnownInput`). `AnswersAlwaysAgree`
adds that an answer names what the key is bound to (`AnswersBound`), and
`StoreRefinement` that a committed amount is one that `NewPayment` accepts
(`StoredAmounts`).

**ProviderWebhooksProofs.** A handler behind `RegisterWebhook` is the only one
at its event, which is recorded and has had no effect (`OwnsEvent`); a pending
payout has been touched by no callback (`PendingUntouched`).

**OperationsProofs, rate limiter.** For the list in memory, the list is what was let through
(`MemoryOK`). For Redis, `CountersOK` says that a handler between `INCR` and
`EXPIRE` is the only one at its counter, which then has no expiry. `RedisOK`
keeps an account of each counter: the admissions in the window are at most
`Limit - 1` from the counter before it plus what it has counted, less the request
that waits; and since its `EXPIRE`, `Window - ttl` ticks ago, fewer requests were let
through than it has counted. So when it expires, fewer than `Limit` are left in
the window, and the account of the next counter begins. The sums over ages are
handled by `SumOlder` (a tick shifts them) and `SumHit`.

**OperationsProofs, migration tool.** A process executes the file it has come to
without another look at the schema or the record, so nothing in `SchemaIsPrefix`
alone keeps a gap from opening. `ToolInv` adds what a process knows: the files
before its own are recorded (`Position`), and one that is about to record is
alone, with its file executed and unrecorded (`Recorder`). Since no file can be
executed twice, a process that executes file `f` finds schema and record both to
end at `f - 1` (`ExecutesNext`), hence nobody else about to record; and a record
is always of the last file of the schema (`RecordsLast`). Each step is then one of
three: nothing changes but a process (`QuietStep`), a file takes effect
(`Executed`), a record is made (`Recorded`); a crash is any of them.
`SchemaInStep` and `WedgeNeedsCrash` follow.

**ReconciliationProofs.** The row is a multiple of the unit, so rounding the new
sum is adding the rounded amount (lemma `Rounding`, from `RoundToLaws`), and an authorized amount that
is itself a multiple is not exceeded by rounding up: `RoundingIsHarmless`.
`DifferenceExplained` follows the contribution of each call to the difference
(`Drift`) through its steps, with finitely many calls begun at any time
(`FinitelyMany`). `ReconcileIsExact` needs that nobody works on a quiet payment,
so that its line is still what the provider has and what the list says of it is
right as soon as the line was read (`QuietOK`).

**Model-checked only.** Every safety property and every refinement that a passing
run checks is a theorem as well. Liveness under fairness (`CallsFinish`,
`EveryEventPublished`, `WindowEnds`, `MigrationSettles`) is outside of what the
prover handles and rests on the runs alone, with the bounds of section 3.

## 6. What the models leave out

- **Waiting that adds nothing.** Inserts that reference a payment take a
  `KEY SHARE` lock, which only delays; two merchants whose `hashtext` collides
  share an advisory lock, which only makes them wait.
- **CHECK constraints.** Those of `ledger_entries` and on a payment's amount are
  part of `PaymentService` and `Reconciliation`. The others repeat limits that
  the theorems show are kept.
- **Decimals.** `PaymentService` and `Reconciliation` have amounts that are finer
  than the database's. In the other modules they are integers in its units: the
  two show that rows hold multiples of the unit and agree with their entries.
- **Repeated events in MemoryStore.** Its outbox is a set of payment and kind, so
  `ImplementsStore` does not notice the loss of a second capture's event;
  `EventsExplainPayment` counts the events of a payment one by one.
- **Strings.** Ids, currencies and references are model values or small sets;
  payloads are the row they describe.
- **Unused code.** `ApplyAmount`, `AppendLedger` and `Enqueue` have no caller;
  the in-memory store's `ClaimOutbox` and `MarkPublished` have none either, since
  the worker requires PostgreSQL.
- **Replicas of the memory limiter.** Each API process has its own list; the
  bound is per process.
- **Reconciliation of what the report leaves out.** Payments that are missing
  from the report, and refunds, are not compared by the code.
- **Keys of idempotency** form one space for all merchants, as in the table.
- **Events of payments in MerchantLedger, of commands in ProviderWebhooks.**
  They are in `PaymentService`.
- **Not modelled: metrics, tracing, routing, configuration, the load script and
  the deployment files.** Counters behind a mutex and headers copied to the
  response decide nothing. The checks that a merchant owns a payment and that an
  admin key fits refuse a request before it changes anything.

## 7. Plan

Done, in this order: `Domain`, `PaymentMoney`, `PaymentService` with its
proofs, `MerchantLedger`, `Outbox`, `IdempotentCreate` and `ProviderWebhooks`
with their proofs, `MemoryStore` with the refinements, `RateLimiter`,
`Reconciliation`, `Migrate`; then proofs of all safety properties and refinements.
What is left is to keep them true: a change of a mapped function changes its
action, the runs of its module show whether the invariants survive, and the
lemma of that action is where the proof has to be repaired.

# A verification of the banking API

This directory holds TLA+ models of the Go program in `src/`, the TLC runs that
check them and the TLAPS proofs about them. File names below are relative to
`src/internal/` unless they start with `src/`.

## 1. The system

The program is an HTTP API (echo) over Postgres (GORM). A request runs in its own
goroutine: middleware, a handler, one service method, a few repository calls, each
of which is a SQL statement or a short database transaction. The processes share
the tables; a few in-memory objects (circuit breaker, rate limiter, the mutex of
the account number generator) are shared under mutexes. There is no `main` in the
repository: how the parts are wired is read from constructors and tests.

| component | state | operations | modules |
|---|---|---|---|
| account service (`services/account_service.go`, `repositories/account_repository.go`, `transfer_repository.go`) | tables accounts, transfers, transactions, audit_logs | transfer with idempotency key, credit, debit, status change, close | `AccountService`, `MoneyMovement` (section 3) |
| circuit breaker (`services/circuit_breaker.go`) | closed, open, half-open; counters; time of last failure | IsOpen, RecordSuccess, RecordFailure, Reset | `CircuitBreaker`, `BreakerCalls` (4) |
| processing queue (`services/transaction_processing_service.go`, `repositories/processing_queue_repository.go`) | table transaction_processing_queue; goroutines under a semaphore | enqueue, poll every second, process, reverse, retry with backoff, give up | `ProcessingQueue` (5) |
| authentication (`services/auth_service.go`, `token_service.go`, `middleware/auth.go`) | tables users, refresh_tokens, blacklisted_tokens | register, log in with lock-out after 3 failures, refresh, log out, check a token, unlock, delete, change passwords | `AuthSessions` (6) |
| customers and opening accounts (`services/customer_profile_service.go`, `account_association_service.go`, `customer_search_service.go`, `account_service.go`) | users, accounts | create, change, search, delete customers; open, list, show, re-own accounts | `CustomerAccounts` (7) |
| rate limiter (`middleware/rate_limiter.go`) | map from address to token bucket | admit, deny, forget idle visitors | `RateLimiter` (8) |
| errors and handlers (`errors/`, `middleware/error_handler.go`, `handlers/`) | none | map an error to a code, a status and a body | `ErrorCodes`, `RequestPipeline` (8) |
| reports (`services/statement_service.go`, `account_summary_service.go`, `account_metrics_service.go`, `handlers/transaction_handler.go`) | none | statement, summary, metrics, pages of transactions and of activity | `LedgerReports` (9) |
| test data (`services/transaction_generator.go`, `handlers/dev_handler.go`) | transactions | generate a history | `HistoryGenerator`, `LedgerReports` (9) |
| audit trail (`services/audit_service.go`, `repositories/audit_log_repository.go`) | audit_logs | append, page by customer | with the operations that write it |
| the rest: migrator, categories, Northwind client, metrics, configuration | none worth the name | pure functions, I/O | section 10 |

How they meet: every request passes the rate limiter, the error handler and, where
the route asks for it, `RequireAuth`; registration opens accounts; deletion of a
customer deletes accounts that the account service posts to; reports read the rows
that postings and the queue write; the queue calls `UpdateBalance` and the breaker.

What is hard, and what makes each component correct:

* **Account service.** Concurrent read-modify-write of rows; a transfer that spans
  three database transactions (claim the key, move the money, record the outcome)
  with crashes and lost acknowledgements between them; retries under one key;
  deadlocks between opposite transfers. Correct means: a call moves money once or
  not at all, a key moves money at most once, balances are never negative, the
  ledger explains every balance, the transfer row, the reply and the audit row
  agree with what happened, and a closed account is empty.
* **Queue and breaker.** Items fetched twice, work split over two database
  transactions, stale retry counters, results counted by the breaker in a later
  state than they were admitted in. Correct means: statuses and money agree, every
  item is settled, the breaker recovers, shutdown ends.
* **Authentication.** Rows of users read, changed and written back by several
  logins at once; a refresh token used twice; logout against refresh; errors that
  are logged and passed over. Correct means: lock and counter agree and only what
  should lift a lock does, nothing that a logout cut off comes back, answers and
  audit rows tell what was stored.
* **Customers.** Checks and effects in separate statements: uniqueness, deletion
  against money that arrives, opening against deletion, a cascade that stops half
  way. Correct means: keys stay unique, what is orphaned or lost with money in it
  has an explanation, answers are true.
* **Rate limiter and handlers.** A bucket forgotten and made anew must not grant
  more than the rate; each error reaches the client with the right status.
* **Reports and test data.** Several statements collect one answer while rows are
  added, completed and stamped before they are visible; period ends; a generator
  that sorts and recalculates what it drew.

`PROJECT.json` lists each hazard at its line, with the properties that would catch
it going wrong.

## 2. How the project is built

| module | builds on | checked by | proved in |
|---|---|---|---|
| `MoneyMovement` | | refinement target of `AccountService` | |
| `AccountService`, `AccountServiceProperties` | `MoneyMovement` (INSTANCE) | `MCAccountService`: Unlocked, Postings, Deadlocks, LostUpdate, TransfersFail | `AccountServiceProofs`, `MoneyProofs` (with `FiniteSums`) |
| `CircuitBreaker`, `BreakerCalls` | | `MCBreakerCalls`: Breaker | `BreakerProofs` |
| `ProcessingQueue`, `ProcessingQueueProperties` | `CircuitBreaker` | `MCProcessingQueue`: QueueRetries, QueueWorkers | `ProcessingQueueProofs` |
| `AuthSessions`, `AuthSessionsProperties` | `ErrorCodes` | `MCAuthSessions`: Sessions | `AuthSessionsProofs` |
| `CustomerAccounts`, `CustomerAccountsProperties` | `ErrorCodes` | `MCCustomerAccounts`: Customers, MoneyDeleted | `CustomerAccountsProofs` (with `FiniteSums`) |
| `RateLimiter` | | within `LedgerReports` | `LedgerReportsProofs` |
| `RequestPipeline` | `RateLimiter`, `ErrorCodes` | within `LedgerReports` | `LedgerReportsProofs` |
| `HistoryGenerator` | | within `LedgerReports` | `LedgerReportsProofs` |
| `LedgerReports`, `LedgerReportsProperties` | `RequestPipeline`, `HistoryGenerator` | `MCLedgerReports`: Reports | `LedgerReportsProofs` (with `FiniteSums`) |
| `FiniteSums` | | | itself: lemmas about sums and step-by-step functions |

Conventions. One request is one goroutine; one action is one SQL statement (or one
method under a mutex, or one reading of the clock) with the Go code up to the next.
Names are the source's. A *slip* in a comment marks a plausible mistake the code
does not make: no specification uses it; `PROJECT.json` names it as the mutant that
a property must detect. Modules that carry theorems use functions and folds, never
RECURSIVE operators. A run with `CHECK_DEADLOCK FALSE` does not exist: where the
system may come to rest there is a stuttering action that needs every request done.

`FiniteSums` is what the proofs about money need. `MapThenSumSet`, by which the modules
add up balances and ledger rows, chooses a recursive function on the subsets of a
set, and the library's induction theorems take the statement to be shown as an operator, which
no installed prover can be given. But proper inclusion among the subsets of a finite set is
well-founded in a first-order sense: every non-empty set of subsets has a minimal one. So
`SubsetInduction` is an induction whose statement is a *set* of subsets, and `UpTo`, the same for
the sets `1..k`, an induction up to `n`; with them follow `SumExists`, `SumUnique`, `SumSplits`
(any element may be added first), `TotalAdded` (one more summand adds its value), `SumOfNats`
(natural numbers add up to zero only if each is zero) and `Iteration` (a function computed step
by step up to `n` exists).

Worth doing next: that a `level` never above `Burst` bounds the admissions of every
stretch of ticks, which section 8 argues in a sentence; and an abstract specification of
a queue that processes at least once, which `ProcessingQueue` implements.

## 3. AccountService

### Modules

| module | what it holds |
|---|---|
| `AccountService` | the statements of transfers, postings, status changes; faults; the specification |
| `MoneyMovement` | the abstract specification: what is kept about money although no SELECT locks |
| `AccountServiceProperties` | the properties, and the refinement mapping to `MoneyMovement` |
| `MCAccountService` | the instances TLC checks |
| `AccountServiceProofs` | types, keys, transfer rows, replies, audit |
| `MoneyProofs` | the refinement, statuses, closed accounts and the books |

### State and actions

`accounts`, `transfers`, `ledger` and `audit` are the committed rows of the four
tables; `transfers` is a function of the key because the key has a unique index.
`lock` is the row lock of Postgres, which an UPDATE takes and a SELECT does not. `pc[r]` names the SQL statement request `r` is
about to send; `op`, `seen`, `src`, `dst` are its call and the structs it has read;
`reply` is what the service method returns, by class (`ok`, `replayed`,
`stillProcessing`, `previouslyFailed`, `refused` for the business errors, `error`
for the internal ones, `crashed` for a call the server never answers). `applied` is
a history variable: the requests whose money movement has committed. So is
`overwritten`: the accounts whose row a call has written from a copy that was no
longer the row (`Stale`).

One action is one statement with the Go code up to the next one:
`CheckExistingTransfer`, `RetrieveFromAccount`, `RetrieveToAccount`, `CreateTransfer`
(the unique index decides), the four statements of `ExecuteAtomicTransfer`,
`CompleteTransfer` or `FailTransfer`, `CreateAuditLog`; `GetAccount`,
`SelectForBalance`, `SaveBalance`, `RecordTransaction` for a posting; `GetAccount`,
`FindUser` (the second statement of `GetAccountByID`, for a caller who is not the owner),
`SaveStatus` for a status change and for `CloseAccount`, whose balance check is that
of `Account.Close`. Inserting a ledger row runs the model's own consistency check
(`ensureBalanceIsCorrect`, `BalanceIsCorrect` here), which can abort the transfer.
Writes of an open transaction become visible at commit; the last UPDATE, the ledger
inserts and COMMIT are one action because the row locks are held throughout.

Faults: a statement fails without effect (`StatementError`), a commit is applied
but its acknowledgement is lost (`AckLost`), the process dies (`Crash`), and
Postgres breaks a cycle of lock waits (`AbortDeadlocked`). Each may be switched off
by the constant `Faults`, except the deadlock abort.

### What the pinned GORM does

The library is not part of the repository; `src/go.mod` pins `gorm.io/gorm v1.31.1`,
which is GORM v2. Three of its habits decide what this code does.

* The repository asks for row locks with `tx.Set("gorm:query_option", "FOR UPDATE")`
  (`repositories/account_repository.go:214`, `:289`, `:328`). That is how GORM v1 did it;
  in v2 the setting has no effect and locking needs `clause.Locking`. No SELECT of
  the model locks.
* `tx.Model(fromAcct).Update("balance", x)` assigns `x` to the field of the struct it
  was given. The ledger row built afterwards reads `BalanceBefore` from that struct,
  so before and after are equal, the hook of the row refuses it, and the transfer is
  rolled back. That is `WritesBack = TRUE`. `FALSE` is what the code and its tests
  expect of the library, and the only setting in which a transfer commits: what
  happens after such a commit is worth knowing too, and run `Unlocked` asks it.
* `Save` of a row soft-deleted meanwhile updates nothing and falls back to an
  upsert of every column: section 7.

### Properties

Without row locks a balance may be replaced although it is no longer the one that
was read. The properties say what is left, and say it for every call and fault.

* `MovesMoney`: the service implements `MoneyMovement`. Each balance ever held is one
  that some call read there, changed by that call's own movement; a transfer debits
  and credits in one instant; a call and a key move money at most once; nobody is
  overdrawn. A status call writes back the balance it read.
* `BooksExplained`: an account not in `overwritten` holds its opening balance plus its
  ledger rows plus the postings that have committed and got no row
  (`BalancesExplained`), and such a posting is still at work or its caller was told
  of an error (`MissingRowsAreKnown`). It is this last window, between the commit of
  `UpdateBalance` and `transactionRepo.Create`, that the faults of the runs hit.
* `ClosedIsEmpty`: a closed account not in `overwritten` holds nothing.
* `StatusOnlyByCall`: a status changes by a status call that the row as it stands allows,
  or by a call that saves a copy that is no longer the row.
* `KeyMovesOnce`, `CompletedMeansMoved`, `ReplyIsTrue`, `AuditIsTrue`: keys, transfer rows,
  replies and audit rows agree with what committed.
* `EveryCallAnswered`, `PendingIsResolved`: lock waits end, deadlocks are broken.

`overwritten` excuses no account that was written from its current row: if every write
to an account met the row its call had read, the account is in its books, empty
when closed, and its status changed by status calls alone.

### Runs

All runs have two accounts, two users of whom `ann` is also an admin, and two
keys. Small amounts (balances 0 to 3) make covers and does-not-cover both happen.

| run | requests | writes back / faults | what it shows |
|---|---|---|---|
| `Unlocked` | 3 | no / all | withdrawals and transfers in both directions, valid or not, that may commit: `KeyMovesOnce`, `CompletedMeansMoved`, `ReplyIsTrue`, `AuditIsTrue`, `BooksExplained`, `MovesMoney` |
| `Postings` | 3 | yes / all | the program as built: postings, status calls, closures, and transfers that roll back: `BooksExplained`, `ClosedIsEmpty`, `StatusOnlyByCall`, `MovesMoney`, types and non-negative balances |
| `Deadlocks` | 3 | no / none | deposits, withdrawals and opposite transfers under fair scheduling: `EveryCallAnswered`, `PendingIsResolved` |

Two runs, of two requests, no faults and the pinned library, are expected to find a
violation. `LostUpdate`: two postings read one balance and one of them is lost
(`NoLostUpdate`), while the comments of `repositories/account_repository.go` say that row
locking prevents it. `TransfersFail`: a transfer that found both accounts active and
the money there fails without a fault or a deadlock (`FailsForCause`), while
`handlers/account_handler.go:305` documents "Transfer completed successfully".

Further disagreements, met while modelling, that no run repeats; each shows when its
property is added to a run with the constants named:

* a status change saves the whole row it read, and so overwrites a balance committed
  in between (`NoLostUpdate`, the calls of `Postings`), leaves money on an account it
  closes, or reopens an account closed in between; a posting, which saves the whole
  row as well, reopens or unfreezes an account in the same way;
* where transfers commit, one that read an account as active credits it after it was
  closed (`ClosedIsEmpty` without its excuse, `WritesBack = FALSE`);
* a crash between the insertion of the transfer row and the end of the call leaves
  the key pending with nobody working on it (`PendingMeansProcessing`, `Faults`
  with `crash`), and after a lost acknowledgement a transfer marked failed has
  moved its money (`FailedMeansNotMoved`, `Faults` with `ackLost`);
* the destination's owner is never compared with the caller, although
  `handlers/account_handler.go:297` says both accounts must be the caller's
  (`TransfersStayInOwnAccounts`, any transfer);
* a transfer that the source does not cover is answered as an internal error, because
  `ExecuteAtomicTransfer` returns the repository's error and `mapTransferErr` knows the
  service's; line 311 of that handler documents a 422 with TRANSACTION_003;
* the ledger row of a posting quotes the balance read before `UpdateBalance`: only its
  signed amount, which `BooksExplained` counts, is right.

Bounds. The interesting interleavings need two calls on one row and one more to
observe or disturb them, which three requests give; two keys and two accounts give
retries under one key, opposite transfers and deadlock. A request runs one call, so the number of calls is
bounded by the number of requests; restart after a crash is the arrival of the
requests that had not started. Amounts are integers: money is `decimal(15,2)` and
no operation of these rounds.

Fairness. `FairSpec` assumes weak fairness of each request's next statement or
deadlock abort: the Go scheduler runs every goroutine, Postgres grants a free lock
and its deadlock detector breaks cycles. Weak fairness is enough because lock
holders finish; it is not assumed that a client ever calls (`Start` is unfair).

### Proved

`AccountServiceProofs` assumes only `ConstantsAssumption` and proves, for every set
of accounts, users, keys, requests and operations, and whatever `WritesBack` and
`Faults` are:

* `TypeCorrect`: `Spec => []TypeOK`. Balances are in `Nat`, so no account is ever
  overdrawn. The inductive form adds to the types what a request's `pc` says about
  its locals: at `debitWrite` the row it holds covers the amount, and so on; that is
  why the check survives the interleaving: the row written is the row checked.
* `ServiceCorrect`: the inductive invariant `TypeInv /\ ServiceInv`.
  `ServiceInv` ties the owner of each transfer row (`by`), the row's status, the
  set `applied` and each request's `pc` and reply together. `KeyMovesOnce` alone is
  not inductive: it needs that only a key's owner is ever past `claim`, that an
  owner in the transfer transaction has not moved the money yet and that its row is
  still pending.
* From it `KeysMoveOnce`, `CompletedMoved`, `RepliesAreTrue` and `AuditsAreTrue`.

The step lemma is in two parts: `StepKinds` classifies every action by what it does
to the variables the invariant mentions (begins, advances, claims, commits,
completes, fails, audits, crashes), and `ServiceStep` shows that each kind keeps the
invariant.

Two further statements depend on faults and are proved under the assumption they
need: `FailedNeverMoved` (a failed row's money has not moved) where no
acknowledgement is lost, and `PendingIsAtWork` (a pending row has a call at work)
without faults. No run lists them: with the faults of the runs they do not hold.

`MoneyProofs` assumes no more than `ConstantsAssumption` either.

* `MoneyStep` (lemma `MoneySteps`) reduces the actions to the few that money tells apart: both legs of a
  transfer are booked, a posting's balance is saved, its row is booked, a status is
  saved, a crash, or a request walks on and writes nothing.
* `StatusesChangeByCall` and `ClosedAccountsAreEmpty`: `CheckedInv` says that a row about
  to get a balance was active when read, and that one about to be saved with a
  status allowed that status then. So whenever the copy is still the row, so is what
  was checked of it; when it is not, the write is stale and the account enters
  `overwritten`.
* `ImplementsMoneyMovement`: under the refinement mapping `read` is what a request has
  in hand (`Hand`), and a call takes effect at its commit. `KeyMovesOnce`, from
  `AccountServiceProofs`, gives that a key moves once.
* `LedgerExplainsBalances`: `BooksInv` adds to `BooksExplained` that ledger and arrived
  requests are finite and that each row belongs to a call past its inserts, so that a
  row inserted is a new summand: `RowsTotal` grows by it and `CallsTotal` shrinks by
  the posting it records (`FiniteSums`).

Only model-checked: `EveryCallAnswered` and `PendingIsResolved`, which are liveness and out of
the prover's reach.

### Not modelled here

Descriptions, references, reference formats, metrics and log lines; currency;
requests cancelled by the client (the context is not passed to the database).
Opening and deleting accounts is section 7, what the handlers answer section 8.
A replay that carries other parameters than the first call is answered with the
first call's transfer: the model does the same, because only the key is compared.

## 4. CircuitBreaker and BreakerCalls

`CircuitBreaker` is `services/circuit_breaker.go`: the fields `state`, `failures`,
`halfOpenSuccesses`, and `sinceFailure`, the ticks since `lastFailureTime`, which
stops counting at `ResetTimeout + 1` because only `> ResetTimeout` is ever asked
(so the zero time of a new breaker and any long ago failure are one value). Every
method holds the mutex throughout, so each is one step: `Admit` and `Reject` are
the two answers of `IsOpen`, then `RecordSuccess`, `RecordFailure` and `Reset`.

`BreakerCalls` adds callers that ask, call a service that may be up or down, and
report later, as `ProcessQueueItem` does; what it does not report (a duplicate, an
item given up) is `Abandon`. `reports` and `quiet` are history: what was reported
since the breaker last changed its state, and how long no failure was.

Run `Breaker`, with three callers, shows `StateFollowsReports` (the state is what the
reports since it was entered call for, however late they come), `OpenWaits` (an open
breaker lets nobody in until no failure has been reported for longer than the
timeout) and `Recovers` (if the service stays up, the breaker closes for good).

Bounds: three callers are one whose report is stale, one that opens the breaker
and one that probes; the limits (3 failures, 2 successes, 2 ticks) leave a state
strictly between 0 and each limit. `FairSpec` assumes that time passes, that callers
keep asking (the poller does, every second), that finished calls are reported
(`ProcessQueueItem` always returns), and strongly that calls end rather than being
abandoned every time: a caller whose work is void for ever would keep a half-open
breaker half-open. The safety properties are checked under it too: fairness does
not remove any reachable state.

`BreakerProofs` proves the type invariant, `StateFollowsReports` and `OpenWaits` for
every configuration in `ConfigAssumption` and every set of callers. The inductive
invariant is their conjunction with the fact that `quiet` and `sinceFailure` agree;
`BreakerStep` shows it over the actions.

## 5. ProcessingQueue

`ProcessingQueue` extends `CircuitBreaker` and models
`services/transaction_processing_service.go` with the repositories it calls.
`queue`, `txns` and `balance` are tables; `service` is where `StartProcessing` is;
`pc[g]` is the next statement, or call of the breaker, of goroutine `g`, `job[g]` the
item as it was when fetched, `copy[g]` the transaction it read, `stored[g]` the
`retry_count` that `IncrementRetry` read. Three variables are history: `moves` counts
how often an operation moved money, `unsaved` how often it did and its status was not
saved (`LeftUnsaved`; a crash adds those about to save), `attempts` how many attempts
at an item failed, up to `MaxRetries`.

`Poll` is the ticker: it fetches the due items by priority, up to twice the number
of workers, and starts a goroutine for each. Nothing marks them as taken, so the
next `Poll` may start others for the same items. `Acquire` is the semaphore;
`Validate`, `FetchTransaction`, `CheckReference`, `UpdateBalance`, `SaveTransaction`,
`MarkCompleted`, `Succeed` are `ProcessQueueItem` in order; `Fail`, `ReadRetry`,
`SaveRetry` the retry, `GiveUp`, `SaveFailed`, `MarkFailed` the two ways an item
fails. `StatementError` leads from each statement to where its error leads, `Crash`
restarts the process with a new breaker, `Cancel` and `Stop` are the shutdown.
`UpdateBalance` is one action here because the queue's properties do not depend on
its inside; `AccountService` opens it up.

`HookSeesValues`: `UpdateWithOptimisticLock` calls
`Model(&Transaction{ID: id}).Where(version).Updates(transaction)`. The pinned GORM
runs `BeforeUpdate` on the value given to `Model`, which holds only the id, so
`Validate` fails and no row is ever updated: that is `FALSE`. `TRUE` is the update
the service and its unit tests (which mock the repository) count on: it saves and
increments the version if the version is the expected one.

| run | workers, goroutines | updates pass their hook | faults | what it shows |
|---|---|---|---|---|
| `QueueRetries` | 2, 2 | no: the pinned GORM | one error or crash | `MoneyIsAccounted`: every movement beyond the one the status shows belongs to an attempt that could not save; `GivesUpLate`: an item is given up only after `MaxRetries` failed attempts; types |
| `QueueWorkers` | 2, 2 | yes | one crash | `StatusFollowsTable` and `CompletedItemIsDone` with stale workers and a duplicate that was completed before; under fair scheduling `Settled`: retries end although stale workers put items back and the breaker opens; `ShutdownCompletes` |

With the pinned GORM no transaction ever changes its status, so that what concerns
statuses is asked where the update works. The money is asked where it does not,
which is where it goes wrong most; the proof covers both. Disagreements that no run
repeats; the properties are in `ProcessingQueueProperties`:

* with the pinned library no transaction row is ever saved, so every retry moves
  the money again (`ProcessedOnce`, `HookSeesValues = FALSE`);
* even if the update works, two workers that fetched one item both move the money
  (`ProcessedOnce`, two workers, `HookSeesValues = TRUE`);
* a goroutine with an older copy of the item increments `retry_count` past
  `max_retries` (`RetriesWithinLimit`, two goroutines);
* `handleMaxRetriesExceeded` expects a version one too low, so the transaction of an
  item given up stays pending (`GivenUpIsFailed`);
* `updateAccountBalance` passes `BalanceAfter` where `UpdateBalance` takes an amount,
  and logs it as the new balance (`NewBalanceIsLogged`);
* a transaction that is completed or reversed and whose reference another row had
  first is set to failed by `handleDuplicateReference`, which `CanTransitionTo` does not
  allow: `StatusFollowsTable` says so, and run `QueueWorkers` has one.

Bounds. Both runs queue the processing of a pending debit and the reversal of a
completed one, the reversal with the higher priority; the account can pay the first
twice or the second once; in `QueueWorkers` the second has the reference of the first, so
that it is rejected. The second worker is the stale one. `MaxRetries` is 1: none and
all retries are used. One fault can hit any statement. `Goroutines` bounds what the
program does not bound.

Fairness. Time passes and the ticker fires; goroutines run; a channel serves the
senders that wait for it first come, first served, hence strong fairness of
`Acquire`. `Poll` is strongly fair only because the bound `Goroutines` may disable it
for a while, which the program never does.

Not modelled: `EnqueueTransaction` inserts an empty string into a `jsonb` column,
which Postgres refuses (SQLite, used by the tests, does not); metrics and log lines;
the counts of `GetQueueMetrics`. No code in `src/` creates a pending transaction or
calls `StartProcessing`; the models start from transactions and items that
`EnqueueTransaction` accepts.

`ProcessingQueueProofs` proves all five safety properties for any items, transactions,
workers, limits, faults and either value of `HookSeesValues`, from `QueueAssumption` and
`ConfigAssumption` alone. The inductive invariant is `TypeInv /\ WorkInv`. `TypeInv` adds to
the types that the breaker's counters are below the limits at which they are cleared,
that a goroutine at work has an item, and that finitely many are at work. `WorkInv` says of each goroutine (`Holds`)
that the copy it will compare is the row if the versions agree and older otherwise,
that it moves money only for an operation its copy allows, and that it completes an
item only if its effect is there; and that a duplicate keeps its first status until it is
failed. The argument: a save needs equal versions
(`WorkerEvolves`), so the copy's status is the row's and the change is one of the
table; `handleMaxRetriesExceeded` never saves; hence every transaction `Evolves`, and
`EvolutionKeeps` what is done and what other goroutines hold.

`GivenUpLate` adds `RetryInv`. A goroutine that saves an old `retry_count` may lose
retries that others counted; it must not invent any. `Counts` says that whatever a row, a
goroutine or a pending save counts (`Failed`), together with the workers on their way
to count one more (`Retrying`), is covered by attempts that failed. `MoneyAccounted`
adds `Origins`, that no status leads back to pending nor away from reversed but to
failed, and compares `MoneyIsAccounted` before and after each step: a movement adds a
worker that is `Saving`, and that worker leaves to a saved status or to `unsaved`.
Progress is model-checked only.

## 6. AuthSessions

`users`, `refresh` (refresh_tokens) and `blacklist` (blacklisted_tokens) are tables;
`holder[t]` is the user that token pair `t` was signed for, which the signature
carries and nobody can change. A request issues at most one pair, so pairs are
named by the request. `seen[r]` is the `models.User` that request `r` has read,
`pc[r]` the statement it is at.

| call | actions |
|---|---|
| register | `RegisterLookup`, `RegisterCreate` (the unique index on the e-mail decides, over deleted rows too), `RegisterOpenAccounts` |
| login | `LoginLookup`, `LoginFailed`, `AuditAccountLocked`, `LoginSucceeded`, `GenerateTokens` |
| refresh | `RefreshLookup`, `RefreshUser`, `RefreshRevoke`, `GenerateTokens` |
| logout | `LogoutValidate`, `LogoutBlacklist`, `LogoutRevokeAll` |
| a protected route | `RequireAuth`, then `FindTarget` and `UnlockUser`, `DeleteUser`, `AdminResetPassword` or `CustomerUpdatePassword` |
| all | `CreateAuditLog`; `StatementFails`, which leads from each statement to where its error leads; `Expire` |

An error that the code logs and passes over is recorded in the history variable
`swallowed`; `cut[r]` is what a logout found issued when it revoked. A crash is a
request that takes no further step, which the specification, being without
fairness, always allows: every property below is one of safety.

`ErrorCodes` is the table of codes and status of `errors/codes.go`; `reply[r]` is one of
them, through the handlers' own maps (`RegisterHandler` and so on).

Run `Sessions`: three requests, any calls of a list of fourteen, a user with one
earlier failure so that two wrong guesses lock her, an admin and an address not yet
registered; one token pair may expire at any time and any statement may fail.
Three requests are two that work on one row from old copies and one that unlocks,
deletes or logs out between them.

* `LockMatchesCounter`: `UpdateFailedLoginAttempts` writes count and lock from a copy
  that may be old, and `ResetFailedLoginAttempts` from nothing; a row is locked exactly
  when it counts three failures all the same.
* `LockLiftedOnlyBy`: a lock goes away only by an unlock or by a login that read the
  row before it was locked.
* `SignedOutIsOut`: after a logout that met no error its access token is listed and
  every refresh token its user held stays revoked. Tokens that a refresh in flight
  inserts after `RevokeAllForUser` are not covered, because they are not revoked.
* `RepliesAndAuditAgree`: tokens are sent and audited only with their row, a refused
  login or refresh has none, `account_locked` is written by a wrong guess, admin
  actions are audited for admins only, a registration that is audited left a user.

What does not hold, and no run repeats:

* a failed login can lift a lock: it writes back the copy it read two failures ago
  (`GuessNeverUnlocks`, in `AuthSessionsProperties`, the calls of `Sessions`); for the
  same reason two wrong guesses at once may count as one;
* one refresh token may be used twice: the check and the revocation are two
  statements, and the second is a `Save` of whatever was read;
* a deleted user's access token is admitted until it expires, and neither deletion
  nor a password change revokes anything;
* logging out with an expired access token revokes nothing and reports success.

`AuthSessionsProofs` proves types, `LockMatchesCounter`, `LockLiftedOnlyBy` and
`SignedOutIsOut` from `ConstantsAssumption` alone, for any users, requests, calls and
faults. The inductive invariant has four parts. `ControlInv`: a request is at a
statement of its call, which tells its kind (`KindAt`). `TablesInv`: types, and pairs
that clients came with have holders. `LockInv`: `LockMatchesCounter` and, what makes
it inductive, that the row each request has read satisfies it too and a login about
to save read an unlocked one. `OutInv`: a logout past `LogoutBlacklist` has listed
its token unless an error was swallowed; a pair found issued has a holder, which
never changes, so that a later `GenerateTokens` is for another pair; a request that
has issued its pair is past its statements.

The module goes on to prove `RepliesAndAuditAgree`. `Told` says of each
request that it has a pair of tokens exactly when it is a login or a refresh that
answers ok, that an admin's route past the middleware has an admin, that a
registration that answers ok has its row, and that a request about to record a
failure has read another password. `Witnessed` says of each audit row that what it tells is
so and that its request is past its statements, after which it does nothing but
audit (`PastOnlyAudits`).

## 7. CustomerAccounts

The services behind the customer routes and the opening of accounts, one operator
per service with a disjunct per statement. `users` and `accounts` are tables, an
account named by the request that inserts it and its type. `Elsewhere` is what
section 3 does meanwhile: `UpdateBalance` and `Update` save a whole row read earlier, so any
account may come to any balance of the set `Balances` and any status, a closed one may be open
again, and a deleted one is inserted over its deleted row, live (`Save` of GORM v2). Only
accounts deleted before the requests arrive (`DeletedBefore`) are left alone: no request has
read them. `schema` is chosen
at the start: the constraints on account types and routing numbers differ between
`AutoMigrate`, the migrations up to 14, and what migration 15 means to admit. `raced`
is history: accounts that changed or were opened while their owner was between the
balance check and the cascade of a deletion; `late` are those inserted when their owner was
already deleted, `restored` those saved when they were. A request names a user who is to be created
only once the row is there (`IdIsKnown`): `BeforeCreate` draws the id, so nobody can
name it earlier.

Run `Customers`: two requests among fourteen kinds of call, on a customer with an
empty checking account and money on an inactive savings account, an admin with a
deleted account and a customer not yet created; any statement may fail. Two
requests and `Elsewhere` give a check, a change and an effect in any order.

* `KeysAreUnique` (a conjunct of `TypeOK`): e-mails and account numbers stay unique,
  deleted rows included, although lookups skip deleted rows and come one statement
  before the write.
* `OrphansExplained`: a live account of a deleted customer means that the deletion is
  not there yet, that it failed half way, that the account was inserted when the customer
  was already gone (`late`), or that it was saved from a row read before it was deleted
  (`restored`). An account opened before the customer went has no excuse.
* `MoneyLostOnlyByRace`: money on an active account is deleted only if it came while
  the deletion was under way; of accounts deleted before the requests arrive
  (`DeletedBefore`) nothing is said.
* `RepliesAreTrue`: not found means gone or never there, a refused opening left no
  account, a new user told of no failure has two, and only owners and admins are
  shown an account.

Run `MoneyDeleted` is expected to find a violation: `DeleteCustomer` sums active
accounts only, so a customer with money on an inactive account is deleted with it,
while the route says customers with non-zero balances cannot be.

Further disagreements: ownership is never transferred, because `UpdateOwnership` runs
the hook `BeforeUpdate` on an account with nothing but its id, which `Validate`
refuses; contact fields have no column, so an update that names one fails; a lost
race for an e-mail is answered as a system error by `CreateCustomer`; a user may come
to two accounts of one type, which `CreateAccountForCustomer` does not even check;
where `AutoMigrate` built the schema, the unique index on `routing_number` refuses the
second account that has none, the savings account of every registration included;
after a deletion that failed half way a retry is told the customer does not exist; an account
of a deleted customer comes back to life with the balance of then when a posting or a status
change that had read it saves it.

`CustomerAccountsProofs` proves `TypeOK`, uniqueness of keys included, and
`OrphansExplained` for any users, requests, calls, schemas and faults, from
`ConstantsAssumption` and `FirstTablesAssumption`: the rows there are at the start are
unique in their keys, and no customer deleted before has left a live account. The
inductive invariant is `CustomerInv`: types and unique keys of the tables, types of the
locals, each request at a statement of its call, and `OrphansExplained`. Every action has
one of a few shapes (`Shapes`): rows kept but for balance, status and deletion, where only a row in `restored`
returns from deletion, or one row inserted whose number is new, in `late` if its owner is gone; users kept, one changed to a free e-mail, or one
deleted by the request that is then at `deleteAccounts`. From there a cascade that
succeeds leaves no live account, and one that fails is answered with an error.

`MoneyIsLostOnlyByRace` proves `MoneyLostOnlyByRace` under the same two assumptions. The
invariant `MoneyInv` adds `RaceInv`: while a deletion is past its balance check, each active
account of the customer is empty or in `raced`. It starts to hold because a sum of natural
numbers is zero only if all are (`NothingLeft`, from `SumOfNats`), and every action that touches
a row of a customer being deleted enters it in `raced` (`RaceStep`).

`RepliesTrue` proves `RepliesAreTrue`. `ReplyInv` says of each request what it may rely on at
every statement: which accounts it has inserted so far (`Mine`, `Opening`, `Registering`),
whose accounts it has read (`Showing`), and that a customer found missing stays missing
(`Truthful`). The last is true only with `IdIsKnown`: a customer reported missing could else be
created afterwards.

## 8. RateLimiter and RequestPipeline

`RateLimiter` is `middleware/rate_limiter.go`: `visitors` and `tokens` are the map and the
buckets, `idle` the ticks since `lastSeen`, counted up to one more than asked for.
`Allow` and `Deny` are a request, `Forget` is `cleanupVisitors`, `PassTick` time. The
history `level` is the classical leaky counter: it never exceeds `Burst` if and only
if in every stretch of `d` ticks at most `Burst + Rate * d` requests are admitted,
which is `WithinRate`.

`RateIsKept`, in `LedgerReportsProofs`, proves it for every rate, burst, idle limit and set of addresses
with `Burst <= Rate * IdleLimit` (the program has 10 <= 5 * 180). `WithinRate` alone is
not inductive. `Drained` adds that an entry's tokens and level together fit in the
burst, and that an entry not seen for `i` ticks has leaked `i * Rate`: one that may be
forgotten is empty, so the full bucket of its successor grants nothing too early.

`RequestPipeline` gives, for every handler, the response to each error it may meet:
a first status and the bodies written after it. It is the code of `SendError`,
`CustomHTTPErrorHandler`, `MapHTTPStatusToErrorCode`, the panic recovery and the
`switch` of every handler as records, merged with `++` (the first record that knows an error
decides), and is checked with `LedgerReports`.

## 9. HistoryGenerator and LedgerReports

`HistoryGenerator` is `GenerateHistoricalTransactions`: every draw is a choice, so a
function of the code is the set of its results, empty where it panics. Dates,
amounts, the swap of a debit that would go below the threshold, sorting and
`recalculateBalances` are kept; merchants and descriptions are not. The source sorts by
exchanging rows in two loops, which is not stable; `SortTransactionsByDate` is the set of all
orders by date, of which the loops yield one.

`LedgerReports` lets goroutines serve calls while the rest of the program goes on:
`Post` stamps a row and `Commit` makes it visible, `Settle` completes a pending one,
`Delete` removes a user or an account, `Advance` moves the clock, `LimiterStep` the
rate limiter. A statement is `FindUser`, `FindAccount`, `ReadRows` and then the three
lookups of `GetAccountMetrics` again; a page is `ListTransactions` with
`GetWithFilters`, whose cursor replaces the start date; test data are generated from
the balance read with the account and inserted one by one. Handlers whose services
are modelled elsewhere are one step that may return any error they tell apart, so
that each error of each handler is answered once.

Run `Reports`, two goroutines:

* `AnswersAreTrue`: a statement shows rows of its period and misses only rows committed
  no earlier than its end; its summary and its metrics differ only by rows shown pending or
  committed in between; two months share no row; a statement of one row adds up; only
  owners are served, and admins where the reports allow it; not found is true.
* `HistoryIsKept`: test data in the order inserted are in order of date, each row is the
  movement between its balances, debits leave the threshold, and unless an insert
  failed each row starts where the one before ended.
* `WithinRate` inside the composition, and types.

Disagreements: opening and closing balance are swapped for a statement of more than
one row, because the rows come newest first; the next page of a list begins with
the newest rows again, and the query fetches 21 rows whatever the limit; the pages of
activity swap limit and offset; the errors that `mapCommonErr` answers are followed by
a second body with `SYSTEM_001`; echo's 405 carries the code of a 400; the generator
panics when it is asked for as many rows as the range has hours; rows stamped in the
last second of a period, after its `:59` end, belong to no statement; test data
leave the account's balance alone. `AnswersAreTrue` is stated so that it holds around the
first two, and no property speaks of the others; the second body is modelled as the
code writes it, against the one `ErrorResponse` of the API documents.

Bounds. Time has units: an hour is two, a day three hours, a month two days, which
keeps hour, day and month boundaries apart; the clock has two instants, in the second
month and at the end of it, so periods are over, running and in the future. `MaxEvents = 2` writes of other requests: a
posting and a deletion, a posting and test data. `EarlyCalls` are calls whose answer
does not depend on what happens meanwhile, given only before anything else; the
constraint `Reduced` lets two goroutines work side by side only if one writes or both
are statements, since requests that only read do not see each other; the limiter
ticks only between calls, since no other statement reads it. A burst of two and a
rate of one make admission, denial and forgetting happen.

`LedgerReportsProofs` proves all four for any users, accounts, ledger, calls, instants and
faults. Its constants satisfy `LimiterAssumption`, `GeneratorAssumption` and
`ReportsAssumption`: the opening ledger's rows are movements between their balances,
instants leave room for `MaxTestDays` before them so that generated dates are natural
numbers, a month is whole days, calls are of the type `Call`. TLC evaluates them in run
`Reports`. The inductive invariant is `ReportsInv`: the limiter's (`LimiterInv`), the tables'
types with each row the movement between its balances (`TablesOK`), and of each request
`Serving`, which says at every statement what the statements still to come rely on.

| part | what it says of a request |
|---|---|
| `Placed` | its statement is one of its kind of call |
| `Authorized` | past the lookup of the account, its caller owns it, or asks for a report as an admin |
| `Told` | what was sent has one body that explains its status, and "not found" has its cause |
| `Shown` | rows read are rows of the ledger, and of the account asked for |
| `Dated` | a statement's period is over, and once read, the rows missing were committed no earlier than its end |
| `Counted` | the metrics count the rows of the summary, and others only if pending then or committed no earlier than the period's end |
| `Made` | rows of test data inserted and those to come are one history, but for failed inserts |

The argument has two sides. For the request that moves, each of its statements
establishes the part its next one needs. For all others, every action only `Evolves` the
tables: no row changes but from pending to completed, a new row is committed at `now`,
what is deleted stays deleted; `Undisturbed` shows that each part survives that. It is
here that `kept >= Period(r).to` is what a statement may be told of rows it misses: `now` had
reached the end of the period when it read. `IsHistory` carries the generator: a history is
what any sorting by date and `recalculateBalances` make of any draws, shown by
induction over the rows (`UpTo`). The tables of `RequestPipeline` are finite, so that
what is sent for an error (`Explained`) is a case for each error of each handler.

## 10. What is proved, what is only checked, what is not modelled

Proved for every value of the constants: in `AccountService` types, one movement per
key, true transfer rows, replies and audit rows, the refinement of `MoneyMovement`,
statuses, closed accounts and the books; in `BreakerCalls` types,
`StateFollowsReports` and `OpenWaits`; in `ProcessingQueue` types, completed items, the
table of statuses, retries and money; in `AuthSessions` types, the
lock, sign-outs, replies and audit rows; in `CustomerAccounts` types, unique keys,
orphans, money lost only by a race and true replies; in `RateLimiter` the rate; in
`LedgerReports` types, the rate, true answers and histories of test data.
With that every invariant, every action property and the refinement that a passing run checks is stated by
a theorem. Each rests on the named assumptions of its module about the constants alone,
which TLC evaluates in every run, and on no choice of library behaviour, faults or
number of workers; only `FailedNeverMoved` and `PendingIsAtWork`, which no run lists, assume the
absence of faults.

Only model-checked: the five liveness properties (`EveryCallAnswered`, `PendingIsResolved`,
`Recovers`, `Settled`, `ShutdownCompletes`), because the prover reaches neither fairness nor
ENABLED. What the proofs take as given is what the modules say of the program's
surroundings: READ COMMITTED and the row locks of UPDATE in section 3, `Elsewhere` in
section 7, and the outcomes of other services in section 9. The induction theorems of the
library stay unusable; what needed induction (sums over the ledger and over accounts,
the histories of the generator) was proved by the two inductions over sets in `FiniteSums`. What
a fold yields beyond that, such as the amount a whole ledger adds up to for given rows, is
not needed and not proved.

Not modelled:

* `GenerateSalaryTransactions`, `GenerateBillTransactions`, `GenerateDailyPurchases` and
  `GetUserAggregateMetrics`: no handler reaches them;
* the category service: tables of merchants and string distances without state, and
  no handler calls it;
* the migrator: it runs once, alone, before any request; what its failures leave
  behind is `Schemas` in section 7;
* character classes of passwords and bcrypt: which passwords are refused is a
  constant;
* encodings of cursors, tokens and requests; security headers, request ids, API
  documents, metrics, configuration, log lines;
* methods without a caller: `MarkProcessing`, the two `CleanupExpired`, the other
  queries of Northwind and of the audit repository;
* mocks, Postman collections and scripts.

# Supplier Hub: specifications, model checking and proofs

Supplier Hub buys voucher codes and Steam topups from external suppliers on
behalf of consumers (Seller). Two runtimes live in the repository:

* the **Hub** proper (`api/hub`), which buys from InterHub through a table of
  purchases, polling workers and an operator API;
* the **Airpay runtime** (`api/airpay_runtime`), an owner-driven journal of
  payments, batches of vouchers, a job queue and a diagnostic poll.

Both spend real money through a supplier that may answer late, twice, wrongly
or never. The questions asked here are: is anything paid twice, is anything
reported failed that was or will be paid, is a code ever given to two orders,
and does everything that was begun come to an outcome.

## 1. Inventory

| Part | State | Operations | Interacts with |
|---|---|---|---|
| Purchase life cycle: `service.py`, `repository.py`, `worker.py`, `domain.py` | rows of `purchases` (state, lease, attempts, next attempt, result hash); a worker's claimed snapshot | `enqueue`, `claim_due`, `process_claimed` (preflight, pay, check_status), the `mark_*` transactions, `defer_topup` | InterHub over HTTP, PostgreSQL, operator |
| InterHub adapter: `providers/interhub.py` | none | `calculate`, `check`, `pay`, `check_status`, `services`, `balance` | the life cycle |
| Intake: `app.py`, `service.enqueue`, `create_or_get` | unique `(consumer_id, idempotency_key)`, fingerprint | create, read, read the result | Seller, topup permissions |
| Operator desk: `operator_service.py`, `resolve_attention`, `read_result_for_operator` | `operator_actions`, `result_access_events` | resolve, list, reveal a result | the rows |
| Airpay purchase: `airpay_purchase.py`, `airpay_resolution.py`, `airpay_repository.py` | journal rows under advisory locks | prepare, check, pay, reconcile (repeats pay), voucher, resolve, reveal | Airpay |
| Airpay batch: `airpay_batch.py` | positions of one batch, renewals | check, pay, vouchers, renew | Airpay purchase |
| Airpay jobs: `airpay_jobs.py`, `airpay_queue.py` | job rows, job locks | enqueue, cancel, run, recover | batch, HTTP API |
| Airpay diagnostics: `airpay_diagnostics.py` | runs and items | start, step, cancel | Airpay check |
| Migration runners: `scripts/run_*migrations.py` | version tables | apply | schema |
| Configuration, crypto, transport, catalogue, history, smoke tests | none that lasts | | |

**What is hard.** Workers hold a *snapshot* of a row and a lease that may run
out while they wait for InterHub; the process may die between the commit that
says "paying" and the request; a timed-out `pay` may still be executed; the
supplier may be unreadable; the same code may be delivered twice; permissions
change while a purchase is in flight; operators and workers finish the same row;
Airpay is reconciled by *repeating* `pay`; batches are renewed while a payment
is unknown; jobs die in the middle. `PROJECT.json` ("hazards") lists each at its
line, with the properties that cover it.

**What makes each part correct.** The life cycle: paid at most once, the intent
durable before the request, a failure definitive, a success true, codes unique,
attempts bounded, finished rows final, everything settles. Intake: one row for
one key, retries see the same row. Operator desk: one decision for a purchase,
idempotent by request id, every disclosure recorded. Airpay: one provider id
for one payment, at most five uncertain attempts, no refusal inferred from the
answer to a repeat, quantity conserved over renewals. Jobs: a sensitive job is
never re-run. Diagnostics: each check at most once, no report rewritten, every survey
ends. Migrations: what is sent is what is written, a mark is true, a marked file is left
alone, every file is marked.

## 2. Modules

| Module | Role |
|---|---|
| `PurchaseContract` | abstract specification: what whoever orders, decides and pays the bill may rely on, of InterHub and Airpay alike |
| `InterHubAdapter` | what the Hub reads in the body of an InterHub answer, as operators |
| `HubPurchases`, `HubProperties`, `HubProofs` | the InterHub life cycle over the adapter; its properties and refinement of the contract and of `PurchaseRows`; theorems |
| `PurchaseRows` | abstract specification: what becomes of the rows of purchases, worked on by workers and then by operators; `HubPurchases` and `OperatorDesk` both implement it |
| `AirpayPurchase`, `AirpayProperties`, `AirpayProofs` | the same of one Airpay operation: check, pay, recovery, codes, the owner's decision |
| `OperationRows` | abstract specification: what becomes of the rows of Airpay operations; `AirpayPurchase` and `AirpayBatch` both implement it |
| `VoucherOrder` | abstract specification: a quantity is bought one by one, none lost, none twice |
| `AirpayBatch`, `AirpayBatchProperties`, `AirpayBatchProofs`, `MCAirpayBatch` | batches, their lock and their renewals; properties and refinement of the order; theorems; the bounds used by the run |
| `AirpayJobs`, `AirpayJobsProperties`, `AirpayJobsProofs` | the queue of actions on batches; its properties; theorems |
| `OperatorDecisions` | abstract specification over `PurchaseRows`: every decision and disclosure happens at one moment, and the answer tells what it did |
| `OperatorDesk`, `OperatorDeskProperties`, `OperatorDeskProofs`, `MCOperatorDesk` | the operators' transactions statement by statement; their properties and refinement of `OperatorDecisions`; theorems; the calls used by the run |
| `OrderBook` | abstract specification: what an idempotency key promises a consumer |
| `PurchaseIntake`, `PurchaseIntakeProperties`, `PurchaseIntakeProofs`, `MCPurchaseIntake` | the consumers' orders statement by statement; refinement of the book; theorems; the calls used by the run |
| `AirpayDiagnostics`, `AirpayDiagnosticsProperties`, `AirpayDiagnosticsProofs` | the survey of the catalogue by checks; its properties; theorems |
| `AirpayMigrations`, `AirpayMigrationsProperties`, `AirpayMigrationsProofs` | the runner of Airpay's migrations and its journal; its properties; theorems |
| `SqlStatements`, `SqlStatementsProperties`, `MCAirpayMigrations` | the scanner that splits a file without a transaction into statements; a reference definition of what it must find; the texts used by the run |

Operators named `Slip_...` are slips a change to the code could make; nothing uses
them but the mutants of `PROJECT.json`, which put one in the place of the
definition below it to show which property notices.

### 2.1 State and actions of `HubPurchases` against the code

A row of `purchases` is spread over functions named as its columns (`state`,
`lease_token`, `status_check_attempts`, ...). Each short transaction of
`repository.py` is one action; a worker's `process_claimed` is a `pc` with the
snapshot `claim[w]` that `claim_due` returned and the supplier `answer[w]` about
to be saved. Between any two of its transactions and requests everything else
may happen.

| Code | Model |
|---|---|
| `create_or_get`, first call | `Enqueue` |
| `claim_due` (`FOR UPDATE SKIP LOCKED`, fresh uuid) | `ClaimDue` |
| `process_claimed` on the snapshot, topup gate, `_check_status` limit | `Dispatch` with `NextStep`, `Gated`, `Exhausted`, `StepFor` |
| `_transition`'s `WHERE id AND lease_token AND state = ANY` | `Fenced`; its failure is `LeaseLost` |
| `_preflight` | `MarkChecked`, `RetryTopupCheck`, `MarkPreflightFailed` |
| `_pay` | `MarkPaymentStarted`, `SendPay`, `PayAnswer` |
| `_check_status` | `StatusAnswer` or `MarkRequiresAttention` |
| `_save_result`, `mark_processing`, `mark_provider_result` | `SaveResult`, `SaveDuplicate` with `SavedState`, `SavedCode` |
| `defer_topup` | `DeferTopup` |
| exception in the worker, crash, SIGTERM | `WorkerFails`, or no step |
| `resolve_attention` | `ConfirmFailed`, `RecordSuccess` |
| InterHub and the network | `PayArrives`, `PayLost`, `SupplierSettles`, `Report`, `Heard` |
| the clock | `BecomeDue`, `LeaseExpires`, `LeaseOutrun` |

Abstractions. Time is two booleans per row, `leased` and `due`, set and reset by
the code and by the clock at any moment; this allows every backoff and more. The
worker's name stands for the lease uuid: a worker is single-threaded and never
runs two claims at once, so the token in a row names the claim exactly. The
answers of `calculate` and `check` only decide which transaction follows, so they
are the choice between the three preflight actions. Amounts, messages and
events are left out.

`InterHubAdapter` is what lies between a body and a worker's answer: `_request` and
`_normalize` reduce the JSON to two fields and the code, `ProviderState` is `provider_state`
(`bool(success)`, `int(status or 0)`), and `Read` adds what `_save_result` looks at in
the answer itself: the types of a topup's fields, the code a voucher must have. `Heard` is
what a worker may be left with when InterHub has something to report: the reading of one
of the bodies (`Words`) that say so, of a body that says nothing (`Illegible`, only about
`Garbled` purchases), or a `ProviderError`. That the adapter turns each wording into what
was meant is the lemma `HeardIsReported`.

`OldCodes` are codes stored with purchases of the past, which are
rows that never change again: `SaveDuplicate` meets them as it meets the codes of the
rows in `Purchases`. The provider of a row is always known (intake and worker
know only `interhub`), so the "Provider is not configured" branch cannot be
reached. The kill switches are read once per process and only stop claiming.
Compose runs one worker, restarted on failure; the code is written for several
(`SKIP LOCKED`, leases), and two exist during a rolling restart, so the runs have
two.

**Composition.** The life cycle takes an operator's decision in one step, and
`OperatorDesk` takes the end of a worker's work in one step. What ties them is
`PurchaseRows`: a row is worked on, then finished by its worker or left to the
operators, who finish it; a code comes with every success but a topup's, and with one
only. Each of the two modules implements it, and each admits as a step of its own
whatever the other does to the rows by it (`HubAdmitsDecisions`, `DeskAdmitsWorkers`).
`OperationRows` does the same for `AirpayPurchase`, which has the requests about one
operation, and `AirpayBatch`, which takes their outcome in one step
(`AirpayAdmitsBatches`, `BatchesAdmitOutcomes`). The price is that neither pair is
checked as one state graph, so a property that needs the insides of both (none is
stated) is out of reach.

### 2.2 Assumptions about InterHub

`StatusOfUnpaid` is what `check_status` may say of an operation whose `pay` has
not arrived. The safety of a reported failure rests on it not containing
"failed": otherwise a status check that overtakes a delayed `pay` closes a row
that is then charged. No file of the repository states it; the theorems about failures
carry it as the named hypothesis `PatientStatus`. `Garbled` is the set of purchases
about which InterHub may send an answer that parses but means nothing; that no voucher is
among them is the hypothesis `LegibleVouchers`, see the finding below. Only what is said of
failures needs the first, only what is said of a worker's outcomes the second; payment, codes,
attempts and attention need neither.

### 2.3 `AirpayPurchase`

A row of `airpay_transactions` is spread over functions named as its columns. A
handler is a request of the API or the job thread between two transactions, `pc`
naming the request it is about to send or the answer it is about to save.

| Code | Model |
|---|---|
| `repository.create` | `Prepare` |
| `repository.locked` (`pg_try_advisory_lock` of a session) | `Free`, `Acquire`, `Release`; a handler that dies frees its locks: `Dies` |
| a session that breaks between the commit of an attempt and its call | `LosesSession`, then `StrayPays`, `StrayFetches` or `StrayDies` |
| `AirpayRecord.update` | part of each action; `Touch` is its new `updated_at` |
| `check` | `Check`, `SaveCheck` |
| `pay` up to the commit of `processing` | `Pay` |
| `send_pay`: count, send, save | `CountFirstPay` / `CountPayAttempt`, `SendPay`, `SavePayment` with `SavedState`, `NeedsAttention` |
| `reconcile` (repeats `pay` with the same id) | `Reconcile`, `GiveUpPay` |
| `voucher` | `FetchVoucher`, `GiveUpVoucher`, `SaveVoucher`, `VoucherTaken` (unique index on `result_hash`) |
| `resolve` with `resolution_changes` | `VerifyUnpaid` (the owner's own check with Airpay), `StampMatches`, `ConfirmFailed`, `RecordSuccess` |
| `cutover_status`, `airpay_record_event` (a trigger of the migrations) | `CutoverReady`, `EventName` |
| the transport | `AnswerPay`, `PayTimesOut`, `LateArrives`, `AnswerVoucher` |
| Airpay | `Outcomes`, `AirpaySettles` |
| the clock | `BecomeDue`, `Expire` |

`EventName` is a function of a step, the one name under which the trigger logs the
update in the order of its branches; `EventsTell` says of every step that this name is the
right one. `CutoverReady` is what the owner is told before Airpay is moved elsewhere.

Abstractions. A price is set by the check that succeeds and never rewritten, so it
is only there or not. `OldCodes` are codes of operations of the past, as in 2.1. One flag per operation stands for any number of late requests:
Airpay treats them alike. `Pay` (and `PayRow` of `AirpayBatch`) has the guards, the reading of
the balance and the commit of `processing` in one step: all of it is under the lock, and a
handler that dies or is refused in between has written nothing.

A session lock that is lost with its connection makes its holder's later writes fail, since they
use that connection. In most places this is a holder that died, with its request possibly on the
way. But between the commit of an attempt and the call it was counted for (`airpay_purchase.py:163`
and `:165`, `:195` and `:197`) a thread does not use the connection: it makes the call
although the lock is free, and perhaps taken, and the operation perhaps decided.
`unsent_pays` and `unsent_fetches` count these threads, the *strays*; each has its attempt
counted, so they fit into the limit. What they cannot do is what the properties say: a
failure stays definitive, because an answer is held to be a refusal only when the request is the
only one counted (`FailedIsDefinitive`); a stray pays for what was decided meanwhile, but never so that an
operation the Hub itself refused could be charged (`OnlyStraysPayOnceDecided`). Two things do
depend on there being none. A refusal that the owner verified holds if no stray was left when they
asked Airpay (`VerifyUnpaid`): neither the lock nor the row shows one, so the owner has to let the time pass in
which a thread can be between two statements. And a journal that is ready for the cutover agrees
with Airpay, but a stray may still repeat a call (`CutoverIsComplete`); the second look
that docs/AIRPAY.md:82-85 asks for, after the executor was stopped, leaves none. A check that
strays only reads, and is left out.

Assumptions about Airpay, which is not part of the repository but which the recovery
by repetition presumes: `pay` is idempotent by `agentTransactionId`; the request that
arrives first decides; a rejection is final for its id; the code of an operation
is fixed when first delivered. The storage secret is configured (`airpay_app.py:43`
refuses to work without), so every stored code has a hash and the unique index sees it.

### 2.4 `AirpayBatch`

| Code | Model |
|---|---|
| `prepare`, one transaction per position; repetition with the same key | `Order`, `PrepareOrdered` |
| `batch_locked`: try the lock, then read the rows | `Unlocked`, `Begin`; `Release`, `Dies`, `LoseLock` |
| `AirpayBatch.check` | `BeginCheck`, `CheckRow` |
| `AirpayBatch.pay` over `AirpayPurchase.pay` | `BeginPay` (`Payable`), `PayRow`, `SavePay` (`Proceed`) |
| `reconcile` and `resolve` on a position | `Settle` |
| `AirpayBatch.renew`, `repository.renew`, `prepare`, `finish_renewal` | `BeginRenew` (`Replaceable`), `CommitRenewal`, `PrepareRenewal`, `LinkRenewal` |

A handler works from `todo`, the positions of the rows it read when it took the lock;
the row's own lock and re-reading (`AirpayPurchase`) appear in `PayRow`. A paying
handler holds the batch lock through a connection of its own, unlike the lock of a row:
if that breaks, the handler goes on without it. `Lossy` are the quantities during whose
order this happens; `LocksHold` (`AirpayBatchProperties`) says that this order is not one of
them. `MaxQuantity` and `MaxBatches` bound the order and its chain of renewals, `Renewable`
the batches that are renewed, by quantity. What `AirpayPurchase` shows of one operation is
used here as one step (`SavePay`, `Settle`); `OperationRows` is what both agree on. The codes of a batch are fetched position by
position under the lock of each row: that is `FetchVoucher` and `SaveVoucher` of
`AirpayPurchase`, and it changes neither the state nor the place of a position.

### 2.5 `AirpayJobs`

| Code | Model |
|---|---|
| `submit`, under the batch lock | `Submit`, `Enqueue` (unique index over active jobs) or `Reject` |
| `cancel`, under the job lock | `Cancel` |
| `candidates` | `Candidates`, `Scan`, `Oldest` |
| `run_one`: lock, read again, close or take | `Skip`, `CloseInterrupted`, `Take` |
| `execute`, under the batch lock | `Begin`, `EndAction` |
| the outcome, through the connection that holds the lock | `Save` (`CanWrite`) |
| a connection that breaks: of the job's lock, of the batch's (the worker's or a request's) | `Disconnect`, `LoseBatch`, `RequestLosesBatch` |
| process and configuration | `Crash`, `Stop`, `Start` |

The table is a sequence in order of creation; a failed job keeps the reason of its
failure in `state`. `MaxJobs` bounds the jobs, `MaxFailures` the crashes, broken
connections and shutdowns together. A worker has two connections: `connected` is the one with the
lock of its job, which also writes the outcome, `guarded` the one with the lock of the batch. It
goes on without either. That two workers act on one batch takes the loss of both kinds of
lock (`WorkedAlone`), and then it happens: the second worker's payments are kept from the first
one's only by the locks of the operations.

### 2.6 `OperatorDesk`

`HubPurchases` takes an operator's decision in one step. Here each statement of
`resolve_attention` and `read_result_for_operator` is one, under read committed:

| Code | Model |
|---|---|
| unlocked look for the action of a request id | `Receive` |
| `SELECT ... FOR UPDATE`, `FOR SHARE` | `LockRow`, `ReadResult`, with `holders` of the row |
| reading the action again, the state | `Settled`: `Refuse` or go on |
| `UPDATE purchases`, unique `result_hash` | `Update`, `CodeIsPending` (waits), `CodeIsTaken` |
| `INSERT INTO operator_actions`, unique key | `InsertAction` |
| `INSERT ... ON CONFLICT DO NOTHING`, `SELECT purchase_id` | `AuditAccess`, `AccessVerdict` |
| commit | `CommitDecision`, `ShowResult` |
| an exception, or a process that dies, closes the connection | `Answer`, `Crash` |
| a worker's transaction on the row | `WorkerSaves`, `WorkerLeaves` |

What an open transaction has written is not in the tables until it commits: it is
known from where the transaction stands (`pc`), and another writer of the same unique
value waits for it (`Writing`). A request is served once; what a client repeats is
another request with the same call. Request ids belong to an operator, so a key is the
pair. The comment of a decision is left out of its fingerprint.

For `OperatorDecisions` a request is served at one moment: a decision or a disclosure
when it commits, a refusal when its statement reads what it is refused for, and what a
request is told afterwards depends on nothing else. `Replies` names the answers from
`pc` and `Answer`; rows, logs and answers are what the abstract specification sees, and
locks, pending writes and re-reads are stutters of it.

### 2.7 `PurchaseIntake`

`HubPurchases` places an order in one step; here again each statement is one:

| Code | Model |
|---|---|
| `enqueue`: `topup_allowed`, before any look at the key | `Receive`, `ChangePermission` |
| `INSERT ... ON CONFLICT (consumer_id, idempotency_key) DO NOTHING` | `Insert`, which waits for the `pending` row of another request |
| `_event`, commit | `Commit` with `NewRow` |
| `SELECT` of the row that was there, fingerprints compared | `LoadExisting` with `Verdict` |
| the answer, an exception, a process that dies | `Respond`, `Answer`, `Crash` with `EndInsert` |

An order is what `request_fingerprint` tells apart. Keys belong to a consumer, so a key
is the pair. What happens to the row afterwards changes nothing a request compares.

### 2.8 `AirpayDiagnostics`

| Code | Model |
|---|---|
| `locked` (`pg_try_advisory_lock` of a session) | `Acquire`, `Release`; `Connected` |
| `start`: look, read the catalogue, insert run and items in one transaction | `BeginStart`, `Create` or `RefuseCatalogue` |
| `cancel` | `Cancel` |
| `step`: read the run, close what is still running, wait a second, take a position | `BeginStep`, `Sweep`, `Pause`, `Pick` |
| describe the service, check, save the report, complete the run | `Ask`, `Answered`, `Save`, `Close` with `Progress` |
| an exception, a dying process, a broken connection, `finished_at > now() - 1 second` | `Fail`, `Dies`, `Disconnect`, `SecondPasses` |

The connection that holds the lock carries all statements of a request, so a handler that
has lost the lock can still ask Airpay and cannot write. Reports are `reported` whatever
they say. `MaxServices` bounds the catalogue, `MaxFailures` the deaths and broken
connections together.

### 2.9 `AirpayMigrations`

| Code | Model |
|---|---|
| `pg_advisory_lock`, `finally` unlock | `Begin` (`Unlocked`), `End` |
| `record_legacy_baseline` | `MarkBaseline` |
| checksum read and compared | `SkipMarked`, `RefuseChanged` (`Unchanged`) |
| `apply_runtime_migration`: read the file, execute it whole or by statement, insert its mark | `BeginFile`, `Execute` (`Statements`), `MarkApplied` |
| an error, a timeout, a dying process | `Fail` |
| a `CREATE` without `IF NOT EXISTS` or `OR REPLACE` that was executed before | `Clashes`, `RaiseClash` |
| the same while PostgreSQL builds an index concurrently | `Interrupt`, which leaves it `invalid` |
| `split_sql_statements` | `SqlStatements`: `Scan` and the modes it is in |
| an edited file | `Edit` |

A file is its place in the order of a run; no file is added before one that is there.
`NoTransaction` are the files executed by statement, all of them `CREATE INDEX CONCURRENTLY IF
NOT EXISTS` at present. `Once` are the texts, as a file and a version of it, that cannot be executed twice:
`20260923_05_airpay_events_and_resolution.sql` creates a trigger (line 54) that is then there. If its run dies after
the commit of the SQL and before the mark, every later run raises at this file and comes no further.
`MigrationsEnd` says that runs end otherwise, and names this case (`Stuck`) beside the file that was changed after
its mark: only an edit or a hand on the journal mends it. `MaxVersion` bounds the edits of a file, `MaxFailures` the failures of runs. The other
runner, `run_migrations.py`, executes a file and records it in one PostgreSQL transaction and
is started once before the Hub (`docker-compose.yml`); it is not modelled.

`SqlStatements` has the scanner as a fold over the characters of a text, of eleven kinds.
`SqlStatementsProperties` has the reference, which is PostgreSQL's lexer and not the
scanner's idea of it: a text is a row of words, a word being a comment (they nest), a literal, an `E'...'` literal
with its backslashes, a dollar-quoted block with an empty tag or a name for one, an identifier, which may hold
dollar signs, or another character (`WordEnd`); and it is cut at the semicolons that are words (`Written`).
The scanner knows neither nested comments nor `E'...'`, nor that a dollar sign may be part of a name or
begin a parameter. Where a text has such a word the two differ: the four texts `Unlike` are examples that
TLC evaluates (`RunnerDiffers`). `SentAsWritten` says that of every other text (`Plain`) what PostgreSQL would read is what
is sent, whatever stands inside its literals, comments and blocks. None of the words in question is in the files
under `migrations/airpay`, and only those executed by statement matter.

Left out: `standard_conforming_strings` is taken to be on (its default); statements with
semicolons inside that no lexer sees, in the body of `CREATE RULE` or of a `BEGIN ATOMIC` function; letters outside
ASCII in names, which both sides take for letters; `\r`, which Python's text mode has turned into
`\n`. The double quote works as the single one does, and the header line that
marks the file, cut off before its first statement, is left out.

## 3. Runs

| Run | Instance | States | Shows |
|---|---|---|---|
| `hub_purchase` | 1 purchase, a voucher or a topup, 2 workers, 2 codes, 2 status checks, 2 check retries, garbled answers about the topup | 125 934 | all safety properties, refinement of the contract and of `PurchaseRows`, `PurchasesSettle` |
| `hub_garbled_voucher` | 1 voucher, garbled answers | violation | finding 1 |
| `airpay_operation` | 1 operation, a voucher or a topup, 2 handlers, 2 codes, a limit of 4 attempts | 136 771 | all safety properties, `EventsTell`, `CutoverIsComplete`, refinement of the contract, `OperationsSettle` |
| `airpay_batch` | 2 vouchers with 2 renewals and locks that hold, 3 vouchers with 1 renewal and locks that may be lost; 2 handlers | 1 419 316 | `RemainderIsUnpaid`, `BuysInSequence`, refinement of `VoucherOrder` where locks hold; `PaysInOrder`, `LinkedIsComplete` everywhere |
| `airpay_batch_lost_lock` | 2 vouchers, locks may be lost | violation | finding 2 |
| `airpay_jobs` | 1 batch, 2 jobs, 2 processes, 2 failures | 253 960 | safety of jobs, `JobsEnd` |
| `airpay_jobs_busy` | 1 worker, no failure | violation | finding 3 |
| `operator_desk` | 3 requests with 6 possible calls, 2 request ids, 2 purchases, 2 codes | 299 387 | decisions match their log, disclosures are logged, refinement of `OperatorDecisions`, `RequestsEnd` |
| `airpay_diagnostics` | 2 surveys, 2 services, 2 handlers, 2 failures | 656 527 | `CheckedOnce`, `ReportsStand`, `RunsEnd` |
| `airpay_migrations` | 2 runners, 3 files of which 1 legacy, 1 with 2 statements and 1 that cannot be repeated as it is, 2 versions, 2 failures | 150 220 | `JournalHolds`, `MigrationsEnd`, and `SentAsWritten` of the plain ones among some 45 000 texts |
| `airpay_migrations_index` | the same, an index interrupted | violation | finding 4 |
| `purchase_intake` | 3 requests with 4 possible calls, 2 keys, 2 vouchers and a topup | 30 032 | refinement of `OrderBook`, `RequestsEnd` |

**Why the bounds are enough.** Purchases meet in two places only: a worker is
busy with one at a time, and the unique index on `result_hash`. So one purchase
with two workers shows every race about one row, and a code of the past stands for
another purchase that has stored it first (`UniqueCodes` is proved for any number of
purchases at work together). Two workers are needed for a stale writer; a third
would only repeat the second. Limits of one and two make the counters reach
their boundary; the Airpay operation has four attempts instead of the code's five, enough for a stray, a late request, an answered one and one more. In the runs
`MaxPurchases` and `MaxOperations` bound by one what is ordered, of a
voucher and a topup, so that one graph has the life of either. The theorems remove
these bounds for safety. A batch of two already has a position that is paid and one that is not,
and two renewals are a renewal of a renewal; three positions let two handlers without the
lock be two positions apart. Two jobs of one batch are a lost one and its successor, and two
failures let both workers of a job fail, or one lose both its locks. Three requests of operators are one that decides, its repetition
and a third that meets either over a code, a key or a row; the calls
given to TLC use one key for different decisions and purchases and another for the
same code on both. Three requests of consumers are one that orders, its repetition and
one with the same key and another order. Two surveys are one that is active and one that
waits for it, two positions let one be interrupted and another follow, and two failures
break a handler's connection and then kill it or its successor. Three files are one of each
kind, in the order the runner keeps. The texts given to the scanner are all those of one kind of
quotation that are long enough for it to begin, hold a semicolon and end, and all of up to five characters
of all kinds together; for other texts there is the theorem.

**Fairness.** *Hub:* a running worker takes its next step (`WF WorkerStep`: every request
has a timeout), time passes (`WF` of `BecomeDue`, `LeaseExpires`), and a row that is
due again and again is eventually claimed (`SF ClaimDue`, since claims go by
`ORDER BY next_attempt_at`). Nothing is assumed of InterHub, operators, consumers
or administrators. The liveness properties are conditional on `FaultsStop`:
workers crash and outrun leases finitely often (a step that only drops a claim whose
lease was lost is no fault). This is needed: a crash or an
exception other than `ProviderError` counts no attempt (`worker.py:59`).
*Airpay operations:* handlers go on, pauses end and the owner keeps asking, since
nothing else repeats `pay`. Nothing is assumed of Airpay, nor that handlers do not die:
attempts are counted before they are made. *Jobs:* threads go on (their loop catches
every exception) and processes are restarted; for queued jobs `JobsEnd` also has payments allowed for
good, which is all docs/AIRPAY.md:119 promises. *Desk:* a served request takes its next
statement when PostgreSQL lets it, and nothing is assumed of workers. *Intake:* the same.
*Diagnostics:* requests end, seconds pass, and the page asks for the next step while a survey
is active; the code has no other way to end a survey its owner has left. *Migrations:* statements
end (`statement_timeout`), and a run that failed is started again, as a deployment that stops at
`airpay-migrate` must be.

`CHECK_DEADLOCK FALSE` stands where a settled purchase leaves nothing to do.

**Findings.**

1. `provider_state` (`interhub.py:32`) reads every answer that is not a
recognised success as FAILED, and an empty body becomes `{}` (`:103`). For topups
`_save_result` checks the shape first (`service.py:174`); for vouchers it does not,
so a voucher InterHub has charged may be saved `failed`. `ARCHITECTURE.md:56`
promises fallback only after an *explicit* rejection. `hub_garbled_voucher` shows it.
2. `renew` decides on rows read earlier (`airpay_repository.py:155`), protected only by
the batch lock. If the connection that holds it for a paying handler breaks, a renewal
can replace a position whose payment is committed after its rows were read, against
`airpay_batch.py:150`. What the rows' own checks guarantee even then is `PaysInOrder`.
3. A request that validates and enqueues holds the batch lock that the worker tries
once (`airpay_api.py:113`). A queued job that begins in that moment fails with 409,
although `docs/AIRPAY.md:119` says that confirmed jobs are executed.
4. A statement that builds an index concurrently and is interrupted leaves an invalid index;
the repeated statement finds its name (`IF NOT EXISTS`) and does nothing, and the file is marked
as applied with an index PostgreSQL does not use (`run_airpay_migrations.py:181`).
`airpay_migrations_index` shows it.

Read but not run: `ARCHITECTURE.md:23` says that a price above the approved `max_amount`
fails preflight, while `_preflight` buys at the current price and compares nothing (as
its comment at `service.py:104` says); and a topup that was accepted is refused with 422
when it is repeated after its permission was withdrawn (`service.py:67`), though
`ARCHITECTURE.md:20` promises the original operation. `OrderBook` allows that refusal. `airpay_diagnostics.py:68` promises one network step for all
of Airpay, but a handler whose connection breaks while it waits for Airpay has lost its lock
and still waits, so another step may ask about the next position at the same time (the
invariant `OneNetworkStep` fails after 13 steps); no position is asked about twice even
then. `run_airpay_migrations.py:165` says that a migration is applied exactly once, but
the SQL and its mark are two transactions: a runner that dies between them leaves a file that the next
run applies again, in whatever version it then has, or for ever fails to (2.9). What holds instead is `JournalHolds`.
`run_airpay_migrations.py:23` promises not to break strings and literals; of the texts `Unlike` in
`MCAirpayMigrations` it cuts the first two inside a comment and a literal, and joins the statements of the others.
docs/AIRPAY.md:99 says that after five unfinished requests no new one is sent: the fifth may be sent, by a stray, when
the operation already awaits its owner.

## 4. Proofs

`HubProofs` proves, for every set of purchases, workers and codes and all limits:

* `TypeCorrect`; `PaidAtMostOnce`; `FailureIsDefinitive`; `SuccessIsTrue`;
  `UniqueCodes`; `BoundedAttempts`; `AttentionHasReason`; `FinishedStaysFinished`;
  `HubImplementsContract`; `HubImplementsRows`; and `HubAdmitsDecisions`.

The invariants are not inductive alone. "Paid at most once" needs that a worker at
`paying` holds the only licence to pay: the row is past `checked`, nobody has
sent `pay`, and no other worker is at `paying` for the same row, which in turn
needs that `starting` is fenced by the state `checked` (and by no clock). "A failure is
definitive" needs that a worker holding the answer `failed` holds the truth about a
supplier that never changes its mind after rejecting, and that `rejected` and `paid`
exclude a request still in flight. "Attempts are bounded" needs that a worker still
holding the row's token has a snapshot whose counters equal the row's, since every
write that changes a counter also takes the token away. "Attention has a reason" needs that
a reason found is still one when it is saved: InterHub issues a code once (`IssuedInv`), who
stored it is finished (`StoredInv`), and nobody but the holder of the token counts. What the
theorems need of the adapter is `HeardIsAnswer` and, for legible vouchers, `HeardIsReported`:
a worker hears what was reported, an error, or nothing it recognises. Each strengthening is a named
conjunct in `HubProofs`. `HubImplementsRows` needs of them that a worker saves into a row that is
still its own (`PayInv`), with a code that is no other row's, and that a voucher is a success only with a code
(`TruthInv`, hence `LegibleVouchers`: a body whose fields have other types, such as
`{"success": "no", "code": ...}`, counts as a success that InterHub never reported, of a purchase
whose code it may not have issued); and that codes in rows are those of finished rows (`StoredInv`).

`AirpayProofs` proves, for any operations, handlers, codes and limit of attempts:
`TypeCorrect`, `FailureIsDefinitive`, `RefusalHolds`, `PaymentIsTrue`,
`BoundedAttempts`, `UniqueCodes`, `FinalOutcome`,
`OnlyStraysPay`, `EventsAreTrue`, `CutoverHidesNothing`,
`AirpayImplementsContract`, the last from the assumptions
about Airpay of 2.3, which are part of the model, and `AirpayImplementsJournal` with
`AirpayAdmitsBatches`. The argument goes through one inductive
invariant `IInv`, in the order in which its parts rest on each other: who holds a
row's lock (`LockInv`) is the only one at work on it (`OwnerInv`); so requests sent, and
those that strays have yet to send, are those counted in the row, and one more is counted before it is sent (`CountInv`); so an
answer about to be saved is about the request last counted (`AnswerInv`); so what a row
says of its payment is what Airpay decided (`OutcomeInv`); what the owner saw
holds as long as the row's version is the one they saw (`VerifiedInv`); and attention
is raised exactly when the counted requests run out (`AttentionIsReal`). Every
property follows from `IInv`, the action properties from `IInv` and a step. For the journal it is
the lock again: who saves the answer to a check or a payment still finds the row as it
was when it asked.

`AirpayBatchProofs` proves, for any quantity, number of renewals and handlers: `TypeCorrect`,
`BatchesArePaidInOrder` and `RenewalsAreWhole`, with or without locks; `ReplacedStaysUnpaid`,
`PaymentsFollowOneAnother` and `BatchesImplementOrder` while locks hold;
`BatchesImplementJournal` and `BatchesAdmitOutcomes` with or without locks again. There are two inductive
invariants. `IInv` survives lost locks: a handler at work has a batch with all its rows
(`WorkInv`), what a paying handler has behind it is paid (`PayInv`, since paid is final),
and only one handler waits for the answer about a position (`SentInv`, thanks to the row's own
lock and re-reading). `HeldInv` adds what the lock of the batch gives: its holder is alone
(`LockInv`), so the rows it read are still as it read them, both for paying (`QuietInv`) and for
renewing (`RenewInv`); so what was not paid in a renewed batch was replaced and the batches
form a chain (`ChainInv`), with one outcome at most unknown in all of it (`OneInv`). For the
refinement, what the chain still has to buy and what it has bought add up to what was ordered;
`LinkRenewal` and everything else that moves positions between batches is a stutter of the order.

`AirpayJobsProofs` proves, for any batches, processes, actions, jobs and failures:
`TypeCorrect`, `PaymentJobsRunOnce`, `CancellationHolds`, `BatchesAreWorkedAlone` and
`OutcomesStand`. The hard case is a worker whose connection broke: it goes on without
the job's lock while others find the lock free. Its inductive invariant says what still
holds then: who has the lock of a job is its worker and finds it running (`LockInv`);
nobody is at work on a job that was not begun (`UntouchedInv`); a payment job has only
ever had one worker, who has not begun it while it stands at `taken` (`SensitiveInv`,
which is where closing interrupted payments instead of repeating them is needed); a
worker at work holds the lock of the batch, unless its connection broke (`BatchInv`); and a batch has one
active job (`IndexInv`). So two workers of a batch that both still have the lock of their job would have the
lock of the same job.

`OperatorDeskProofs` proves `TypeCorrect`, `DecisionsAreLogged`, `DisclosuresAreLogged`,
`RepetitionsAreHonoured`, `DeskImplementsDecisions`, `DeskImplementsRows`, `DeskAdmitsWorkers` and
`NobodyWaitsInACircle` for any operators, keys, purchases, codes and calls. An open
transaction's writes are in no table, so its inductive invariant says what the transaction
has found and still holds when it commits: only requests at work lock their row, and one
that decides locks it alone (`LockInv`); so until it commits the row awaits a decision, and
nobody else is about to record its key (`DecisionInv`); a reader's row keeps its code, and
its key's entry in the log is still free (`ReaderInv`). For the refinement a code that an open
transaction has written must also be in no other row and in no other open transaction
(`CodesInv`), so that it is still free when the decision is entered at its commit.
Nobody waits in a circle because a request waits only for one that is at work and further
along than itself: for a row's lock while it has none, for a pending code with a row's lock,
for a pending request id with both, and never back. The theorem says this of the ranks
(`Progress`) and of a request that waits for nobody that it can be served. `CanBeServed` spells
out the guards of the statements; that a statement which is carried out satisfies it is a lemma
(`ServedIfItCanBe`), the converse would be ENABLED and is read off the text.

`PurchaseIntakeProofs` proves `TypeCorrect`, `IntakeImplementsOrderBook` and
`OnePurchasePerKey` for any requests, keys, orders and calls. A row is pending for one
request, and then there is no other (`PendingInv`); what a request has found or committed is
there when it answers, and no row is of a request that has yet to commit (`RowInv`); what
was accepted stays so (`AcceptedInv`). The commit is the step that enters the order in the book,
the answer the one that tells of it; every other step is a stutter.

`AirpayDiagnosticsProofs` proves `TypeCorrect`, `ChecksAreNotRepeated`, `CompletedRunsAreWhole`
and `ReportsAreKept` for any runs, handlers, services and failures. The hard case is again a handler
without its lock. Whoever has the lock finds its run as it read it, and what is running
is what it has taken itself (`LockInv`); a position about to be asked about was taken, by
one handler only, and not asked about before (`AskInv`), lock or no lock.

`AirpayMigrationsProofs` proves `TypeCorrect`, `MarksAreTrue` and `StatementsAreSentAsWritten` for
any runners, files, statements, texts, versions and failures: a run works exactly while it holds the lock (`LockInv`), has
marked everything behind it (`PrefixInv`), and has executed every statement before its
next one of the version it has read (`DoneInv`). An interrupted statement is not one executed.
The scanner is compared with the reference word by word: at the place where a word begins it
is in its outermost mode with nothing to pass over (`Reached`), it is there again behind the end of the word,
whichever kind it is (`Word`, for an `Ordinary` word), and what it has made and collected
meanwhile is what the reference cuts off there (`Completing`, `SplitIsWritten`). A comment without another one inside
ends for PostgreSQL where its first mark is (`PlainComment`), and a name without dollar signs is passed over
letter by letter (`Name`): that is all of the plainness that is needed. All these functions are defined by recursion over a
text, so each is first shown to exist, by induction over the places of the text
(`ScannedIsDefined`, `EndingIsDefined`, `FirstStrangeIsDefined`, `WrittenFromIsDefined`) or over what is left of it, since a
comment's end is looked for at several depths (`Recursion`, `RankInduction`, `CommentEndIsDefined`, `EscapeEndIsDefined`).
The induction is derived from the
well-foundedness of the order on numbers, with sets of numbers for properties of them.

Type invariants and `CodesAreUnique` are proved and not run.

Only model-checked are the liveness properties, since fairness is out of the prover's reach:
`PurchasesSettle`, `OperationsSettle`, `JobsEnd`, `RequestsEnd` of operators and of consumers, `RunsEnd`
and `MigrationsEnd`. Of every invariant, action property and refinement that a run checks and finds to
hold, a theorem says the same for all values of the constants. Not run, but proved:
`DeskImplementsRows`, the two refinements of `OperationRows`, and the theorems that one module admits what another does. Only refuted, by the violation runs, are `ReplacedIsUnpaid` with locks that
may be lost, `ConfirmedRun`, `MarkedIsWhole`, and `FailedIsDefinitive` of vouchers with a supplier
that is not legible.

## 5. Plan

1. `HubPurchases` over `InterHubAdapter` and the contract, runs and theorems: done.
2. `AirpayPurchase` with resolution, events and cutover, runs and theorems: done.
3. `AirpayBatch` and `VoucherOrder`, runs and theorems, the refinement included: done.
4. `AirpayJobs`, runs and theorems: done.
5. `OperatorDesk`, runs and theorems: done.
6. `PurchaseIntake` and `OrderBook`, runs and theorems: done.
7. `AirpayDiagnostics` and `AirpayMigrations` with `SqlStatements`, runs and theorems: done.
8. Composition by `PurchaseRows`, `OperatorDecisions` and `OperationRows`: done.
9. To come: the same between `AirpayJobs` and `AirpayBatch`, which meet at the batch lock.

**Not modelled.**

* Airpay's transport, catalogue and balance, its history, and the HTTP application: parsing, TLS
  and filters of reports, which keep no state. What they decide (a price, a deposit) is the
  choice between the outcomes of a check.
* Configuration, secrets and the stock snapshot: read once at start, or pure functions.
* The scripts run by hand, and `run_migrations.py`, as said in 2.9.
* Validation, authentication and the read-only routes of both runtimes.
* The paging of the job queue's candidates (32 at a time) and of the operators' lists.
* The text of migrations beyond what the splitter sees, and the triggers of the schema other than
  `airpay_record_event`.

`PROJECT.json` gives the reason for each part.

# aime, formally

TLA+ models of the aime backend (`src/deployables/backend`, Go over PostgreSQL
and a blob directory), the TLC runs that check them and the proofs that hold for
every value of the constants.  `PROJECT.json` lists components, runs, mutants,
findings, hazards and theorems, and maps each definition to the lines it models.
All paths below are relative to `src/deployables/backend`.

## 1. The system

The server gives an account (email and password) devices with post-quantum keys,
sessions for the devices, metered inference (embeddings, reranking) and
versioned, possibly incremental backups of the client's encrypted data.  There
are no unit tests; `cmd/smoke` exercises the API once, sequentially.  What runs
concurrently is every HTTP handler with every other, and three background loops
(`cmd/server/main.go`): the janitor (5 min), storage billing (1 h) and the orphan
sweep (1 h).

| component | state | operations | talks to | hard about it |
|---|---|---|---|---|
| **Backup catalog** `internal/store/backups.go`, `accounts.go:101` | tables `accounts` (version counter), `backups` (version, kind, parent) | `CreateBackup`, `DeleteBackup`, `PruneBackups`, `DeleteAccount`, each one transaction | handlers; PostgreSQL | interleaved transactions at READ COMMITTED, row locks, rollbacks, chains of deltas |
| **Backup service** `internal/httpapi/backup.go`, `internal/blobs`, `runBackupSweep` | upload semaphore, `uploading` map, files, one handler's progress | upload, delete, prune, delete account (files), sweep | catalog (rows), file system | no transaction over row and file; crashes, lost answers, deadlines, clocks |
| **Storage billing** `internal/store/billing.go`, `internal/billing` | `storage_billed_at`, balance, usage events | settle on every change of the byte count, hourly pass, `AddCredits` | catalog | a mark moved by handlers and by a pass with an old clock; rounding |
| **Inference** `internal/httpapi/infer.go`, `billing.Precheck/Charge` | slot semaphore, balance | precheck, wait for a slot, run, charge | ledger, encoder | checked balance is stale when charged; timeouts; unbooked usage |
| **Authentication** `internal/httpapi/auth.go`, `account.go`, `devices.go`, `store/auth.go`, `enrollments.go`, `janitor.go` | accounts, enrollment tokens, devices, challenges, sessions | sign up, login, enroll, challenge, verify, logout(s), change password, purge | PostgreSQL, argon slots | one-time tokens under races, several statements without a transaction, expiry, cascades |
| **Rate limiter** `ratelimit.go` | a bounded map from addresses to token buckets | `allow`, eviction | every public route | eviction, the cap on tracked addresses, a clock read before the mutex |
| **Readiness** `health.go` | cached ping | `handleReady` | database | mutex held over the ping, cached result of somebody else's context |
| **Model runtime** `encode/onnx.go` | environment, two sessions, tensors in native memory | `openONNX`, `Embed`, `Rerank`, `Close` | inference handlers, main | nothing is garbage collected; `Close` takes no lock |
| **Process life cycle** `cmd/server/main.go`, `store.go` | main, its deferred cleanups, three loops, the pool | start, serve, signal, drain, close | everything | what is closed while what still runs; a timeout on the drain |
| **Pure algorithms** `billing.Pricing`, `rerank.go`, `encode` | none | cost, stable order and top_k, batches | | boundaries |
| **Frontend navigation** `frontend/src/lib/NavigationStore.ts` | page stack | navigate, back, forward | pages | bounded history, ephemeral pages |

What makes each correct:

* **Catalog**: a delta can always be restored (its parent is stored and right
  below it), a version number is never used twice, limits hold though creates
  race, a prune never dangles, each transaction looks atomic, nobody deadlocks.
* **Service**: a row has its file, at any moment and after a crash; a file nothing
  refers to goes away in the end and no other file does; one upload per account;
  no slot leaks; an upload ends.
* **Storage billing**: stored bytes are charged for the time they were stored,
  once; an account without credit stays in the free tier.
* **Inference**: at most the configured number of calls run, overdraft is bounded
  by the calls in flight, each successful call is charged at most once.
* **Authentication**: tokens and challenges are redeemed at most once, a session
  belongs to a device and account that exist, a password change leaves only the
  calling session, unless revoking the others failed, which the answer does not tell.
* **Rate limiter**: an address is limited as if its bucket were never forgotten; a
  request goes uncounted only while the map is full of recent addresses.
* **Readiness**: the database is pinged seldom, whatever the outcome; an answer is the
  result of a ping no older than the time a result is kept; nobody waits for ever.
* **Model runtime / life cycle**: no session, environment or pool is closed under a
  user; nothing is left allocated by a call, a failed start or a clean exit; after
  a signal the process ends, unless it is in the migration.
* **Navigation**: the stack and its index stay in bounds.

## 2. Plan

1. `BackupRows`, `Catalog`, `CatalogTx`, with proofs.  *Done.*
2. `BackupService`, which composes `Catalog` with files, sweep and crashes, with proofs,
   up to what its clients see of it (`ServesCatalog`).  *Done.*
3. `StorageBilling`, with proofs.  *Done.*
4. `Credentials` and `Auth`: one-time credentials, sessions, password change, cascade,
   janitor, with proofs.  *Done.*
5. `Inference`: slots and ledger; bound on the overdraft; every call ends; with
   proofs.  *Done.*
6. `Bucket` and `RateLimiter`, with proofs; `Readiness` and `ModelRuntime`, composed by
   `Server`, with proofs.  *Done.*
7. Left: `Navigation` (an ephemeral page is never below another, the bound drops the
   oldest); `CatalogTx` in the place of `Catalog` under `BackupService`.

Composition: `CatalogTx` implements `Catalog` (refinement, checked and proved), and
`BackupService` uses `Catalog`'s atomic operations in the place of the
transactions, so that its rows follow `Catalog` by construction.  What can be downloaded
from it, rows and files together, implements `Catalog` too, which is not by construction
(`ServesCatalog`, checked and proved).  `Server` composes `ModelRuntime` and `Readiness`
with main and the loops.
`RateLimiter` implements `Bucket` (checked and proved).  `Auth` implements `Credentials` (checked and proved).  `StorageBilling`
uses the same row lock as its reason to treat an
upload or delete as one step.

## 3. Modules

**`BackupRows`**: a row of `backups` and the queries over a set of rows, without
state.  `parent = 0` is a NULL `parent_id`; `kind` is derived from it because the
code writes both together.  `Bytes` and `TotalSize` are what rows take on disk.
`Adjacent` and `UniqueKeys` describe a healthy table, `Restorable` what a client needs to
restore a row: a full backup and every delta from there to the row.

**`Catalog`**: the promise: `Create`, `Delete`, `Prune`, `Drop` as single steps
over `live` (accounts), `seq` (version counters) and `rows`.

**`CatalogTx`**: the transactions.  `live`, `seq`, `rows` are what is committed;
`lock` is the row lock of each account; `pc`, `req`, `ver`, `work` belong to an open
transaction.  The first statement locks (`Lock`; for a create the UPDATE also hands
out the version; for `DeleteAccount` the lock and the delete are one statement);
`Insert`, `DeleteRow`, `PruneRows` do the checks and the work; `Commit*` publish;
`Refuse*`, `NoAccount` and `Fail` (at any point: database error, cancelled context,
quota) roll back.  The id sequence does not roll back.  What the code reads outside
its own account, the sum for the server cap, is read from what is committed at
that statement.

**`BackupService`**: uploads as a sequence of the steps of the handler and
`Dir.Write`: slot, account, `.part`, body, fsync, rename, sync of the directory,
row, release, or `discard` and release.  The owner directory (`dirs`) is made before
the `.part` is opened in it (`home` says which a path is in).  A removal commits first and unlinks file by
file, each unlink may fail.  The sweep reads the rows, then computes its cutoff,
then walks; a file may be skipped.  The candidates are computed with the cutoff;
the real walk looks at a file's time when it reaches it, which can only remove
less.  Then it lists the owner directories and removes those that are empty when it
gets to them, so an upload may find its directory gone (`OpenFails`).  `Crash` clears everything in memory, and a rename whose directory was not
synced may be undone.  Time is relative: `age` of a file since its last write and
`left` of an upload's deadline, both at most `Timeout`, since BACKUP_TIMEOUT is both
the deadline and the sweep's minimum age.  Once the body is read, an expired read
deadline cancels the request's context, so no row is committed after it.
Assumed: `syncDir`, which the code calls best effort, works; a path is random and
never drawn twice.  A row whose answer is lost
(`CommitUnheard`) is in before the deadline like any other: a COMMIT that is on its way
when the context ends is not modelled as taking effect later.

**`StorageBilling`**: per account the byte count, the mark, the balance and what was
charged; `stored`, `granted` and `bills` are history variables.  `Settle` is
`settleStorageTx`.  The billing loop captures its time (`BeginPass`), lists the due
accounts by the database's clock (`ListDue`) and settles one at a time
(`SettleDue`); an error ends the pass anywhere (`EndPass`).  `Den` and `FreeBytes`
stand for the price and the free tier; a bill is the exact price rounded up, where the
code computes it in `float64` before it rounds up.  `Init` has accounts from before storage was
billed, with bytes within the free tier.

**`Credentials`**: what one-time credentials promise: `Issue`, `Redeem` (from then on
nobody else can), `Bear` or `Lose` what it was redeemed for, `Void` when it expires or
its owner goes.

**`Auth`**: the tables `live` (accounts), `devices`, `tokens`, `challs`, `sessions`,
their id sequences `last`, the slots of `argonSem`, and for each handler `pc` and what
it has read, `req`.  No handler uses a transaction, so each SQL statement is an
action: `ConsumeToken` then `CreateDevice`, `ConsumeChallenge` then `GetDevice` then
`CreateSession`, `ReadCredentials` then `TakeSlot`, `HashRight` or `HashWrong` then
what the password was for; a password change hashes twice, then `UpdatePassword`,
then `Revoke` or `RevokeFails`: a `DeleteSessions` that fails is only logged, and the
change is answered with 204 as if it had gone through, other sessions alive or not.  So
`OnlyCallerStays` speaks of the changes whose `DeleteSessions` went through and leaves the
others out, as the comment at `account.go:188` does and the one at 158 does not.  `Fail`
ends a handler before any of its statements, and what it did stays.
`DropAccount` and `DeleteDevice` take along what their foreign keys cascade to; `DropAccount` is the database's part of `BackupService`'s removal of an account.
Cryptography is perfect: the password, token or signature is right or not.  `epoch`
counts an account's passwords, and an account is one with its email, which is why a
deleted one does not return.  A row, used or not, may expire at any time and is then
purged some time later, the three tables in any order.  `revoked` (the password
changes that went through as a whole) and `made` are history.

**`Inference`**: `Arrive`, `Precheck`, `TakeSlot`, `Result` or `ModelFails`, `Charge` or
`ChargeFails` for each call, and `AddCredits`.  `Leave` is a wait that the deadline or
the client ends.  One charge is one transaction on the account's row, hence one step.
Storage charges are not part of this balance: they would lower it by their own, in
`StorageBilling`.

**`Bucket`**: what the limiter promises: every address owns a bucket that fills by a
unit a tick, up to `Full`, and is never forgotten; a request costs `Period` units.  A
request is charged as if it had come up to `Slack` ticks ago.

**`RateLimiter`**: `Arrive` is `RateLimit` up to the mutex: the address and the clock are
read.  `Untracked`, `Admitted` and `Limited` are `allow`, each as a whole, since it runs
under the mutex: idle entries are dropped when a sweep is due (`Kept`, `SweptAt`), the
entry is found or made (`Units`), stamped (`Touch`) and asked.  `level` and `refilled`
are `tokens` and `last` of `x/time/rate`, in units of time instead of fractions of a
token.  `EvictionAssumption`: an entry lives longer than a bucket takes to fill; the
server's limits (30 s and 6 s against 10 min) keep it.

**`Readiness`**: the mutex, the result and its age, the ping and what it has left of its
timeout.  **`ModelRuntime`**: the environment, the sessions, the mutex of each model, and
for each call its stage and the tensors it owns.  Both are parts without a
specification of their own.

**`Server`**: `main` from `config.Load` to the deferred cleanups; `Fatal` is `os.Exit`, which
runs none of them.  The encoder is opened and warmed up step by step; each failing
path closes what the code closes.  A loop is in a `pass` over the database or waits for
its ticker.  An inference handler is in its precheck, in the model or in its charge.
`DatabaseTurns`, `Signal` and `Tick` are the environment.  A ping is answered only by a
database that is up (`PingAnswers`), and fails whether it is up or not (`PingFails`: no
free connection, a slow answer, a client that hangs up); so "degraded" is no evidence
against the database.  `upAge` says how long ago the database was there, `badAge` how
long ago a ping failed; `quiet` is the time since a ping ended.  Taken at their
documented word: `http.Server.Shutdown` accepts no new connection, still serves those it
has (requests arrive in `drain`, too), and returns nil when no request is left, or an
error when its time is over; `pgxpool.Pool.Close` waits for the connections that are out.

**`MCBackupService`**, **`MCAuth`**: symmetry sets for TLC.
**`BackupRowsProofs`**: facts about sets of rows, for the two modules of theorems that
rest on them.  **`CatalogTxProofs`**, **`AuthProofs`**, **`InferenceProofs`**, **`RateLimiterProofs`**,
**`BackupServiceProofs`**, **`StorageBillingProofs`**, **`ServerProofs`**: the theorems.  What
their invariants need beside the properties stands at the end of the module they
are about.

Definitions introduced by "A slip" are plausible mistakes.  Nothing uses them; the
`mutants` of `PROJECT.json` put each in the place of the definition behind it, and
the named property then fails.

## 4. Runs

| run | bounds | checks |
|---|---|---|
| `catalog_tx` | 2 accounts, 2 transactions, 3 ids, 2 backups per account, cap 2, size 1 | `TypeOK`, `SelfContained`, `ChainAdjacent`, `PruneNeverDangles`, `VersionLimit`, `NeverReused`, `AtomicCatalog`, `EveryTxEnds` |
| `backup_service` | 1 account, 2 uploads, 1 remover, 2 paths, 2 slots, timeout 3, lags 1 and 1, 1 crash | `TypeOK`, `RowHasFile`, `EveryBackupRestores`, `GateExact`, `SweepsOrphansOnly`, `ServesCatalog` |
| `backup_live` | 1 upload, 1 remover, 2 paths, 1 backup, timeout 2, lost answers, 1 crash | `OrphansGo`, `UploadsEnd` |
| `storage_billing` | 2 accounts, 3 byte units with 1 free, 4 ticks, a pass of up to 1 tick | `TypeOK`, `NobodyDodges`, `OverchargeBounded`, `FreeTierHolds` |
| `auth` | 1 account, 2 handlers, 1 hashing slot, 1 device, 1 token, 2 challenges, 3 passwords | `TypeOK`, `ReferencesHold`, `OnlyCallerStays`, `SlotsExact`, `SpentOnce` |
| `inference` | 1 account, 3 calls, 2 slots, prices 1 and 3 per 2 tokens, credit 4 | `TypeOK`, `OverdraftBounded`, `SlotsExact`, `NoCallIsFree`, `CallsEnd` |
| `rate_limiter` | 2 addresses, 2 requests, a map of 1, burst 2, 2 ticks a token, eviction after 5, 13 ticks, a wait of up to 1 tick | `TypeOK`, `KeepsBuckets`, `UntrackedOnlyUnderLoad` |
| `server` | 1 inference call with 2 input tensors, 2 probes, 2 loops, result kept for 1 tick, ping and shutdown timeouts 1 | `TypeOK`, `NothingClosedInUse`, `NothingLeaks`, `PingsSpaced`, `AnswersFresh`, `Exits`, `ProbesAnswered` |

Violations, each a statement of the repository that the code does not keep:

| run | statement | behaviour |
|---|---|---|
| `catalog_cap` | `store/backups.go:96` the quota "cannot be raced" | uploads of two accounts both pass the cap; only one account's lock is held; `CapOvershoot` says by how much at most |
| `backup_lost_ack` | `httpapi/backup.go:368` a row without a file is an inconsistency | COMMIT succeeds, its answer is lost, `discard()` removes the file |
| `backup_stale_sweep` | `blobs/blobs.go:126` the sweep removes files nobody references | rows are listed before the cutoff is computed; needs a commit late in the timeout |
| `storage_double` | `0002_storage_billing.sql:2` the mark is up to when an account is paid | the pass writes its older time over a newer mark, and the time in between is billed again; `OverchargeBounded` says how much at most |

Why the bounds are enough.  Two transactions are every pairwise race on an account
row; since each touches one account under its lock, a third adds only another
waiter (the proofs need no bound).  Three ids give a full, a delta on it and a
delta or full on top, or a gap; four were checked once for the invariants, with
`CapKept` and `CapOvershoot` among them (2.6 million states).  Two paths let one upload
finish, be removed or swept while another runs.  Timeout 3 with lags 1 and 1 is the
smallest instance of `CommitLag + SweepLag < Timeout`; `backup_stale_sweep` is the
same with `CommitLag = Timeout`.  The same instance with lost answers was checked once for
`TypeOK`, `GateExact` and `SweepsOrphansOnly` (1.9 million states).  Two uploads of one account with two slots reach the full
semaphore and the busy account.  Three byte units and one free cross the free
limit in both directions; four ticks let an account be marked, used, passed over
and billed again, and a `Den` of 2 makes bills round.  Two handlers are every pair of
racing requests on one account; one hashing slot makes them wait for each other;
two challenges let one be redeemed while another is open, and three passwords let
two changes overtake each other.  With one account the last conjunct of
`ReferencesHold` (a session and its device are of one account) cannot fail: two
accounts are out of TLC's reach here, and the proof covers any number.  Three calls
and two slots reach the full semaphore with a call that waits; a credit of 4 is
above and below what one call costs, and the prices do not divide.  A map for one of
two addresses is full when the other comes; 13 ticks reach a second sweep and let an
evicted address return.  One call, two probes and a loop of either kind make main
drain with each of them in every place; a second call only adds more of the same
(checked once for the invariants, 1.8 million states).  The catalog and service
instances really stop (ids and paths run out) only in that calls are refused, so
deadlock stays checked, except in `server`, whose process is meant to end.

Fairness.  `CatalogTx`: weak fairness of a statement that can run, and strong
fairness of a waiting `Lock`, because PostgreSQL queues row locks.  No fairness for
`Fail` or for beginning.  `BackupService`: weak fairness for what a handler does by
itself and for leaving at the deadline (`SetReadDeadline` fails the read, the
context ends the transaction), none for the client's bytes or for the database to
commit; weak fairness for the sweep's steps (the ticker), strong for removing one
file (a single `os.Remove` may fail, not for ever) and for time.  `Inference`: weak
fairness for the balance query, for leaving a wait (the context's deadline), for the
model's return and for the charge (`chargeTimeout`), each to succeed or to fail; none
for arriving and none for getting a slot.  `Server`: weak fairness for main, for time, for
the end of a pass (its context ends with the signal) and of a ping (2 s), strong for
the probes' mutex (`sync.Mutex` starves nobody); none for the inference handlers, which
may compute for ever, for the signal and for the database, and none for main in its
migration: `goose.Up` has neither a context nor a timeout, and SIGTERM is caught by then,
so a database or a lock that keeps it waiting keeps the process (`Exits` excepts exactly
this).  The other steps of the start use a context (`Connect`), the disk or the model
library, which are taken to come back.

## 5. Proofs

`CatalogTxProofs` proves, for every set of accounts, every finite set of transactions (the
pool's connections), every set of sizes with a largest one (`MAX_BACKUP_MB`), every limit and
number of ids (`RowsAssumption`, `TxAssumption`):

* `InductiveInvariant`: `Spec => []Inductive`
* `TypeCorrect`, `ChainSafe`, `RestoreSafe`, `PruneSafe`, `VersionLimitSafe`: `[]TypeOK`,
  `[]ChainAdjacent`, `[]SelfContained`, `[]PruneNeverDangles`, `[]VersionLimit`
* `VersionsNeverReused`: the action property `NeverReused`
* `CapBounded`: `[]CapOvershoot`, and `CapAlone`: `[]CapNeverExceeded` where there is one
  transaction at a time
* `Atomicity`: `CatalogTx` implements `Catalog`

None of the properties is inductive: they speak of committed rows, and a commit
publishes what was decided several statements earlier.  `Inductive` adds what the
row lock is for.  `LockInv`: a transaction past its first statement and the lock
point at each other, so there is one per account and the account cannot go away.
`CreateInv`: its version is the counter plus one, its parent is still the head, there
is still room, its id is nobody's.  `RemoveInv`: the rows it removed are still what
its statement would remove, and still unreferenced.  `RowsInv`: keys are unique and
deltas adjacent.  The step lemmas rest on facts about sets of rows: `AddHead` (a row
on top keeps adjacency), `RemoveUnreferenced`, `FullBoundary` (nothing above a full
boundary references below it: the comment on `PruneBackups`, proved), and on
`OtherAccount` and `NoNewReference`: what one transaction commits cannot disturb what
another has locked.  `Atomicity` then is one case per commit; every other step
stutters.

`RestoreSafe` is about chains of any length, and `Adjacent` only about one link.  Versions
fall along parents, so a least version at or below a row is that of a full backup
(`FullBelow`, by `LeastNat`: natural numbers have least elements), and from the highest full
backup at or below the row up, nothing but deltas is left, each right above its parent
(`HealthyRestores`).

`CapBounded` measures the race that `catalog_cap` shows.  What the last creator saw committed
was within the cap, but others may have inserted rows that are not committed yet, one each
and no larger than the largest upload.  `CapKept` counts those in: committed and inserted rows
together exceed the cap by at most `(|Tx| - 1) * Largest`, which every insert keeps whatever
the others do, and a commit leaves as it is.

`AuthProofs` proves, for every finite set of handlers, every set of accounts and every
bound (`AuthAssumption`):

* `InductiveInvariant`: `Spec => []Inductive`
* `TypeCorrect`, `SlotsSafe`, `ReferencesSafe`, `CallerStaysSafe`: `[]TypeOK`,
  `[]SlotsExact`, `[]ReferencesHold`, `[]OnlyCallerStays`
* `CredentialsSpentOnce`: `Auth` implements `Credentials`

The properties are about tables; what breaks them would be what a handler has read
and still believes.  `Inductive` adds that.  `HandlersInv`: who hashes has a password
to check, and who redeemed something knows an id that was issued.  `KeysInv`: ids
are unique and not above their sequence, which makes a new id unlike every
remembered one.  `VerifyInv`: a device that `GetDevice` found is, if it is still
there, of the account it found; this gives `ReferencesHold` its last conjunct although the
device may be deleted and others created before `CreateSession`.  `EpochInv`: nothing
is of a newer password than the account has, so a session made after a change is not
older than it.  `CredsInv`: a credential is open or with one handler.  The
refinement maps `ConsumeToken` and `ConsumeChallenge` to `Redeem`, the inserts that
follow to `Bear`, `Fail` of a handler in between to `Lose`, deletes, expiry and purge
to `Void`.

`InferenceProofs` proves, for every finite set of calls, every number of slots and every
price (`InferenceAssumption`): `TypeCorrect`, `OverdraftSafe` (`[]OverdraftBounded`),
`SlotsSafe` (`[]SlotsExact`) and `CallsPaid` (`[]NoCallIsFree`).  The bound on the
overdraft is inductive with `Attributed` (a call that is not idle is an account's, one
about to be charged costs something) and the types: a call that passes the check finds
a positive balance, and a charge lowers the balance by at most `MaxCost` while it takes
its call out of flight.

`RateLimiterProofs` proves, for every set of addresses and of calls and every rate, burst,
bound and wait allowed by the assumptions: `TypeInvariant` (`[]TypeOK`), `Buckets`
(`RateLimiter` implements `Bucket`) and `Uncounted` (`UntrackedOnlyUnderLoad`).  `Inductive`
adds that a time that was read is at most `MaxLag` old (`TimesRead`), that a stamp is not
much older than the bucket's last charge and not older than a sweep could have left it
(`StampsFresh`), and that a dropped address looks new (`NothingForgotten`).  The heart is
`AfterSweep`: an entry that was idle for `EvictAfter` has a full bucket, so dropping it
changes nothing that can be seen.

`BackupServiceProofs` has three layers, for every finite set of uploads and every set of
accounts and removers.  `Basic` needs no assumption on time: `BasicInvariant`,
`TypeCorrect` (`[]TypeOK`) and `GateSafe` (`[]GateExact`: the slots and the busy set are
those of the uploads that hold them, however they leave).  `Clocked` assumes `Prompt`,
`CommitLag + SweepLag < Timeout`: `ClockInvariant` and `OrphansOnly`
(`SweepsOrphansOnly`), which therefore hold where answers are lost, too;
`backup_stale_sweep` shows that `Prompt` is needed.  `Inductive` assumes `Timely`, that is
`Prompt` and no commit whose answer is lost, which `backup_lost_ack` shows is needed:
`InductiveInvariant`, `RowSafe` (`[]RowHasFile`), `RestoreSafe`
(`[]EveryBackupRestores`) and `ServiceRefinement` (`ServesCatalog`).
A file and its row meet in no single statement, so the invariant says what
keeps them together in between.  `PathsFresh`: a path has one upload, and whatever
knows a path knows one that was generated.  `RowsApart`: what an upload writes and what a
removal unlinks has no row (not yet, or no more).  `FilesKept`: an upload with time
left still has its file where it put it.  `TimesKept` is the sweep's clock: a path and its
upload together are no older than the deadline, a row missing from the sweep's list
is younger than `CommitLag` and the time since the list, so the cutoff spares it.

Rows and files then meet.  Every step is one of the catalog's atomic operations on the rows
or leaves them alone, as the actions are written (`CatalogMoves`), so `CatalogHealthy` carries
over (`[]Healthy`, with no assumption on time or answers).  With
`RowHasFile`, the rows whose file is there are all rows: each is restorable from files that
are there (`RestoreSafe`), and what can be downloaded changes by the catalog's operations
only (`ServiceRefinement`), across crashes too.

`StorageBillingProofs` proves, for every set of accounts, every price, free tier, interval
and length of a pass: `TypeCorrect`, `EverythingPaid` (`[]NobodyDodges`), `OverchargeLimit`
(`[]OverchargeBounded`) and `FreeTier` (`[]FreeTierHolds`).  The overcharge is an argument
by potential: `Excess` is what an account paid beyond what it stored before its mark, less
what its bills allow, and is at most 0.  A pass that writes its older time over a newer mark
raises it by `Lag` at most; then the account is `TakenBack` until it is billed again, and no
pass can take it back once more in between, since a pass only writes the time it began
with.  `PaidOnce`: where a pass takes no time (`PassLag = 0`) nothing is taken back, and what
`storage_double` refutes holds (`[]PaidUpToMark`).  `Unbilled`, `PassShort` and `Broke` are the small facts this uses.

`ServerProofs` proves, for every finite number of inference calls, probes and loops and every
timeout: `TypeCorrect`, `NothingClosed` (`[]NothingClosedInUse`), `LeakFree` (`[]NothingLeaks`),
`PingSpacing` (`PingsSpaced`) and `AnswerFreshness` (`AnswersFresh`).  `StagesOwn` says what a
call owns at each stage, `Opened` what main has opened at each step of its start,
`ClosedLast` that nothing is closed while a request is left, and `ResultDated` that the
cached result is as old as the last ping and is what that ping came to.

Assumptions on constants, all named in the module that declares them, are what the code
gives: positive limits, a largest upload, finitely many uploads, transactions (at least
one), a free tier that fits in what an account may hold (`FreeBytes <= MaxBytes`, a bound of the model),
and a loop that starts before the blob directory is opened (`EarlyLoop # {}`: the janitor;
by it `LeakFree` tells an exit after the start from a failed start).

Only model-checked: liveness (`EveryTxEnds`, `OrphansGo`, `UploadsEnd`, `CallsEnd`, `Exits`,
`ProbesAnswered`; the prover has neither fairness nor ENABLED).  Of the four statements the code
does not keep, the proofs say when it keeps them: `CapAlone`, `PaidOnce`,
`RowSafe` under `Timely`, and `OrphansOnly` under `Prompt`.

## 6. Not modelled

Lists and downloads change nothing; a download that races a delete finds the row and
no file and answers "backup unavailable".  That a new owner directory is itself durable
only once its parent is synced is left out with the rest of the file system's own
metadata.  The frontend's page history has one user and synchronous steps.  The
rerank's sort, batch padding, pooling and input validation are sequential functions.
Tokenizing and floating point, the cryptography (library calls), configuration,
metrics and JSON, the smoke test and demo, Svelte pages, the Tauri shell and the
deployment files keep no state a property here depends on.

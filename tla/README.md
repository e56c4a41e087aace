# TLA+ verification of githubcache

githubcache answers queries about GitHub repositories from a MySQL cache. A
miss queues a refresh job; a scheduler inside the one Node process claims jobs,
fetches from GitHub with a pool of tokens and stores what it gets. Around that
stand accounts, API keys, rate limits, an audit log with webhooks, backups,
reports and an admin interface. This directory holds TLA+ modules for the parts
whose correctness depends on interleavings and failures, the TLC configurations
that check them, and proofs that TLAPS checks.

Paths below are relative to the repository's source root (`lib/...` is
`src/lib/...`).

## 1. Inventory

There is one process. Concurrency is between asynchronous activities: every
`await` is a point where any other request, tick or timer may run. State lives
in MySQL (survives a crash), in module variables (does not), and in the local
variables of a suspended function (snapshots that may be stale when used).

| Component | State | Operations | What is hard |
| --- | --- | --- | --- |
| Refresh queue (`lib/jobs`, `lib/scheduler/{lease,tick,sweep}`, `lib/db/refresh-jobs`, admin refresh routes) | `refresh_jobs`, `repositories.fetch_status`, the jobs each `refreshOne` call holds | lookup miss and enqueue, manual trigger, sweep, claim, fetch and its six outcomes, admin cancel and retry | overlapping ticks, verdicts written by id long after the claim, failed statements at every await, crashes, the foreign key to `repositories` |
| Scheduler switch (`lib/scheduler/{state,tick,refresh-tick,index}`) | pause flag, automatic-pause flag, resume timer, interval | tick, automatic pause and wake-up, admin pause, resume, manual tick, stop | three writers of one flag, two owners of one interval |
| Token pool (`lib/github`) | in-memory quota per token, `github_tokens` | pick, record usage, auto-disable, persist, add, remove, reload | the copy in memory, the table and GitHub's own books drift apart across awaits |
| Cache store (`lib/cache`, `lib/jobs/refresh-one`, `lib/github/client`) | `repositories`, `repo_releases`, `repo_branches`, the metadata JSON, three ETags | core store, facet stores, 304s | every part is stored twice; read, merge, write back |
| Webhooks (`lib/webhooks`, `lib/audit/writer`) | `webhook_subscriptions`, `webhook_deliveries`, the batches ticks hold | fan-out, claim, POST, mark, dead-letter, admin retry, disable, re-arm | ticks overlap and a claim only reads; an error abandons a batch |
| API keys and their limits (`lib/api-keys`, `lib/rate-limit`, `lib/db/rate-limit`) | `api_keys`, the audit rows of rotations, one bucket row per key | request, approve, change limits, revoke, rotate, use | check, then unconditional write; two window lengths share a row; a cooldown kept in the audit log |
| Accounts (`lib/auth`, `lib/db/sessions`, login throttle) | users, sessions, attempts per address | log in, renew, log out, disable, reset and change a password | a request trusts what it read; renewal races deletion |
| Database operations (`lib/database`) | the live schema, shadow schemas, `BACKUP_DIR`, child processes | back up, trim, restore, delete a backup | many statements, no transaction, nothing keeps two apart |
| Import (`lib/import`) | whole tables | dry run, apply | partial apply |
| Crons (`lib/scheduler/cron-*`, `lib/email`) | mail log | daily and weekly report, prune | once per window, restarts in the window |
| Set-up, configuration, reports, user interface | settings, pages | boot checks, queries | little state of its own |

What makes each correct:

* queue: a job is worked by one call at a time, every claimed job gets a
  verdict, verdicts are final, the rows agree with the verdicts on them,
  concurrent lookups queue one job, pending jobs are claimed;
* scheduler switch: never asleep for good, never paused by nobody;
* token pool: what it holds back is really spent, a disabled token stays out, a
  quota marked saved is saved, a fetch does not ask a spent token again;
* cache: the copies of a part agree, and the stored copy catches up with GitHub;
* webhooks: pending rows are processed, settled rows stay settled, a dead
  letter disables its subscription;
* keys: a revoked key stays revoked, one request waits at a time, a user rotates
  once a day, what is shown is what works, no more requests than the limit;
* accounts: a reset ends sessions, a deleted session stays deleted, an admin
  remains, a block lasts;
* restore: no table is ever missing, an exchange can be undone, a success is
  complete, and it stops half-way only at a table MySQL refuses to move.

## 2. Modules

| Module | What it is |
| --- | --- |
| `RefreshQueue` | the queue: table, claims, the steps of `refreshOne`, admin routes, time, restarts |
| `JobLedger` | what the queue promises of each job, abstractly |
| `RefreshQueueProofs` | the invariants of the queue, and that it implements the ledger, proved |
| `SchedulerPause`, `SchedulerPauseProofs` | the pause flag, the automatic pause, its timer and the interval |
| `TokenPool`, `TokenPoolProofs` | rows, pool and GitHub's books, with fetches, flushes, admin routes, restarts |
| `CacheStore`, `CacheStoreProofs` | one repository's cached copy and the jobs that write it |
| `WebhookDelivery`, `WebhookDeliveryProofs` | deliveries, overlapping worker ticks, dead letters, admin routes |
| `ApiKeys`, `ApiKeysProofs` | the life of keys and the requests that use them |
| `Accounts`, `AccountsProofs` | users, sessions, passwords, the login throttle |
| `DatabaseRestore`, `DatabaseRestoreProofs` | backups, retention, restores |
| `MCRefreshQueue`, `MCTokenPool`, `MCApiKeys`, `MCAccounts` | the module with its symmetry sets for TLC |
| `MCDatabaseRestore` | the tables, pinned tables and references of the runs |

Components meet through few facts, so each module carries what the others do to
it: the queue chooses GitHub's answers freely, the scheduler's tokens become
spent and fresh freely (what `TokenPool` explains), the deletion of a row on 404
is in `RefreshQueue` while what is in the row is in `CacheStore`, and any audited
action is an `AuditEvent` of `WebhookDelivery`.

Faulty variants of a definition stand just before it in the modules. Each is a
plausible slip (a dropped guard, a missing reset); the property its comment
names fails when the variant takes the definition's place, so every property
demonstrably depends on the code it is about.

Many properties name the race outside which they hold. The code has the race
(nothing is locked); a *history* variable records that it happened, so the
property says the race is the only way to go wrong: it does not catch the race
itself, and the notes of the hazards in `PROJECT.json` say where that is so. A
hazard whose race the property leaves out altogether lists no property. History
variables are never read by a guard.

### RefreshQueue

`jobs` is the `refresh_jobs` table, `row` the `fetch_status` of each
repository's row. A lookup that has missed but not enqueued yet is in `asking`.
A `refreshOne` call is a *worker*: `phase` says which await it is about to make,
`holds` which job it got, `snap` the `attempts` value in the job object
`claimBatch` returned, which the error handler later adds one to.

| Code | Model |
| --- | --- |
| `lookupRepo`, `enqueueRefresh` | `LookupMiss`, then `EnqueueRefresh` (one serializable transaction) |
| `enqueueManualRefresh`, `sweepFacet` | `EnqueueManualRefresh`, `Sweep` |
| `claimBatch` inside `runTick` | `RunTick` (one transaction; by priority, up to the batch size) |
| `fetchRepoCore`, `fetchReleasesOnly`, `fetchBranchesOnly` | `Fetch`: the outcomes that reach the caller |
| `storeRepoMetadata` and the facet writers | `Store` (find), `CreateRow`, `UpdateRow` (by id; throws when the row has gone) |
| 304 | `Touch` |
| success | `Finish` |
| `handleError`, `handlePerFacetError` | `NotFound`, `NotFoundFallback`, `Forbidden`, `Transient`, `Unexpected`, `Audit` |
| `runTick`'s catch | `MarkFailed` |
| any statement that throws | `DbFailure`, which goes where the code's `try` blocks send it; the last write of a facet job, which is returned and not awaited inside its `try`, to `runTick`'s catch (`AfterFailedFinish`) |
| cancel, retry routes | `CancelJob`, `RetryJob` |
| the clock | `BecomesDue`, `LeaseExpires` |
| crash, or shutdown and restart | `Restart` |

Clock readings are abstracted to "due" and "lease expired", priorities to their
order, `last_error` to the two prefixes anyone looks for. `attempts` saturates
at the threshold. `RestrictFK` says whether `refresh_jobs.repository_id` carries
the foreign key of `lib/db/init-schema.ts` (databases created by the set-up
page) or none (the Prisma schema).

### SchedulerPause

`runTick` decides about pausing before its first await, so a tick is one step.
A token is *spent* while its quota is used up and its window is open. The
interval, a timer and an admin may each run at any moment. One instance of the
scheduler's module state is assumed.

### TokenPool

`row` and `saved` are the table (status, and the quota last written), `pool`,
`entry`, `dirty` and `strikes` the memory, `left` and `window` GitHub's own
books. A quota is a pair of requests left and window; a later window stands for
`resetAt` being past. The two list calls that follow a core answer
(`fetchVersionExtras`) are left out of a fetch's costs: they report nothing.

| Code | Model |
| --- | --- |
| `initPool` | `Load` (the read), `Loaded` (clear and fill) |
| `fetchRepoCore`, `fetchReleasesOnly`, `fetchBranchesOnly` | `StartFetch`, `Pick`, `Answers` (GitHub counts and replies), `Handle` (report and decide), `AutoDisable` |
| `persistQuota` | `StartFlush`, `SendQuota` and `QuotaWritten` per token |
| token routes | `Register`, `Enable`, `Refetch`, `AddToPool`; `Disable`, `Delete`, `RemoveFromPool` |
| GitHub's window, process death | `WindowPasses`, `Restart` |

### CacheStore

One repository of three parts: core fields, releases, branches. `columns`,
`metadata` and `table` are where they are stored, `etag` what the next request
sends. A part's content is its version on GitHub; `Empty` is the list stored
when a list call failed. A job is a *writer*: `Start` (it reads the ETag),
`NotModified` or `Fetched`, `Extras` (the lists of a core job, without ETag),
`StoreCore` (one update), then `ReadMetadata` and `StoreFacet` for each list.
`GitHubChanges` and `Abandon` (error or death) are the surroundings.

### WebhookDelivery

A tick reads a batch and works through it: `LookUp`, `Post`, `Mark`, `Disable`.
Several ticks are in flight at once, because the interval does not wait for the
last one. `queue` is the order the claim's query returns. `AbandonTick` is an
error anywhere in the batch. `DeadLetterDisables` exempts failures, because the
two writes are not one transaction.

### ApiKeys

Operations and what they make share a name: operation `o` creates at most the
row `o` and the plaintext `o`. `op[o].pc` is the statement to come.

| Code | Model |
| --- | --- |
| `requestKeyAction` | `RequestKey` (the check), `CreateRow`, `PatchPrefix` |
| `approveKey` | `Approve` (the read), `Issue` |
| admin and owner revocation | `RevokeKey`, `RevokeOwnKey`, then `WriteRevoked` |
| limits route | `ChangeLimits` |
| `rotateOwnKeyAction` | `RotateKey`, `CheckCooldown`, `Swap` (revoke and create in one transaction), `AuditRotation` |
| public routes | `UseKey` (authenticate, compute the window), `Count` (upsert of the bucket) |
| death of a request, clock | `Die`, `MinutePasses` |

The prefix a request or a rotation patches in is cut from the hash
(`HashCut`), not from the plaintext as `request.ts:30-32` says; only the one an
approval writes belongs to a plaintext.

### Accounts

| Code | Model |
| --- | --- |
| login route | `RecordAttempt`, `LookUp`, `Succeed`, `CreateSession` |
| `findSessionById`, `requireAdminFromRequest` | `Find`, `Renew` or `DeleteSession`, then `Visit` |
| logout | `Logout` |
| admin user routes | `SetStatus`, `LogOutAll`, `SetPassword` then `Purge` |
| own password | `CheckOwn`, `SetPassword` |
| death of a request, clock | `Die`, `HourPasses` |

### DatabaseRestore

| Code | Model |
| --- | --- |
| `createBackup`, `trimRetainN` | `StartBackup`, `DumpDone` or `DumpFails`, `Trim`, `Unlink` |
| `performRestore` from a file or an upload | `StartRestore`, `StartUpload`, the dump and trim of its snapshot, `CreateSchema`, `Import`, `Verify`, `Swap` per table, `DropRollback`, `DropSchema` |
| its `catch` | `StatementFails`, `Cleanup` |
| the rest | `Crash`, `AppWrite`, `DeleteBackup` |

A table holds a version. The rollback copy of `n` made by restore `o` is
`Append(n, o)` (the `__rb_` suffix).

The lists of tables are compared before the first RENAME, but not all that MySQL
may refuse shows there. A table with a trigger cannot be renamed into another
schema, and `users` has one once `scripts/install-status-trigger.mjs` has run
(backups carry it: `backup.ts:95`). A table with a named constraint
(`init-schema.ts:105`, `141`, `229` and others) arrives while its predecessor, now
the rollback copy, still has the name. Such tables are the constant `Pinned`: their
RENAME is refused or not (`RenameRefused`), after whatever the loop has exchanged
before. The DROP of a rollback copy is refused while the copy of a child still
refers to it (`References`, `Referenced`): `api_keys` comes before
`rate_limit_buckets` in the list. The copy of a child counts as referring to the
copy of its parent until it is dropped, which is the strictest reading. The
`catch` drops the shadow schema, if MySQL lets it (`Cleanup`). On the schema
`init-schema.ts` creates, a restore is therefore expected to end half-way, with
some tables of the backup and some of the old data, and the rollback copies in
place: `HalfwayMeansPinned` says that it ends so for no other reason, `Undoable`
that the copies are there.

Not modelled: two backups in one second, and the order in which the decompressor
and the client close on a truncated file.

## 3. Runs

| Run | Bounds | Shows |
| --- | --- | --- |
| `queue_safety` | 2 jobs, 2 calls, facet `releases`, threshold 1, batch 2, 1 crash, 1 failed statement, with the key | `LeaseMarksClaim`, `SingleOwner`, `DedupFreshLookups`, `TerminalStays`, `RowMatchesVerdicts` |
| `queue_liveness` | 2 jobs, 1 call, with the key, a row left by an old release, 1 crash, 1 failed statement, `FairSpec` | `PendingIsClaimed`, `HeldJobSettles`, and `LedgerSpec`: every step is one of the ledger's or a stutter |
| `scheduler_pause` | 2 tokens, 2 calls in flight, `FairSpec` | `AsleepOnlyWithAlarm`, `PauseHasOwner`, `SleepEnds` |
| `token_pool` | 1 token, 2 fetches of either kind, 2 admin requests, limit 1, threshold 2, 2 attempts, 1 new window, 1 load per process, 1 fault | `TypeOK`, `SpentIsSpent`, `PoolFollowsRows`, `CleanIsSaved`, `RotatesAway` |
| `cache_store` | 2 jobs of any kind, 1 change on GitHub, 1 fault | `MirrorMatches`, `CoreSettles` |
| `webhook_delivery` | 1 subscription, 2 rows, 2 overlapping ticks, batch 2, 2 attempts, 1 admin retry, 1 failure, `FairSpec` | `DeadLetterDisables`, `TerminalStays`, `PendingIsProcessed` |
| `api_keys` | 2 keys, 3 operations, limits 1 and 2, an hour of 2 minutes, a day of 1, 3 minutes, 1 death | `TypeOK`, `RevokedStays`, `OnePending`, `CooldownHolds`, `ShownIsStored`, `LimitHolds` |
| `accounts` | 2 admins, 3 operations, sessions of 4 hours renewed below 2, 2 attempts per window of 2, 4 hours, 1 death | `TypeOK`, `PasswordEndsSessions`, `DeletedStays`, `AdminRemains`, `BlockStays` |
| `database_restore` | current tables a, b and an old backup of a, c; a pinned and a child of b; 2 operations, 2 backups kept, 1 write, 1 fault, 1 deletion | `TypeOK`, `NoTableLost`, `Undoable`, `HalfwayMeansPinned`, `SnapshotAtHand`, `RestoredInFull` |

They reach between 10^2 (the pause) and 5 * 10^6 (the restores) distinct
states. Why the bounds suffice:

* *queue*: a duplicate needs two jobs of one repository, a race two calls of one
  job (a retried one) or two jobs of one row. The threshold of 1 makes terminal
  verdicts frequent. Jobs are never reused: a bound of the model's table, not of
  the code.
* *pause, webhooks*: two tokens give "some exhausted" and "all exhausted"; two
  deliveries give a batch with a remainder to abandon.
* *token pool*: all races in it are between activities about one token; a second
  token only gives a fetch somewhere else to go. Two reports, a load and a
  window are what it takes to apply them out of order. A process loads once in
  the run, and again after a restart; a second load beside fetches, and reports
  that leave something (a limit above 1), are beyond it and in the theorems only.
* *cache*: one merge is spoilt by one other writer. Two faults hold as well.
* *keys, accounts*: each race is between two operations, and the third is the one
  that profits from it (the login after the reset, the second rotation). Hours
  and days of a few minutes put every boundary inside the horizon.
* *restore*: two overlapping requests, of which one may restore the old table
  set, and a retention that bites. Pinning a, the child, lets the exchange stop
  before b or after it, and a drop be refused.

Crashes and failures are bounded because each only restarts what was possible
before; liveness holds *after* the last of them. Type invariants proved in
section 4 are not checked again by the runs of `RefreshQueue`, `SchedulerPause`,
`WebhookDelivery` and `CacheStore`. Symmetry is used with invariants and properties `[][A]_v`
only, never with liveness. `CHECK_DEADLOCK FALSE` appears where the system may
really stop: after `stop()` with nothing in flight, when every row that can be
inserted is settled, and where each operation runs once and all are over.

Three runs are expected to fail. Each checks a sentence the repository states
and finds the code doing otherwise:

| Run | Stated | What the trace shows |
| --- | --- | --- |
| `queue_stuck` (`StuckJobReclaimed`) | `lib/scheduler/tick.ts:155`: the scheduler "will reclaim it" via its lease | the claim selects only `pending`; the expired lease of an `in_progress` job is never looked at |
| `webhook_failed` (`FailedIsRetried`) | `lib/webhooks/db.ts:172`: failed means "will retry" | the claim selects only `pending`; a failed row is never sent again |
| `restore_source` (`SourceKept`) | `lib/database/restore.ts:142`: the snapshot bypasses the trim "so the file is guaranteed to survive even if the user has BACKUP_KEEP_N=1" | the snapshot calls `createBackup`, which trims: a lone restore deletes the backup it is about to import |

### Fairness

* `RefreshQueue`: weak fairness of the tick (an interval), of each call's next
  step (an await resolves: fetches and statements have timeouts), of the enqueue
  a lookup has begun, and of time. None of callers, admins, failures or of what
  GitHub answers. `PendingIsClaimed` says "unless another job at least as urgent
  waits", because arrivals may starve a job for ever, and it speaks of ticks that
  claim: a paused scheduler claims nothing (automatic pauses end:
  `SleepEnds`). `HeldJobSettles` asks that the call is not killed.
* `SchedulerPause`: weak fairness of the armed timer alone.
* `WebhookDelivery`: weak fairness of the claim, of each tick's next step (a
  POST is aborted after ten seconds) and of the back-off passing.
* `CacheStore`: weak fairness of each job's progress, and strong fairness of
  starting core jobs, since every sweep queues one for a row that has aged; the
  slots for jobs free up again and again but need not stay free.
* The others state safety only, and assume no fairness.

## 4. Proofs

All theorems hold for every value of the constants that satisfies the named
assumption of the module (`QueueAssumption`, `PauseAssumption`,
`PoolAssumption`, `CacheStoreAssumption`, `WebhookAssumption`, `KeysAssumption`,
`AccountsAssumption`, `RestoreAssumption`), which TLC evaluates in every run.
Some leaves carry a longer time limit, so that they also pass on a busy machine.

**Queue** (`RefreshQueueProofs`). `TypeCorrect` and `LeaseIsClaim` are inductive
by themselves, one step per action. `SingleOwner` is not: nothing in it keeps
two calls from being given one job, or says what an idle call holds. The
strengthening `HoldersCorrect` adds that idle calls hold nothing and busy ones
hold a job; with `LeaseMarksClaim`, an untouched job that somebody holds cannot
be eligible, so a claim cannot hand it out twice. `VerdictsAreFinal` follows,
as the writers of an untouched job are exactly its holder. `DedupCorrect` needs
that a job with `attempts = 0` has never been claimed
(`CountingCorrect`: holders of a job have counted their claim), so that the only
way to a fresh pending lookup job is the enqueue that saw none.
`RowAndVerdictsAgree` needs to know who can still bring a row back: a call that
works on a core job which was not over when the 404 was recorded (`past`), and
that a stored row goes only with a failed job. It holds with the key and without.

**Refinement** (`RefreshQueueProofs`, its last part). With `status` and `holders` read off
`jobs` and `holds`, `QueueImplementsLedger` maps `Init` to the ledger's and each
action to a ledger step or a stutter: inserts to `Insert`, the tick to
`HandOut`, verdicts to `Write`, abandoned calls to `Return`, `Restart` to
`Forget`.

**Scheduler** (`SchedulerPauseProofs`). `AsleepOnlyWithAlarm` and `PauseHasOwner`
are inductive only together with `AlarmIsAutoPause` (the timer is armed exactly
during an automatic pause): without it, the wake-up branch of `runTick` could
disarm an alarm that somebody still sleeps on.

**Token pool** (`TokenPoolProofs`). All rests on `Typed`, which adds to `TypeOK`
the listing, the history and that whoever works on a token has one, and each
property has an invariant of its own on top of it:

* `SpentIsSpent` says nothing of the quotas on their way: in a report, in the
  listing of a load, in an admin's request, in a write or kept for one. `Books`
  says all of them are *honest*: none names a window ahead of GitHub's, and one
  that says "nothing left in this window" is true. `StillHonest` shows that
  GitHub serving a request, or a window passing, cannot make an honest one lie;
  `Sources` that a step only copies quotas it had or takes GitHub's word.
* `PoolFollowsRows` speaks of tokens at rest. `ApartInv` says what holds of the
  others: unless two changes of the token crossed, one request or one automatic
  disabling is under way (`OneChange`) and its half-done work is still there
  (`HalfDone`), and a load reads the row nobody is changing. So whoever finishes
  finds what he left, and the token is at rest as promised.
* `CleanIsSaved` needs to know what the write under way carries: `Carried`, the
  entry's value, unless the entry was replaced or overtaken.
* `RotatesAway` follows from `HeldBack`: what a fetch found spent is out of the
  pool or exhausted by the entry's own window, so it is no candidate.

**Webhooks** (`WebhookDeliveryProofs`). `SettledForEver` needs to know who can
still write a settled row: a tick that read it while it was pending. So the
strengthening says that the claim's queue lists pending rows once each
(`Queued`), that a batch holds a row once (`HeldOnce`), that a row in two batches
is recorded as shared (`HeldShared`), and that a row in one batch alone, which no
admin retried, is still pending (`HeldPending`). `DeadLettersDisable` is proved
for ticks in the middle of their two writes as well.

**Cache** (`CacheStoreProofs`). `CopiesAgree` is inductive with `Held`, which
says what a writer's base copy of the JSON is worth: unless another writer has
replaced the JSON since, it equals the stored one.

**Keys** (`ApiKeysProofs`). `RevokedForEver` needs that no operation past its
check will write a dead key (`DeadInv`); `ShownWorks` that a row that is active between
its two writes was approved early (`PatchInv`); `OneRequestWaits` that an open
check excludes a waiting request unless two were stacked (`OneAsked`). `RotationsApart` rests on an order
of events: every rotation goes through check, swap and audit (`RotationSteps`),
its audit row is not older than the swap (`AuditLater`), and a check that passes
has seen the rows of all rotations that did not race (`OneAudited`, `AuditSeen`),
whence the day between any two (`DayApart`). `LimitsAreKept` counts: the row of a
window that no other start has taken over holds at least as many as were let in,
and a window that never had the row has let nobody in (`Counted`). So the count a
verdict compares with the limit covers all before it. The sets counted are finite
because each step adds one request; no finiteness of the operations is assumed.

**Accounts** (`AccountsProofs`). `DeletedForEver` holds because a session's name
is new when it is created (`Fresh`). `ResetEndsSessions` follows the password a
login verified to the session it opens (`Logins`, `VerifiedInv`) and separates it
from those already replaced (`NotYet`, `PresentNotOutdated`). `AnAdminRemains`
rests on `Disabling`: whoever disables is an admin and disables somebody else,
so he himself is left unless he has been disabled since his check (`crossed`).
`BlocksLast` is an action property: before the end of the window an attempt
leaves the throttle of a blocked address as it is, and no other step resets it.

**Restore** (`DatabaseRestoreProofs`). `NoTableLost` and `Undoable` are inductive
together with the types: one RENAME puts the shadow copy where it takes the live
one away, and a rollback name carries its restore's own suffix, so no other
restore's drop can hit it; a restore that ended half-way (`Halfway`) touches its
copies no more.

For a *calm* restore (no other request overlapped it, no statement failed, no
file went under it) `CalmInv` follows it to its end. `Alone` says that nobody
else is active, `Kinds` that only a restore goes past the trim, `Listings` that
its dump is listed once, `Snapshots` that the dump is the newest file when the
trim is worked out and so not among the doomed (this is where retention could
bite: at least one file is kept), `Unswapped` that no rollback name of its is in
use before its first RENAME, so that only a pinned table can refuse it, and
`Exchanges` which tables have arrived at each step. From it follow `HalfwayOnlyIfPinned`,
`SnapshotStays` and `SuccessIsComplete`. `Countable` keeps the tables of every
schema finite, because the code compares their *number*; that the release's
tables are finite is part of `RestoreAssumption`.

Model-checked only: liveness (`PendingIsClaimed`, `HeldJobSettles`, `SleepEnds`,
`PendingIsProcessed`, `CoreSettles`), since fairness and `ENABLED` are beyond the
prover, and the three runs that refute a sentence, which need a trace and no
proof. Every other property of a run is the statement of a theorem.

## 5. Observations without a run

Met while modelling, and true of the code as read:

* `refresh-jobs/[id]/cancel/route.ts:15-16` says a terminal job "stays there"; a
  call that holds a cancelled job still writes `done` by id
  (`lib/jobs/refresh-one.ts:262`). `TerminalStays` exempts touched jobs.
* `refresh-one.ts:439-441` deletes the row on 404 "so the cache stays clean";
  with the key of the set-up schema (`lib/db/init-schema.ts:229`, RESTRICT) a
  second job pointing at the row blocks the transaction: the row stays, no marker
  is written, and the job is tried again (`NotFoundFallback`), for as long as the
  other job points there. `RowMatchesVerdicts` says that row and marker still
  never contradict each other.
* `tick.ts:82` says manual pauses "are never auto-resumed"; the timer
  (`tick.ts:39`) lifts a manual pause made during an automatic one.
* The settings page calls the threshold "Consecutive 429s"; `recordUsage`
  (`lib/github/pool.ts:199-203`) counts successful answers with nothing left too.
* Facet fetches never report a spent token, so `RotatesAway` is about core ones.
* When a list call of a core fetch fails, the empty list is stored
  (`lib/github/client.ts:122-133`), and later 304s keep it, since "the caller
  already has them" (`client.ts:384-389`).
* For a list job a 304 is thrown by Octokit, so the branch at
  `refresh-one.ts:114` that bumps the timestamp is not reached and the job is
  tried again every 30 s.
* A core refresh overwrites the lists but leaves their ETags.
* The plaintext stored by a rotation (`rotate.ts:137-138`) is replaced at
  approval, which generates another (`workflow.ts:84-95`). A rotation ignores the
  one-pending rule and resets the limits to the schema's default.
* The minute and the hourly route count in one bucket row, so each start of one
  discards the other's count; `LimitHolds` exempts those windows.
* `attempts` is counted by the claim and again by the error handler
  (`lease.ts:69`), so the threshold of 5 is met after three tries.
* Sweeps insert jobs for rows that already have one; an empty pool makes ticks
  work without pausing; `stop()` leaves the resume timer.
* Tables with a rollback suffix left by a failed restore count as live tables, so
  later restores are refused for a count mismatch; a refused upload stays in `BACKUP_DIR` and counts for
  retention.

## 6. Not modelled

`PROJECT.json` lists every component with its reason. Most of the repository's
lines are pages, forms, translations, reports, set-up and release scripts, and
tests: they render or run once, share no state with concurrent activities, and
have no protocol to check. The protocol code is the smaller part, and that is
what the modules cover. Of the rest:

* Import: one synchronous look at a map makes an apply single-flight within the
  process, and each table is one INSERT IGNORE, so repeats after a failure are
  harmless. A second caller with other tables gets the first one's result.
* Crons: a query, a mail and a log row; no retry and nothing shared.
* The login throttle lives in memory: a restart of the process forgets every
  block. `BlockStays` is about requests, and `Accounts` has no restart.
* `requestKey` of `workflow.ts`, `mutex.ts` of the import and
  `consumeInvitation` have no caller; revealing a key only reads.
* Migrations are handed to the Prisma CLI.
* Signing, the event filter, hashing, cookies, CSRF tokens, formatting, ETA and
  parsing are functions without state.
* Several processes sharing the database (the code documents one scheduler),
  module state duplicated by the bundler, and clocks that jump.

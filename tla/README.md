# Stock Analysis Project: TLA+ specifications

TLA+ models of the concurrent and stateful parts of the portfolio dashboard (a FastAPI
application on SQLite with APScheduler background jobs), the TLC configurations that check
them on small instances, and TLAPS proofs of what matters most. Paths are relative to the
source repository's root.

Contents: [1. The system](#1-the-system) · [2. Modules](#2-modules) ·
[3. What is checked](#3-what-is-checked) · [4. What is proved](#4-what-is-proved) ·
[5. Disagreements between code and documents](#5-disagreements-between-code-and-documents) ·
[6. Abstractions and limits](#6-abstractions-and-limits) · [7. Plan](#7-plan)

## 1. The system

One process runs everything. Request handlers are plain functions that FastAPI runs in a
threadpool, so two requests are two threads; scheduled jobs run in APScheduler's executor
threads; some handlers start a job as a background task of a request. Components share state
in three ways: SQLite (each function of `db_*.py` opens a connection and is one transaction),
files replaced atomically (`os.replace`), and module globals, mostly under a lock of their
module. Nearly every hard behaviour of the system is a *check in one transaction or lock
section and an act in another*.

At startup `main.py` brings the database up to date, starts the scheduler, registers the jobs
(`reload_scheduler`), starts the model compatibility guard, and resumes interrupted scans.
Saving the settings runs `reload_scheduler` again while jobs are running.

### Components

| Component (main files) | State | Hard behaviours | Correct when | Modules |
|---|---|---|---|---|
| Model compatibility and retraining queue (`model_compatibility_engine.py`, `scheduler_engine.py` 130-205) | reported families, queue, current family, APScheduler's jobs | decisions under a lock used after it, completion events, settings saves, misfires | a report is queued once, families train in order and one at a time, the queue never stops | `ModelRetraining`, `SerialQueue` |
| Price repair and daily history (`price_repair_engine.py`, `daily_history_writer.py`) | price file, registry of repairs, two tables | four stores without a common transaction, a lock only one side takes, rollback, crash | file, registry and rows agree; a refresh keeps corrections and bars | `PriceRepair` |
| MCP remote access (`mcp_server/oauth.py`, `db_mcp_oauth.py`) | pairing window, requests, grants, tokens; a token cache and a generation | a read cached after a revocation, replayed codes and tokens, Revoke All within an exchange | a revoked connection stops at once, a code or refresh token works once, no live grant without approval | `McpTokenCache`, `McpGrants` |
| MCP keys, limits, audit (`mcp_server/keys.py`, `limits.py`, `audit.py`) | key rows and their cached hashes, counters, the audit queue | the cache's reload against a deletion, counters swept and full, a writer behind | a deleted key is refused at once, limits hold, every row is counted | `McpKeys`, `McpLimits`, `McpAudit` |
| Scheduling and job tracking (`scheduler_engine.py`, `scheduler_jobs.py`) | running counters, labels, job history | scheduled, manual and resumed runs of a job, failures of several forms, a restore that waits for them | the counter is exact, a restore sees who works, told failures are recorded | `JobRuns`, `JobTable` |
| Resumable scans (`quant_engine.py`, `risk_engine.py`, `ml_backfill_engine.py`, `universe_deep_sync_engine.py`, `resume_interrupted_scans`) | one progress row per day and type | crashes within a list, midnight, two runs on one row, a list collected anew by every run, stages in order | COMPLETED means every ticker its runs' lists share, stages are marked in order, what was begun is finished | `ResumableScans` |
| UK Treasury Bills (`treasury_bill_engine.py`, `db_accounts.py`) | bills and their ledger rows | operations of several transactions, overlapping sweeps, failures half way | a bill is paid out once, ledger and bills reconcile | `TreasuryBills` |
| Account ledger, transfers, top-ups, reminders, value history (`accounts_engine.py`, `account_reminders_engine.py`) | ledger rows, pending rows, daily values | the same, and a history computed in the background | transfers are whole, a decision is final, books balance, history and ledger agree | `AccountPostings`, `AccountLedger`, `ValueHistory` |
| Cached snapshots (`cache_refresh_helpers.py`, `portfolio_metrics_engine.py`) | pending refreshes, one kept answer and its key | cancellation against a worker that starts, a recompute overtaken by a write | one refresh per key, callers are served, a ledger write shows at once | `CacheRefresh`, `SingleFlight`, `PortfolioTotals` |
| Notifications to Nextcloud Talk (`notification_engine.py`) | retry queue | messages outside the queue while they are sent | nothing is lost, retries are spaced and bounded | `TalkRetry` |
| Intraday alert gate (`intraday_orchestrator.py`) | one row per condition | a row's life over many scans, pruning | an alert is news | `AlertGate` |
| Strategy backtests (`strategy_backtest_runs.py`) | run rows and folders | a run declared interrupted while it works, deletion, restarts | a run ends, rows and folders belong together | `BacktestRuns` |
| Stable shortlist (`stable_shortlist_engine.py`) | weekly snapshots | caps, holding time and swaps over several weeks | caps hold, changes are small, no allowed swap is missed | `StableShortlist` |
| Backup and restore (`backup_engine.py`) | archives, hashes in the database that the archive holds | a restore that replaces its own record, crashes, overlap | only what was verified is applied, hashes are carried forward | `BackupRestore` |
| Login, sessions, password reset (`auth.py`, `api_routes_auth.py`) | epoch and secret in `.env` and environment, lockout, links | two stores, `.env` rewritten whole without a lock, requests that overlap, restarts | signed out stays out, a link sets one password | `SignIns` |
| Settings file (`config.py`) | `config.json`, its cache | saves of several threads through one temporary file | no save is lost while they do not overlap | `SettingsFile` |
| Database start-up (`db_schema.py`) | the schema | DDL and transactions, crashes between statements | a clean start leaves the current schema and all rows | `SchemaBoot` |
| Yahoo access (`yahoo_engine.py`, `tools/network_engine.py`) | a process-wide session, its lock, a pause, a latch | a lock given up in the middle of a retry | one caller at the session, none in a pause | `YahooAccess` |
| Learning cards (`glossary_learn_engine.py`) | boxes, due days | orders over days, two answers at once | what is due is shown, oldest first; a level stays open | `LearnCards` |
| Model training, signal engines, risk analytics, macro and AI engines, imports | rows and files they write | numerical, external | - | only their scans, in `ResumableScans` |
| Routes, pages, front end, tests | none of their own | rendering | - | not modelled |

Interactions the models rely on: the retraining queue lives inside APScheduler's job store that
`reload_scheduler` rewrites; `PriceRepair`'s file is rewritten by every refresh job; the maturity
sweep is a scheduled job *and* a manual trigger, and `_run_tracked_job` (`scheduler_engine.py`
251-299) skips only a manual run while another run is active, so two sweeps can overlap; all
account components post through the same ledger functions; `McpGrants` writes the rows that
`McpTokenCache` caches; `PortfolioTotals` asks the coordinator of `CacheRefresh` for its
recomputation; a restore (`BackupRestore`) waits for the labels of `JobRuns`.

## 2. Modules

Every model has one action per lock section, transaction, file replacement or external call.
Between two of them any other thread may act. A mutex section is one action; a value computed in
a section and used after it is a local of the thread. Each module's header says what it
abstracts; `PROJECT.json` maps its definitions to lines.

- **`ModelRetraining`**: `reported`, `pendingReports`, `callback` are
  `model_compatibility_engine`'s globals; `queue`, `queued`, `current` those of
  `scheduler_engine`; `jobs` is APScheduler's store reduced to the kind of a job and what its
  next run time means. A thread's `pc` follows `queue_model_retraining` and
  `_dispatch_next_model_retraining`. `Misfire`, `ReloadScheduler`/`ReloadAdd` and the regular
  firing are the disturbances. **`SerialQueue`** is the docstring of `queue_model_retraining`
  ("Queue an affected training job once and run model families sequentially") as a
  specification; `SerialSpec` is the refinement.
- **`PriceRepair`**: one ticker; the Parquet file, the registry, the closes of `quant_signals` and
  `score_history`. An operation is one Check and one request with its rollback and a failure at
  each call; a refresh downloads, applies saved repairs, merges, writes - without the lock.
- **`McpTokenCache`**: `verify_access_token` step by step (lookups and stores under `_lock`, the
  read of the row outside, `_generation` compared at the end) against everything that ends or renews
  a connection as *commit, then `invalidate`*. **`McpGrants`**: the life of a connection, one
  action per database function: begin, approve, claim, exchange, refresh, Revoke All, new client.
- **`McpKeys`**: creation, deletion and matching of keys over the rows and the cached hashes, with
  the lock that a reload holds. **`McpLimits`**: lockout, rate, slots and notices with their
  dictionaries' sweeps and caps. **`McpAudit`**: cap per minute, summary row, bounded queue, writer.
- **`JobTable`** lists every job: which label its body marks, how it can fail, who may start it.
  **`JobRuns`** runs them: `_run_tracked_job`'s counter, error context and history, labels of
  `active_job`, and the restore's pause, wait and resume. A body ends well, with an exception that has
  a text, one that has none (`blank`: a bare `TimeoutError`), with what is not an `Exception`
  (`exits`), by reporting an error, or hiding it; `Alarm` is an error reported by a body that goes on.
  The history goes by whether `error_detail` is empty (`scheduler_engine.py` 268-272).
- **`ResumableScans`**: a job is the sequence of calls it makes; a call looks for its row, inserts
  or resumes it, works through its list, completes it. The list is collected by every run for itself
  (`Collects`), a resumed one too: the feature backfill draws 500 tickers at random each time
  (`ml_backfill_engine.py` 61). The constants are therefore sets of lists, and the saved ticker of a
  row is looked up in whatever list the next run has. The deep sync's stages are gated and marked.
  `Crash`, `Restart`, `Resume`, `Midnight` and `Fail` come at any moment.
- **`TreasuryBills`**, **`AccountPostings`**: purchases, sweeps, edits, deletions, transfers and
  confirmations, transaction by transaction, with failing calls and crashes. **`AccountLedger`**:
  cash, contributions, average cost and realised gains as functions of the transactions, against
  the equations they must satisfy; each loop over the transactions is a recursive function, one step
  per transaction. **`ValueHistory`**: an edit and the background task that
  rewrites the days after it.
- **`CacheRefresh`**: `request_refresh`, `submit` and the two pools; **`SingleFlight`** is what it
  promises (an accepted refresh is carried out once). **`PortfolioTotals`**: the kept answer, its
  key, the recomputation and refresh-now.
- **`StableShortlist`**: a week is one step whose three loops (carry, fill, swap) are recursive
  functions over the ranking; the property judges the result without them: who had to go, which free
  place could have been filled, which swap would have been allowed.
- **`SignIns`**: password checks with their lockout, reset links, and the sign-outs. `set_key` of
  python-dotenv is two steps, as it is there: the whole `.env` is read, and later a copy with one value
  changed replaces it, without a lock. Every writer of `.env` is a thread that holds such a copy: the two
  of `_store_new_password` (hash, blank password), the epoch, the secret, and any other setting (`Save`).
- **`TalkRetry`**, **`AlertGate`**, **`BacktestRuns`**, **`BackupRestore`**, **`SettingsFile`**,
  **`SchemaBoot`**, **`YahooAccess`**, **`LearnCards`**: one service each, from the file named in the table.

Definitions commented "Variant" are plausible bugs of the definition they precede (a dropped
guard, a missing reset, a swapped order); no specification uses them. Substituting one must break
the property it is paired with in `PROJECT.json`, which shows that the property depends on that
line of the code.

### The MC modules

`MC<Module>` extends a module with what its instance needs. Services that share nothing are
checked in one run: `MCServicesKept`, `MCServicesSettle`, `MCServicesRules` and
`MCServicesOutside` instantiate several modules with disjoint variables, and a variable `focus`,
chosen at the start and never changed, says which of them takes steps in this behaviour. The
reachable states are the union of those of the instances, and each property is a conjunction of
the module's own, guarded by its focus.

## 3. What is checked

`tlc -config <cfg> <module>`. All runs set `CHECK_DEADLOCK FALSE` except `cache_revocation`: the
models stop when every bounded input has been used and nobody asks for anything, as the program
does.

| Run (module) | Instance | Shows |
|---|---|---|
| `retraining_disturbed` (`ModelRetraining`) | 3 families (2 with a runner and a recurring job), 2 threads, 1 save, 1 regular firing, 1 misfire | `ReportsAccounted`, `NoLostWakeup`, `OneFamilyUndisturbed`; refinement of `SerialQueue`; `TurnsComeAndGo` under fairness |
| `repair_prevails` (`PriceRepair`) | 2 operations of either kind among refreshes, a failure, a crash, 3 dates | `RepairsPrevail` under fairness |
| `cache_revocation` (`MCMcpTokenCache`) | 1 verification, 2 workers, 2 grants (one with 2 tokens), a cache of 1 entry, generations below 2 for a start | `AcceptedIsCurrent`, `CacheFollowsGrants` |
| `grants_lifecycle` (`MCMcpGrants`) | 2 handlers, 2 requests, 2 grants, 2 refresh tokens, 2 resets, 1 crash | `GrantsHold` |
| `bills_paid` (`TreasuryBills`) | 2 bills, 1 request, 1 sweep, a failing call and a crash | `DuePaid` under fairness |
| `bills_twice` (`TreasuryBills`) | 1 bill, 2 sweeps | violated: `PaidOutOnce` (section 5) |
| `jobs_tracked` (`MCJobRuns`) | every job of the table; 1 scheduled, 2 manual, 1 resumed run; 1 restore (2 for the overnight scan) | `RunsAreTracked`, `RestoresAreSafe`, `FailuresRecorded` |
| `scans_finished` (`MCResumableScans`) | ten scopes: each resumable job once or twice, lists of 2 tickers (the backfill draws one of ABC and BC), up to 2 days, a crash, a failure | `CompleteMeansAll`, `StagesOrderedApart`, `BegunIsFinished` under fairness |
| `services_kept` (`MCServicesKept`) | alert gate (6 kinds), 2 backups and a restore, 2 Talk messages, totals, 2 savers of settings, 2 ledger entries over 3 days | `AlertsAreNews`, `ArchivesVerify`, `MessagesHeld`, `TotalsAreHonest`, `SettingsKept`, `HistoryAgrees` |
| `services_settle` (`MCServicesSettle`) | Talk, every older form of the database with 2 crashes, 2 backtests, totals | under fairness: `MessagesSettle`, `MigrationFinishes`, `RunsSettle`, `PricesShow` |
| `services_rules` (`MCServicesRules`) | 2 callers and 2 keys with one worker each; 2 operators at an account; 4 ledger rows; 1 bill, 2 requests, 2 sweeps, 3 faces, any call failing once; 3 repairs on 2 dates with a failure; 4 tickers in 2 sectors | `FlightsServed`, `AcceptedIsCarriedOut` (refinement), `ShortlistIsBest`, `BooksBalance`, `PostedWhole`, `BooksAgreeTogether`, `RepairsReplaceOnlyTheirs` |
| `services_outside` (`MCServicesOutside`) | 2 callers of Yahoo; 2 requests with 2 sign-outs, a restart and every writer of `.env`; password attempts; 2 links; keys, limits, audit, 3 cards in 2 levels | `SessionIsShared`, `StaysSignedOut`, `OneResetPerLink`, `KeysHold`, `ThrottlesHold`, `AuditIsComplete`, `SessionsAreFair` |

**Bounds.** The races of this code are between two threads over one object, so two threads per
kind and one or two objects show them; a third family makes "the next in the queue" different
from "the one that reported", three dates let a refresh cover part of a history, a cache of one
entry evicts on the second insertion, and one failure or crash is what each rollback is written
for (the migration gets two: the second one hits what the first one left). The constants named
`Max...` bound inputs of the environment - saves, failures, crashes, resets, days, price changes -
and never a step the program has begun. `MaxGeneration` bounds when a revocation may start.
`Scopes` of `ResumableScans` says which jobs are started in one behaviour: those that share rows.

**Conditions in properties.** Some properties hold only under conditions, and state them: `Reconciled`
and `PostedAsResolved` for operations that do not overlap (`overlapped` records that) and that did not
break off where the code has nothing to take back; `TransfersWhole` for rows not deleted before their
request returned; `RestoresAreSafe` while no two bodies shared a label; `CompleteMeansAll` for the
tickers that the lists of all the runs of a row have in common, on rows on which no two runs whose lists
order these differently, nor two backfills at once, met (`shared`; the lists of holdings, deep sync and
backfill are sorted, that of the universe is in the table's order); `StagesInOrder` and what must be
finished as long as nothing failed; `SettingsKept` and `HistoryAgrees` for saves and tasks that do not
overlap; `StaysSignedOut` for sign-outs that began while no other was under way and no session was ahead
of the epoch in force (overlapping sign-outs can lower it, and a later one then gives out an epoch
again), and across the end of the process for those that replaced `.env` while no other thread was
between reading and replacing it; `FailuresRecorded` for what was told, as the history knows nothing
else; `GrantsHold`'s clause about refreshing for behaviours without a crash between rotation and
insertion. Section 5 says what happens without them.

**Fairness.** Threads that run code are weakly fair: the operating system schedules them.
`ModelRetraining` adds that due jobs fire, runs end and events are delivered (APScheduler's loop);
no fairness for reports, settings saves, regular firings or misfires. `PriceRepair` needs strong
fairness of a request's steps, since `Enter` waits for a lock that others take and release, and of
the download of a whole window, since the nightly job asks for it again whatever shorter answers
come between. `TreasuryBills` adds weak fairness of the sweep, a daily job; `ResumableScans` of
the restart, which the service manager does. `TalkRetry` has no timer: its queue is served by the
next `notify`, and liveness needs that notifications keep coming (strong fairness of a notify
outside quiet hours). `PortfolioTotals` needs a poller and `BacktestRuns` somebody who looks at
the runs, both of which the pages do.

## 4. What is proved

For every value of the constants, from the named assumptions of each module only (the elements of
sets are distinct from the null values, bounds are naturals, lists name known tickers once, sets
whose members are counted are finite). Each proof module has an inductive invariant, checked by
TLC on the run's instance before it was proved.

| Module | Theorems |
|---|---|
| `ModelRetraining_proofs` | `TypeCorrect`, `QueuedIsQueueHolds`, `ReportsAccountedHolds`, `NoLostWakeupHolds`, `CurrentIsDrivenHolds`, `OneFamilyUndisturbedHolds`, `RetrainingIsSerial` (the refinement of `SerialQueue`) |
| `McpTokenCache_proofs` | `TypeCorrect`, `AcceptedIsCurrentHolds`, `CacheFollowsGrantsHolds`, `CacheBoundedHolds` |
| `McpGrants_proofs` | `GrantsHoldAlways` |
| `JobRuns_proofs` | `RunsAreTrackedHolds`, `RestoresAreSafeHolds`, `FailuresRecordedHolds` |
| `ResumableScans_proofs` | `CompleteMeansAllHolds`, `StagesOrderedApartHolds` |
| `MCServicesRules_proofs` | `FlightsServedAlways`, `AcceptedIsCarriedOutAlways` (of `CacheRefresh`, the refinement of `SingleFlight`), `PostedWholeHolds` (`AccountPostings`), `BooksAgreeTogetherHolds` (`TreasuryBills`), `RepairsReplaceOnlyTheirsHolds` (`PriceRepair`), `BooksBalanceAlways` (`AccountLedger`), `ShortlistIsBestAlways` (`StableShortlist`) |
| `MCServicesKept_proofs` | `TotalsAreHonestHolds` (of `PortfolioTotals`), `SettingsKeptHolds` (`SettingsFile`), `HistoryAgreesHolds` (`ValueHistory`), `ArchivesVerifyHolds` (`BackupRestore`), `AlertsAreNewsHolds` (`AlertGate`), `MessagesHeldHolds` (`TalkRetry`) |
| `MCServicesOutside_proofs` | `KeysHoldAlways` (of `McpKeys`), `StaysSignedOutHolds` and `OneResetPerLinkHolds` (`SignIns`), `SessionIsSharedHolds` (`YahooAccess`), `AuditIsCompleteAlways` (`McpAudit`), `ThrottlesHoldHolds` (`McpLimits`), `SessionsAreFairHolds` (`LearnCards`) |

**The arguments.**

- *ModelRetraining.* The queue holds no family twice, the family in turn was served (otherwise it
  could be reported and queued again), an idle thread carries no report, a thread in the dispatcher
  has a family in hand, and `Ledger` reads `ReportsAccounted` family by family so that each step
  moves one family from one place to another. `OneFamilyUndisturbed` needs `OneDriver`: as long as
  nothing was saved and no regular schedule fired, at most one of these exists - a thread in the
  dispatcher, a job due soon, a run in progress, a completion event not yet delivered - and it is
  that of the family in turn; every step hands the turn from one of them to the next. The refinement
  maps `Enqueue` to `Arrive`, `Pick` to `TakeTurn`, `FinishModelRetraining` and `SkipUnregistered`
  to `EndTurn`, everything else to a stutter.
- *McpTokenCache.* The generation argument. A verification about to store a row either has seen an
  older generation, and will start over, or: its grant is live or the request that revoked it is
  still to invalidate (`PendingCoversRead`), and no revocation of its grant has returned since
  (`SettledAreDropped`).
- *McpGrants.* Two arguments that hardly touch. Of requests: a handler that redeems a code has used
  it up or the request is gone for good, and what is approved was approved since the last reset. Of
  tokens: every grant that was made has one usable token or one handler about to add it, never two;
  a grant not made yet has neither.
- *McpKeys.* A load holds the lock from its reading to its keeping, and whoever changed a row needs
  it before the user is told: while a load is under way neither the shown nor the deleted keys grow.
- *JobRuns.* The counter needs the set it counts to be finite and every run to enter and leave it
  once; the labels need one marked body at a time while nothing overlapped; every restore at
  `pause` remembers that it has to resume; the error context is empty until a failure with a text or an
  alarm, a failure without one empties it, and nothing touches it between the body and the record
  (`DetailFollows`).
- *ResumableScans.* Of the tickers that all the lists of a row's runs hold (`InAll`; each further run
  makes them fewer), a row is honest (`Honest`: every one of them up to its last ticker was worked on
  since it was inserted, every one when it is completed) and a thread that works on a row stands no
  further than that row's work allows (`Joined`). That the saved ticker means the same place in every
  list is `Agree`: what two lists share they have in the same order. For the backfill, whose completion
  writes all unfinished rows of any day, the row must also be the only unfinished one and its thread the
  only one at it, unless the row is marked as shared. The stages: while nothing failed, a deep sync at a
  stage finds the marks of those before it on the day it began, and marks are never taken back. The
  resumed threads: each runs the job it is named for, only after the restart has read the table, and the
  conditions that start the tail risks alone exclude those that start their scan.
- *CacheRefresh.* Whatever is queued or runs is the pending future of its key; a key counts as
  awaited exactly while that future is in the pool of the callers that wait; a key that backs off
  has no background refresh in the queue. The limit is an injection of the background futures into
  the backlog.
- *AccountPostings.* While nothing has broken off a transfer is in one of five states (`Unbroken`): not
  made, its first row there and its maker at work, undone, both rows there and its maker about to link
  them, or a pair whose threads all delete it; of a pair with one live row, a thread is about to delete
  that row (`Follows`). While operations take turns, a thread that decides an occurrence finds it
  pending, and one about to resolve it names the only row posted for it (`Settled`). A step is argued
  about for its own subject; it leaves every other subject untouched (`OthersUnbroken`, `OthersSettled`).
- *TreasuryBills.* Three facts hold however operations overlap: a payout that is not marked yet is named
  by nobody but the sweep that posted it (`Claimed`), a bill in the making is in one hand (`InOneHand`),
  and a matured bill's payout is live or the bill is with a deletion, unless one broke off at its last
  step (`PaidOrRemoved`). While operations take turns and nothing failed where the code takes nothing
  back, the thread at work fixes, by its place, what is live of its bill (`AtStage`), and every other
  bill has exactly the rows it names (`Booked`). The theorem is of the instance without a process end;
  calls of every kind may fail.
- *PriceRepair.* Only the holder of `_repair_lock` writes, so its locals tell how far registry, file and
  scores are apart (`RegistryHeld`, `HistoryHeld`): before its registry is written they agree, then by
  its own bar, and by its place it knows what to take back. That the file also agrees needs that
  it replaced the history it had read: the three reads before the lock may each have seen another one,
  and both fingerprint checks pass (`mixed`, section 5). The theorem is of the instance with repairs
  only: with removals or refreshes the file can disagree (section 5), which the next refresh heals.
- *PortfolioTotals.* The revision is read before the ledger: who holds totals under a revision has
  read the ledger no earlier than anyone who read the same revision learned of a write (`Covers`).
  Ages are honest because the clock is started before the prices are read.
- *SettingsFile.* A signature that fits names a file that was not written to since it was taken; such
  a file is not `config.tmp` (`SignHolds`), so it is `config.json` with what was read from it, or was
  replaced and never comes back under that signature (`SignTells`). A save that meets no other starts
  from what was saved last and puts the whole of it in place (`OneSave`); saves are numbered, so that
  an older one cannot be taken for a newer one.
- *ValueHistory.* As long as a day is good or a task runs alone, every task that writes has read the
  ledger as it is (`TasksFresh`): an edit makes no day good, and a task alone loses that when another one
  begins. So a good day is rewritten only with what it already agrees with (`GoodStays`), and the days
  a task alone has passed are good when it ends (`PastIsGood`). That the first day of the ledger exists
  is the well-founded order of the naturals.
- *BackupRestore.* Of the archives on the disk, those that neither verify nor belong to a backup at work
  are no more than the crashes and failures that left them (`OneIsKept`). So whoever prunes finds, ahead
  of the newest archive that verifies, at most these and the other backups' archives: fewer than the
  retention, and the newest stays (`NewestStays`). A backup that has hashed its archive sees it, or one
  that verifies, until it has recorded it. A restore carries the rows there were past its swap
  (`RowsStay`); its copy was hashed once, and without the operator's trust a hash is only ever that of
  what a backup wrote (`DamageStaysOut`), in the history as in every history within an archive. The
  theorem is of the instance whose backups and restores do not overlap (`Together` is FALSE); section 5
  says what is different when they do.
- *AlertGate.* With one scan at a time, a row tells what was told last whenever the scan is not between
  sending and stamping (`RowTells`), unless a stamp was lost that no repeated alert has paid for yet
  (`TellsOrLost`); so what the gate lets through is news, or is paid for by a lost stamp (`LetThrough`),
  and what it holds back is not. The daily gate goes by counts: of today's alerts, those without a stamp
  are no more than the lost stamps, and neither are the repeats, each of which is beyond the limit
  (`DayCounts`). The row is dated by every answer of the gate (`DayIsKept`), which makes pruning right.
- *TalkRetry.* A message is moved between the queue and one thread's hand, never copied, because the
  queue is split in one pass under the lock (`Moved`); what the pass selects is found by induction over
  the queue (`ThoseOnly`, see below). A message in the queue was tried once more than it was queued again,
  the one a thread has just failed with twice more (`Fit`), so the count its entry carries bounds the calls;
  what a thread sends again has rested, and nothing sets that back while it is in hand (`FitKept`).
- *McpLimits.* Whatever still counts - of a key's calls within the minute, of an address' wrong
  credentials within the window - is in the tables in the order it happened, as far as the table has not
  forgotten the name (`TimesFit`); and so is every lockout and every notice whose time is not over
  (`HeldFit`). A sweep takes away only entries whose last time does not count any more, hence none of
  their times does (`NothingCounts`); what was selected for a longer time is selected again for a shorter
  one (`ThoseOfThose`), so it does not matter when a table is swept or a list is thinned.
- *LearnCards.* What is sorted is stated by rank: the n-th of a list is the member that n - 1 go before.
  Ranks differ and are below the size of the set, so counting makes them a bijection and the list the
  set in order (`SortedLists`). A session of due and then new cards is the beginning of both lists together
  (`FilledUp`), of which a new card is in only when every due one is (`CutLists`). A card whose answers
  never met is in the hands of one thread, which has read the total that is there (`LearnInv`); and an
  answer only adds to the studied cards of a level, whose number decides what opens (`LevelsOpen`).
- *Loops over data* (`AccountLedger`, `StableShortlist`, `McpAudit`, `TalkRetry`, `McpLimits`). The
  induction theorems of the library take an operator and cannot be cited, so induction is stated of
  sets: a nonempty set of numbers has a least member (`LeastNumber`, from the well-foundedness of finite
  sets under inclusion), hence a set with 0 that is handed on contains all numbers up to a bound
  (`UpTo`), hence a loop of `m` steps has a run (`Recursion`) and the recursive function of the model is
  one (`SumLoop`, `TotalLoop` and their like). *AccountLedger*: one more transaction adds its amount to
  each sum and one step to the loop, and leaves the earlier steps alone; so the equations are an
  invariant of recording. *StableShortlist*: what is carried is what need not go; what is filled leaves
  a place free only where a sector is full or nobody is left; the swaps stop only where no candidate may
  replace the worst member that may go. *McpAudit*: a step moves a number from one place to another -
  the sum over a queue grows and shrinks by the row that joins or leaves it, and what the threads carry
  is a set with one element per recorded row (`OneMoves`), so the threads need not be finitely many.
- *YahooAccess.* A caller is on the session from taking the lock to leaving it, less the pauses of a
  request outside a bulk download; such a call has one request, so its request pauses exactly when the
  call does, and the lock changes hands with it. In plain mode the workers of a bulk download never give
  the lock back. Who is held back by the pause is not past its wait until it is over (`LateIsPast`);
  while an intraday caller is on the session nobody else adds intraday bars, so it asks for what is
  not there (`AsksForNews`).
- *SignIns.* A session from before a sign-out is over for the life of the process: its epoch is behind
  the one in force and every one still to be put in force, or its key is none of these (`EpochIsOver`,
  `SecretIsOver`; both are stable). A sign-out that began alone brings that about: whatever begins after
  it goes no less far (`LeadsOn`), and a new secret has a number no session has (`SecretsAreNew`). For
  what a restart reads the same is shown of `.env` and of every copy of it that a thread is about to put
  in its place (`Copies`; `EpochIsGone`, `SecretIsGone`): it becomes true when a sign-out replaces the
  file while nobody else holds a copy, and stays true because a new copy is one of the file. A wrong
  password recorded while the lock is on takes its request away from those still checking, which bounds
  them. A link whose requests never met is in the hands of one request from look-up to store.

**Only model-checked**, and why:

- liveness (`TurnsComeAndGo`, `RepairsPrevail`, `DuePaid`, `BegunIsFinished`
  and the four of `services_settle`): fairness and ENABLED are beyond the prover;
- the safety conjuncts that `MigrationFinishes` and `RunsSettle` carry beside their liveness (section 7).

## 5. Disagreements between code and documents

`bills_twice` is a listed run with its counterexample: two overlapping sweeps each post the payout
of the same bill (`treasury_bill_engine.py` 153); only the second mark is refused
(`PROJECT.json`, findings).

### Further disagreements

Each was found as a violated property of the named module with a short counterexample. The
properties are kept in the modules where they are named below; naming one as `INVARIANT` or
`PROPERTY` in the module's configuration shows it again.

| Module, property | What happens |
|---|---|
| `ModelRetraining.EveryFamilyRetrains` | `queue_model_retraining` decides under the lock that a family waits and calls `pause_job` after it (`scheduler_engine.py` 193); if the family in turn finishes in between, the late pause cancels the run just scheduled and the queue stops for good. A settings save that removes the run scheduled for the family in turn does the same |
| `ModelRetraining.OneFamilyAtATime` | a settings save re-adds a paused job unpaused; it fires beside the family in turn |
| `ModelRetraining.RecurringSchedulesKept` | a late pause leaves a recurring job paused |
| `PriceRepair.RepairsApplied` | a removal refused under the lock writes back bytes read before it (`price_repair_engine.py` 236) and undoes another removal; a refresh in flight overwrites a repair, until the next refresh |
| `PriceRepair.FileHonoursRepairs` with the lock free | three repairs: the second reads its frame while the bar of the first is in the file, but its fingerprint before or its rollback bytes after; the first fails and is rolled back, both fingerprint checks of the second pass, and it puts the bar that was taken back into the file again (`price_repair_engine.py` 197) |
| `PriceRepair.ReplacesWhatWasShown` | Check's fingerprint belongs to a file it did not show |
| `PriceRepair.QuantFollowsRepairs` | two rebuilds outside the lock, the older one last |
| `PriceRepair.RefreshKeepsBars` | a corrected old date in a short answer defeats the merge decision |
| `McpGrants.PendingBounded`, `ReplayRevokes`, `PendingAskedSince` | two requests counted before either is inserted; a code replayed before the first exchange has its grant revokes nothing; a request checked before Revoke All is inserted after it |
| `TreasuryBills.PayoutIsFace`, `DeletedLeavesNothing` | an edit that read the bill as open is written after the payout; a deletion that read it as open leaves the payout |
| `AccountPostings.PostedOnce`, `DismissedPostsNothing`, `NeverHalfDeleted` | two confirmations both read `pending` and both post (`accounts_engine.py` 1686); a dismissal between posting and resolution; a transfer's first row deleted before it is linked |
| `ResumableScans.BackfillBeforeInference` | after a feature backfill on the same day the deep sync's own backfill fails on the primary key, is swallowed, its stage marked, and the inference runs on targets not backfilled |
| `ResumableScans.WholeListWorked` (`ResumableScans_skipped.cfg`) | a backfill of its own that is resumed (or finds a row left unfinished) draws another random list, begins it after the saved ticker and marks the row COMPLETED: the tickers of its list before that place were worked on by nobody (`ml_backfill_engine.py` 61, 214; against "to prevent data gaps upon unexpected interruptions", `assets/db_schema_and_architecture.md`) |
| `SignIns.NoneComesBack` (`SignIns_back.cfg`) | a request that changes a password, the secret or any other setting has read `.env` when a logout replaces it, and puts the old `SESSION_EPOCH` back with its own copy; the process ends, and the sessions signed out are accepted again (`auth.py` 84, `api_routes_auth.py` 104, 213; against `assets/api_reference.md` 1538 and `templates/settings/_account.html` 176) |
| `JobRuns.AllFailuresRecorded` | a body that ends with an exception without a text, with an exit, or that hides its failure is recorded as a success; a system check that found an issue is recorded as an error though the check itself succeeded (`scheduler_engine.py` 268-272, `scheduler_jobs.py` 1835) |
| `ResumableScans.EveryScanResumed`, `ImportIsScanned` | an interrupted import scan is never resumed; a day's second import finds the first one's row COMPLETED and is not scanned |
| `PortfolioTotals.RefreshNowShows` | a background recompute that started before refresh-now stores its answer after it |
| `SettingsFile.SavedIsKept` | overlapping saves share `config.tmp`: a half file can be put in place, readers then get defaults, and the next save writes defaults back |
| `ValueHistory.ChartFollowsLedger`, `BreakdownMatches` | rows before a new, later first day are never cleaned; overlapping tasks write in the wrong order; rows of a currency no longer held are not deleted (`assets/db_schema_and_architecture.md` 482) |

Seen while modelling, without a property kept for it:

- *Job tracking*: a restore can swap the database under a job that marks no label, or that started
  after it looked; two restores resume the scheduler under each other; a resumed scan is not
  counted, so a manual run of it starts beside it.
- *Alert gate*: a price above its stop does not re-arm the stop alert (the gate is asked only at or
  below it); two overlapping scans send an alert twice; a stored distance of exactly 0 counts as missing.
- *Start-up*: patterns removed by a scan and a watchlist emptied by the user come back with the next
  start; a crash between adding a column and filling it leaves it unfilled; a crash in the rebuild of
  `market_pulse_cache` hides its rows; a failure in that of `smgb_predictions` is never repaired.
- *Backups*: a backup marks no label, and a row it records between a restore's reading of the history
  and its swap is lost. *Backtests*: a run of more than half an hour is marked interrupted while it
  works, and completed later; `request_history_preparation` may leave `_prepare_state` "preparing".
- *Caches*: a background request that joins a running refresh reports "queued"
  (`assets/api_reference.md` 454); `mark_treasury_bill_matured` does not raise the ledger's revision.
- *Yahoo*: in IPv6-only mode the workers of one bulk download each release the singleton lock, so two
  callers can be at the session; their backoff sleeps hold it (against the docstring of
  `_sleep_outside_lock`); a success on a failover session in flight clears the one-time latch;
  `search_by_isin` neither waits for the pause nor takes the lock.
- *Sign-ins*: two concurrent changes may leave different passwords in file and environment; the process
  may end between the new password and the new epoch, leaving old sessions valid; overlapping sign-outs
  may undo each other, and the next one may then give out an epoch that old sessions have; two requests
  that look up one reset link both set a password (`api_routes_auth.py` 367). *MCP keys*: counting and
  inserting race past the limit. *Learning cards*: two concurrent answers lose one review.

## 6. Abstractions and limits

- *Everywhere*: SQLite's transactions and `os.replace` are atomic; names, amounts and bars are
  members of small sets; logging, wording and notifications' content are left out.
- *ModelRetraining*: a due time is "soon" (set by the queue) or "on schedule"; a run that
  APScheduler skips for `max_instances` is lost silently, as there is no listener for it.
- *PriceRepair*: a bar is one value; indicators are not computed, a rebuild writes the closes of its
  frame or none; a refresh always contains the last date or all.
- *McpTokenCache*: eviction may take any entry (the code takes the oldest); a set of expired tokens
  replaces the clock. *McpGrants*: the hourly limit and parameter checks only refuse; expiry of refresh
  tokens is left out.
- *TreasuryBills*, *AccountPostings*: accounts exist; the sweep may process its list in any order;
  valuation and currency conversion are left out, a missing rate is a refusal. *AccountLedger*: one
  currency, whole units, averages as fractions.
- *ResumableScans*: of a ticker the model keeps that it was worked on, not its figures; a part of a job
  that keeps no place in the table is one step.
- *SignIns*: the value of the password and of other settings is left out (that they are written is
  not); the replacement of `.env` is one step, as `os.replace` within a file system is; the console tool
  `reset_admin_password.py`, another process that writes `.env`, is left out.
- *McpKeys*: two names are alike or not, one relation: `create_key` compares them by `casefold`, the table
  by `NOCASE` (ASCII only), so two names that differ in the case of a non-ASCII letter are refused one after
  the other and accepted at once.
- *YahooAccess*: a call has one request per ticker; news and annual financials send several in one
  call, of which the later ones count as past the wait. Gap trackers and API statistics are left out.
- *What instances leave out.* Some hazards are shown in the module and not in a listed run's property:
  manual runs of a training job and settings saves for `OneFamilyUndisturbed`, a family whose event was
  lost for `TurnsComeAndGo` (`robbed`); a crash between rotation and insertion for the clause of
  `GrantsHold` about refreshing; bodies that share a label, a cleared table and labels marked late for
  `RestoreSeesLabels`; a backup that overlaps a restore and crash-left archives for `ArchivesVerify`;
  a failing UPDATE ahead of a rebuild for `MigrationFinishes`; broken-off and overlapping operations for
  `PostedWhole`; a crash for `BooksAgreeTogether`; and three reads of different histories (`mixed`),
  refreshes and crashes for `RepairsReplaceOnlyTheirs`. Where the code then goes wrong, section 5 says so.
- *Not modelled*: numerical engines (models, signals, risk), parsing, external services, rendering.
  They either have no state between calls or compute floating-point results that a model checker cannot
  judge.

## 7. Plan

The modules are written and every safety property of a run is proved except those of section 4's
list. What is left is the safety that `MigrationFinishes` (`SchemaBoot`: a clean start is current, rows
are kept, the schema only grows) and `RunsSettle` (`BacktestRuns`: a completed run has its folder, a run
in progress is kept) carry, for any number of tables, columns, runs and crashes.

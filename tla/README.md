# privacytracker in TLA+

privacytracker keeps the App Store privacy labels and the privacy policies of
the apps a person owns, notices when they change, and imports their history
from the Wayback Machine.  It is a Next.js server over one SQLite file, with a
Rust port of the same server (`core/src/server`) inside a Tauri shell for the
desktop.  What makes it worth a model is its background work: several long
loops that walk durable queues, survive a restart, hold locks that are rows of
`app_settings`, and share their tables with whatever the person does meanwhile.

A module is translated from the code under `src/`; `PROJECT.json` gives, for
every definition, the file and lines it stands for.

## 1. The system

### Concurrency and failure, for every component

* **Server (Node).**  One process, one thread.  SQLite through better-sqlite3
  is synchronous: between two `await`s a handler runs alone, and each `.run()`
  outside a transaction is durable by itself.  A process may die between any
  two writes.  So one action of a module is a synchronous slice up to its next
  write; other handlers run only at an `await` (operator `Yielded`).
* **Server (Rust, `core/src/server`).**  A tokio multi-thread runtime; the
  database is behind a lock taken for one `db.with` section at a time.  What
  Node does between two awaits, the port does in one *or several* sections.
* **Browser.**  Components with their own timers and aborted requests.

### Components

| component | state | operations | talks to | what makes it correct |
|---|---|---|---|---|
| Bulk App Store sync (`lib/sync-bulk-*.ts`, `live-bulk-runs.ts`) | `sync_running`, `sync_bulk_state`, live set of the process | trigger, tick, loop over the queue, resume | scraper, scheduler, health check, boot check, policy timer | one runner, truthful counters, no app twice, nothing lost |
| The same sync in Rust (`core/src/server/sync_runner.rs`, `live_runs.rs`, `health_check.rs`) | the same rows, a registry of live runs | as above, section by section, "Sync now" inside its request | scraper, routes, tickers | the same, for every cut between sections |
| Boot checks and scheduler (`instrumentation.ts`, `scheduler.ts`) | timers, `last_auto_sync` | tick, resume, heal | every bulk job | a dead run is resumed or cleared, a live one is left alone |
| Health check (`health-check.ts`) | none of its own | heal dead locks | every bulk job | clears only what is dead |
| Bulk policy sync and deferred fetch (`policy-bulk-*.ts`, `post-app-update-policy-fetch.ts`) | `policy_sync_running`, its blob, a timer, pending reasons | start, loop, resume, arm, fire, retry | app sync, import | as the sync; reasons are coalesced and not lost |
| Bulk Wayback import (`wayback-bulk-*.ts`) | its blob with a control status, `wayback_import_running` | start, pause, resume, cancel, loop, park at boot | per-app import, archive | a request to pause or cancel takes effect |
| Import queue (`imports.ts`, `import-queue.ts`) | `imports`, `import_items`, the module-level `running` flag | enqueue, claim, settle, retry, force, remove | scraper, delete route | an item is settled once, a removed one stays removed |
| Scrape and snapshot chain (`scraper.ts`, `changelog.ts`) | `apps`, `privacy_snapshots`, `notifications` | fetch, diff, commit | every job that fetches | a change is recorded once, history is not invented |
| Historical import (`historical-import.ts`, `wayback.ts`) | historical snapshots | import, re-diff chain | scrape | the chain's diffs match its order |
| Policy fetch and versions (`privacy-policy.ts`, `policy-versions.ts`) | the analysis row, the captured texts | fetch, summarise, regenerate | policy sync, history, health check | a summary belongs to the text beside it; "changed" means changed |
| Backup, restore and wipe (`backup.ts`, `database-work.ts`, `api/reset`) | the whole file, live work registry | export, restore, delete everything, retention | every job | no restore or wipe under live work |
| Device actions (`device-actions.ts`) | backup artefact, gate | verify, uninstall | `cfgutil` | nothing deleted without a fresh backup |
| Devices (`devices.ts`, `device-sync.ts`) | devices, ownership rows | sync, retire | dashboard | apps belong to the devices that have them |
| Rate limit and archive pacing (`rate-limit.ts`, `archive_pacer.rs`) | buckets, cool-down | take, penalise | routes, archive | never faster than allowed |
| Sign-in, window lock, pairing (`desktop_auth.rs`, `window_lock.rs`, `companion.rs`) | nonces, lock, pairings | issue, redeem, lock | shell | a nonce works once |
| Layout saver (`use-dashboard-layout-saver.ts`) | pending and in-flight layout | edit, flush | layout route | the last edit wins |
| Feature flags, notifications, webhooks, update check, read models, UI | rows and queries | | | see `PROJECT.json` |

### Behaviours that are hard

Two triggers of one job; a restart between any two writes; a lock that
outlives its process; a resume racing a fresh start; the health check
deciding from ages; a user deleting an app whose fetch is in flight; a pause
while an import awaits; a write that throws half way; a retry of what was done.
`PROJECT.json` lists each at its line under `hazards`.

## 2. Plan

Ordered by what matters most to a person who relies on the program: first the
jobs that run unattended, then what they write, then what replaces it.

1. `BulkQueue`: what every bulk job promises; `SyncBulk` and `WaybackBulk`
   implement it. *(done)*
2. `ImportQueue`: the rows of an import, claims against slow ticks. *(done)*
3. `History`: timeline, badge, review and undo of one app. *(done)*
4. `PolicyBulk`: the bulk policy sync, also against `BulkQueue`, with the timer
   that coalesces the fetches following an import or a sync. *(done)*
5. `PolicyRun`: what overlapping runs write to one policy. *(done)*
6. `WholeDatabase`: restore and wipe against live work. *(done)*
7. `SyncPort`: the Rust sync runner, where one slice of Node becomes several
   database sections. *(done)*
8. Proofs about every module: each safety invariant and action property of a
   passing run, and each refinement of `BulkQueue`. *(done, section 5)*
9. The rest of the import queue: "Change match", the bulk upsert with its
   tombstone check, the name-search retries; the Wayback and policy runners of
   the Rust server, which are spawned apart from their request.
10. The device delete gate; the layout saver; archive pacing; one-time nonces;
    the rate limit; feature flags as an operator against a reference definition.
11. Proofs left: what items 9 and 10 will add.

Which module uses which:

```
BulkQueue  <--INSTANCE--  SyncBulk       <--EXTENDS--  MCSyncBulk, SyncBulkProofs
           <--INSTANCE--  WaybackBulk    <--EXTENDS--  MCWaybackBulk, WaybackBulkProofs
           <--INSTANCE--  PolicyBulk     <--EXTENDS--  MCPolicyBulk, PolicyBulkProofs
           <--INSTANCE--  SyncPort       <--EXTENDS--  MCSyncPort, SyncPortProofs
                          ImportQueue    <--EXTENDS--  MCImportQueue, ImportQueueProofs
                          History        <--EXTENDS--  MCHistory, HistoryProofs
                          PolicyRun      <--EXTENDS--  MCPolicyRun, PolicyRunProofs
                          WholeDatabase  <--EXTENDS--  MCWholeDatabase, WholeDatabaseProofs
```

Every module is parameterised by CONSTANTS with named assumptions, has one
action per handler or slice, and declares no RECURSIVE operator.  Beside some
definitions stands a second one with a longer name (`LockIsDead`,
`LockIsDeadWhenHeld`): the same definition with a plausible mistake, used by no
action.  It shows that the property paired with it under `mutants` in
`PROJECT.json` would notice the mistake.

## 3. Modules

### BulkQueue

The abstract job.  A run is opened over a set of items; one item at a time is
taken and then settled, a settled item is never taken again; a worker may die
with its item; the run is closed only while nobody works on it.  It does not
say which process works, how locks are kept, or when a run is given up.

### SyncBulk

| module | code |
|---|---|
| `mutex`, `blob`, `stale` | rows `sync_running` and `sync_bulk_state` of `app_settings`, the age of its `updatedAt` |
| `mem`, `pc` | the state object and the program counter of each activation of `runBulkSync` |
| `SyncLive` | `live-bulk-runs.ts`, kept in memory, hence empty after `Crash` |
| `boot` | the process and its one-shot check in `instrumentation.ts`; `HealLock` and `HealBlob` are its two writes |
| `Trigger`, `SchedulerTick` | `app/api/sync/trigger/route.ts`, `scheduler.ts` |
| `Open` .. `Release` | the writes of `runBulkSync`, in order |
| `FetchOk`, `FetchFails`, `FetchLimited`, `SaveFault` | the answer of `fetchAndParseApp`, and a throw of the write that follows it |
| `Abort` | any other write that throws out of the loop |
| `HealthCheck` | `runHealthCheck` on the bulk sync lock, one transaction |

`Yielded` holds when no synchronous slice is under way; only then do other
handlers run.  A crash needs no such permission.  The stored queue keeps the
exact fields the properties read (entries, current app, six counters); order of
the queue, error texts and activity rows are left out, and the order in which
apps are taken is left open.

### WaybackBulk

As `SyncBulk`, with the control status the person writes into the stored queue
from a route while the runner holds its own copy.  `Pause`, `Cancel`, `ForceClear`
with `ForceRelease` and `ForceStart`, `ResumeQueue` with `Acquire` are the
branches of `app/api/wayback/import-all/route.ts`, cut at their writes; `Synced`
is `syncControlStatusFromDisk`; `Interrupted` is the `AbortError` out of the
import or of the wait for a throttled archive; `Park` and `Parked` are
`pauseRun`.  `MaxRetries` is the code's own `MAX_RATE_LIMIT_RETRIES`.  `BootUnlock` and
`BootPark` are the two writes of the boot check.

### ImportQueue

| module | code |
|---|---|
| `rows` | `import_items`: status, `app_id`, and `next_attempt_at` as one of now, claimed (the ten-minute fence), later (a back-off) |
| `running`, `overdue` | the lock of the tick and whether it is more than ninety seconds old |
| `paused` | `import_queue_paused_until` |
| `completed` | `imports.completed_at` |
| `Tick`, `Claim`, `Pick`, `Finish` | `runImportQueueTick` and `claimQueuedBatch` |
| `ForceTick`, `Click` | "Retry queue now", and the retry of one row, which takes neither lock nor claim |
| `Parsed`, `Commit`, `Record` | the scrape of the row: what it read of the app, the write worker's transaction, the outcome written to the row |
| `DeleteApp`, `DeleteImport` | the routes with their tombstones and cascades |
| `LockAges`, `FenceElapses`, `PauseElapses`, `Boot` | time and the boot |

`presses` counts both retry buttons; it is 0 in the states where `NoDoubleGrab`
speaks and at the end of the steps where `OutcomeKept` and
`CompletedStaysSettled` do (`Unhurried`).  `Click` takes a row whatever has become
of it, as the route does for a page that shows an old state.  An outcome is two
writes, the row's and the one that may complete the import; a `Crash` may fall
between them (`Torn`).
The worker's commit is on another thread, so it also falls between slices of
the main thread.

### History

One app.  `rows` is `privacy_snapshots`; the list of changes a row stores is
kept as the labels it was compared with (`base`) and whether they differ
(`changed`).  `Scrape` is the comparison in `fetchAndParseApp` with the hand-over
of its writes: from reading the row of the app to posting there is no await, so
it is one action, and `posted` is the mailbox of the write worker, emptied in
order by `Commit`.  With `inline` (worker disabled or failed to spawn) the same
writes land at once.  The page is any page, so a page fetched earlier than the
one before it is included.  `Import` is `writeWaybackSnapshot` with
`repairSuccessorWaybackDiff` in one transaction, `known` the captures an import
found on file when it began.  `Review` and `Undo` are `recordReviewAction` and
its undo, with what the browser tab keeps for it; `ResetChangelog` and
`RemoveHistory` are the routes of those names.

Assumed: no two writes carry the same millisecond (the clock moves by two at
each write, archive dates are odd); the archive's index never holds a capture
newer than a scrape still in the mailbox.

### PolicyBulk

As `SyncBulk`, for `policy-bulk-runner.ts`, with what is its own:

| module | code |
|---|---|
| `off`, `Switch` | `policy_scrape_disabled`, which the person sets at any time |
| `asked`, `retries` | `pendingReasons` and `busyRetries` of `post-app-update-policy-fetch.ts`; `waits` is history: how often the present ask found another run busy |
| `Schedule`, `Drain*` | the ask after an import or a sync, and each way the timer can end: off, busy and again, busy for the last time, started |
| `gate`, `fetching` | the check of the switch before each page, and the await of the page |
| `SaveFault`, `Abort` | a write that throws inside an app (caught, counted as failed) and outside (the run ends) |

The dynamic imports of the boot check and of the timer name modules loaded at
boot; they resolve before any timer or request is served and end no slice.

### PolicyRun

One policy: `row` is its `privacy_policy_analyses` row, `versions` its
`privacy_policy_versions`, and each of `Runs` a call of
`syncPrivacyPolicyAnalysis`.  A run keeps in `read` the row it read before its
awaits (page, archive, AI provider) and writes it back after them, which is
what two overlapping runs can get wrong.  A text stands for its hash and a
summary for the text it was made from.  `Start` covers the background callers
and the "Regenerate" tab (`Regenerate`), `GateOff`, `Throttle` and `Fetch` the
early ways out, `FetchOk` the classification against the read row with the
upsert and pruning of versions, `Record` the History entry, `Store` the row,
the rest the summary.  `clock` counts the started runs, since every run stamps
what it stores with the time it began.  `recorded`, `solo` and `apart` are
history variables; no action reads them.  Left out: the `previous_summary`
columns, retention by size (8 MB), the branch that deletes the row of an app
without a policy URL, and a failure to store a version or to append to History,
which the code logs and ignores.

### WholeDatabase

What a restore or "Delete everything" meets.  The jobs are seen from outside:
one action is all a handler or a runner does between two awaits; `lock` and
`queue` are what `app_settings` holds of it, `work` the registry of
`database-work.ts`.  A backup carries locks and queues along (`Export`,
`Restore`), so a restore may put back a lock whose run is long dead; `Boot`
with `CheckNothing`, `CheckResumes`, `CheckFrees` and `HealthCheck` are the ways
it comes free.  `AskRestore` is the request that was let in and whose body is
arriving; `Restore` is the second look at the registry and the replacement, in
one slice.  `late`, `wiped` and `spoiled` are history.  Left out: the deep heal
of the import lock, and the integrity checks on the file.

### SyncPort

The sync again, as `core/src/server` runs it.  Handlers are tasks on several
threads; a run takes the database for one `db.with` section at a time
(`Held` while it is amid a section, `Unlocked` when anyone may take it), and a
section is no transaction, so each of its writes is an action and the process
may die between two.  What Node does in one slice is here `Check` (is anything
running), `Enter` (registered as live), `Open` and `Opened` (seed, lock, queue),
each open to whatever comes between.  "Sync now" awaits the run inside its
request: `Disconnect` is the client going away, which ends the run where it
awaits a fetch; a webhook is a task of its own.  A write that throws ends the
run (`Abort`), where Node catches one inside an app.  Left out: the developer
route that stops a sync, the deferred policy fetch, and a write that throws in
the boot check.

`MaxOverlaps` bounds the starts and health checks that come in between the
sections of another's run.  The code has no such bound.  With 0 those
interleavings are left out, and what the run `sync_port` shows is shown of the
others only; with 1 the run `sync_port_health` shows what goes wrong.

## 4. Runs

| run | states | what it shows |
|---|---|---|
| `sync` | 392 856 | one runner, an owned queue, truthful counters, no queue dropped, no false stamp, `QueueSpec` (the promise of `BulkQueue`), and a due sync that gets done |
| `sync_port` | 414 176 | of the Rust runner, while no start and no health check comes in between the sections of another's run: truthful counters, `QueueSpec`, and a due sync that gets done, with a request dropped under its run |
| `sync_port_health` | violation | a health check clears lock and queue of a run that is about to close |
| `sync_port_disconnect` | violation | "Sync now" dies with its request |
| `wayback` | 124 840 | an owned queue, requests that are honoured before the next app and outlive a restart, a parked queue nobody touches, `QueueSpec`, and a pause that comes to rest |
| `wayback_pause` | violation | the runner writes over a pause asked for during an import |
| `policy_bulk` | 550 379 | one run, truthful counters, a switch that is obeyed at once, a deferred fetch that is given up only for its own waits, `QueueSpec` |
| `policy_run` | 592 850 | two overlapping runs: a summary belongs to the text beside it, the newest version is the text shown, "changed" means changed |
| `import` | 136 468 | two ticks never hold one row, outcomes stand, a completed import waits for nothing, an import is left open only by removing an app of it, every queued row is settled |
| `history` | 498 966 | captures stay chained to the row before them, the grid follows the last scrape, badge and review state have their reasons |
| `whole_database` | 637 769 | no work begun before a restore runs on after it, no two runs of one job side by side, no sync under a wipe |
| `whole_wipe` | violation | work other than a sync inserts its app after "Delete everything" |

TLC exhausts each passing instance; the properties are the INVARIANTS and
PROPERTIES of the `.cfg`.  The findings behind the violations are in
`PROJECT.json`, each with the line of the code that says otherwise.  `TypeOK` of
`WaybackBulk`, `ImportQueue`, `History`, `SyncPort` and `WholeDatabase` is
defined but not among the runs; section 5 proves it, and a line `TypeOK` under
INVARIANTS checks it.

### Bounds, and why they are enough

* *Apps, runners, run ids: 2 each* in the bulk jobs.  One app that is settled
  beside one in flight or waiting is the smallest queue on which a resume can go
  wrong; a second runner is all it takes to have two; run ids are only compared.
  The proofs of section 5 have no such bound.
* *Crashes.*  Two in `policy_bulk`, so a resumed run dies and is resumed again;
  one elsewhere, since nothing but the stored state survives a crash and the
  same checks run at the second boot as at the first.
* *429 answers.*  One for the sync and the import queue, where it ends the run;
  two for the archive, where the first is waited out and the second parks the
  queue.
* *Failed writes: 1.*  A write that fails is rare and each of the runner's
  writes is tried as the one.
* *Dropped requests: 1* in `sync_port`; what is left is the same each time.
* *Overlaps: 0* in `sync_port`, because the code breaks what it checks with one,
  and 1 in `sync_port_health`.
* *Busy retries: 3*, the code's own `MAX_BUSY_RETRIES`.
* *Import rows.*  A row with a URL and one without, of one import; two ticks
  and a click, a batch of two, one press of either button: a claim of more than
  one row, a batch that fills and one that does not, a tick that loses its lock.
* *Policy runs.*  Two at a time and three in all, three texts and two kept
  versions: an overlap and an undisturbed fetch after it, a text that changes
  twice and comes back, and one version more than is kept.
* *Whole database.*  One app, two workers, the sync and the Wayback import (the
  policy sync is treated as the sync, but for the wipe), one backup: a backup
  taken under live work and restored beside other work.
* *History.*  Four writes of the clock (`MaxNow` 8) with captures at 1 and 3,
  that is before, between and after scrapes; two labels, since only equality of
  labels is read; two scrapes in the mailbox; two reviews on record, enough to
  undo in order; one tab and one import in flight.  `BadgeHasPending` was also
  checked with two tabs, and `ArchiveIsChained` with two importers (4.1 million
  states), in runs too long to keep.
* *Symmetry* is used in runs without liveness only: over runners, apps, run ids,
  ticks, labels, texts and workers, none of which a property or an initial
  state tells apart.
* *Deadlock* is not checked for `History` alone: its clock and its reviews are
  bounded, so a behaviour may run into the end of its time.

### Fairness, and why the code justifies it

`FairSpec` asks for fairness of what runs by itself and nothing else.

* Continuations: an await whose answer is in is resumed by the event loop, or
  in the port by the runtime, which also hands the database over in turn.
  Fetches are bounded by their timeouts, so an answer or an error comes.  In
  `ImportQueue` the slices of two ticks and a click put each other off, so there
  this fairness is strong: the event loop runs its callbacks in the order they
  came and passes none over for ever.  Elsewhere weak fairness does.
* Timers: the scheduler (every half hour), the health check (daily), the
  import tick (every minute), the one-shot checks after boot.  Each is a
  `setInterval` or `setTimeout` that is never cancelled.
* Time: back-offs, pauses, fences and margins pass (`GoesStale`, `LockAges`,
  `FenceElapses`, `PauseElapses`).
* `Boot`: a server that died is started again.  A person who never starts it
  is owed nothing.

No button is fair, and no crash, fault, drop or 429 is.

### What the properties assume

* `GoesStale` needs the queue's runner to be dead: a runner writes at least
  once per app, and the margin of the health check is hours.  A laptop asleep
  for longer than the margin in the middle of a fetch, woken into a health
  check, is outside the model (`health-check.ts` names this margin).
* A tick of the import queue ends within the ten minutes of its claim, though
  not within the ninety seconds of its lock.
* `DueIsSynced` exempts an empty library: its run ends at once and stamps nothing.
* `NoDoubleGrab`, `OutcomeKept` and `CompletedStaysSettled` speak of behaviours
  up to the first press of a retry button, because the code breaks them then.
  "Retry queue now" makes claimed rows due again (`import-queue.ts:266`); a click
  scrapes a claimed row beside its tick, and a 429 of either lifts the other's
  fence.  Two scrapes of a new app both read that it is new (`scraper.ts:2302`),
  so one insert fails and the imported row ends as failed.  `QueueDrains` has
  both buttons.
* `OpenOnlyByARemoval` leaves out crashes: a process that dies between the two
  writes of an outcome leaves the import open, and no later tick sees it.
* `PauseSettles` of `WaybackBulk` exempts runs thrown out by a failed write.
* `CountersMatchQueue` and `StampCoversEveryApp` say for which behaviours they
  are claimed.  In Node, after the good fetch a write that throws is caught by
  the catch of the fetch, so one app counts as synced and as failed
  (`sync-bulk-runner.ts:296`); the port counts it once.  A process that dies
  between the write of a 429 and the clearing of the queue leaves the rest of
  the run to be resumed, and the resumed run stamps `last_auto_sync` without the
  limited app (`sync-bulk-runner.ts:320`, `:357`).
* `CurrentVersionIsShown` exempts what an overlap or a crash leaves until the
  next undisturbed fetch: the version is upserted before the archive is awaited
  and the row stored after it (`privacy-policy.ts:1397`).
* `ChangedMeansChanged` speaks of undisturbed runs: two overlapping ones both
  compare with the row from before either.
* `OneRunPerJob` exempts a job whose lock a wipe took away.
* `BadgeHasPending` is claimed for the inline writer.  With the worker, a
  review between the posting of a scrape and its commit hides the change behind
  the review date while the badge counts it; likewise two scrapes posted one
  after the other are both compared with the row before them and report the
  same change twice.
* `ReviewIsOnRecord` is claimed for one tab.  Undo is a stack in each tab, and
  two tabs undo out of order: a review date comes back whose action was
  already undone.

### Disagreements outside the runs, and how to see them

Each is a definition of a module that fails; a `.cfg` with it as INVARIANT or
PROPERTY shows the behaviour.

* `DeletedStaysDeleted` (`SyncBulk`, the constants of `SyncBulk.cfg`, `Spec`): an
  app deleted while its re-sync is in flight is inserted again
  (`scraper.ts:1113`), though `app/api/apps/route.ts:154` says a re-sync declines
  to re-add it.  `whole_wipe` shows the same insert at a larger scale.
* `CancelClears` (`WaybackBulk`, `FairSpec`, one runner and run id, no crash, one
  failed write): a run thrown out by a failed write leaves its lock; cancel then
  only writes `cancel_requested` and waits for a runner that does not exist
  (`locales/en.json:4959`).
* `CaptureStoredOnce` (`History`, two importers): what is on file is read once
  and used after many archive requests, so two imports of one app store one
  capture twice (`historical-import.ts:360`).
* `ImportedIsNotPending` (`History`, the constants of `History.cfg`): a capture
  imported after the review date counts as a change to review (`changelog.ts:965`
  against `:714`).
* `CurrentVersionIsShownAlways` (`PolicyRun`): after a crash or an overlap the
  newest version is not the text of the row, which
  `policy-versions.ts:197` takes for granted.
* `OneRunner` of `SyncPort` (the constants of `SyncPort_health.cfg`):
  `run_scheduled_sync` asks whether anything runs in one section and takes the
  lock in another, and ignores the answer of `acquire_mutex`; two starts at once
  both run.  `QueueIsOwned`, which `sync_port_health` refutes by a health check, is
  broken by these two runs as well.

One disagreement is the exception a passing property names rather than a
definition that fails: removing the app of the last row that waits takes it out
of the queue without `completeImportIfSettled` (`imports.ts:1331`), so the import
is never closed, though `imports.ts:1115` lets the worker close it "without
depending on a still-mounted wizard".  `OpenOnlyByARemoval` without its last
disjunct's `removed` shows it.

## 5. Proofs

`SyncBulkProofs` proves for any finite set of apps, any runners, and any number
of crashes, 429s and failed writes:

* `TypeCorrect`: `Spec => []TypeOK`;
* `OneRunnerAlways`: `Spec => []OneRunner`;
* `QueueIsOwnedAlways`: `Spec => []QueueIsOwned`.

They rest on the constants' assumptions (apps are finite, the two null values
are not values) and on one invariant, `Inv`.  `OneRunner` is not inductive: the
health check frees the lock under a live runner if the stored queue looks dead,
and a trigger then starts a second one.  What rules that out is that a live
runner at an await has unfinished work in the stored queue, and that this queue
is its own and fresh.  So `Inv` adds: a live runner's process is up and the lock
is held (`LiveInv`); before its first write it holds work or nothing at all
(`OpeningInv`); inside the loop the stored queue equals its memory and is fresh
(`LoopInv`); at each await work is left (`AwaitInv`).  Every action has one step
in the proof, split by conjunct where it can disturb one.

The module goes on from `Inv` to what happens to the queue:

* `SyncImplementsQueue`: `Spec => QueueSpec`, every step is a step of
  `BulkQueue` or a stutter.  Added: a run about to write its first queue writes
  it over none, or over its own with the same apps left and the same settled
  (`TakeoverInv`).  `SyncOutcomesAreFinal` draws from it what a user would say:
  while a queue is stored no app of it is added, lost or settled again, and one
  at most is being fetched;
* `QueueIsNeverDropped`: `Spec => QueueNeverDropped`.  Added: at each step of
  its loop a runner has in flight just what its place says, it goes to clear
  only a queue that is done or was limited (`FlightInv`), and what the boot
  check is about to delete is done (`HealingInv`);
* `StampAlwaysCovers`: `Spec => StampCoversEveryApp`.  Added: while nothing died
  or threw, no queue outlives its run, so no runner in its loop holds an app
  Apple limited (`CleanInv`).

Its last part proves `CountersAlwaysMatch`: `Spec => []CountersMatchQueue`.
The counters agree with the stored queue and with the one a runner is about to
store (`CountInv`).  `CountMoves` says what a move of one entry does to a count;
with it each outcome is arithmetic.  `ResumedAgrees` is the hard case: what a
dead process had in flight and counted is un-counted by the number of entries
in flight, so the cut at zero in the code never bites.

`SyncPortProofs` proves of the Rust server what still holds there, in two parts.
`RunInv` is what each run holds by itself, whatever comes between its database
sections: the types, and that the counters of the stored queue and of the run's
memory are the counts of their entries (`Agrees`).  From it follow `TypeCorrect`
and `CountersAlwaysMatch`, also when two runs overlap.  `Own` is what a run
knows of the store while it is the only one.  It is lost at the first start or
health check that comes between the sections of a run that begins or ends, so
`OwnInv` claims it while `overlaps = 0`, and that is how the theorems read:
`OneRunnerUntilOverlap`, `QueueIsOwnedUntilOverlap`, and
`PortImplementsQueueInTurn`, of the behaviours without overlap.  They say how far
the finding of `sync_port_health` reaches: with one overlap the first two fail.

`WaybackBulkProofs` proves `WaybackTypeCorrect`, `WaybackAttemptsMatch`,
`WaybackQueueIsOwned`, `WaybackRequestIsObeyed`, `WaybackRequestSurvives` and
`WaybackImplementsQueue`.  `RunInv` says that the count of attempts is that of the
entries begun, in the store and in memory.  `Own` says that there is one
activation at most.  The queue is not simply its memory, because the buttons
write to the stored one: the two agree but for the status and the app shown as
current (`Follows`).  A run about to write over a stored queue has the same apps
left and the same settled (`TakesOver`), and one that forces a fresh start has
none to write over.  Two more theorems say how far the finding on `PauseIsKept`
reaches.  `WaybackPauseIsLostOnlyAmidAnApp`: only the outcome of an app that was
being imported is written over a pause, but for "Resume queue", which takes it
back.  `WaybackCancelIsKept`: no run goes on over a cancel, because it aborts what the runner waits for (`Heard`).
`WaybackOutcomesAreFinal` is what the refinement means for the apps of a run.

`HistoryProofs` proves, for any labels, captures, importers, tabs and bounds:

* `HistoryTypeCorrect`: `Spec => []TypeOK`.  With the types goes `Dated`: nothing on
  file is dated ahead of the clock, captures bear odd dates the archive has for
  them, every other row an even one of its own, and what waits in the mailbox is
  later than every scrape on file.  It makes "the newest scrape" one row; that
  there is a newest and an oldest is `Least`, from the well-foundedness of dates.
* `BadgeHasPendingAlways`: `Spec => []BadgeHasPending`.  That a badge has a scrape
  behind it is not inductive, because undo restores an older badge together with
  an older review date.  `BadgeInv` says the same of every state on record for
  undo (`Backed`), that no review date is ahead of the clock, so that a scrape
  landing now is after it, and that the mailbox stays empty.  `RepairKeepsScrapes`
  says the repair of the capture chain takes no scrape away.
* `GridAlwaysMatches`: `Spec => []GridMatchesHistory`, from `Shown`: some scrape
  that none is newer than has the labels of the app's row.
* `ReviewIsAlwaysOnRecord`: `Spec => []ReviewIsOnRecord`.  `OnRecord` says of the
  app, and of each state kept for undo, that the actions before it made it what
  it is (`Recorded`).  With one tab undo takes back the newest action, so what it
  restores still stands on actions that remain.
* `ArchiveAlwaysChained`: `Spec => []ArchiveIsChained`.  A capture may land
  anywhere in the timeline, so its neighbours matter: `ImportShape` says what an
  import does to the timeline row by row, and `ChainedImport` that every capture,
  the new one, the one after it that is repaired and all others, is compared
  with the row before it (`ComparedIn`).  `Kept`, that an import under way knows
  what it has stored, keeps one import from storing a capture twice; two can,
  and the property is about the timelines in which none did.
* `ImportsInTurnStoreOnce`: `Spec /\ []InTurn => []CaptureStoredOnce`.  Imports that
  come one after the other are enough for that: the one under way knows of every
  capture on file, whoever stored it (`AllKnown`).

`ImportQueueProofs` proves `ImportTypeCorrect`, `ImportNoDoubleGrab`,
`ImportOutcomeKept` and `ImportStaysSettled`, for any rows, imports, apps and
workers.  A tick that outlives its lock goes on, so the lock says nothing of
who works on what.  What does is the row: one in a tick's hands stays claimed
until that tick writes it, unless the user removes it (`Fenced`), so the next
tick finds only other rows (`Exclusive`).  From it each step turns no settled
row back (`MovesOn`) and completes an import only when none of its rows waits
(`Completes`).  As in the properties, all of this holds while no retry button is
pressed; a click claims nothing, and a row it scrapes may be in a tick's hands.
`ImportIsLeftOpenOnlyByARemoval`, `Spec => []OpenOnlyByARemoval`, holds with the
buttons too: while no process has died, an import with a settled row and none
waiting is completed, or one of its rows was removed (`Accounted`).

`PolicyBulkProofs` proves `PolicyTypeCorrect`, `PolicyOneRunner`,
`PolicyWaitsItsTurn`, `PolicyOffIsObeyed`, `PolicyImplementsQueue` and, as for the
sync, `PolicyCountersMatch`.  Its
`Inv` is that of the sync, cut to the gate and the fetch.  `WaitsItsTurn` needs
`WaitInv`: the count kept from ask to ask equals the waits of the present ask
while one is pending, and is zero otherwise; forgetting one reset on one way out
breaks it.  The refinement shows that the initial states map to the initial
states of `BulkQueue` and that every step is one of its steps or a stutter,
with `OpeningInv` (a run that is about to write its queue writes one in which
nothing is in flight, over none or over its own) as the added fact.

`PolicyRunProofs` proves `RunTypeCorrect` and `RunSummaryMatchesText` from
`Inv`, which adds that only one run is amid a slice (`OneAtATime`) and what a run
holds at each step (`Holding`): the row it will write back has a summary of its
own text, so writing it over a newer row cannot part the two.
The module goes on to `RunCurrentVersionIsShown` and
`RunChangedMeansChanged`.  `Story` says who is undisturbed (`Alone`), that no
stamp is of the future (`Past`), that what an undisturbed run stamps is later
than all that is stored (`Timely`), and that at each of its steps row, newest
History entry and newest version tell of one text (`Told`).

`WholeDatabaseProofs` proves `WholeNoLateWriter`, `WholeOneRunPerJob` and
`WholeSyncOutlivesNoWipe` from `Inv`, whose key conjunct is `HoldsLock`: a live
run of a job holds the job's lock over a queue that has something left, which
is what tells a lock in use from one that a crash or a restore left behind.
`WholeComesBackByNoSync` bounds the finding on `NothingComesBack`: what a wipe
lets come back comes from an import or the scrape of one app, never from a sync.

`tlapm` proves all of these with SMT, Zenon and LS4, for any values of the
constants that meet the named assumptions.  Two assumptions are there for the
proofs alone: the tabs are finitely many (`TabsAssumption`, so that one tab can be
counted), and what stands for "no app" is neither an app nor a row
(`NoAppAssumption`).  Every invariant and action property of a passing run, and
every refinement, is stated by a theorem, the refinement of `SyncPort` for the
behaviours without overlap.
The strengthened invariants were model-checked on the constants of the runs
before they were proved.  What stays with TLC:

* liveness (`DueIsSynced`, `PauseSettles`, `QueueDrains`), which needs fairness and
  ENABLED, beyond the prover;
* the runs that expect a violation, which show a trace.

## 6. What is not modelled

Components without a module are listed with the reason in `PROJECT.json`.
Within the modelled ones, left out are activity rows, notifications, the bell
and all wording; page parsing; accessibility, age-rating and version changes;
the choice of captures and the archive client; back-off lengths (any time); the
deep recovery of the import lock in the health check; the wizard's own flow of
imports; the name-search rows, "Change match" and the bulk upsert of imports
(`addImportItemsAsync` checks for the tombstone before it hands the write to the
worker, `imports.ts:312`, so an app removed in between has its row overwritten);
the developer route that clears a sync under its runner
(`app/api/dev/sync-stop/route.ts`, which says it stops the sync but leaves the
runner at work).

Behaviours met while reading, which no run is about:

* `sync-bulk-state.ts:88` and `policy-bulk-state.ts:78` say the run id changes
  with a resume; the resumed run keeps it.
* `sync-bulk-state.ts:4` speaks of snapshots deduplicated on identical JSON; the
  insert is unconditional.
* The outcome of a scrape in flight overwrites the tombstone of a row whose app
  was removed meanwhile (`imports.ts:839`); `CompletedStaysSettled` exempts it.
* Deleting an import together with its apps leaves the rows of other imports for
  those apps without a tombstone (`imports.ts:1474`), unlike deleting the app.
* A capture newer than the last scrape becomes what the next scrape is compared
  with, so a change the archive saw first raises no badge.
* Undo restores the number of changes as it was before the review, so a change
  counted in between is lost from the number, though not from the list.
* After "reset changelog" the next scrape is compared with the labels kept on
  the app, where the route's comment expects no comparison; and if a policy
  note comes first, it records an empty snapshot and the next scrape reports
  every label as new (`changelog.ts:456`).

# TLA+ specifications of pkm-brain

pkm-brain is a personal knowledge system: it mirrors a mailbox and a calendar, detects what
needs its owner's attention, keeps facts and wiki pages with a reviewed ledger of actions, and
runs all of it from one daemon on the owner's machine. Most of its code computes text. What is
hard to get right is the bookkeeping around it: several SQLite databases without a common
transaction, a mailbox and a calendar that change while they are read, model calls that fail or
are deferred, threads and child processes, and runs that can be killed between any two commits.
These modules are about that.

Paths below are relative to `src/src/pkm_brain/` unless they say otherwise.

## 1. The system

| Component | State it keeps | Operations | What makes it hard |
|---|---|---|---|
| **Gmail mirror store** (`gmail_mirror.py`) | `gmail_mirror.sqlite`: sync checkpoint with a generation, immutable thread revisions, one current pointer per thread, triage queue, quarantine | `apply_sync_unit`, `claim_pending_triage`, `finish_triage`, list/count queries | stale writers, revisions that come back, leases, partial batches |
| **Mailbox synchronization** (`gmail_sync.py`, `google_sources.py`) | nothing of its own; one sync in progress per process | full and incremental listing by pages, thread fetch, commit, quarantine retry | the mailbox changes between pages, tokens and history ids expire, units are cut short, two processes |
| **Shadow run, Gmail** (`shadow_trial.py`, `shadow_controller.py`) | one run in progress, coverage report | claim, detect, persist, acknowledge, report | two databases, kill between commit and acknowledgement, mail landing meanwhile |
| **Shadow run, Calendar** (`shadow_trial.py`, `google_sources.py`) | one run in progress; cursor with a rebuild's continuation | fetch pages, mark for revalidation, persist with the next cursor | expired tokens, rebuilds over several runs, overlap with a replaced daemon's last run |
| **Gmail detector** (`gmail_operations.py`) | none (prompt/response) | one answer per thread: read, suppress, fail, defer | failed and repeated calls under one identity |
| **Operational state** (`operational_state.py`, `operational_shadow.py`) | `ops.sqlite`: observations, items, owner's decisions, cursors | atomic source unit, reconciliation, feedback | replays, out-of-order observations, repeated calls of the owner |
| **Operational service** (`operational_service.py`) | home lock and writer lock | `mutation_lease`, `quiesce_mutations` | a lease checked before a wait and used after it |
| **Daily budgets** (`operational_budget.py`) | counters per day and metric | reserve before each request | a refusal in the middle of a listing, midnight |
| **Daemon and scheduler** (`daemon.py`, `scheduler_worker.py`) | queues, queued/forced flags, pause, active children, writer lease, handshake file | tick, run-now, pause, enable, stop, guardian | threads, flags read outside their lock, child processes, shutdown |
| **Gmail archive** (`gmail_archive*.py`) | one saved sync state, encrypted messages | backfill, history, rescan | phases over one state, malformed pages |
| **Action ledger and curation** (`cos_actions.py` ...) | actions with status and inverse, facts, pages | propose, critique, apply, revert | applied twice, reverted out of order |
| **Review and undo** (`review_*.py`) | resolutions, undo handles | resolve, undo | undo after later changes |
| **Brain-to-brain sync** (`sync_*.py`) | staging directory, manifest | pull, verify, promote, ingest | crash between file moves |
| Knowledge pipeline, capture, retrieval, briefing, storage, UIs, model providers, evaluation, macOS app | files and tables derived from the above | | mostly sequential; text |

How they interact. The scheduler of the one daemon that has the writer lease runs jobs in lanes;
an isolated job is a child process under a guardian. The mail job and the owner's "Run Shadow"
both call `GmailMirrorSynchronizer.sync`, which writes only the mirror database. A Gmail Shadow
run reads the mirror through `claim_pending_triage`, asks the detector, writes `ops.sqlite` in one
transaction (`persist_shadow_source_unit`) and then goes back to the mirror with one
`finish_triage` per item. Mirror and operational state share no transaction; what ties them
together is the generation of each triage row, the mirror sequence used as an observation's
source order, and identities derived from the mail revision, detector version and policy
version. A Calendar run reads its cursor from `ops.sqlite`, lists the calendar page by page against
the day's budget and writes what it found together with the next cursor, if the cursor is still
the one it read. The owner decides about items while all of this goes on. Whoever writes
`ops.sqlite` holds the mutation lease of its daemon.

What makes each part correct:

- *Mirror store*: stored content never changes; exactly the current revision of a thread has
  live triage work; sequences are unique; a stale unit or acknowledgement changes nothing.
- *Synchronization*: a checkpoint that says "complete" has lost no change; it never goes
  back; what the mirror shows is what Gmail answered, and no older answer replaces a newer one;
  every saved checkpoint can be continued; a quiet mailbox is mirrored in the end.
- *Gmail Shadow run*: nothing is acknowledged undecided; the item follows the acknowledged mail;
  "complete" is never reported of work that is not done; committed decisions are reused; a
  claimed batch can be committed; every revision is triaged in the end.
- *Calendar Shadow run and operational state*: the saved token never covers a change the store
  missed; absence from a listing is no cancellation; "complete" is honest; the owner's decisions
  stand against source updates and repeated calls; a calendar left alone is shown as it is.
- *Scheduler*: a job asked for is served once, in its lane and in the end; a pause is kept;
  `stop` leaves no child and no waiting thread.
- *Daemon and leases*: no older daemon writes after a newer one; a daemon that gave up its lease
  writes nothing and has no executor; a serving daemon can be found.
- *Planned parts*: see section 8.

The hazards in `PROJECT.json` list, line by line, where these can go wrong.

## 2. Modules

```
GmailMirror            the store: every transaction, arguments left open
 |- GmailMirrorSync    the mailbox side: Gmail, the reader, the synchronizer
 |- GmailTriage        the Shadow side: runs, detector, ops.sqlite, reports
OperationalState       observations, items, decisions and cursor of one stream
 `- CalendarRun        Calendar, the reader, calendar runs, the owner, the budget
JobRequests            what the scheduler promises of a job
 `- JobScheduler       ticker, workers, owner's calls, stop (refines JobRequests)
DaemonProcesses        daemons as processes: lease, handshake, mutations, guardians
```

`MCGmailMirrorSync`, `MCGmailTriage`, `MCJobScheduler` and `MCCalendarRun` define what a `.cfg` cannot
write. `GmailMirrorProofs`, `GmailMirrorSyncProofs`, `GmailTriageProofs`, `GmailItemProofs`,
`CalendarProofs`, `JobSchedulerProofs` and `DaemonProofs` hold the theorems (section 6).

`GmailMirror` is both a component and the abstract specification of what the store promises:
its `Next` lets any valid unit, claim and acknowledgement come in any order. `GmailMirrorSync` and
`GmailTriage` extend it and supply the callers; that each is an instance of the store under any
caller are the theorems `SyncImplementsStore` and `TriageImplementsStore`. `JobRequests` has no queue,
lock or thread; `JobScheduler` implements it under a refinement mapping (`ImplementsRequests`).

### GmailMirror

| Variable | Code |
|---|---|
| `checkpoint` | the row of `gmail_mirror_sync_state`: generation, last sequence, history id, mode, complete, reset flag, page token, baseline, pending threads, continuation history id |
| `stored[t][r]` | `gmail_mirror_thread_revisions`, told apart by content hash |
| `pointer[t]` | `current_revision`, `current_sequence` of `gmail_mirror_threads` |
| `queue[t][r]` | `gmail_mirror_triage_queue`: state, sequence, generation, lease, available_at, context, last error |
| `quarantine[t][f]` | `gmail_mirror_quarantine` per failure fingerprint: open, retries, next retry, parser |

| Action | Code |
|---|---|
| `ApplySyncUnit` | `apply_sync_unit`: generation check, per-thread savepoints, immutable content, tombstones, re-enqueueing, superseding older rows, quarantine and its backoff, `_save_checkpoint`, in one step because it is one `BEGIN IMMEDIATE` transaction |
| `ClaimPendingTriage` | the lease sweep and the claim of at most `ClaimLimit` rows in sequence order |
| `FinishTriage` | `finish_triage` with its three checks (current revision, generation, processing) |
| `Tick` | time, for leases, `available_at` and `next_retry_at` |

Revisions are `<<"live", n>>` (a thread's history id) or `<<mode, history>>` (a tombstone, whose
hash is of the marker `mode:history`). Timestamps are countdowns, so "`<= now`" is `= 0`.

### GmailMirrorSync

Gmail is an external `log` of history records (a record names one or more threads), a
`horizon` below which start ids answer 404, and opaque page tokens. A deleted thread may be
restored, and `threads.get` may answer 404 for a thread that is there (`Answers`): the reader
takes any 404 as a missing thread (`google_sources.py:621`), and the store expects such threads
to come back (`gmail_mirror.py:1576`, `tests/test_gmail_mirror.py:628`). `sync[p]` is the sync in
progress of process `p`, with the checkpoint it read at its beginning, which may be stale by
the time it commits; `asked` is when it asked for each thread. Two history variables, which no
guard reads, let the properties tell a 404 from a deletion: `asOf[t]` is when Gmail gave the
answer the mirror shows of `t`, `lapses` the 404s for threads that were there.

| Action | Code |
|---|---|
| `BeginSync` | `sync` up to the first call: resume a full scan, go on from pending threads, or list history |
| `ListThreads`, `ListHistory` | one page of the full or incremental listing |
| `HistoryTooOld`, `TokenInvalid` | 404 on a start id, 400 on a page token, and the one restart allowed |
| `GetThread` | one `threads.get`, with its answer (`Answers`), and sanitizing and normalizing (`Content`) |
| `ApplyUnit`, `Refused` | `from_fetch_result` and `apply_sync_unit`, or its generation conflict |
| `ReadDue`, `ApplyRetry` | the quarantine retry after a complete unit |
| `SyncFails`, `UpgradeParser`, `MailboxChanges`, `HistoryExpires`, `SyncTick` | the environment: failed calls or a dead process, a release, mail that comes, goes and is restored, lost history, time |

Every page, every `get` and the commit are separate steps, so mail, expiry, kills and another
process come between any two.

### GmailTriage

| Variable | Code |
|---|---|
| `run` | the run in progress: phase, versions at its start, claimed items as read, detector answers, whether the coverage can still be complete |
| `decided` | surfaced and suppressed rows of `ops_shadow_decisions` |
| `obs`, `item` | `ops_observations` and each item's `current_observation_id` |
| `context` | detector and policy version in force |
| `report` | the coverage status of the last run that ended |

| Action | Code |
|---|---|
| `StartRun`, `ClaimWork` | `_run_gmail` up to the claim; the checkpoint for the report is read first |
| `Detect` | cached decisions are filtered out, the rest is answered |
| `Persist` | `persist_shadow_source_unit`: all decisions, observations and assessments or none; a conflict or a stale assessment refuses the unit |
| `Ack` | one `finish_triage`; a conflict is swallowed |
| `EndRun` | the coverage status from the backlog counts |
| `Interrupt`, `Upgrade`, `SyncMailbox`, `TimePasses` | killed at any step, a release, mail landing, time |

### OperationalState and CalendarRun

| Variable | Code |
|---|---|
| `seen[k]`, `items[k]` | `ops_observations` of a source key, and its item with state, override, current observation and confirmation |
| `fed[k][q]` | the owner's events in `ops_item_events`, by idempotency key |
| `cursor` | the stream's row of `ops_source_cursors`: token, generation, and what its metadata says of a listing or rebuild under way |
| `event`, `epoch` | Calendar: each event's version and kind; sync tokens of earlier epochs answer 410 |
| `used` | `ops_budget_reservations` of today and the day before |
| `run[r]` | a run in progress: the cursor it read, its listing, what it got, the unit it will persist |

| Action | Code |
|---|---|
| `Start` | `run_live` up to the first request; a rebuild resumes at its saved page |
| `Refused`, `ListingExpires`, `FetchPage` | one request each, reserved first: refused by the budget, answered 410, or a page |
| `Read` | the active items are read; observations, marks for revalidation and the next cursor are computed |
| `Commit` | `reconcile_source_unit` under `Persist`: reconciliation of every observation and the compare-and-swap of the cursor; the unit is rolled back when the generation is another (`Conflicts`) or an identity is known with other content (`ContentConflicts`) |
| `OwnerDecides` | `record_item_feedback`: idempotency, allowed states, confirm, dismiss, resolve, restore |
| `Fails`, `CalendarChanges`, `WindowMoves`, `TokensExpire`, `NewDay` | failed requests and kills, the calendar, midnight |

### JobScheduler and JobRequests

`JobScheduler` has the flags and queues of `SerialJobScheduler` as sets and sequences, the position
of the ticker and of each lane's worker, and the progress of `stop` in `life`.

| Action | Code |
|---|---|
| `Start`, `Exit` | `start` from the saved configuration; the end of the process |
| `TickerLooks`, `TickerClears`, `TickerEnqueues` | `enqueue_due_jobs`: `_is_paused` in its two steps without the lock, then the due jobs under it |
| `WorkerLoops`, `WorkerGets`, `WorkerDecides`, `WorkerLaunches`, `WorkerFinishes`, `ChildEnds` | `_worker_loop` and the run of a local or an isolated job |
| `RunNow`, `Pause`, `Resume`, `SetEnabled` | the owner's calls, with `_save_config` |
| `StopBegins`, `StopClosesChildren`, `StopTerminates`, `StopPoisons`, `StopReturns` | `stop` |

`JobRequests` says only: a job waits at most once, is served by its own lane, one at a time, and
closing is possible at any moment.

### DaemonProcesses

A daemon is a process that may start beside or after another one and die at any step, with its
flocks, threads and open transaction but without its children.

| Action | Code |
|---|---|
| `OpensLock`, `TriesLock`, `ConfirmsLock` | `_acquire_lock`: the file is opened, locked, and compared with the path |
| `WritesHandshake`, `Starts`, `StartFails` | the rest of `start`, which may raise before the scheduler runs; the initialization before the handshake is a mutation like any other |
| `Closes`, `EndsChildren`, `Quiesces`, `QuiesceTimesOut`, `Exits` | `close`, step by step |
| `Withdraws` (`ReadsHandshake`, `RemovesHandshake`, `ReleasesLock`) | the end of `close`, and the same three steps in the cleanup of a `start` that failed (`daemon.py:738`) |
| `Asks`, `TakesHomeLock`, `ChecksAgain`, `TakesStoreLock`, `Enters`, `Commits`, `Fails` | `mutation_lease` with its three checks and two locks |
| `Launches`, `GuardianChecks`, `GuardianStartsExecutor`, `GuardianKillsGroup`, `JobEnds`, `Reaps` | `_run_isolated_job` and the guardian of `scheduler_worker.py` |
| `Killed`, `GuardianCrashes`, `LockReplaced`, `AuthorityWithdrawn` | the environment |

## 3. Abstractions

- One operational item per thread in `GmailTriage`. The code keys items by thread and detector key
  and asks the detector to reuse the key of an active item. Items stay active there; feedback is
  in `OperationalState`.
- Content is one value per hash; a revision's payload, wording and sizes are left out. A mail
  revalidation's content is the item's content with one notice more, because whether the two
  are equal decides a conflict. A calendar observation keeps the event's version and kind, which
  decide state, order and coverage. Its identity determines its content there, so `ContentConflicts`
  is in the model and never raised by the runs; the code raises it when an event's content
  changes under one etag, by a change of the policy's time zone.
- Fingerprints of sanitize and normalize failures are merged into one (`ParseFault`), those
  of the store's own stage into another (`MirrorFault`). Backoff saturates at `RetryCap`.
- Pending thread ids are a set: any selection of `MaxThreads` may come next, which includes
  the order the code keeps. `page_size` and `history_page_size` are one constant, the record
  limit of a history page is folded into it.
- `SyncMailbox` in `GmailTriage` stands for the units `GmailMirrorSync` produces, without
  listing resets. Only histories and revisions that do not go back arrive, except for a
  thread that returns at the same revision after a transient 404.
- Gmail's full listing leaves out threads its query does not match (`Unlisted`). Deletions
  before the horizon is lost cannot be observed any more; `floor`, a history variable,
  remembers the last completed full traversal and `NoLostChange` claims no more than Gmail
  still tells.
- The calendar's window is what an event's kind says: `live` and `near` are in it, `away` is
  ahead of it, `past` behind it. An event ahead may come near without changing.
- The budget's metrics of one reservation move together and one stands for them.
- Timestamps are compared with the clock in the code; in the models they are countdowns of a few
  ticks, and the tick that lowers them is the model's clock, not an operation of the program.
- What a job does is not part of `JobScheduler`, and why a daemon starts or fails to is not part of
  `DaemonProcesses`.
- `GmailMirror!Spec` quantifies over all units and is not meant for TLC; it is what the proofs
  are about. The runs check its properties through the two modules that supply callers.

## 4. Runs

Distinct states in brackets. All runs are exhaustive within the bounds of their `.cfg`.

| Run | Question |
|---|---|
| `triage_one` (886,727) | One thread: two revisions, deletion, restoration, any answer but a deferral, one kill at any step. What is acknowledged is decided and shown, no current revision drops out of triage, what a run claims it can commit, also after a kill, complete is honest: `CompletedIsDecided`, `CompletedIsProjected`, `ActiveRowIsCurrent`, `CurrentIsQueued`, `ClaimedUnitCommits`, `NoFalseAllClear`, `TriageTypeOK` |
| `triage_live` (244,040) | Two threads, one claimed per run, a release, a kill, a deferral: `DecisionsAreReused`, `EventuallyTriaged` |
| `sync_pages` (1,336,868) | One record per page, one thread per unit, so every listing is cut short; mail comes, threads are deleted, restored, or answered 404 by mistake: `NoLostChange`, `Resumable`, `SyncTypeOK` |
| `sync_race` (538,257) | Two processes with stale checkpoints, one of which may hold an answer of before a lapse or a deletion: `SequencesDistinct`, `MirrorNeverRegresses` |
| `sync_quarantine` (441,990) | Two threads, unreadable and re-normalized, a parser release, one outside the query: `AppendOnly`, `EventuallyMirrored` |
| `sync_restore` (189,572) | One thread through its full history: deleted, restored, answered 404 by mistake, unreadable: `ShownWasAnswered`, `EventuallyMirrored` |
| `daemon_jobs` (147,037) | Ticker, one lane shared by an isolated and a local job, the owner's calls, one stop or kill: `StoppedIsQuiet`, `QuietIsKept`, `ImplementsRequests`, `RequestedRuns`, `DueJobRuns`, `WorkersEnd`, `SchedTypeOK` |
| `daemon_processes` (465,484) | Two daemons one after the other or at once, a start that fails, a replaced lock file, a kill, a withdrawn authority: `WritersAreFenced`, `OneLateCommit`, `ServerIsFindable`, `ReleasedIsQuiet`, `ReleasedWritesNothing`, `OrphansEnd`, `DaemonTypeOK` |
| `calendar_rebuild` (1,236,487) | Two events, one per page and request, an expired token, a rebuild over several runs, the owner confirming: `TokenIsCovered`, `CompleteIsHonest`, `NoFabricatedCancellation`, `EventuallyCovered` |
| `calendar_race` (1,597,577) | The last run of a replaced daemon overlaps the next ones, it fails or is killed at any step, tokens expire twice, the owner dismisses, repeats, restores: `DecisionsStand`, `CursorNeverRegresses`, `FetchedIsShown`, `RunTypeOK` |
| `lost_pause`, `killed_run` | The two disagreements of section 5 |

The bounds, and why they are enough. *Threads and events*: two, because every hazard is about one or
about two sharing a batch, a limit, a page or the sequence counter. *Revisions, versions and
history*: two or three give old, current and restored ones, and one page before and one after each
expiry. *Units* (`MaxUnits`, `MaxGen`) and *row generations* (`MaxRowGen`): enough for a revision to
be queued, claimed, expired, claimed again and superseded, and for a rebuild to be begun, resumed,
finished and followed by another. *Processes, daemons, runners*: two, the number a race needs.
*Kills, failures, restarts*: one; a second one starts from a state the first can already leave; in
the mail runs `MaxFailures` counts the 404s of a lapse too. *Countdowns*: one tick for a lease, a
deferral, a retry, a pause and a cadence, which gives both "not yet" and "passed" at each read.
*Versions of parser and detector*: two. *The day*: `NewDay` comes when the day's requests are used
up, for only then does it matter, and while a run is in progress only once. *Covered calendars*:
runs that would find nothing new are cut off by `MaxFree` (`Due`), and `Rests` stands for them.

What these bounds keep from TLC, the theorems of section 6 cover: `triage_one` commits one claim at a
time and quarantines nothing (`ClaimsCommit`, `ReportsAreHonest`: any batch, any fault), `triage_live`
has one revision per thread, so nothing is superseded there (`triage_one` has that, and no liveness),
`sync_race` has two records, so its stale 404s are those of a lapse (`MirrorIsMonotone`: deletions and
restorations of any number), `daemon_jobs` has one lane (`SchedulerImplementsRequests`: any lanes).
`CursorNeverRegresses` compares tokens with the one before; one that is lost and then an older one are
not compared.

A bound only cuts what happens next; the liveness properties are stated so that they do
not rest on it (`Quiet` leaves `CatchUp` units, `MaxRowGen` is above what the kills and deferrals
of that run can use, `MaxGen` above what the expiries of its run can). Deadlock is checked in all runs
but `daemon_processes`, where the system stops when every daemon has ended and the bounds are
used. `SYMMETRY` is used in `sync_race` (threads, processes) and `calendar_race` (the owner's request
keys), which check no liveness.

### Fairness

- `FairSyncSpec`: weak fairness on beginning a sync and on its next step, per process. The daemon
  polls on a schedule, and a sync that started is a loop that goes on. None on mail, expiry,
  failures or time; a failed thread becomes due through the new parser version. What a lapse tombstoned
  after the thread's last change is not promised to come back, because nothing makes it.
- `FairTriageSpec`: weak fairness on a run's next step, on starting a run and on time. A run is a
  sequential program. Runs are started by the owner, so `EventuallyTriaged` says: as long
  as the owner keeps pressing "Run Shadow". No fairness on the mailbox, kills or releases.
- `FairRunSpec`: weak fairness on each runner's steps and on midnight. Calendar runs are
  scheduled, one that is not killed goes on. No fairness on the calendar, the owner or failures.
- `FairSchedSpec`: weak fairness on ticker, each worker, `stop` and the end of a child. They are
  threads that wait on a condition or a bounded time only, and a child has a time limit. None on
  calls, restarts or time.
- `FairDaemonSpec`: weak fairness on guardians, which poll every 0.1 seconds, and on the worker that
  waits for a child. None on the rest: a daemon may stay as it is for ever.

`JobRequests` asks for strong fairness of serving each job, because jobs of one lane take turns;
`daemon_jobs` shows that FIFO queues and weakly fair workers provide it.

## 5. Findings

Each is a short run of the model that violates what a document, message or test says.

1. `killed_run` (`shadow_trial.py:1523`): a run killed between its operational commit and the
   acknowledgement of a deletion makes every later run append a second notice under the same
   tombstone identity, and conflict. `shadow_controller.py:179` tells the owner to run again safely.
2. `lost_pause` (`daemon.py:372`): the ticker asks `_is_paused` without the lock, and the question
   itself clears a pause that has run out, in a second step. A pause the owner sets between the
   two is overwritten, first in memory, then by the next save on disk.
   `docs/runbooks/brain-v2-production-cutover.md:108` and `tests/test_daemon.py:787` expect it to last.

Seen while modelling, without a run of its own. The properties exclude these cases by name, as
their comments say.

- *Mail, one 404.* The reader takes one 404 of `threads.get` for the thread's deletion
  (`google_sources.py:621`), and the store tombstones it. When the thread is there all the same, it
  stays a tombstone until it changes or a full listing meets it: the history id saved is past its
  last record, and a tombstone is not retried like a quarantined thread.
  `docs/architecture-code-guide.md:185` calls tombstones provider-confirmed. (`lapses` in
  `ShownWasAnswered` and `EventuallyMirrored`.)
- *Upgraded detector.* After a detector or policy release a completed row is claimed again under
  its old mirror sequence. The new observation's order is not greater than the current one's, its
  assessment is refused, and the whole batch rolls back, until new mail arrives in that thread.
  `docs/specs/chief-of-staff-operations.md:229` says upgrades append a new interpretation.
  (`FirstContext` in `ClaimedUnitCommits`, `EventuallyTriaged`.)
- *Deleted twice at one checkpoint.* A thread that is lost, found and lost again while the unit stays at
  one history id gets the same tombstone twice. Its second revalidation has the identity of the
  first and other content, so the unit is refused, as after the kill of `killed_run`.
  (`DeletionsAreNew` in `ClaimedUnitCommits` excludes both;
  `triage_live`, which checks `EventuallyTriaged`, has no deletions.)
- *Failed model call.* Its visible fallback is stored under the identity of the successful retry,
  which then conflicts. (`deferrals = 0` in `ClaimedUnitCommits`, where failures are counted too.)
- *Deferred, then killed.* The error a deferral left on a row survives the lease sweep and
  hides a committed decision from the next run, which asks the model again;
  `tests/test_shadow_trial.py:552` expects the reuse. (`deferrals = 0` in `DecisionsAreReused`.)
- *Calendar, deletions by id alone.* Their revision is `<<"tombstone", checkpoint>>`, the checkpoint
  being the token the listing began from, or `full` without one (`shadow_trial.py:481`). A second
  deletion of an event restored in between can have the revision of the first; it is then taken
  for a known observation, and the item stays active although the event is gone and the saved token
  covers it. Found when the proof of `TokenIsCovered` did not go through without `DeletedBefore`, and
  seen in a simulation with four versions of an event. (`DeletedBefore` in `TokenIsCovered`,
  `CompleteIsHonest` and `FetchedIsShown` excludes such events; within the bounds of the runs
  there are none.)
- *Calendar, time of a confirmation* (`shadow_trial.py:1876`). A confirmation counts when it is later
  than the start of the run that made the observation, so it may confirm a mark the owner had
  not seen. `HumanConfirmed` is what the code computes.
- *Calendar, repeated 410.* When an expired request fails as well and
  `min(20, requests_per_day)` pages use the day up, the restarted listing never gets through its
  first run. `MaxPages <= DailyLimit` and two requests a day keep the run away from this.
- *Calendar, dismissed events.* An event deleted across a rebuild while its item is dismissed is not
  marked, and restoring the item shows it as active; `TokenIsCovered` excuses what the owner restored.
- *Calendar, horizon.* An event that comes into the window by time alone is not in an incremental
  listing until it changes or a full listing is made; the `near` kind is such an event, and the
  properties about the token speak of `live` ones.
- *Calendar, page tokens.* An expired page token of a saved full listing is never discarded, which
  is not modelled. An event whose content changes under one etag, by a change of the policy's time
  zone, is a conflict in each run: the check is (`ContentConflicts`), the change is not.
- *Action ledger.* `apply_action` and the critic of `decide_action` act on a status read before
  another transaction (`cos_actions.py:977`, `cos_actions.py:2919`). Not modelled yet.

## 6. What is proved

TLAPS checks every proof, for all values of the constants that satisfy the named assumptions, which
TLC evaluates in every run: `IdentityAssumption`, `NumberAssumption`, `RevisionAssumption`
(`GmailMirror`), `SyncAssumption` (`GmailMirrorSync`), `TriageAssumption` and
`ObservationAssumption` (`GmailTriage`),
`StoreAssumption` (`OperationalState`), `RunAssumption` and `NullAssumption` (`CalendarRun`),
`SchedulerAssumption` (`JobScheduler`), `DaemonAssumption` (`DaemonProcesses`). They say which values
are told apart, which numbers are positive, and what a token names.

**The store, under any caller** (`GmailMirrorProofs`). The inductive invariant is

    MirrorInv == TypeOK /\ ActiveRowIsCurrent /\ CurrentIsQueued
                        /\ SequencesDistinct /\ PointerStored

Its parts need each other: that a re-enqueued row takes an unused sequence needs every
sequence to be at most the checkpoint's; that only current rows are active needs the row
operators to keep their types. The proof first says what each operator does to one row
(`EnqueuedRow` ... `TickedRow`), then reduces `ApplySyncUnit` to "a thread moves or stays"
(`ApplyMoves`, `ApplyCases`), and claims, acknowledgements and ticks to one
relation, "rows are reworked" (`ClaimReworks`, `FinishReworks`, `TickReworks`), which preserves every part
(`ReworksPreserve`). Theorems: `TypeCorrect`, `OnlyCurrentWork`, `NothingUnqueued`,
`NoSequenceCollision`, `CurrentContentReadable`, and the action property `StoreAppends`
(content is immutable, a moved pointer takes a new sequence).

**Synchronization** (`GmailMirrorSyncProofs`). `SyncImplementsStore` shows that the synchronizer, with any
number of processes on whatever stale checkpoints, only ever performs transactions of the store. The
inductive invariant `SyncInv` is about what is *known* along a sync that may be cut anywhere:

- of the mailbox (`World`): the log's and the history variables' types and order;
- of a saved checkpoint, with the floor of its last full traversal (`SavedGood`): it is one the next
  sync can go on from (`Whole`); what its tokens and history ids name was issued by the log as it
  is (`SavedIssued`); pending threads were heard of (`SavedHeard`); every record up to its history
  id is shown, pending, or still to come from its token (`Covered`, `SavedCovers`);
- of each sync in progress, relative to the checkpoint it read (`SyncGood`): the phase's shape, what
  it read, that its tokens were issued, that its content is an answer the log or a lapse vouches
  for at the time it was asked (`Heard`), not older than its listing or, while its checkpoint is
  current, than what the mirror shows (`News`), and that what it will commit together with what
  the mirror shows covers every record up to the history id it will save (`Covers`).

A deletion settles nothing, since it can be undone; what settles a record of a thread is an answer
given at that record or later, or an open failure (`Settled`). Hence the invariant speaks of when an
answer was given (`asOf`, `asked`), never of what it said.

These parts are operators of values (the log, a checkpoint, what the mirror shows of each thread and
since when), so one lemma about a growing log (the `Grows` lemmas) serves new mail and every
syncer, and one about a commit (`CommitEffect`, `Saves`) serves both kinds of unit. A
syncer whose checkpoint was overtaken keeps only what makes its unit refused by the generation
(`OvertakenGood`). From it: `NoChangeIsLost` (`NoLostChange`), `EverySyncResumes`
(`Resumable`), `MirrorShowsAnswers` (`ShownWasAnswered`), `SyncTypeCorrect` and the action property
`MirrorIsMonotone` (`MirrorNeverRegresses`), for any page size, limits, number of threads, records
and processes.

**Gmail Shadow runs** (`GmailTriageProofs`). `TriageImplementsStore` shows that every step of
`TriageSpec` is a transaction of the store, with arguments the store accepts, or leaves it alone;
hence all of the above about the store holds while runs, kills, releases and mail interleave. The
inductive invariant adds what a run knows in each of its phases:

    TriageInv == MirrorInv /\ HistoryKnown /\ RunInv /\ CompletedIsDecided
    RunInv    == RunType /\ Answered /\ TicketsDecided /\ CoveredItems

`CompletedIsDecided` alone is not inductive: an acknowledgement is right only because the run
committed the decision of that very ticket earlier (`TicketsDecided`), which holds because each
claimed live revision was cached or answered (`Answered`), and no other step completes a row
(`ApplyCompletesNone`, `ClaimCompletesNone`, `TickCompletesNone`). `HistoryKnown` is
needed because an incremental unit with no history id would be an invalid one. Theorems:
`NothingAcknowledgedUndecided` and `ReportsAreHonest` (`NoFalseAllClear`): with no backlog
(`NoBacklogIsDecided`), every current revision's row is completed, hence decided; and a run
that still counts as covered left no item waiting for revalidation (`CoveredItems`).

**Items of Gmail Shadow runs** (`GmailItemProofs`). What a thread's item shows depends on three orders
that the code never compares in one place: the mirror's sequences (claims and rows), the
source order of observations, and the provider's revisions. `ItemInv` relates them:

- an observation cites a decided revision and never sorts after that revision's row (`ObsInv`), the
  pointer has the last sequence of its thread (`PointerLast`) and the newest stored revision
  (`NewestStored`), the item the newest decided one (`NewestShown`);
- from claim to commit a claim is `Ahead` of its thread's item, in the source order or by being the
  very revision shown; once committed, the item shows it or it was deferred (`TicketsShown`);
- a run has one claim per thread (`OneTicket`), of a detector in force (`ContextInv`), and suppresses
  only what has no item (`SuppressedUnshown`); without deferrals no error is recorded (`Undeferred`).

`CompletedIsProjected` is part of it: an acknowledgement is right because of `TicketsShown`, a
commit because of `Ahead`, and new mail because it takes a new sequence. A replay brings back the
newest of the retained observations, which exists (`Least`, by well-foundedness of the numbers)
and is what the store has. Theorems: `ItemsFollowTheMirror` (`CompletedIsProjected`),
`NothingDecidedTwice` (`DecisionsAreReused`), `ClaimsCommit` (`ClaimedUnitCommits`) and
`TriageTypeCorrect` (`TriageTypeOK`).

**Calendar runs** (`CalendarProofs`). What makes a saved token right is spread over a listing that
stops and goes on in later runs, a rebuild's memory of what it met, and an owner who decides
meanwhile. The inductive invariant is

    CalendarInv == types /\ SeenInv /\ ItemsInv /\ CursorInv /\ RunsInv

- each retained observation is one the calendar or a rebuild can have produced, and not of a later
  version than the event (`SeenInv`); an item shows the newest version
  retained, and its state is that of the owner's override or of that observation (`ItemsInv`);
- of the saved cursor (`CursorInv`): its token and continuation were issued by the calendar as it is
  (`CursorOK`); what they list as unchanged is shown (`Faithful`); active items are up to them
  (`Kept`); a rebuild under way has met, or will, every event it lists (`Met`), and the marks made so
  far are of earlier rebuilds (`MarksBefore`); with "complete" no mark waits for its owner (`Told`);
- of a run (`RunsInv`): what its phase fetched (`ListInv`), the unit it will persist and the cursor
  it will save (`UnitOK`, `NextOK`) at any time, and what these say of the store (`GotInv`,
  `UnitInv`) only as long as the cursor is the one it read. Once another run has committed, the
  generations differ and its own commit is refused.

`CursorInv` is what neither property says alone: `TokenIsCovered` speaks of a token, but a token is
saved at the end of a listing that may have begun several runs ago. The parts are operators of
values with a set of events left `open` (still to come from a page, or fetched and not committed),
so the same formula serves the cursor, a run that lists, and a run about to commit. One lemma covers
a calendar that grows (`Grown`), one an owner who decides (`Touched`), and the steps that leave
the store alone share a relation (`Calm`). A commit is reduced to what `Observe` does to
one item: a revision met first, one met again, or a deletion that is not observed (`FirstMet`,
`MetAgain`, `Took`). Theorems: `CalendarInvHolds`, `RunTypeCorrect` (`RunTypeOK`), `TokenCoversStore`
(`TokenIsCovered`), `CompleteMeansComplete` (`CompleteIsHonest`), `AbsenceIsNoCancellation`
(`NoFabricatedCancellation`), and the action properties `TokenOnlyAdvances` (`CursorNeverRegresses`),
`CommitShowsFetched` (`FetchedIsShown`) and `OwnerPrevails` (`DecisionsStand`), for any number of
events, versions, runners and token epochs, any page size and budget.

**Daemons** (`DaemonProofs`). `DaemonInv` adds to the types: a lock file is held by at most one
daemon (`LeaseInv`); the home lock is the closing thread's exactly from the end of the drain to the
release (`HomeInv`, which also keeps mutations out of a start that has written its handshake or
failed); whoever passes the lease check is the youngest daemon that ever took the lease, because a
newer one needs the path's file and the path never goes back (`EpochInv`); who is in the body of a
mutation passed that check with both locks (`WriteInv`), so the last commit's lease is never above
the next one's; after the authority is withdrawn at most one thread, the one with the store lock,
can be past the last check (`LateInv`); a daemon whose scheduler does not run yet or was stopped has
no guardian that could start a child (`ChildInv`); a daemon between its handshake and its `close` is
the one the handshake names, unless the lock file was replaced (`FindableInv`). Theorems:
`OlderNeverWrites` (`WritersAreFenced`), `AtMostOneLateCommit`, `ServersAreFindable`,
`ReleaseIsQuiet`, `NoWriteAfterRelease`, `DaemonTypeCorrect`, for any number of daemons, threads,
kills and replaced lock files.

**Scheduler** (`JobSchedulerProofs`). `SchedInv`: what waits in a lane's queue is a job of the lane, has
its queued flag and waits once (`QueueInv`); the job a worker has taken out is of its lane, and until
the worker decides it still has the flag and is in no queue (`WorkerInv`); a child that `stop` has not
seen cannot exist once the door is closed (`ChildrenInv`). Theorems: `SchedTypeCorrect`,
`StopLeavesNoChild` (`StoppedIsQuiet`), and `SchedulerImplementsRequests`: every step of ticker,
workers, owner and stop is a step of `JobRequests` or a stutter, the safety half of
`ImplementsRequests`.

**Only model-checked.** Liveness under fairness, and anything with `ENABLED`, is out of the
prover's reach and stays with TLC: `EventuallyTriaged`, `EventuallyMirrored`, `EventuallyCovered`,
`RequestedRuns`, `DueJobRuns`, `WorkersEnd`, `OrphansEnd` and the fairness half of
`ImplementsRequests`. `QuietIsKept` is false in general (section 5) and holds in `daemon_jobs` because
its one pause is not extended.

## 7. What is not modelled

Components marked `not_modelled` in `PROJECT.json` carry the reason. In short: prompts, parsing,
ranking, attribution and the temporal pipelines compute text; HTTP, OAuth and user interfaces
are input and output; migrations and recovery are one-off and sequential. In the modelled
components these are left out: the budget callback of the mail reader (a refused call is a failed
call), the briefing written after a run, snoozing, corrections of an item's text and user locks,
which jobs a configuration registers, and what runs inside a mutation lease.

## 8. Plan

Done: the modules of section 2 and the proofs of section 6. Next, in this order:

1. **GmailArchive** (`gmail_archive_sync.py`): phases over one saved state. Properties: no message
   between cursor and baseline is lost, progress past a page.
2. **ActionLedger** with review and undo (`cos_actions.py`, `review_undo.py`): an action's effect at most
   once, a revert that does not discard a later effect.
3. **SyncTransfer** (`sync_transfer.py`): promotion of staged files with crashes.

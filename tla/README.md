# DroppedNeedle: a TLA+ verification project

DroppedNeedle searches for, downloads, imports and manages music. Its backend
(`src/backend`) is one asyncio process over SQLite databases. It drives two
download clients, slskd (Soulseek) and SABnzbd (Usenet). This project models the
parts in which state survives awaits, coroutines, restarts and the two clients: the
life of a download, the journal of its attempts, the durable cleanup of what
the attempts leave behind, the publication of imported files into the library with its
rollback and recovery, the leases on library roots that publishers and scans share, and
the library scan.

Paths below are relative to `src/backend` unless they start with `src/`.

## 1. Inventory

### 1.1 The parts and their state

| Part | Code | State it keeps | Operations | What makes it correct |
|---|---|---|---|---|
| Download orchestrator | `services/native/download_orchestrator.py` | `_active_tasks`, `_task_operation_locks`; `download_tasks`; the staging manifest | `process_task`, `_resume_single_task`, `_run_with_failover`, `cancel_task`, `try_next_source`, `reimport_task`, `settle_after_manual_import`, `retry_task`, `reap_stale_tasks`, `startup_resume` | one driver per active download; ended downloads stay ended; a cancel sticks; no two peers send the same music; every transfer is covered by a journal row |
| Attempt journal | `infrastructure/persistence/download_store.py` | `download_attempts`: state, disposition, bundles, lease, revision, evidence | create, handle, schedule, claim, transition (compare-and-swap), reacquire, record a failure, finalize and cancel with the task | a compare-and-swap that succeeds was decided from the row as it is |
| Acquisition cleanup | `services/native/acquisition_cleanup_service.py` | leases in the journal, copies of rows in coroutines | `run_once`, `cleanup_now`, `recover_startup`, `_process_claimed`, `reconcile_orphan_folders` | one effective worker per row; bytes outlive the publication that needs them; debt is worked off |
| Strategies and client adapters | `services/native/acquisition/strategy.py`, `repositories/slskd`, `repositories/sabnzbd` | the remote queue and history | enqueue, poll, inspect, abort, discard | what was sent is journaled first |
| Library publisher and recovery | `library_management_publisher.py`, `library_management_recovery_service.py` | `library_management_import_bundles`, a journal row per file, staged files, set-aside files | `publish_import_bundle`, roll back, clean up, `recover_import_bundle`, `resolve_import_bundle` | the library has all of a bundle or none of it; a replaced file is never lost; recovery ends in a settled state |
| File processor | `file_processor.py` | held files, the ProcessResult | import, hold for review | its disposition tells the truth about the workspace |
| Download service | `services/native/download_service.py` | none of its own | request, pick, cancel, retry, import a held file | a request acts on a task that is still as it was read |
| Loops and task registry | `core/tasks.py`, `core/task_registry.py` | names of running tasks | cleanup loop (30 s), orphan sweep (1 h), watchdog (300 s) | every loop comes back after an error |
| Requests, dispatcher, quota | `request_service.py`, `requests_page_service.py`, `request_history.py`, `acquisition_dispatcher.py`, `quota_service.py` | `request_history`, quota counters | request, approve, cancel, sync the status with downloads | one live request per album; quota is spent once |
| Wanted watcher | `wanted_watcher_service.py`, `wanted_store.py` | watches, due dates, claims | tick, claim, dispatch, mark found | a watch is neither dispatched twice nor forgotten |
| Drop import | `drop_import_service.py` | drop folders and jobs | detect, settle, import | a folder still being written is not imported |
| Library scans | `library_scan_coordinator.py`, `library_inventory_scanner.py`, `library_indexer.py`, `library_reconciler.py`, `library_scan_supervisor.py` | `library_scan_runs`, scopes and the scan inventory; in memory the pending controls and the discovery fence | request, claim, discover, index, reconcile, pause, resume, stop, recover | a file is never called missing while it is there, nor overlooked; a stop is obeyed; every run ends |
| Filesystem coordinator | `library_filesystem_coordinator.py` | per root: readers, writer flag, waiting writers, parked futures, revision | `read_many`, `write_many`, release, cancel | readers share, a writer is alone; nobody deadlocks or starves; no wake-up is lost |
| Library operations, workload gate, WAL checkpoints | `library_operation_*`, `identification_queue_service.py`, `background_workload_gate.py`, `wal_checkpoint_service.py` | jobs and leases, waiting work | claim, cancel, finish, defer | a job is worked on by one worker; a cancel ends it; nothing starves |
| Automatic upgrade | `maintenance/automatic_upgrade.py` | an upgrade journal on disk | plan, back up, migrate, switch, roll back | a crash at any step is recoverable |
| Resilience | `infrastructure/resilience/*` | circuit state, tokens | call, record, half-open probe | opens after the threshold, lets one probe through |
| Single flight, queues, wake-ups | `infrastructure/http/*`, `infrastructure/queue/*` | in-flight futures, heaps, wake-up events | join, lead, cancel | a waiter never waits on a dead leader |
| Caches and events | `infrastructure/cache/*`, `sse_publisher.py` | best-effort copies | get, put, publish | none the rest relies on |
| Users, sessions, playlists, scrobbles, plugins, compatibility APIs, frontend | `services/*`, `infrastructure/plugins`, `src/frontend` | rows and views | create, read, update, delete | mostly row-wise |

### 1.2 How they interact

* A request creates a task and dispatches a coroutine that runs it (*runner*). The
  runner searches, links a candidate, and hands it to a client through a strategy,
  which **journals an attempt before it sends anything** and then writes the
  manifest.
* The runner polls the client, imports through the file processor and the
  publisher, and either ends the task or *fails over* to the next candidate.
  Ending a task and scheduling its attempt is one transaction
  (`finalize_task_and_attempt`, `cancel_task_and_schedule_attempts`); failing over
  is several awaits (abort, schedule, link, reset).
* The cleanup service claims scheduled rows under a lease of 300 s, waits for the
  publication bundles the row names (its *barriers*), asks the client what became
  of the job, records the evidence, removes the workspace, discards the client's
  record, and completes the row. Each write is a compare-and-swap on
  `row_revision`.
* Requests of users cut in. Cancel, switch and re-import share a lock per task;
  pick, settle, retry and the reaper do not take it, and a runner never does.
* The sweep of orphan folders deletes what no live row, task or bundle wants.
* The publisher stages the files of a bundle next to their destinations, takes a write
  lease on the bundle's roots, sets replaced files aside, renames the new ones into place,
  has the catalog adopt them, and then removes the sources and recycles what it replaced.
  Each rename is bracketed by writes to the file's journal row.
* A scan walks the same roots without a lease. It compares the lease revision from before
  the walk with the one after it, walks again if a publisher was there, and marks a track as
  missing only if the revision has still not moved when it reconciles (the *fence*).
* After a restart the publisher's recovery runs first, then `recover_startup`
  drains the claimable cleanup, then `startup_resume` dispatches active tasks.

### 1.3 What is hard

Status reads before an await and writes after it; a stopped runner whose last
write was already made; leases that lapse under a worker; compare-and-swap
against stale copies; a reply of slskd that is lost; restarts between two
transactions; cleanup of bytes that a second import of the same files is
publishing; a rollback that works on copies of journal rows; several renames and writes of
which each may be the last before a crash; a recovery beside the publisher it recovers from;
writers that hold one root while they wait for another; a walk past files that are being
moved; controls that arrive when a worker has already left its loop; and termination of all
this. `PROJECT.json` lists each of
these hazards with its line and the property that covers it.

## 2. The modules

| Module | Models |
|---|---|
| `AttemptJournal` | one row of `download_attempts`, and each transaction on it as an operator from a row to a row with its WHERE clause |
| `AcquisitionCleanup` | the cleanup workers, the orphan sweep, and around each attempt its download, its import with publication bundles, cancels, re-imports and restarts |
| `AcquisitionCleanup_proof` | theorems about it, for all constants |
| `DownloadTask` | one Soulseek album download: runners, six kinds of request, the reaper, the peers, restarts |
| `SourceLadder` | the abstract promise of failover, implemented by `DownloadTask` |
| `DownloadTask_proof` | theorems about one download, for all constants |
| `DownloadTask_rows` | theorems that count the rows of its attempts |
| `DownloadTask_ladder` | theorem that it refines `SourceLadder`, and on the live row of a download with one request |
| `ImportPublication` | the publication of one import bundle: calls, rollback, cleanup, recovery, an administrator |
| `SafeImport` | what a publication promises, implemented by `ImportPublication` |
| `BundleLife` | the moves of a bundle that the cleanup relies on, implemented by `ImportPublication` |
| `ImportPublication_steps` | lemmas about the steps of a publication |
| `ImportPublication_proof` | theorems about it and both refinements, for all constants |
| `RootLeases` | the filesystem coordinator: leases on sets of roots with waiting, waking, cancelling |
| `SharedLeases` | what a lease promises, implemented by `RootLeases` |
| `RootLeases_proof` | theorems about it, for all constants |
| `LibraryScan` | a scan run from claim to end, a queued one, and everybody who interferes |
| `LibraryScan_proof` | theorems about it, for all constants |
| `MCAcquisitionCleanup`, `MCDownloadTask`, `MCImportPublication`, `MCRootLeases`, `MCLibraryScan` | the small instances TLC checks |

`AcquisitionCleanup` sees a download as what it does to *one attempt* (`owner`,
`task`); `DownloadTask` sees the cleanup as the single step `CleanupSettles`. The
two abstract each other at the journal, which is where the code separates them.
`AcquisitionCleanup` sees a publication as the moves of a bundle (`Publish`, `BundleMoves`,
`ResolveBundle`); `BundleLife` names these moves and `ImportPublication` is shown to
make no other (`MovesAsCleanupExpects`). `ImportPublication` and `LibraryScan` use leases as
`RootLeases` hands them out: a lock in the order of asking, and roots that are being published.

### 2.1 AttemptJournal

A row is a record. Timestamps are kept as what queries ask: `due` (has
`next_retry_at` come?) and `live` (is the lease still running?). `row_revision` is
only ever compared for equality, so it becomes the set `seen[a]` of workers whose
copy is current; any other writer empties it. `failures` stops at the one number
the code compares it with.

### 2.2 AcquisitionCleanup

`worker[w].place` is the position in `_process_claimed`, one place for each await
whose order with others can matter. Each place is an action: `Claim` (a page for
`run_once`, a single row for `cleanup_now`), `Begin`, `Barrier`, `Inspect`,
`Evidence`, `Abort`, `Absence`, `Remove`, `Removed`, `Discard`, `Complete`; the
path of rows that need attention: `Recheck`, `AttentionDiscard`,
`AttentionSettles`; the error handlers: `CallFails`, `Refused`, `Reread`, `Record`.
`view[w][a]` is the copy the code holds in a local variable. The two clients differ
where the code does: SABnzbd has a gap between queue and history in which the job
is invisible, refuses to abort a completed job, and leaves a folder; slskd has
located files.

The download side has an action per transaction on the row (`Acquire`,
`HandleKnown`, `FinishImport`, `Abandon`, `Cancel`, `Reacquire`), the client's own
moves (`HandOff`, `JobMoves`, `JobForgotten`), and the bundle's states
(`Publish`, `BundleMoves`, `ResolveBundle`). `Crash` drops what is in memory and
keeps rows, leases, bundles and files; `Killed` is the cancellation of a coroutine
that runs `cleanup_now`.

### 2.3 DownloadTask

`runner[r].place` is the position of a coroutine of `process_task` or
`_resume_single_task`, with the locals that survive awaits: the status and candidate
it last read, the attempt it polls, the outcome, the verdict. `op[k]` is the same for
a request. The model keeps two copies where the code has two: what is in the row
(`task`), and what a coroutine believes. `Actors` says which requests and
interference an instance has. The steps of failover (`Abort`, `Schedule`, `Link`,
`Reset`) are separate because the code awaits between them. `CrashAndResume`
contains `startup_resume`.

Candidates are ranks `1..Peers`; `Behind(c)` is the set that
`_next_candidate_entry` may return, since quality and policy can skip any; the first rank is
never behind another. A task without a candidate passes `Prepare` as it is, and `Open` is not
reached by it.

### 2.4 ImportPublication

`proc["pub"]` is the call of `publish_import_bundle` that is under way (calls for one bundle
are serialised by its lock), `proc["rec"]` the recovery, which runs at startup and then in
every iteration of the operation worker. `at` is the position, `view` the copies of the
journal rows, and `fresh` the files whose copy still has the row's revision: a transition
succeeds only for those. `disk[f]` has a slot per path the code touches: the source, the staged
temporary, the destination, the set-aside old file, an old file at another path, the recycle
bin, and the artwork's two. A step is one rename, unlink or journal write, or one read whose
result is used after an await.

The preparation (`Plan`, `StageArtwork`, `Stage`, `Seal`, `Validate`), the critical section
(`Boundary`, `Recheck`, `Publish`, `Backed`, `Place`, `PlaceArtwork`, `RecordPublished`,
`Commit`), the rollback (`Undo...`, `RollEnds`), the cleanup (`Clean...`) and the recovery
(`List`, `TakeUp`, `ReadJournals`, `Forget`, `Check`, `Attend`) follow the code in that order. Rollback
and cleanup are one set of actions for both processes, as they are one set of methods. `rebuilt` has
the files whose artwork a rollback knows from their row only: artwork that came as bytes (`Content`) has
no fingerprint there, so that once it is in place such a rollback refuses to remove it (`UndoArtwork`).

Faults: the publisher raises between two of its steps, or its caller is cancelled while it prepares,
waits for the lease or cleans up (`PublisherFails`; the section under the lease and the rollback are
shielded); the disk fails under a rollback, the database under a rollback or cleanup, a source cannot
be removed, the process ends (`Crash`), the policy changes, a stranger's file appears at a destination,
a source changes. A staged file is written by a thread (`asyncio.to_thread`), which a cancel does not
stop: `StagingCancelled` begins the rollback and leaves the thread in `threads`, and `StagedLate` writes
the file whenever the thread gets there, before, during or after the rollback, or beside a retry.
`stranded` has the files that were written so.

### 2.5 RootLeases

`readers`, `writerActive` and `waitingWriters` are the fields of the per-root state, `waiters`
the parked futures, `woken` the coroutines whose future has its result. An action is what one coroutine does
between two awaits: `AskRead` and `AskWrite` ask for a set of roots, `Retry` runs after a
wake-up, `LeaveRead` and `LeaveWrite` release, `CancelRead` and `CancelWrite` are a
cancellation while parked, also after the future got its result. A reader takes all its
roots or none; a writer announces itself on all of them first and keeps what it has.

### 2.6 LibraryScan

`run` is the row of the run that is or was worked on, `queued` the one behind it, `scope` and
`inventory` its tables, `worker` the position in `_continue_run` and the phase below it, `pending`
the in-memory set of noted controls, `fence` the recorded revisions. A checkpoint is the guard
`GoesOn`; a phase that ends because a checkpoint said no goes to a place `left_...`, since the
coordinator reads the row again only when the phase has returned (`Return`), and the row may have been
resumed in between. Publishers move files with their tracks under a write lease (`Publish`,
`Released`); the user adds and deletes files without one.

A row of the inventory is `new`, `changed` or `known` (unchanged) after the walk, then `done` or
`failed`. The indexer reads the tags of new and changed files; a read that is put off because too many
are stuck, times out, raises, or finds the file changing or gone makes the row `failed`, and no track
comes of it (`IndexRow`, `CommitRow`). The walk itself reports and skips what it cannot take up
(`skipped` in `WalkPath`). Neither ends the run or degrades the scope.

## 3. The runs

Every name below is a `.cfg`. All runs set `CHECK_DEADLOCK FALSE`, because a download
that has ended, with its cleanup done and its requests spent, really stops, and so do a settled
bundle, clients that ask for nothing and a scan with no run queued.

### 3.1 Cleanup, expected to hold

| Run | Instance | Shows |
|---|---|---|
| `CleanupRaces` | 1 Soulseek attempt, 2 workers, a lapse | `CurrentView`, `CommitExclusive`, `SettledMeansCleared` |
| `Publishing` | 1 Usenet attempt, 2 workers, 2 plans | `SourceStaysWhilePublishing` |
| `CleanupLiveness` | 1 Usenet attempt, 1 worker, a fault, a restart or killed worker | `DebtSettles`, `DebrisCollected` |

Why the bounds suffice: rows do not interact except through a page (`run_once`
claims several), and a page only fixes the order in which one worker turns to
them; the races are about one row, seen by a worker with a stale copy, one with a
current copy, and the download. Two plans let a re-import publish a bundle of its
own beside an older one. `UnresolvedJobRetries = 1` reaches both sides of the
comparison. One fault and one lapse or restart place an error at every point.
`Publishing` assumes no restart and no lapse: with either, the property fails
(section 3.5). A Usenet instance of `CleanupRaces`, a Soulseek one of `Publishing`
and a fault in either hold as well; they are left out for the time they take.

### 3.2 Downloads, expected to hold

| Run | Instance | Shows |
|---|---|---|
| `TaskRows` | 3 peers, limit 2; one pick or switch; the reaper; 2 runners | `OneLiveRow`, `SwitchesInBudget`, `TransfersJournaled` |
| `TaskReimport` | 2 peers; two of re-import, cancel, retry, held-file import; other imports; a restart | `ReimportKeepsRow` |
| `TaskLadder` | 3 peers, limit 3; a cancel; a restart | `LadderSpec`: refinement of `SourceLadder` |
| `TaskLiveness` | 2 peers; a cancel; a fault, a restart | `TaskEnds`, `CancelSticks`, `TransfersJournaled` |
| `TaskReaped` | 1 peer; two of cancel and switch; the reaper | `StaleIsReaped` |

Why the bounds suffice: two candidates give one failover and the exhaustion of the
list; a third gives a skip and a switch after a switch. Each caller makes one
request; two callers give every pair. `MaxFailover = 2` makes the limit bite with 3
peers. `MaxAttempts` bounds the rows where `Journal` and `ReimportAcquire` add one; it
leaves room for the rows of an outage or a restart, and in the liveness runs no
behaviour is ever stuck at it (it would show as a counterexample of `TaskEnds`).

Some properties hold only in a part of the world, and the runs say which:

* `LadderSpec` is checked without manual switches and without client faults
  (`EndedStaysEnded` and `OneSender` of 3.5 say why).
* `OneLiveRow` is checked without client faults: an outage leaves the rows of failed
  tries in `acquiring` (`BudgetCountsSources` of 3.5).
* `CancelSticks` is checked without manual switches (`CancelRace`) and without the
  reaper, which writes from what it read earlier. `TransfersJournaled` is not checked where
  cancels and switches meet either: the runner that `CancelRace` starts can send after its row
  was scheduled and settled.
* `StaleIsReaped` has one peer, so that a switch always ends in a conflict, after it has stopped
  the runner; a switch that succeeds is in `TaskRows`.
* `TaskEnds` is checked without manual switches: one that fails late can leave a task
  `queued` without a runner (`ActiveIsDriven` of 3.5), which the reaper does not look at.
* `ReimportKeepsRow` is checked without picks: a pick that was asked for before a
  restarted search failed the download starts a runner for a failed download.

### 3.3 Publication, expected to hold

| Run | Instance | Shows |
|---|---|---|
| `Import` | 2 files: one replaces the file at its own path and brings artwork as bytes, one replaces a file elsewhere; 2 calls; 2 disturbances | `ImportIsSafe` (refinement of `SafeImport`), `MovesAsCleanupExpects` (refinement of `BundleLife`), `RolledBackClean`, `OldKept`, `CompletedWhole`, `StrangersStay`, `Concludes`, `Boots` |

Two files are what "half of a bundle" needs, and the two kinds of replacement differ in which path
holds the old file. The second call is the retry. Two disturbances let a crash hit a rollback
that a fault began; what the thread of a cancelled call writes late is not counted as another one. The
properties also held with three disturbances (1.0 million states), which takes longer than a
run should.

What the properties leave out, because the code does: `RolledBackClean` allows for the artwork of
a file in `torn` (a crash fell between the removal of a file and that of its artwork, and the next
rollback no longer knows that it had placed any), for the staged files of a file in `stranded` (the
thread of a cancelled call wrote them, `NothingStaged` of 3.5), and for bundles in `crossed`: a call
that began while the recovery was at work may stage a file after the recovery has passed; and for a
call that began beside such a thread, the staged file may be there again when a rollback asks whether
the file was moved, so that it takes one that was moved for one that was not, and leaves it in place.
`CompletedWhole` makes the same exception for staged files.
`StrangersStay` speaks of paths where no set-aside file is to go back. `Concludes` lets a
bundle stay in `cleanup_pending` when its source changed: it is retried in every iteration, for ever.

### 3.4 Leases and scans, expected to hold

| Run | Instance | Shows |
|---|---|---|
| `Leases` | 3 clients, 2 roots, 4 requests | `LeasesShared` (refinement of `SharedLeases`), `CountsExact`, `NoLostWakeup`, `NoOvertaking`, `Served` |
| `Scan` | 2 scopes on 2 roots, 3 paths, 1 more walk, 3 disturbances | `CompletedSwept`, `NothingOverlooked`, `NoFalseMissing`, `StopWins`, `EndedStays`, `RunsEnd`, `QueuedRuns` |

`Leases`: two roots give a lease that is held while its owner waits for another, three clients a
holder, a writer in the queue and a reader that could overtake it; a fourth request lets somebody
come back. Everything but `Served` is proved for any number of each (section 5).

`Scan`: a publication within a root and one across two, a path that is catalogued, one that is
only on disk and one that is neither, a run and the one queued behind it. `Rewalks = 1` (2 in the
code) reaches both outcomes of a broken fence. Three disturbances are a pause, its resume and
a publication, say; requests, policy changes, skipped files and failed reads of files that
are there count as well. `CompletedSwept` counts a failed row as inspected, as the code does, and `NothingOverlooked`
accepts a file that is not in the library if the run has recorded that it skipped or failed it (`Told`).
`CompletedSwept`, `NothingOverlooked` and the liveness properties exclude
runs in `crossed`: a control that came while the worker was not in the run, or a resume before it
had returned (`ControlsSettle` and `PauseIsNoFailure` of 3.5). `NoFalseMissing` excludes runs that were
restarted, since the fence is in memory, and has one scope per root.

### 3.5 Disagreements the models found

One is a run that TLC ends with a trace; `PROJECT.json` quotes the lines. `CancelRace`: a
cancel stops the runner before it takes the lock; the switch that holds the lock starts another,
which writes over `cancelled`.

The properties below fail as well; they stand in the modules and no run checks
them. Each needs only the instance named here. For the two download modules that is `Spec` with
one runner, one caller, one worker, one plan, no fault, no restart, `MaxFailover = 2` and
`MaxAttempts = 4` unless it says otherwise; for the other two, the run's `.cfg` with
`MaxDisturbed = 2`.

| Property | Instance | What happens, and where |
|---|---|---|
| `InUseMeansLiveWork` | cleanup, 1 Usenet attempt, a restart | a restart between the two transactions that start a re-import (`download_orchestrator.py:3574`, `:3585`) leaves a row `in_use` under a failed task; no query claims it and no re-import can acquire it again. `download_store.py:1745`: "acquiring/in_use mean live work" |
| `EndedStaysEnded` | `Switcher`, 2 peers | a manual switch reads the task again (`:3248`) but not its status; a download that failed meanwhile is started over. `status.py:38`: "no further automatic transition" |
| `CompletedIsFinal` | `Settlers`, 2 callers, 1 peer | `settle_after_manual_import` (`:2833`) completes a download without the lock; its runner's `_finalize` then writes `failed` |
| `CancelReachesRunner` | `Picker`, 2 callers, 2 runners, 2 peers | two picks of one parked search (`download_service.py:973`) start two runners; a cancel can stop the last one only |
| `ReapsOnlyUnowned` | `ReimportAndReap`, 1 peer | a re-import is neither registered nor polled (`:3089`), so the reaper fails the download under it |
| `OneSender` | `Nobody`, 2 peers, a fault | slskd accepts an enqueue whose reply is lost; the abort before a switch is made only if the enqueue counted as done (`:1936`), and the next peer is asked. `:1533`: "prevents two peers from continuing to send the same acquisition at once" |
| `LiveRowsLiveTask` | `Elsewhere`, 1 peer | a download that ends because the library covers the album (`:1915`) finalizes without its attempt, whose row stays live for ever |
| `BudgetCountsSources` | `Nobody`, 2 peers, 3 attempts, a fault | each retry in an outage journals another attempt (`:1287`, `strategy.py:530`), and the failover limit counts attempts (`:1893`): a short outage uses up the switches |
| `BytesOutliveBarriers` | cleanup, 1 Usenet attempt, 2 workers | the final write of a re-import replaces the bundle list of the row (`download_store.py:1889`); the bundle that an earlier import left in `needs_attention` is no barrier any more, and the bytes go. `download_client.py:157`: "cannot be lost before publication barriers clear" |
| `SourceStaysWhilePublishing` | cleanup, 1 Usenet attempt, 2 workers, a restart | `recover_startup` (`acquisition_cleanup_service.py:106`) skips a row still leased to a dead worker; its task is resumed and publishes; when the lease runs out the cleanup removes the workspace underneath |
| `ActiveIsDriven` | `Switcher`, 2 peers | a manual switch that meets a conflict in the task row (`:3251`) raises without resuming the runner it stopped. `:665`: "Resume an existing manifest after a manual action lost its zero-byte race" |
| `ActiveSkipped` | `Import` | `recover_import_bundle` looks once for an active publisher (`library_management_publisher.py:532`) and then awaits; a call that begins meanwhile is rolled back. `test_library_management_publisher.py:2692`: "import_recovery_skips_a_bundle_owned_by_the_active_publisher" |
| `NothingStaged` | `Import` | a call is cancelled while a thread stages a file for it (`:1068`); the rollback (`:446`) unlinks the staged file (`:1753`) and finishes the bundle as rolled back, and the thread creates the file again. `_write_temp_bytes` and the last `_copy_temp` of an m4a (`:4041`) need not find the old one there |
| `RolledBackUnflagged` | `Import` | that a file could not be restored is a local variable of the rollback (`:1676`); after a database fault or a restart the recovery finds the row flagged, passes over it and finishes the bundle as rolled back |
| `StrangersKept` | `Import` | a replaced file is put back with a plain rename (`:1746`), over a file that somebody put there meanwhile. `library_filesystem_coordinator.py:342`: "must not silently overwrite an out-of-model external writer's file" |
| `EndedForGood` | `Scan` | a run that is superseded while it is being paused keeps `requested_control = 'pause'`; `recover_scan_runs` (`native_library_store.py:11655`) sets it to `paused`, from where it can be resumed, though `_SCAN_TRANSITIONS` (442) has no way out of `superseded` |
| `PauseIsNoFailure` | `Scan` | a walk left for a pause that is resumed before the worker has returned counts as a scope without result: the run fails with `ROOT_PERMISSION_DENIED`. `library_inventory_scanner.py:1134`: "paused/cancelled/superseded is not a filesystem failure" |
| `ControlsSettle` | `Scan` | a pause or stop that arrives before the worker has taken the run up is settled by nobody, as no query claims a run in `pausing` or `stopping`; a restart does it. `library_scan_coordinator.py:263`: "the supervisor retries later" |
| `NoFalseMissing` | `Scan`, `RootOf <- OneRoot` | the fence is kept per run and root, so of two scopes on one root the second walk overwrites the first one's revision, and a file that was moved between the two walks is marked missing |

Every trace starts at `Init`, so its states are ones the program reaches.

### 3.6 Mutants

For each property of a passing run `PROJECT.json` names a plausible bug (a lease
ignored, a barrier not awaited, an abort left out, a budget off by one), written as
an operator beside the one it stands in for (for example `CasLeaveBlind`
before `CasLeave`). With the bug in place TLC finds the property violated. These
operators are otherwise unused.

## 4. Fairness

`AcquisitionCleanup!FairSpec`: each worker's steps (the cleanup loop wakes every
30 s and runs a claimed page to its end); a download's own steps and the client's
(asyncio schedules what can run, clients finish jobs or fail them); leases and
retry times run out (they are timestamps); the orphan sweep (hourly). No fairness
for requests, publications that only start on request, administrators, faults or
restarts. The liveness runs have one worker: with two, a worker whose
compare-and-swap loses always retries after a backoff, and the model, which has no
clock, would let the two alternate for ever.

`DownloadTask!FairSpec`: each runner's and request's steps; `PollEnds` (a poll
has a deadline: stall and queue timeouts); the reaper (every 300 s) and `Ages` (30 minutes
pass). A peer need not ever move, the cleanup need not run, nobody need ask for
anything. All fairness is weak: none of these steps is disabled again by others in
a way that the code would have to win repeatedly.

`ImportPublication!FairSpec`: each step of the call that is under way and each of the recovery
(asyncio goes on with what can run; the operation worker recovers in every iteration). Nobody need
call again, and no administrator need resolve anything; faults come or not.

`RootLeases!FairSpec`: a coroutine whose future has a result is resumed, and a lease that
was given is released, because what is done under it ends. Nobody need ask or be cancelled. Weak
fairness suffices for `Served` although a woken client may find the root taken again: it is
registered there anew, and a writer that is announced keeps new readers out.

`LibraryScan!FairSpec`: the steps of the worker as a whole, since the supervisor's loop never ends
(it looks every 47 s even if nothing wakes it), and the release of each write lease. No fairness for
users, requests, policy or files.

`DebtSettles` says that debt is settled *or handed on* (to an administrator as
`needs_attention`, or to a re-import). `TaskEnds` likewise counts a task parked for a
person to pick.

## 5. What is proved

### 5.1 The cleanup

`AcquisitionCleanup_proof` proves, for any sets of attempts, workers and plans and any
bounds, and from the module's named assumptions only:

| Theorem | Statement |
|---|---|
| `TypeCorrect` | `Spec => []TypeOK` |
| `RevisionsFaithful` | `Spec => []CurrentView` |
| `Exclusive` | `Spec => []CommitExclusive` |
| `SettledCleared` | `Spec => []SettledMeansCleared` |
| `SourceStays` | `MaxCrashes = 0 /\ MaxLapses = 0 => (Spec => SourceStaysWhilePublishing)` |
| `LiveRowsAreHeld` | `MaxCrashes = 0 => (Spec => []InUseMeansLiveWork)` |

The argument. `SettledMeansCleared` is about rows and bundles, but the step that settles a
row is decided from a *copy*, several awaits earlier. So it is not inductive, and needs:

* `CurrentView`: a copy whose revision is current says what the row says. Every write to
  a row empties `seen`, except for the writer whose copy is replaced along.
* `HolderIsCurrent`: a worker that can still commit is the one the row is leased to. A claim
  by somebody else makes the older copy stale, because the claim is itself a write.
  `CommitExclusive` follows at once.
* `DecidedOnCleared`: past the barriers, every bundle of the copy is cleared; a bundle
  that is completed or resolved stays so (lemma on `BundleMoves`, `Publish` and
  `ResolveBundle`).

Then a worker that completes a row has a current copy, whose bundles are the row's
(`CurrentView`) and are cleared (`DecidedOnCleared`). The inductive invariant
`IInv` is the typing together with these four. The proof that a step preserves
it has one lemma per group of actions. Steps that leave the row and
the copies alone are dealt with by a frame lemma each.

`SourceStays` has an invariant of its own, `Undisturbed`, since nothing in a step that removes bytes asks
about publications. `Attended` says, from the side of the cleanup, that a worker that has an attempt on
its page or in hand holds its lease while it runs, or the download is cancelled for good; either way no
download is at the attempt. `Downloaded` says the same from the other side: an owner that needs the
row has it in force (so nobody claims it), a bundle is being published only by the import under
way, and there are no bytes before the client has ended. A re-import takes a row only when its lease is free,
which is where the two meet. A lapsed lease breaks `Attended`, and a restart loses the import
but not its lease or its bundle; with either one TLC finds the property violated (the restart is the
disagreement of section 3.5), so both bounds are zero in the theorem.

`LiveRowsAreHeld` is about the first disagreement of section 3.5: `Held` says of one attempt that a row in
force has an owner that is to settle it, and each step that lets the owner go is shown to
put the row out of force (`ScheduleLetsGo`). Only the restart has no such half, so it is the one thing
that leaves a row in force behind.

Assumptions: `NoWorker \notin Workers`, `NoAttempt \notin Attempts`,
`Usenet \subseteq Attempts`, natural bounds. TLC evaluates them in every run.

### 5.2 The leases

`RootLeases_proof` proves, for any set of roots that are natural numbers (the order in which they are
taken), any finite set of clients and any bound:

| Theorem | Statement |
|---|---|
| `LeasesTyped` | `Spec => []TypeOK` |
| `CountersExact` | `Spec => []CountsExact` |
| `SharesAndExcludes` | `Spec => LeasesShared` |
| `NobodyOvertakes` | `Spec => NoOvertaking` |
| `WakeupsArrive` | `Spec => []NoLostWakeup` |

The argument. The counters say how many, the properties ask who; so the centre is
`CountsExact`, which ties the two. It is not inductive alone: a reader
that leaves subtracts one on each of its roots, which is right only if a client that is inside
holds what it asked for and a parked reader holds nothing (`Shape`), and a writer that releases clears a flag,
which is right only if no other writer has the root (`Alone`). `IInv` is the typing with `Shape`,
`CountsExact` and `Alone`. Lemma `CountOf` says how a cardinality changes when one client's
membership does; `Counted` and `NobodyThere` carry it to the counters, and each kind of step has a lemma
that it keeps `IInv` (`ReadKeeps`, `WriteKeeps`, `LeavingKeeps`, ...).

Refinement and overtaking follow from `IInv`: who gets in has found a counter at zero, so
`NobodyThere` says that nobody is there. For the wake-ups, `LeastRoot` (the roots are well-ordered)
shows that a client that parks does so at a root that blocks it, and the lemmas `ReadWakes`, `WriteWakes`
and `LeavingWakes` that whichever step unblocks a root wakes everybody parked there.

### 5.3 The scan

`LibraryScan_proof` proves, for any roots, scopes and paths and any bounds:

| Theorem | Statement |
|---|---|
| `ScanTyped` | `Spec => []TypeOK` |
| `AcceptedStopWins` | `Spec => StopWins` |
| `EndedRunsStay` | `Spec => EndedStays` |
| `CompletedRunsSwept` | `Spec => []CompletedSwept` |
| `FilesNotOverlooked` | `Spec => []NothingOverlooked` (indexed, or recorded as skipped or failed) |
| `MissingIsGone` | `OneScopePerRoot => (Spec => NoFalseMissing)` |

The argument has three parts. The *row*: `StepKinds` lists the ten ways in which a step may change
it, and `Controls` ties the noted control to the state; the theorems on stops and ended runs follow
by cases.

The *sweep*: what `CompletedSwept` says holds at the end only because each phase begins when the one
before it is done, so the inductive invariant `Sweep` follows a run through its phases. `Places`
says that the worker is in the phase of its run (`Phase` looks through a pause), `Progress` what
the phases so far have done, `Open` that a scope still to be walked was not read and not
reconciled. For the files, `Seen` says that a file that stays has a row wherever the walk has
passed, and `Kept` that it is in the library, or skipped or failed, once its scope is reconciled. `Places`, `Progress` and
`Kept` hold of runs that no control has crossed. That is where `PauseIsNoFailure` of section 3.5
comes from: a run that is resumed before the worker has returned is in a phase the worker has left.

The *fence*: `Sure` says that a catalogued file without a row is not there, as long as the fence of
its root is the root's current revision and nobody publishes in it. A publication makes the premise
false for good, because the revision only grows (`Ordered`); a release in the middle of a walk makes the
walk's own revision an old one. `FenceKnown` says that the fence is never missing while the run is under
way and the process lives, so that the `NoFence` alternative of `AllowMissing` is never taken.
`UnfencedStep` is the frame: all other steps bring no file back. `OneScopePerRoot` is a real
restriction, as the last row of the table in section 3.5 shows.

Assumptions: `RootOf` and `ScopeOf` are functions of the right type, `NoFence \notin Nat`, natural bounds.

### 5.4 The publication

`ImportPublication_steps` and `ImportPublication_proof` prove, for a bundle of any size, any set of
files replaced at their own path or elsewhere, any artwork (from files or bytes), and any number of calls,
disturbances and threads that outlive their call:

| Theorem | Statement |
|---|---|
| `TypeCorrect` | `Spec => []TypeOK` |
| `OldIsKept` | `Spec => []OldKept` |
| `CompletedIsWhole` | `Spec => []CompletedWhole` |
| `RolledBackIsClean` | `Spec => []RolledBackClean` |
| `StrangersAreLeft` | `Spec => StrangersStay` |
| `ImportsSafely` | `Spec => ImportIsSafe` (refinement of `SafeImport`) |
| `LivesAsExpected` | `Spec => MovesAsCleanupExpects` (refinement of `BundleLife`) |

The argument. What the properties say of the disk depends on three things that are written at
different times: the journal row of a file, the copy of it a process acts on, and the paths. So the
invariant is stated *for one file* `g` and proved for any file. `Sound(g)` has four parts:

* `Copied`: a copy that is fresh is the row (but for a file a rollback is through with), a rollback restores
  only what it has marked, and what the publisher takes under the lease has been prepared.
* `Settles`: the states of the bundle and of its rows, and where the processes are, say whether the catalog
  has adopted the files; a recovery that waits for the lease meanwhile has nothing marked that it would undo.
* `Stored`: where the old file and the new one are, given the row (`Shelved`), with a publisher between
  a rename and the write that records it (`Carried`), and with a rollback between path and path (`Restoring`). It is
  the heart of `OldKept`: at every position one of the paths has the old file.
* `Swept`: what the cleanup has passed, or what counts as completed, has left nothing behind.

Beside it stand `Placed` (who works in the library has the lease), `Begins` (what a call
starts from), `Threaded` (a thread at large belongs to a call that has ended or is being rolled
back, or the bundle is `crossed`) and, as long as no call has `crossed` the recovery or such a thread,
`Exact` and `Tidy` (what a rollback leaves). That premise is the one of `RolledBackClean`;
`ActiveSkipped` of section 3.5 and what section 3.3 says of a late thread are why it is needed. Where a
crossed thread has made the staged file again (`Loose`), a staged file says nothing of where the new one
is, and `Stored` claims only what `OldKept`, `CompletedWhole` and the refinements need.
`ImportPublication_steps` reduces each action to what the file `g` sees of it (lemmas `...Sees`), so
that the case analysis is over scalars and not over functions.

The refinements read the abstract state off the concrete one: for `SafeImport` the files whose source
is not consumed yet, those in place, and where each old file is (`Acquired`, `InPlace`, `Former`); for `BundleLife`
the state of the bundle with `preparing` read as `publishing`. A step is one of
`FilesStay`, `FileChanges` and `Adopts`, and each of these is a step or a stutter of `SafeImport`.

Assumptions: `CountAssumption` (a file at least), `KindsAssumption` (the kinds are sets of files),
`BoundsAssumption`.

### 5.5 The downloads

`DownloadTask_proof`, `DownloadTask_rows` and `DownloadTask_ladder` prove, for any numbers of runners,
requests and peers and any bounds:

| Theorem | Interference allowed | Statement |
|---|---|---|
| `TypeCorrect` | any | `Spec => []TypeOK` |
| `OnlyPicksEscapeCancel` | all but picks | `Spec => []CancelReachesRunner` |
| `CancelledStays` | cancels, re-imports, other imports | `Spec => CancelSticks` |
| `ReimportOwnsItsRow` | re-imports, cancels, retries, settling, other imports | `Spec => []ReimportKeepsRow` |
| `BudgetIsKept` | all but picks, and either no switches or no re-imports | `Spec => SwitchesInBudget` |
| `NothingRunsUnseen` | all but picks, and either no switches or neither cancels nor re-imports | `Spec => []TransfersJournaled` |
| `StraysAreOwed` | all but picks and switches | `Spec => []StrayRowsCounted` |
| `OneRowLives` | the same, no client fault and no restart | `Spec => []OneLiveRow` |
| `ClimbsTheLadder` | cancels, retries, the reaper, other imports; no client fault | `Spec => LadderSpec` (refinement of `SourceLadder`) |
| `OnePeerSends` | the same | `Spec => []OneSender` |
| `OneRequestIsReached` | one request of any kind; no restart | `Spec => []CancelReachesRunner` |
| `OneRequestIsSeen` | one request of any kind; no restart, or no picks | `Spec => []TransfersJournaled` |
| `OneRequestInBudget` | the same | `Spec => SwitchesInBudget` |
| `OneRequestOneRow` | one request of any kind, the reaper; no other imports, client fault or restart | `Spec => []OneLiveRow` |
| `CompletedStays` | retries, the reaper, other imports; or re-imports, other imports | `Spec => CompletedIsFinal` |
| `EndedStays` | the reaper, other imports | `Spec => EndedStaysEnded` |
| `ReaperIsAlone` | settling, retries, the reaper, other imports | `Spec => ReapsOnlyUnowned` |
| `NoneIsLeft` | cancels, re-imports, retries, the reaper, other imports | `Spec => []ActiveIsDriven` |

The reaper and, where they are not excluded, restarts may interfere with a single request (`OneRequest`: there is one
caller at most) as they like.

The premises on `Actors` and on faults are not there to make a proof go through: with what they
leave out TLC finds the property violated, but for switches together with nothing but re-imports, where it
finds no violation of `SwitchesInBudget` or `TransfersJournaled` and the theorems say nothing.

* Two *picks* of one parked search make two runners (`CancelReachesRunner` in section 3.5), and
  nothing that is said of "the" runner is true any more. So does one pick with a restart between its look and its
  dispatch, which resumes the download; therefore the theorems on a single request leave out one or the other.
* A *manual switch* writes from what it read before it stopped the runner: the run
  `CancelRace` is the counterexample to `CancelSticks`. A cancel that has stopped the
  runner and waits for the lock then discards the row that the runner of the switch is about to use, which is the
  counterexample to `TransfersJournaled`.
* A manual switch starts a runner, the reaper fails the download under it, and a *re-import* takes the
  failed download up: a switch that was decided before goes past the budget, and the row the runner asks
  with is settled. These are the counterexamples to `SwitchesInBudget` and `TransfersJournaled` with
  switches, the reaper and re-imports.
* *Settling* a hold, a *retry* and the *reaper* write a status over a cancel that came in between, and
  the reaper, a switch or a pick gives away the row of a re-import: `CancelledStays` and
  `ReimportOwnsItsRow` allow what is left.
* A *restart* at `Send`, an *outage* and a *switch* with two callers each leave a second row
  live, which is `BudgetCountsSources` of 3.5 seen from the journal. `StrayRowsCounted` says how many, and
  `OneRowLives` is its corollary for a world without faults.
* An *import from elsewhere* makes the runner conclude and leave its row live. A switch that was looking on finds
  the candidate it began with and a manifest that is gone, and resumes; the new runner journals a second
  row. That is why `OneRequestOneRow` leaves such imports out.
* A lost reply of the client lets a peer send that the ladder has left (`OneSender` in 3.5), so does the
  settling of a hold, which completes the download under its runner.

The last four theorems, `OneRequestIsReached`, `OnePeerSends` and, in section 5.1, `LiveRowsAreHeld` are about
properties that fail in general (section 3.5). Each says how much interference the code does withstand, so
that together with the trace they delimit the disagreement: `CompletedIsFinal` fails with cancels, settling, picks or switches, or
where re-imports meet the reaper or retries; `EndedStaysEnded` with any request but an import from elsewhere, since
a retry and a re-import take an ended download up on purpose; `ReapsOnlyUnowned` with whoever takes the
operation lock, and with picks; `ActiveIsDriven` with switches, settling and picks.

The argument. On top of typing there are two invariants that everything else rests on. `Locked`: a request
that is past its lock holds it. `Driven`: a live runner is the one in `tracked`, so there is one at most,
and while a switch has stopped the runner none is live. What keeps it is that no request is about to start a runner by a
pick (`Unpicked`) or that the one that is finds the download parked and nobody at work (`Picked`). From these
follows which coroutine may touch the task at a step; then each theorem adds what *its* coroutines know:

* `Cancelling`: a cancelled download has no live runner, nor has one whose cancel waits for the lock, and no
  re-import is of a cancelled download.
* `Keeping`: `ReimportKeepsRow`, and while a runner does more than tidy up nobody imports again and
  nobody has read that the download has ended.
* `Journaled`: what a peer has queued or sends has a row that is not settled, and a runner about to ask has
  a row in force. With `Quiet` (while a runner works, nobody waits to cancel it, imports again or
  ends it) or, with manual switches, `Apart` (nobody cancels or imports again at all) it is inductive.
* `WithinBudget`: between the look at the limit and the link, the look still holds. It
  rests on `Quiet` or, with manual switches, on `Unmixed`.
* `Counted`: each live row is the one its runner or request is working on, or has been paid
  for by a fault or a restart. `Enough` counts them with the cardinality lemmas of the module.
* `Laddered`: `Base` says that only the task's candidate is ever being asked and that the manifest
  tells a resuming runner about it; `Rung(r)` says what the runner knows at each place, and at
  which places nobody is being asked; `Alone` that a request finds no runner about. Each step is then one of the
  three of `Climbs`: transfers end, the candidate is asked, the next one is chosen when nobody is asked.
* `Single`: until the one request is made the runner works alone (`Quiet`), then it finds the runner stopped or, for a
  pick, that there is none. For the pick, `Fed` says that who works on a candidate has one, and so has a download with
  rows, and `Unparked` that a download with a runner is not parked. With `Journaled` and `WithinBudget` this is `Sole`.
* `Lone`, for `OneRequestOneRow`: `Claims(r)` says at which places a runner knows that no row is live (`Clear`) and
  at which the manifest names the live one (`Firm`), unless a finished request has removed the
  manifest. `Alert(k)` says the same of a switch and a re-import at each of their places. A switch comes to know it from
  what holds while nobody has disturbed the runner (`Waits`): the runner is on the ladder (`Base`, `Rung`), the manifest
  is not ahead of the task (`Below`), and a runner that ends leaves no row (`Attends`). On its own none of these is
  inductive: that the row is the manifest's rests on the candidates of the ladder, and what a stopped runner leaves
  rests on where it was stopped.
* `Concluding`: a runner at work has a download that goes on and knows no other status of it, the reaper has found
  one that nobody works on, and a retry comes to one that has ended.
* `Unlocked`: nobody has the operation lock or is about to take it; then what the reaper has found still holds a step later.
* `Cared`: a download that goes on is parked, or has a runner, or a cancel or re-import that will write its status.

The invariants were model-checked on small instances, in the form in which they are proved, before the
proofs were begun.

The runs `TaskLadder`, `TaskReimport` and `TaskLiveness` lie within their theorems, and `TaskRows`, which has picks and
switches with one caller and neither faults nor restarts, within the theorems on a single request. `OneRowLives`
and `OneRequestOneRow` do not contain each other: the one has more callers, the other picks and switches.

Assumptions: `PeersAssumption` and `FaultsAssumption` (natural bounds), `NoRunnerAssumption`, `NoCallerAssumption`
(neither is a runner or a caller), `ActorsAssumption` (the eight kinds of interference).

### 5.6 Only model-checked

The liveness properties of all modules: fairness and ENABLED are outside of the prover.

What is not proved because it is false is in section 3.5.

## 6. Not modelled, and why

* **In the cleanup**: the one-time reconciliation of a legacy mount and its
  `legacy_reconciled` rows; pruning of old rows; the validation of paths (a workspace that does
  not validate is the outcome `Refused`); `abort` of slskd racing the last block of a transfer.
* **In the orchestrator**: Usenet and single-track variants of a download (the attempt's side of
  Usenet is in `AcquisitionCleanup`); `_fallback_track_repull`; the ladder of automatic retries,
  which creates new tasks; the synchronisation of requests; database writes that
  continue in an executor thread after their coroutine is cancelled; a rebuild of the services
  after a settings change, with which two orchestrators coexist for a moment; a cancel of a
  completed download.
  `Send` is one step, so a cancel comes before or after slskd has the request, not between its sending
  and its handling.
* **In the publisher**: bundles of management operations on files that are already in the library;
  conversions that only recycle; the pinned settings profile and baseline snapshot; validation of the automatic
  configuration; sidecar files; normalised siblings of a destination; the hook after the commit. On a file system
  without `renameat2` the rename into place falls back to one that overwrites, which
  `Place` does not do. A source that vanishes by itself is not modelled either, only one that changes.
  What a thread writes late is one step: that a file is empty or half there while it is being
  copied is left out, and so is the failure of a retry that meets it just then (`open("xb")`). Other work
  that goes on in a thread when a call is cancelled, a database write of the preparation or an unlink of
  the cleanup, is done or not done when the cancel arrives.
* **In the coordinator**: `read_sync`, the blocking variant for threads, which no service calls. A
  root is a number and a lease has no duration.
* **In the scan**: conflicts between kinds of runs and coverage expansion, excluded paths and their rows, grouping,
  candidates for management, batches with a LIMIT, a library that is disabled, retries of a settlement
  whose revision is stale; what a tag read that succeeds returns; the pruning of failure rows
  after the run. A catalogued path where a directory or a device
  stands now counts as deleted. A new file cannot take the path of a track whose file was deleted
  during the run (`UserAdds`); in the code the run marks such a track missing and the next run
  restores it, so what is said of files that are overlooked excludes it. The row of a control and the note
  of it in memory are written in one step (`Controlled`; the code awaits in between,
  `library_scan_coordinator.py:195`).
* **File processor**: only the disposition of an import.
* **Search, scoring, quality**: any candidate may be picked, any may be skipped.
* The components marked `not_modelled` in `PROJECT.json`, with the reason for each.

## 7. Plan

Done: the cleanup and its journal, the Soulseek download, the publisher and its recovery, the
filesystem coordinator, the library scan. What is left, the most consequential first:

1. *Automatic retries and requests*: the retry ladder, `request_history`, the dispatcher and the
   wanted watcher as a module above `DownloadTask`, with one live request per album.
2. *Usenet in the orchestrator*: enqueue, poll and per-candidate differences as a second
   strategy of `DownloadTask`.
3. *Outbound calls*: circuit breaker (in half-open every concurrent caller is let through, and a late
   answer of a call from before it opened counts), deduplicated requests whose leader is
   cancelled, rate limiter.
4. *Operation jobs*: claims under a lease of 60 s, release on cancellation, restart.
5. *Automatic upgrade*: the journal of phases with a crash at every step, refinement of an
   atomic switch.
6. *Drop import*.

Proofs to follow: what several requests leave of the rows of a download, counted as `StraysAreOwed` counts
what faults and restarts leave; and for each new module its own theorems. The modules are written for it: no recursive operators, constants with named assumptions, an action per step.

# Verification of qbt-orchestrator

TLA+ models of the qBittorrent orchestrator daemon in this repository, checked
with TLC on small instances and proved with TLAPS where the statement matters
for every size. Paths of the form `file.py:line` are under
`src/src/qbt_orchestrator/`; docs are under `src/docs/`.

## 1. The system

One process, a SQLite database, a qBittorrent instance, an rclone remote.

| component | state it keeps | operations | what makes it correct |
|---|---|---|---|
| job table (`runtime.py:54-124`, `reconcile_jobs` 550) | `torrent_jobs` | insert, claim by (priority, id), update, retry, reconcile | a job is claimed by one runner, a settled job stays settled, every queued job is settled in the end |
| file and batch loop (`file_batch.py`) | `torrent_batches`, `resource_reservations`, file priorities | create a batch, apply it, queue the complete ones, pause or restart, upload a completed torrent | batches never share files, one upload per batch, complete files only, pinned bytes reserved |
| upload thread (`runtime.py:127-232`, `upload.py`) | job, batch and media rows; the remote; the torrent it deletes | copy, verify, delete, settle, retry | nothing is released or deleted before it is verified |
| cleanup thread (`runtime.py:434-547`) | batch and reservation rows | request a cleanup, apply it | only verified batches are requested, bytes stay reserved |
| media pipeline, sidecars, Emby (`media.py`, `runtime.py:234-405`) | manifests, runs, refresh tasks | scrape, upload sidecars, refresh | verified only what is stored; no refresh lost before it is made |
| bot (`runtime.py:584-943`, `telegram_control.py`) | commands, approvals, notifications | claim, ask, decide, run, notify | a dangerous command runs at most once and only when approved |
| qBittorrent sync, safety loop (`qbt_sync.py`, `daemon.py`) | snapshot cache, disk state | poll, stop downloads below the floor | nothing risky on a doubtful snapshot |
| planner (`planner.py`) | allocations, health, reservations | select, soak, park, reserve | reservations never exceed the disk; protected torrents are not stopped |
| soak queue, carousel (`soak_queue.py`, `carousel.py`) | residency and probe rows, allocations | admit, rotate, probe, back off | what is started or stopped agrees with the reservations, what is started fits, cooldowns hold, probes bounded |
| orphan and junk janitors | candidate rows, the trash | confirm, quarantine | nothing in use is moved |
| seeding preemption, observe promotion, I/O governor | audit rows, gates | preempt, promote, gate | not modelled, see section 5 |
| database (`db.py`) | writer thread and queue, read pool | transaction, flush, stop; acquire, release, close | a transaction is atomic and answered |

Threads: the main loop runs the safety tick, then the due tasks (planner,
file/batch, maintenance, carousel), then the bot commands, one after the
other (`service.py:684-767`); upload, cleanup, media, Emby and Telegram have
threads of their own (`service.py:631-682`). They share the database only,
through one writer thread, so each `write_transaction` is atomic and nothing
wider is. `reconcile` runs as a command in another process (`cli.py:553`).
What is hard here: a handler is a series of transactions and HTTP calls with
other threads, a crash or a clock between any two of them, and decisions are
made on snapshots and rows that were read earlier. The full list, each at its
line, is `hazards` in PROJECT.json.

## 2. Modules

| module | what it is |
|---|---|
| `TorrentJobs` | the job table and its operations as operators on a table value |
| `UploadPipeline` | the batch and upload pipeline: main, upload and cleanup threads, reconcile, and their surroundings |
| `VerifiedRelease` | the abstract promise: local bytes are given up only when the remote has them |
| `SidecarPipeline` | from a verified media upload to the Emby refresh: media, upload and Emby threads, on `TorrentJobs` |
| `BotApprovals` | Telegram commands, approvals, notifications: polling, main and telegram threads |
| `ApprovedCommands` | the abstract promise: a command runs at most once, a dangerous one only after its approval |
| `SyncJanitors` | the snapshot cache and its polls, the emergency stop, the orphan janitor |
| `SlotScheduler` | soak queue, planner and carousel: who may download |
| `StateWriter` | the writer thread of the database, its registry and its stop |
| `AtomicWrites` | the abstract promise: a write happens once, whole, and its caller is told the truth |
| `MCUploadPipeline`, `MCSidecarPipeline`, `MCBotApprovals`, `MCSyncJanitors`, `MCSlotScheduler`, `MCStateWriter` | the constants of the TLC runs |
| `UploadPipelineProofs` | types of `UploadPipeline`, and the lemmas its other proofs use: who writes what, what a row keeps |
| `UploadPipelineSafety` | what its release and its delete rest on, and the refinement of `VerifiedRelease` |
| `UploadPipelineBatches` | who holds which files, bytes and jobs: its other safety theorems |
| `SidecarPipelineProofs`, `SyncJanitorsProofs`, `BotApprovalsProofs`, `SlotSchedulerProofs`, `StateWriterProofs` | the theorems about those modules |

How they fit together. Every module but `StateWriter` takes a
`write_transaction` as one atomic step whose caller learns the outcome;
`StateWriter` refines `AtomicWrites`, which is that assumption. `UploadPipeline`
and `SidecarPipeline` use the same job table operators: the media job that
`EnqueueMedia` inserts in the first is `MediaUploaded` in the second.
`SlotScheduler` leaves the pipeline to the actions `BatchBegin`, `BatchEnd` and
`Change`, `UploadPipeline` leaves the planner to `PlannerSelects`, `PlannerParks`
and `SafetyStop`: each takes of the other what it can see.

### UploadPipeline and the code

An action is one transaction, one call to qBittorrent or rclone, or one read of
the database with the local work up to the next call. What a thread holds in
local variables between two of its steps is a record: `main` (the torrent whose
turn it is, the file list it read, the rows it works through, the batch in
hand), `worker` (the claimed job and its result), `cleaner`, `recon`. Those are
lost in a crash; `batches`, `resv`, `jobs`, `media`, `parked` are the database,
`have`, `want`, `mode` qBittorrent, `remote` the remote.

* `Tick` is one torrent's turn in `sync_completed` (`file_batch.py:144`). A
  completed torrent takes the full path (`ProbeFull`, `EnqueueFullUpload`), any
  other the batch path: `ProbeFiles`, then for each row that may be ready
  `SkipRow` or `DeselectRow`, `EnqueueBatchUpload`, `MarkUploadQueued`; then
  `ReadStopped`, `PauseBatches` or `RestartTorrent`; then `CreateBatch`,
  `ApplyBatch`, `MarkBatchApplied`, or the failing variants.
* `ClaimUpload` to `EnqueueMedia` are the statements of `UploadJobRunner.run_next`
  in their order. `CopyVerified` stores the files of the job that are complete
  on the local disk: an incomplete file has no verified copy.
* `Completed` is `_is_completed`. The tests show `amount_left` without the
  unwanted files; `AmountLeftCountsUnwanted` is the other reading. The runs use
  the reading of the tests, the theorems hold for both.
* `PlannerSelects`, `PlannerParks`, `SafetyStop`, `LapseReservation` are what the
  rest of the daemon does to a torrent in the pipeline. The planner shares the
  main thread, so it moves only while `main` is idle.
* `Crash` forgets the threads' records. The rows stay as they are: a job that was
  running is running until `reconcile`.

Left open on purpose: which files fit the disk budget (any set of candidates
may be selected), when a retry is due, when a lease has run out, what the
backpressure gate and the probes answer. Left out: the live-verify canary and
dry-run modes, which only refuse; the text of decisions and events; uploads
that seeding preemption enqueues (planned); local file names.

### The other modules and the code

`SidecarPipeline`. `mt`, `ut` and `em` are the local variables of
`MediaPipelineJobRunner.run_next` with `MediaPipelineService`, of the sidecar
half of `UploadJobRunner`, and of `EmbyRefreshWorker`. The artifacts of a scrape
are enqueued one by one (`media.py:383`) while the upload thread already settles
the first of them. What the normalizer recognizes is a constant, what the
scraper finds a choice. An Emby call that fails leaves its task blocked for good
(`media.py:455`): such a group goes into `refused` and stays unshown. `FailMedia`
is an exception at one of the steps in `FaultSteps`, `Crash` forgets the three
records, `Reconcile` is the command line beside the daemon.

`BotApprovals`. An update is a number, a message or a click; Telegram keeps it
until a poll confirms the offset, so it may be delivered again. `main` is the
command in `CommandProcessor`'s hand, with a step between each of its
transactions (`runtime.py:804-835`); the buttons of an approval stay in the chat,
so any user may click any of them at any time. `Lapse` is the clock passing
`expires_at`.

`SyncJanitors`. `server` is qBittorrent, `visible` what it lists while it loads,
`told` its last answer. `PollFull` and `PollDelta` are `QbtSyncCache.sync` with the
test for a suspect list; `EmergencyStop` is `SafetyMonitor.tick`; the janitor
scans, records and moves one path at a time on snapshots of the same tick.

`SlotScheduler`. A planner tick is the chain of steps from `SoakBegin` to
`PlanStop`, a carousel tick the one from `CarouselReconcile` to `CarouselStart`: an
action per qBittorrent call and per group of row writes with no call in
between. `Cut` is a call that raises, or the end of the daemon, at any of them.
`snap` is the snapshot the tick decides on while `world` moves on. `Sync` takes a
full answer or a delta, which replaces a changed torrent's snapshot by fields
without category and tags (`qbt_sync.py:34`): the torrent is `bare`, that is
listed, managed by nobody and not absent for the reconciles. Each list the
code sorts is taken in any order: running residents before waiting candidates
(`Existing`, `Waiting`), the downloads that may be preempted (`Spares`), the
planner's forced candidates before its regular ones. Speeds and swarm data are
inputs. `Trim` and `Pick` fold one step of the code's loop over such a list.

`StateWriter`. One action per region under a lock of `_SyncWriteActor`
(`db.py:74-217`): `Call` finds or creates the actor, `Start` its thread, `Put` its
request; `Take` to `Answer` are the loop of the thread; `Clear`, `Stop` and `Forget`
are `stop_write_actors`. SQLite's lock is external: one connection writes at a
time, another waits or gives up.

## 3. Runs

`CHECK_DEADLOCK FALSE` in all of them: once every torrent is gone, or the bounds
are used up, the system really stops.

| run | instance | shows |
|---|---|---|
| `steady` | 2 media files and a text file, 2 batches, 3 jobs, one /cleanup | types; release and delete only after verification; pinned bytes reserved; batches disjoint; one live upload; no media job lost; settled jobs final; refinement of `VerifiedRelease` |
| `recovery` | 1 media file and a text file, 2 batches, 3 jobs, one lapse, one crash, one reconcile | release only after verification; pinned bytes reserved; batches disjoint; the refinement; with failures at every step |
| `live` | 2 media files, 2 batches, 2 jobs, fair | a queued batch upload settles |
| `lost_update` | 2 media files | **violated**: a verified batch is in a cleanup state |
| `cut_short` | 2 media files | **violated**: no delete of a torrent half way through its batches |
| `stranded` | 2 media files, fair | **violated**: a downloaded batch gets its upload |
| `sidecar` | 2 uploads of one group (one recognized), 2 sidecars, 1 error, crash or reconcile, fair | no refresh lost before it is made; marked verified only when stored, and stored once all has settled; new content is shown unless the Emby call fails |
| `approvals` | an admin and an operator, the words cleanup, pause and status, 3 updates (2 messages), 1 fault, fair | rows agree; an admin decides; refinement of `ApprovedCommands`; no command lost on its way in |
| `sync` | 2 torrents, 1 with content old enough, 2 confirmations, 1 fault, fair | cache keys true; no move on a suspect list or of known content; an emergency stop does not wait for the polls, unless a delta has emptied the torrent |
| `delta` | the same | **violated**: the janitor moves only content that no listed torrent owns |
| `slots` | 2 torrents, 3 disk levels, 3 ticks, 1 outside event, full and delta snapshots (2.2 million states, 2 minutes) | starts and stops agree with the reservations; what is started fits; probes bounded; cooldowns honoured |
| `writer` | 2 callers, 2 calls each, 1 stop, 4 threads, fair | one writer until the stop; refinement of `AtomicWrites`; calls return |

Bounds. Two batches of one torrent are what the inflight cap of 2 allows, and
every interaction of batches is between two. Torrents do not interact in this
module except through the order of jobs, which the second and third job of the
same torrent exercise. Three jobs are two batch uploads and a full upload or a
cleanup. `MaxAttempts` is 1: a job is exhausted after its first try, so that
reconcile meets exhausted rows. The two media files are interchangeable
(`MediaSymmetry`, in the run without liveness properties only).

In `sidecar` two uploads of one group are needed for the debounce of the refresh
and for two jobs about the same directory; two sidecars for a first that is
settled before the last is queued. In `approvals` three updates are a dangerous
command, a click and a second command or a contradicting click; a repeated
click is the second one. In `sync` the second torrent makes the list long enough
to be suspect after a restart; 2 is the least number of confirmations that
needs a second pass. The disk levels of `slots` lie below the emergency floor,
between the floors and above both; the first torrent is small enough for
recovery mode, the second is not, and each limit is 1, so that two torrents
meet it. `MaxThreads` of `writer` cuts nothing off: with 5 threads the reachable states are
the same 68046. With 2 stops and 5 threads the properties hold as well (three
minutes).

`OneLiveUpload`, `MediaNotLost` and `SettledIsFinal` are not among the properties
of `recovery` because the code does not keep them there: after a crash between
the media insert and the copy a settled upload has no media job, and
`reconcile` may put a settled job back or declare a live one failed (its reads
and its transaction are apart). The inflight cap is not a property either:
after a crash between the insert of an upload and the update of the batch row
the planner can pause the row, a new batch takes the slot, and the upload brings
the first row back.

### The four disagreements

* `lost_update`. The job is inserted at `file_batch.py:465`, the row marked at 466.
  An upload that is claimed, copied and settled in between writes
  `cleanup_deferred`; the mark overwrites it with `upload_queued`. Nothing ever
  moves the row again. requirements-map.md:23 promises CleanupDeferred.
* `cut_short`. The first batch completes the wanted files, so the torrent counts
  as completed and gets an upload of its own, which ends in a delete with files
  although the others were never downloaded. requirements-map.md:11 and
  daemon-upgrade-baseline.md:57 forbid it.
* `stranded`. The same for the last batch: the full path sees the settled upload
  of an earlier batch, takes it for an existing one and stops.
  requirements-map.md:12 has the loop queue it.
* `delta`. A delta of sync/maindata holds the changed fields only, and
  `qbt_sync.py:34` replaces the whole snapshot by it: path, category and name
  are empty then, the torrent protects nothing, and after two passes its
  content is in the trash. daemon-upgrade-baseline.md:21 promises a
  sync-health-gated detector with a guarded quarantine. `KnownContentStays` in
  `sync` says that this is the only way.

Seen while modelling, without a run of their own. The first three go against a
document; the properties name each as an exception:

* the artifacts of a scrape are queued one by one (`media.py:383`): when those that
  are there have settled, the manifest is marked verified and the refresh queued
  before the rest is uploaded. requirements-map.md:26 forbids it;
  `VerifiedWhenStored` names this window as the only one. A run that was told
  `SidecarVerified` in it keeps that when a later artifact fails for good, against
  requirements-map.md:23;
* a managed torrent whose snapshot a delta has emptied is not among those an
  emergency stops, against requirements-map.md:8 and
  daemon-upgrade-baseline.md:82: the cause is the one of `delta`, and
  `EmergencyStops` names the torrent as its way out (`harmed`);
* the bytes released by a preemption are added after the budget was clamped to
  zero (`soak_queue.py:275`), so that below the floor more is started than fits.
  requirements-map.md:10 keeps that floor; `StartsFit` is about ticks without a
  preemption;

and the others have no document that says otherwise:

* after a delta a running resident is managed by nobody: its soak reservation is
  released (`soak_queue.py:521`), and neither the soak queue (`:489`) nor the planner
  stops it, so that it runs unpaid until the next full answer.
  `CallsMatchReservations` is therefore about calls, not about what runs;
* a torrent that the planner stopped is in the next delta, which empties its
  snapshot; until a full answer the batch loop passes over it
  (`file_batch.py:155`, `:160`) and its batch keeps its reservation. No property
  says that it gives it up;
* an Emby call that fails is never made again (`media.py:455`), which
  `NoRefreshLost` and `ContentShown` name;
* a Telegram update whose handling raises is passed over (`lost` in
  `BotApprovals`);
* a resident that is preempted as an active download in the same tick loses its
  cooldown (`soak_queue.py:302`);
* a carousel row that reached soak is never probed again (`carousel.py:155`), and
  the carousel does not ask for cooldowns;
* a torrent that never saw a swarm is not marked dead (`planner.py:410`);
* after `stop_write_actors` two threads may write (`db.py:117`), and a call that
  found its actor before waits for ever behind the stop request (`db.py:127`);
* a command whose approval is decided between `runtime.py:804` and `:819` is left
  in approval_required: safe, and never run.

### Fairness

`live` runs under `UploadFairness`: the upload thread goes on, a copy that is tried
again and again is verified once, and a job that is again and again first in
line is claimed. Nothing is assumed of the main loop, downloads, the planner,
cleanup requests or failures. `stranded` runs under `MainFairness` (each torrent gets
its turn again and again, a probe succeeds once) and `CallFairness` (so do the call
that deselects files and the backpressure gate). That is kinder than the code,
where a delta may hide a torrent from a turn: its counterexample is a system in
which every call works, and a property that fails there fails under less. No
passing run uses those two.

The `FairSpec` of the other modules gives weak fairness to the loops of the
daemon's threads, each as a whole (`MediaThread`, `SidecarThread`, `EmbyThread`;
`Polling`, `MainThread`, `Sending`; `MainLoop`) and to qBittorrent loading its
torrents after a restart. A loop that goes on may go on with failures: no call,
copy or poll is assumed to succeed, and liveness properties name the way out
(`cut`, `crashed`, `refused` through `Owed`, `lost`, `harmed`,
`registry # caller[c].actor`). In `StateWriter` each caller and each writer
thread goes on; nobody has to call or to stop. `slots` has no liveness property: when a slot is given to a torrent is a matter of sort
keys, which are inputs there.

## 4. Proofs

For every number of torrents, files, batches, jobs, attempts, crashes, lapses
and reconciliations, and for both readings of `amount_left`:

* `TypeCorrect`: `Spec => []TypeOK`. `TypeOK` alone is not inductive: that the
  upload thread writes a batch row only a result a batch can have, needs
  `WorkerOK` (its step fits its job), and that it writes a row that exists needs
  `TablesOK` and `MainOK`. `TypeInv` is their conjunction.
* `ReleaseIsVerified`: `Spec => []CleanupOnlyVerified`, by `BatchInv`: the file list
  in the main thread's hand is complete as long as the torrent is there
  (`ListComplete`), so a batch upload is about complete files
  (`BatchUploadsComplete`), so a verified copy stores them all
  (`ResultVerified`), and only that result releases a batch (`ReleasedBy`).
* `DeleteIsVerified`: `Spec => DeleteOnlyVerified`, by `FullInv`: once a torrent has an
  upload of its own it is complete, the upload has every wanted file
  (`UploadsComplete`), and the main thread is never on the batch path of that
  torrent (`PathsApart`), so nothing else becomes wanted before the delete.
* `PromiseKept`: `Spec => KeepsPromise`, the refinement of `VerifiedRelease`, from both
  invariants.

`UploadPipelineBatches`, under the same assumptions:

* `PinnedBytesReserved`: `Spec => []PinnedReserved`. A batch that is pinned keeps its
  cleanup reservation because the only steps that release one move the batch
  out of its pinned states in the same transaction.
* `FilesHaveOneBatch`: `Spec => []LiveBatchesDisjoint`, by `FilesInv`. A paused batch
  comes back when a late upload of it settles, so liveness is not what is kept
  disjoint: `HeldDisjoint` is about every batch that is live or has an upload row.
  That `CreateBatch` sees them all needs `UploadedHaveJob` (a batch past its
  download has a job) and `UploadsSeen` (jobs of the torrent in hand are about
  files on the list in hand).
* `UploadsAreSingle`: `Spec => [](reconciles = 0 => OneLiveUpload)`, and
  `SettledStaysSettled`: `Spec /\ [](reconciles = 0) => SettledIsFinal`, by `UploadsInv`:
  until a reconciliation begins no job has failed (`NoneGivenUp`), a job in hand
  is running (`HandsRunning`) and the main thread inserts an upload only where
  there is none (`EnqueueAlone`). Crashes and failing calls are allowed. Section
  3 says why the condition is there: a reconciliation does break both.
* `MediaIsNotLost`: `Spec => [](crashes = 0 => MediaNotLost)`, reconciliations
  allowed: the result in the upload thread's hand stays the job's (`ResultSettled`).

`SidecarPipelineProofs`, for any number of uploads, groups, artifacts, manifests,
faults, crashes and reconciliations:

* `TypeCorrect`; `StoredWhenVerified`: `Spec => VerifiedWhenStored`. A manifest is
  marked by a count over its uploads that finds them all done; by `StoredInv`
  (next) those are all its artifacts once the media thread is past its loop.
* `NothingVerifiedUnstored`: `Spec => []VerifiedIsStored`, by `StoredInv`: each artifact
  of a good scrape has its job or is still to be queued by the media thread
  (`ArtifactsQueued`), a job that is done has stored its artifact (`DoneStored`),
  one that failed is known to the manifest or about to be (`FailedSeen`). The
  first is what makes counting the settled jobs enough, although the first may
  settle before the last is queued.
* `RefreshIsNotLost`: `Spec => []NoRefreshLost`, by `ServedInv`: whatever is under way has
  somebody who brings it further (`UnderWayServed`, `LeftToOthers`), and a job in
  hand can be claimed again when its thread dies (`HandsOpen`). A group whose
  Emby call failed is no longer owed a refresh by anybody: the property says so.

`SyncJanitorsProofs`, for any number of torrents, confirmations and faults:

* `TypeCorrect`; `CacheKeysAreTrue`: `Spec => []CacheKeysTrue`. A delta is right only
  on top of the answer the client's rid names, so `CacheInv` says in addition
  that a synced cache has the keys of qBittorrent's last answer (`SyncedAsTold`)
  and that a snapshot without its path is one a delta replaced (`PathsKnown`).
* `KnownContentIsSafe`: `Spec => []KnownContentStays`. What is on the janitor's list
  in a pass was checked against the snapshots of the same tick (`PassFounded`, a
  part of `JanitorInv`), so only a snapshot that a delta has replaced fails to
  protect its content.
* `SuspectIsSafe`: `Spec => SuspectMovesNothing`.

`BotApprovalsProofs`, for any users, roles, updates and faults:

* `TypeCorrect`: `log` alone is not enough, `TypeInv` adds what the polling thread
  has in hand (`HandsOK`) and what an update can be (`LogOK`).
* `RowsAlwaysAgree`: `Spec => []RowsAgree`, by `RowsInv`, which relates the command
  in the main thread's hand to its rows at each of the handler's steps, so that
  a click that comes in between is accounted for.
* `DecisionsByAdmin`, `PromiseKept` (the refinement of `ApprovedCommands`).

`SlotSchedulerProofs`, for any number of torrents, slots, probes, ticks, cuts and
outside events, and any sizes, exposures and floors:

* `TypeCorrect`; `CallsAreReserved`: `Spec => CallsMatchReservations`, by `CallInv`:
  what is started was selected and holds its reservation when the call goes
  out (`StartsSelected`, `StartsReserved`), whoever holds a soak reservation is
  selected and whoever is selected, or pinned by a batch, is protected
  (`HoldersSelected`, `HoldersGuarded`), and of the managed torrents only the picks
  hold the planner's (`PicksReserved`). Deltas are allowed between any two ticks.
* `ProbesWithinConcurrency`: `Spec => []ProbesBounded`.
* `StartsFitTheSpace`: `Spec => []StartsFit`, by `FitInv`: what the soak queue selected
  fits beside the other reservations at every step until its own rows are
  written (`StartRoom`), no row is live but the selection's (`SelectionReserved`),
  and what the planner picked fits beside both, before and after it is reserved
  (`PickRoom`). That a selection fits is a property of the loop: `TrimGood` and
  `PickGood` hold after each of its steps, and the sum lemmas (`SumTerms`,
  `SumMonotone`, `SumOfSums`, `SumOverPart`) relate what the loop added up to the
  reservations per torrent, where a batch and a download of the same torrent
  count once, by the larger.
* `CooldownsAreHonoured`: `Spec => CooldownHonoured`, by `CoolInv`: a torrent that cools
  is one the tick has seen or one that ran in its snapshot (`CoolSeen`), and
  neither is started nor picked and started (`StartsAreCool`, `PicksAreCool`).

`Trim`, `Pick` and the sums are folds. The induction theorems of the library take
an operator, which the provers cannot instantiate; the lemmas take the least
element of a set of counterexamples instead (`Least` for numbers, `WFMin` with
the order of strict subsets for sets), whose existence the library states
without one.

`StateWriterProofs`, for any number of callers, calls, stops and threads:

* `TypeCorrect` and `PromiseKept` (the refinement of `AtomicWrites`) by `WriterInv`: a
  request is in one place, in one queue or in the hands of one thread, while its
  caller waits (`Requests`); the database lock is with the thread that has
  written (`ThreadsOK`). The mapping chooses the thread that has the answer;
  `OnceServed` makes it the only one.
* `OneWriterUntilStop`: `Spec => []OneWriter`, by `Early`: before the first stop there is
  one actor, no stop request, and no thread but the one the actor remembers.

The assumptions are the `ASSUME`s of the modules (`JobTableAssumption`,
`PipelineAssumption`, `SidecarAssumption`, `SyncAssumption`, `BotAssumption`,
`SlotAssumption`, `WriterAssumption`): bounds are naturals, sets are finite, a
distinguished value is none of the others; an exposure is positive and not
above what is left of its torrent, as `calculate_exposure` has it. The
first lemmas of a module sort the actions by the variables they write (`Steps`,
the `Frames`): a proof names the actions that can disturb its invariant and
disposes of the others by those frames.

Model-checked only: the liveness properties (`BatchUploadSettles`, `ContentShown`,
`CommandArrives`, `EmergencyStops`, `CallsReturn`), which are out of
the prover's reach. Every invariant and every action property of the passing
runs is a theorem, `OneLiveUpload`, `SettledIsFinal` and `MediaNotLost` under the
conditions above, which are those of their run.

## 5. Plan and limits

Done: the modules and theorems above. Left, in this order:

1. What a reconciliation leaves of `OneLiveUpload`: at most one upload of a batch
   is live as long as no job that reconcile declared failed was still in hand.
2. What a preemption leaves of `StartsFit`: outside recovery mode, that what is
   started fits once the victims' reservations are gone.
3. A bound on what the carousel and the planner run together.

### Not modelled

* Junk janitor: it reads files and sets their priority to 0 one by one, then
  moves them, on one thread and from the live file list of each tick. What it
  deselects in a batch is a file the content gate had refused already.
* Observe promotion: two qBittorrent calls that change tags and category. The
  managed set it feeds is free in `SyncJanitors`; in `SlotScheduler` every torrent
  is managed unless a delta has emptied its snapshot.
* Seeding preemption: a score over completed torrents. The upload it enqueues is
  the full upload of `UploadPipeline`, its stop call a `Change` of `SlotScheduler`.
* I/O governor: its answer is a free choice where it is asked (`GiveUp`); the
  hysteresis is arithmetic on one number.
* Path reconcile and preferences: one comparison, one setting or alert.
* The asynchronous `DbActor` and `ReadonlyConnectionPool`: only tests use them.
* Download limits near the floor (`soak_queue.py:605`) and sequential mode: values
  of a torrent that nothing else decides on. The clocks of torrent health are
  choices.
* Row groups that are written without a call in between are one step in
  `SlotScheduler`, although they are several transactions of the main thread: a
  crash exactly between two of them is not modelled.
* An exception in the upload thread between the settled job and the media job
  (`service.py:670-682`) is not a step of its own: what it leaves is what a crash
  at that place leaves, which `MediaNotLost` excludes.
* Migration, observability, the HTTP client, the offline backfill tool: no
  protocol of several steps.

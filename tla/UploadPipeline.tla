--------------------------- MODULE UploadPipeline ---------------------------
(***************************************************************************)
(* Batches of a torrent's files, from selection to the approved cleanup:   *)
(* FileBatchService (main thread), UploadJobRunner with RcloneUploadWorker *)
(* (upload thread), CleanupRequestRunner (cleanup thread), reconcile_jobs  *)
(* (a CLI process), and around them qBittorrent, the planner, the safety   *)
(* loop, the reservation clock and daemon crashes.                         *)
(*                                                                         *)
(* One action is one database transaction, one qBittorrent or rclone call, *)
(* or one read of the database together with the local work up to the next *)
(* call.  What a thread remembers between two of its steps is a record of  *)
(* its own (main, worker, cleaner, recon), lost in a crash.                *)
(***************************************************************************)
EXTENDS TorrentJobs, FiniteSets

CONSTANTS Torrents,     \* hashes of managed torrents
          NoTorrent,
          Files,        \* file indices of a torrent (the same set for each)
          Media,        \* those a batch may select; the others are the .txt
                        \*   files that keep their default priority
          MaxBatches,   \* bound: rows torrent_batches can hold
          MaxInflight,  \* max_inflight_batches_per_torrent (2)
          AmountLeftCountsUnwanted, \* whether qBittorrent's amount_left counts
                        \*   files of priority 0 (the tests show both)
          MaxCleanups, MaxLapses, MaxCrashes, MaxReconciles   \* bounds

ASSUME PipelineAssumption ==
  /\ NoTorrent \notin Torrents
  /\ Media \subseteq Files
  /\ IsFiniteSet(Files)
  /\ MaxBatches \in Nat \ {0} /\ MaxInflight \in Nat \ {0}
  /\ AmountLeftCountsUnwanted \in BOOLEAN
  /\ MaxCleanups \in Nat /\ MaxLapses \in Nat /\ MaxCrashes \in Nat /\ MaxReconciles \in Nat

VARIABLES
  have,     \* have[t]: files of t complete on the local disk
  want,     \* want[t]: files whose priority is not 0
  mode,     \* mode[t]: running or stopped in qBittorrent, or gone from it
  remote,   \* remote[t]: complete files copied and seen at the right size
  parked,   \* parked[t]: scheduler_allocations.desired_state is one of soak,
            \*   soak_cooldown, dead, carousel_probe
  batches,  \* torrent_batches
  resv,     \* resource_reservations of each batch, by kind
  jobs,     \* torrent_jobs
  media,    \* upload jobs that have a media_pipeline job
  main, worker, cleaner, recon, \* what each thread remembers
  crashes, reconciles           \* counters of the bounds

qbt     == <<have, want, mode>>
db      == <<parked, batches, resv, jobs, media>>
threads == <<main, worker, cleaner, recon>>
bounds  == <<crashes, reconciles>>
vars    == <<qbt, remote, db, threads, bounds>>

Batches == 1..MaxBatches
NoBatch == 0
NoJob   == 0

\* The states the code writes.  It also names applied_to_qbt, downloaded,
\* uploading, verified_local_pinned and retry_wait; the first four are never
\* written and retry_wait needs a manifest row without a path, which no
\* payload built by this code has.
BatchStates == {"absent", "reserved", "downloading", "upload_queued",
                "verify_pending", "cleanup_deferred", "cleanup_requested",
                "paused_by_planner", "failed"}
DownloadStates == {"reserved", "downloading"}   \* PIPELINE_DOWNLOAD_STATES
InflightStates == {"reserved", "downloading", "upload_queued",
                   "verify_pending", "cleanup_deferred"}
ReleasedStates == {"cleanup_deferred", "cleanup_requested"}

MainSteps == {"idle", "probe", "queue", "enqueue", "mark", "reconcile", "pause",
              "restart", "create", "apply", "applied", "apply_failed",
              "probe_full", "enqueue_full"}
WorkerSteps == {"idle", "copy", "delete", "retry", "settle", "batch", "media"}
Results == {"none", "verify_pending", "cleanup_deferred", "done"}

NoRow    == [torrent |-> NoTorrent, files |-> {}, state |-> "absent"]
NoJobRow == [kind |-> "upload", prio |-> 0, state |-> "unused", attempts |-> 0,
             torrent |-> NoTorrent, batch |-> NoBatch, files |-> {}]
NoResv   == [batch |-> "none", cleanup |-> "none"]
Idle     == [pc |-> "idle", torrent |-> NoTorrent, stopped |-> FALSE,
             seen |-> {}, rows |-> {}, batch |-> NoBatch, files |-> {}]
Resting  == [pc |-> "idle", job |-> NoJob, result |-> "none"]
NoRecon  == [busy |-> FALSE, expired |-> {}, exhausted |-> {}]

JobRow(kind, prio, t, b, fs) ==
  [kind |-> kind, prio |-> prio, state |-> "queued", attempts |-> 0,
   torrent |-> t, batch |-> b, files |-> fs]

Init ==
  /\ have = [t \in Torrents |-> {}]
  /\ want = [t \in Torrents |-> Files]
  /\ mode \in [Torrents -> {"running", "stopped"}]
  /\ remote = [t \in Torrents |-> {}]
  /\ parked = [t \in Torrents |-> FALSE]
  /\ batches = [b \in Batches |-> NoRow]
  /\ resv = [b \in Batches |-> NoResv]
  /\ jobs = [j \in JobIds |-> NoJobRow]
  /\ media = {}
  /\ main = Idle /\ worker = Resting /\ cleaner = NoJob /\ recon = NoRecon
  /\ crashes = 0 /\ reconciles = 0

-----------------------------------------------------------------------------
(* Reads shared by the handlers. *)

\* _is_completed: size > 0 and (amount_left = 0 or progress >= 1).
Completed(t) == /\ want[t] # {}
                /\ (IF AmountLeftCountsUnwanted THEN Files ELSE want[t]) \subseteq have[t]

BatchesOf(t, states) == {b \in Batches : batches[b].torrent = t /\ batches[b].state \in states}
FilesOf(bs) == UNION {batches[b].files : b \in bs}

LiveUploadOfBatch(b) == \E j \in JobIds : jobs[j].kind = "upload" /\ jobs[j].batch = b /\ Live(jobs[j])
LiveUploadOfTorrent(t) == \E j \in JobIds : jobs[j].kind = "upload" /\ jobs[j].torrent = t /\ Live(jobs[j])

\* active_pipeline_batch_hashes: the planner must not stop these.
Protected(t) == \E b \in BatchesOf(t, DownloadStates) : resv[b].batch = "active"

-----------------------------------------------------------------------------
(* FileBatchService, one torrent of one tick at a time.                    *)

\* sync_completed looks at the snapshot of t, taken when the tick began.
Tick(t) ==
  /\ main.pc = "idle" /\ mode[t] # "gone"
  /\ main' = [Idle EXCEPT !.torrent = t, !.stopped = (mode[t] = "stopped"),
                          !.pc = IF Completed(t) THEN "probe_full" ELSE "probe"]
  /\ UNCHANGED <<qbt, remote, db, worker, cleaner, recon, bounds>>

\* The work on this torrent ends: a failed probe, a gate that says no, or an
\* error that the loop task logs.
GiveUp ==
  /\ main.pc \in {"probe", "create", "probe_full", "enqueue_full"}
  /\ main' = Idle
  /\ UNCHANGED <<qbt, remote, db, worker, cleaner, recon, bounds>>

\* torrent_files, then the rows that may be ready for upload.
ProbeFiles ==
  /\ main.pc = "probe" /\ mode[main.torrent] # "gone"
  /\ main' = [main EXCEPT !.pc = "queue", !.seen = have[main.torrent],
                          !.rows = BatchesOf(main.torrent, {"downloading"})]
  /\ UNCHANGED <<qbt, remote, db, worker, cleaner, recon, bounds>>

IsNextRow(b) == b \in main.rows /\ \A c \in main.rows : b <= c

\* A row that has an upload job, is not complete, or whose files are missing.
SkipRow(b) ==
  /\ main.pc = "queue" /\ IsNextRow(b)
  /\ \/ LiveUploadOfBatch(b)
     \/ ~(batches[b].files \subseteq main.seen)
     \/ mode[main.torrent] = "gone"
  /\ main' = [main EXCEPT !.rows = @ \ {b}]
  /\ UNCHANGED <<qbt, remote, db, worker, cleaner, recon, bounds>>

\* Fault: a row counts as ready before its files are complete.
ReadyRowIncomplete(b) == /\ main.pc = "queue" /\ IsNextRow(b)
                         /\ ~LiveUploadOfBatch(b) /\ mode[main.torrent] # "gone"

ReadyRow(b) == /\ main.pc = "queue" /\ IsNextRow(b)
               /\ ~LiveUploadOfBatch(b)
               /\ batches[b].files \subseteq main.seen
               /\ mode[main.torrent] # "gone"

\* Fault: the batch is not remembered for the insert that follows.
DeselectRowForgets(b) ==
  /\ ReadyRow(b)
  /\ want' = [want EXCEPT ![main.torrent] = @ \ batches[b].files]
  /\ main' = [main EXCEPT !.pc = "enqueue"]
  /\ UNCHANGED <<have, mode, remote, db, worker, cleaner, recon, bounds>>

\* The files of a complete batch get priority 0, so that nothing changes
\* them any more.
DeselectRow(b) ==
  /\ ReadyRow(b)
  /\ want' = [want EXCEPT ![main.torrent] = @ \ batches[b].files]
  /\ main' = [main EXCEPT !.pc = "enqueue", !.batch = b]
  /\ UNCHANGED <<have, mode, remote, db, worker, cleaner, recon, bounds>>

\* The call raises, whether or not it took effect: the row waits for a later
\* tick.
DeselectRowFails(b) ==
  /\ ReadyRow(b)
  /\ \/ UNCHANGED want
     \/ want' = [want EXCEPT ![main.torrent] = @ \ batches[b].files]
  /\ main' = [main EXCEPT !.rows = @ \ {b}]
  /\ UNCHANGED <<have, mode, remote, db, worker, cleaner, recon, bounds>>

EnqueueBatchUpload(j) ==
  /\ main.pc = "enqueue" /\ IsNextId(jobs, j)
  /\ jobs' = [jobs EXCEPT ![j] = JobRow("upload", 40, main.torrent, main.batch,
                                        batches[main.batch].files)]
  /\ main' = [main EXCEPT !.pc = "mark"]
  /\ UNCHANGED <<qbt, remote, parked, batches, resv, media, worker, cleaner, recon, bounds>>

\* _mark_batch_upload_queued: whatever the row's state has become.
MarkUploadQueuedWith(cleanup) ==
  /\ main.pc = "mark"
  /\ batches' = [batches EXCEPT ![main.batch].state = "upload_queued"]
  /\ resv' = [resv EXCEPT ![main.batch] =
                [batch |-> IF @.batch = "active" THEN "released" ELSE @.batch,
                 cleanup |-> cleanup]]
  /\ main' = [main EXCEPT !.pc = "queue", !.rows = @ \ {main.batch}, !.batch = NoBatch]
  /\ UNCHANGED <<qbt, remote, parked, jobs, media, worker, cleaner, recon, bounds>>

\* Fault: the pinned bytes are not reserved.
MarkUploadQueuedUnreserved == MarkUploadQueuedWith("none")

MarkUploadQueued == MarkUploadQueuedWith("active")

QueueDone ==
  /\ main.pc = "queue" /\ main.rows = {}
  /\ main' = [main EXCEPT !.pc = "reconcile"]
  /\ UNCHANGED <<qbt, remote, db, worker, cleaner, recon, bounds>>

\* _reconcile_pipeline_batch_state: what to do about a torrent that the
\* snapshot shows stopped although batches of it are being downloaded.
ReadStopped ==
  LET pause == BatchesOf(main.torrent, DownloadStates) # {} /\ parked[main.torrent]
  IN /\ main.pc = "reconcile"
     /\ \/ /\ main.stopped /\ pause
           /\ main' = [main EXCEPT !.pc = "pause",
                                   !.rows = BatchesOf(main.torrent, DownloadStates)]
        \/ /\ main.stopped /\ ~pause /\ Protected(main.torrent)
           /\ main' = [main EXCEPT !.pc = "restart"]
        \/ /\ ~main.stopped \/ ~(pause \/ Protected(main.torrent))
           /\ main' = [main EXCEPT !.pc = "create"]
     /\ UNCHANGED <<qbt, remote, db, worker, cleaner, recon, bounds>>

\* _pause_pipeline_batches: the rows read before, whatever they are now.
PauseBatches ==
  /\ main.pc = "pause"
  /\ batches' = [b \in Batches |-> IF b \in main.rows
                                   THEN [batches[b] EXCEPT !.state = "paused_by_planner"]
                                   ELSE batches[b]]
  /\ resv' = [b \in Batches |-> IF b \in main.rows /\ resv[b].batch = "active"
                                THEN [resv[b] EXCEPT !.batch = "released"]
                                ELSE resv[b]]
  /\ main' = Idle
  /\ UNCHANGED <<qbt, remote, parked, jobs, media, worker, cleaner, recon, bounds>>

Start(t) == mode' = [mode EXCEPT ![t] = IF @ = "gone" THEN @ ELSE "running"]

RestartTorrent ==
  /\ main.pc = "restart"
  /\ Start(main.torrent) \/ UNCHANGED mode      \* the call may fail
  /\ main' = Idle
  /\ UNCHANGED <<have, want, remote, db, worker, cleaner, recon, bounds>>

\* Cap, selection and the transaction that creates the batch with its
\* reservation.  Which candidates fit the budget is left open; GiveUp stands
\* for the gates that say no.  main.files keeps already_selected_indices.
CreateBatchBeside(b, sel, taken) ==
  LET t        == main.torrent
      inflight == BatchesOf(t, InflightStates)
  IN  /\ main.pc = "create"
      /\ Cardinality(inflight) < MaxInflight
      /\ sel # {} /\ sel \subseteq Media \ taken
      /\ batches[b].state = "absent" /\ \A c \in 1..(b - 1) : batches[c].state # "absent"
      /\ batches' = [batches EXCEPT ![b] = [torrent |-> t, files |-> sel, state |-> "reserved"]]
      /\ resv' = [resv EXCEPT ![b].batch = "active"]
      /\ main' = [main EXCEPT !.pc = "apply", !.batch = b, !.files = FilesOf(inflight)]
      /\ UNCHANGED <<qbt, remote, parked, jobs, media, worker, cleaner, recon, bounds>>

InflightFiles == FilesOf(BatchesOf(main.torrent, InflightStates))

\* Faults: files of an inflight batch, or complete ones, are selected again.
CreateBatchOverlapping(b, sel) == CreateBatchBeside(b, sel, main.seen)
CreateBatchOfComplete(b, sel) == CreateBatchBeside(b, sel, InflightFiles)

CreateBatch(b, sel) == CreateBatchBeside(b, sel, main.seen \cup InflightFiles)

\* _apply_batch_to_qbt: selected files to 1, the rest to 0 except those of
\* other inflight batches and the .txt files, then start.  Selected(n) is
\* the wanted set once n of the calls took effect.
Selected(n) ==
  LET sel  == batches[main.batch].files
      kept == sel \cup main.files \cup (Files \ Media)
      w    == want[main.torrent]
  IN  IF n = 0 THEN w ELSE IF n = 1 THEN w \cup sel ELSE (w \cup sel) \cap kept

ApplyBatch ==
  /\ main.pc = "apply" /\ mode[main.torrent] # "gone"
  /\ want' = [want EXCEPT ![main.torrent] = Selected(2)]
  /\ IF main.stopped THEN Start(main.torrent) ELSE UNCHANGED mode
  /\ main' = [main EXCEPT !.pc = "applied"]
  /\ UNCHANGED <<have, remote, db, worker, cleaner, recon, bounds>>

\* A call raises after n of them took effect.
ApplyBatchFails(n) ==
  /\ main.pc = "apply"
  /\ want' = [want EXCEPT ![main.torrent] = Selected(n)]
  /\ IF n = 3 /\ main.stopped THEN Start(main.torrent) ELSE UNCHANGED mode
  /\ main' = [main EXCEPT !.pc = "apply_failed"]
  /\ UNCHANGED <<have, remote, db, worker, cleaner, recon, bounds>>

MarkBatchApplied ==
  /\ main.pc = "applied"
  /\ batches' = [batches EXCEPT ![main.batch].state = "downloading"]
  /\ main' = Idle
  /\ UNCHANGED <<qbt, remote, parked, resv, jobs, media, worker, cleaner, recon, bounds>>

MarkBatchFailed ==
  /\ main.pc = "apply_failed"
  /\ batches' = [batches EXCEPT ![main.batch].state = "failed"]
  /\ resv' = [resv EXCEPT ![main.batch] =
                [k \in {"batch", "cleanup"} |-> IF @[k] = "active" THEN "released" ELSE @[k]]]
  /\ main' = Idle
  /\ UNCHANGED <<qbt, remote, parked, jobs, media, worker, cleaner, recon, bounds>>

\* Fault: some of the wanted files are left out of the manifest.
ProbeFullPartial(fs) ==
  /\ main.pc = "probe_full" /\ mode[main.torrent] # "gone"
  /\ fs # {} /\ fs \subseteq want[main.torrent]
  /\ main' = [main EXCEPT !.pc = "enqueue_full", !.files = fs]
  /\ UNCHANGED <<qbt, remote, db, worker, cleaner, recon, bounds>>

\* _payload_for: the local files of nonzero priority, or every local file,
\* the partial ones too, when the probe fails.
ProbeFull(fs) ==
  LET t == main.torrent
  IN  /\ main.pc = "probe_full" /\ mode[t] # "gone" /\ fs # {}
      /\ fs = want[t] \/ have[t] \subseteq fs
      /\ main' = [main EXCEPT !.pc = "enqueue_full", !.files = fs]
      /\ UNCHANGED <<qbt, remote, db, worker, cleaner, recon, bounds>>

\* Fault: whether the torrent already has an upload is not looked up.
EnqueueFullUploadAgain(j) ==
  /\ main.pc = "enqueue_full" /\ IsNextId(jobs, j)
  /\ jobs' = [jobs EXCEPT ![j] = JobRow("upload", 50, main.torrent, NoBatch, main.files)]
  /\ main' = Idle
  /\ UNCHANGED <<qbt, remote, parked, batches, resv, media, worker, cleaner, recon, bounds>>

EnqueueFullUpload(j) ==
  /\ main.pc = "enqueue_full" /\ ~LiveUploadOfTorrent(main.torrent) /\ IsNextId(jobs, j)
  /\ jobs' = [jobs EXCEPT ![j] = JobRow("upload", 50, main.torrent, NoBatch, main.files)]
  /\ main' = Idle
  /\ UNCHANGED <<qbt, remote, parked, batches, resv, media, worker, cleaner, recon, bounds>>

-----------------------------------------------------------------------------
(* UploadJobRunner.run_next on the upload thread. *)

Job == jobs[worker.job]

ClaimUpload(j) ==
  /\ worker.pc = "idle" /\ IsNextToClaim(jobs, {"upload"}, j)
  /\ jobs' = [jobs EXCEPT ![j] = Claimed(@)]
  /\ worker' = [pc |-> "copy", job |-> j, result |-> "none"]
  /\ UNCHANGED <<qbt, remote, parked, batches, resv, media, main, cleaner, recon, bounds>>

\* run_once: every file is copied and listed at its size.  A torrent's own
\* upload goes on to delete it.
CopyVerified ==
  /\ worker.pc = "copy" /\ mode[Job.torrent] # "gone"
  /\ remote' = [remote EXCEPT ![Job.torrent] = @ \cup (Job.files \cap have[Job.torrent])]
  /\ worker' = IF Job.batch = NoBatch
               THEN [worker EXCEPT !.pc = "delete"]
               ELSE [worker EXCEPT !.pc = "settle", !.result = "cleanup_deferred"]
  /\ UNCHANGED <<qbt, db, main, cleaner, recon, bounds>>

\* Faults: a size that differs does not stop the delete, or a copy that raised
\* counts as done.
CopyMismatchDeletes ==
  /\ worker.pc = "copy" /\ mode[Job.torrent] # "gone"
  /\ worker' = IF Job.batch = NoBatch
               THEN [worker EXCEPT !.pc = "delete"]
               ELSE [worker EXCEPT !.pc = "settle", !.result = "verify_pending"]
  /\ UNCHANGED <<qbt, remote, db, main, cleaner, recon, bounds>>
CopyRaisesSettles ==
  /\ worker.pc = "copy"
  /\ worker' = IF Job.batch = NoBatch
               THEN [worker EXCEPT !.pc = "retry"]
               ELSE [worker EXCEPT !.pc = "settle", !.result = "cleanup_deferred"]
  /\ UNCHANGED <<qbt, remote, db, main, cleaner, recon, bounds>>

\* The copy ends but a size differs.
CopyMismatch ==
  /\ worker.pc = "copy" /\ mode[Job.torrent] # "gone"
  /\ worker' = [worker EXCEPT !.pc = "settle", !.result = "verify_pending"]
  /\ UNCHANGED <<qbt, remote, db, main, cleaner, recon, bounds>>

\* rclone fails or times out.
CopyRaises ==
  /\ worker.pc = "copy"
  /\ worker' = [worker EXCEPT !.pc = "retry"]
  /\ UNCHANGED <<qbt, remote, db, main, cleaner, recon, bounds>>

\* torrents/delete with deleteFiles.
DeleteTorrent ==
  /\ worker.pc = "delete"
  /\ mode' = [mode EXCEPT ![Job.torrent] = "gone"]
  /\ have' = [have EXCEPT ![Job.torrent] = {}]
  /\ \/ worker' = [worker EXCEPT !.pc = "settle", !.result = "done"]
     \/ worker' = [worker EXCEPT !.pc = "retry"]     \* done, but it raised
  /\ UNCHANGED <<want, remote, db, main, cleaner, recon, bounds>>

DeleteRaises ==
  /\ worker.pc = "delete"
  /\ worker' = [worker EXCEPT !.pc = "retry"]
  /\ UNCHANGED <<qbt, remote, db, main, cleaner, recon, bounds>>

\* The exception branch: schedule_retry, and nothing about the batch.
RetryUpload ==
  /\ worker.pc = "retry"
  /\ jobs' = [jobs EXCEPT ![worker.job] = WithState(@, "retry_wait")]
  /\ worker' = Resting
  /\ UNCHANGED <<qbt, remote, parked, batches, resv, media, main, cleaner, recon, bounds>>

\* update_state with the result.
SettleJob ==
  /\ worker.pc = "settle"
  /\ jobs' = [jobs EXCEPT ![worker.job] = WithState(@, worker.result)]
  /\ worker' = [worker EXCEPT !.pc = IF Job.batch = NoBatch THEN "media" ELSE "batch"]
  /\ UNCHANGED <<qbt, remote, parked, batches, resv, media, main, cleaner, recon, bounds>>

\* _update_batch_upload_state.
SettleBatchWith(state, cleanup) ==
  /\ worker.pc = "batch"
  /\ batches' = [batches EXCEPT ![Job.batch].state = state]
  /\ resv' = [resv EXCEPT ![Job.batch].cleanup = cleanup]
  /\ worker' = [worker EXCEPT !.pc = "media"]
  /\ UNCHANGED <<qbt, remote, parked, jobs, media, main, cleaner, recon, bounds>>

\* Faults: the result is not looked at; or the reservation that the enqueue
\* made is taken for granted.
SettleBatchUnchecked == SettleBatchWith("cleanup_deferred", "active")
SettleBatchUnreserved == SettleBatchWith(worker.result, resv[Job.batch].cleanup)

SettleBatch ==
  SettleBatchWith(worker.result, IF worker.result = "cleanup_deferred" THEN "active"
                                 ELSE resv[Job.batch].cleanup)

HasMedia(j) == jobs[j].files \cap Media # {}

EnqueueMediaAfter(results) ==
  /\ worker.pc = "media"
  /\ media' = IF worker.result \in results /\ HasMedia(worker.job)
              THEN media \cup {worker.job} ELSE media
  /\ worker' = Resting
  /\ UNCHANGED <<qbt, remote, parked, batches, resv, jobs, main, cleaner, recon, bounds>>

\* Fault: only the uploads of whole torrents count.
EnqueueMediaOfFull == EnqueueMediaAfter({"done"})

\* _enqueue_media_pipeline_if_present, for a verified upload.
EnqueueMedia == EnqueueMediaAfter({"done", "cleanup_deferred"})

-----------------------------------------------------------------------------
(* CleanupRequestRunner on the cleanup thread, for an approved /cleanup. *)

\* The command processor, on the main thread, inserts the request.
RequestCleanup(t, j) ==
  /\ main.pc = "idle" /\ IsNextId(jobs, j)
  /\ Cardinality({i \in JobIds : jobs[i].kind = "cleanup_request"}) < MaxCleanups
  /\ jobs' = [jobs EXCEPT ![j] = JobRow("cleanup_request", 10, t, NoBatch, {})]
  /\ UNCHANGED <<qbt, remote, parked, batches, resv, media, threads, bounds>>

ClaimCleanup(j) ==
  /\ cleaner = NoJob /\ IsNextToClaim(jobs, {"cleanup_request"}, j)
  /\ jobs' = [jobs EXCEPT ![j] = Claimed(@)]
  /\ cleaner' = j
  /\ UNCHANGED <<qbt, remote, parked, batches, resv, media, main, worker, recon, bounds>>

\* One transaction: the deferred batches become requested, their pinned bytes
\* stay reserved, no file is touched.
ApplyCleanup ==
  /\ cleaner # NoJob
  /\ LET rows == BatchesOf(jobs[cleaner].torrent, {"cleanup_deferred"})
     IN  /\ jobs' = [jobs EXCEPT ![cleaner] =
                       WithState(@, IF rows = {} THEN "blocked" ELSE "done")]
         /\ batches' = [b \in Batches |-> IF b \in rows
                                          THEN [batches[b] EXCEPT !.state = "cleanup_requested"]
                                          ELSE batches[b]]
         /\ resv' = [b \in Batches |-> IF b \in rows /\ resv[b].cleanup # "none"
                                       THEN [resv[b] EXCEPT !.cleanup = "active"]
                                       ELSE resv[b]]
  /\ cleaner' = NoJob
  /\ UNCHANGED <<qbt, remote, parked, media, main, worker, recon, bounds>>

-----------------------------------------------------------------------------
(* The surroundings. *)

Download(t, f) ==
  /\ mode[t] = "running" /\ f \in want[t] \ have[t]
  /\ have' = [have EXCEPT ![t] = @ \cup {f}]
  /\ UNCHANGED <<want, mode, remote, db, threads, bounds>>

\* planner tick, for a torrent with bytes left: selected, so allocated
\* "active" and started, ...
PlannerSelects(t) ==
  /\ main.pc = "idle" /\ mode[t] # "gone" /\ ~Completed(t)
  /\ parked' = [parked EXCEPT ![t] = FALSE]
  /\ Start(t)
  /\ UNCHANGED <<have, want, remote, batches, resv, jobs, media, threads, bounds>>

\* ... or allocated "soak", "soak_cooldown" or "dead", and stopped unless an
\* active batch reservation, a soak residency or the recovery mode protects it.
PlannerParks(t) ==
  /\ main.pc = "idle" /\ mode[t] # "gone" /\ ~Completed(t)
  /\ parked' = [parked EXCEPT ![t] = TRUE]
  /\ \/ UNCHANGED mode
     \/ ~Protected(t) /\ mode' = [mode EXCEPT ![t] = "stopped"]
  /\ UNCHANGED <<have, want, remote, batches, resv, jobs, media, threads, bounds>>

\* The safety loop stops managed downloads below the emergency floor.
SafetyStop(t) ==
  /\ main.pc = "idle" /\ mode[t] = "running" /\ ~Completed(t)
  /\ mode' = [mode EXCEPT ![t] = "stopped"]
  /\ UNCHANGED <<have, want, remote, db, threads, bounds>>

\* reservation_ttl_sec passes: no read counts the row as active any more.
LapseReservation(b) ==
  /\ resv[b].batch = "active"
  /\ Cardinality({c \in Batches : resv[c].batch = "expired"}) < MaxLapses
  /\ resv' = [resv EXCEPT ![b].batch = "expired"]
  /\ UNCHANGED <<qbt, remote, parked, batches, jobs, media, threads, bounds>>

\* The daemon dies and is restarted: what its threads remembered is lost.
Crash ==
  /\ crashes < MaxCrashes
  /\ main # Idle \/ worker # Resting \/ cleaner # NoJob
  /\ crashes' = crashes + 1
  /\ main' = Idle /\ worker' = Resting /\ cleaner' = NoJob
  /\ UNCHANGED <<qbt, remote, db, recon, reconciles>>

\* qbt-orchestrator reconcile --apply: two selects, later one transaction.
ReconcileReads(expired) ==
  /\ reconciles < MaxReconciles /\ ~recon.busy
  /\ expired \subseteq Running(jobs)
  /\ expired \cup ExhaustedRetries(jobs) # {}
  /\ reconciles' = reconciles + 1
  /\ recon' = [busy |-> TRUE, expired |-> expired, exhausted |-> ExhaustedRetries(jobs)]
  /\ UNCHANGED <<qbt, remote, db, main, worker, cleaner, crashes>>

ReconcileWrites ==
  /\ recon.busy
  /\ jobs' = Reconciled(jobs, recon.expired, recon.exhausted)
  /\ recon' = NoRecon
  /\ UNCHANGED <<qbt, remote, parked, batches, resv, media, main, worker, cleaner, bounds>>

-----------------------------------------------------------------------------
BatchPath ==
  \/ ProbeFiles \/ MarkUploadQueued \/ QueueDone \/ ReadStopped \/ PauseBatches
  \/ RestartTorrent \/ ApplyBatch \/ MarkBatchApplied \/ MarkBatchFailed
  \/ \E b \in Batches : SkipRow(b) \/ DeselectRow(b) \/ DeselectRowFails(b)
  \/ \E j \in JobIds : EnqueueBatchUpload(j)
  \/ \E b \in Batches, sel \in SUBSET Media : CreateBatch(b, sel)
  \/ \E n \in 0..3 : ApplyBatchFails(n)

FullPath ==
  \/ \E fs \in SUBSET Files : ProbeFull(fs)
  \/ \E j \in JobIds : EnqueueFullUpload(j)

UploadThread ==
  \/ \E j \in JobIds : ClaimUpload(j)
  \/ CopyVerified \/ CopyMismatch \/ CopyRaises
  \/ DeleteTorrent \/ DeleteRaises
  \/ RetryUpload \/ SettleJob \/ SettleBatch \/ EnqueueMedia

CleanupThread ==
  \/ \E t \in Torrents, j \in JobIds : RequestCleanup(t, j)
  \/ \E j \in JobIds : ClaimCleanup(j)
  \/ ApplyCleanup

Surroundings ==
  \/ \E t \in Torrents : PlannerSelects(t) \/ PlannerParks(t) \/ SafetyStop(t)
  \/ \E t \in Torrents, f \in Files : Download(t, f)
  \/ \E b \in Batches : LapseReservation(b)
  \/ Crash

Next ==
  \/ \E t \in Torrents : Tick(t)
  \/ GiveUp \/ BatchPath \/ FullPath
  \/ UploadThread \/ CleanupThread
  \/ ReconcileWrites \/ \E expired \in SUBSET JobIds : ReconcileReads(expired)
  \/ Surroundings

Spec == Init /\ [][Next]_vars

\* The upload thread goes on, a copy that is tried again and again is verified
\* in the end, and a job whose retry is due again and again is claimed.
\* Nothing is assumed of the main thread, the planner, the cleanup requests,
\* qBittorrent or a crash.
UploadFairness ==
  /\ WF_vars(UploadThread) /\ SF_vars(CopyVerified)
  /\ \A j \in JobIds : SF_vars(ClaimUpload(j))

FairSpec == Spec /\ UploadFairness

\* Kinder than the code, for a counterexample that owes nothing to a call that
\* fails or to a snapshot that a delta has emptied: a tick that has begun is
\* finished and each torrent's turn comes; a probe, the call that deselects
\* files and the backpressure gate succeed in the end.
MainFairness ==
  /\ WF_vars(GiveUp \/ BatchPath \/ FullPath)
  /\ \A t \in Torrents : SF_vars(Tick(t))
  /\ SF_vars(ProbeFiles \/ \E fs \in SUBSET Files : ProbeFull(fs))

CallFairness == SF_vars((\E b \in Batches : DeselectRow(b)) \/ \E j \in JobIds : EnqueueFullUpload(j))

QueueFairSpec == Spec /\ MainFairness /\ CallFairness

-----------------------------------------------------------------------------
(* Types. *)

BatchRow == [torrent : Torrents \cup {NoTorrent}, files : SUBSET Files, state : BatchStates]
JobRows == [kind : {"upload", "cleanup_request"}, prio : {0, 10, 40, 50},
            state : JobStates, attempts : 0..MaxAttempts,
            torrent : Torrents \cup {NoTorrent}, batch : Batches \cup {NoBatch},
            files : SUBSET Files]
Resv == [batch : {"none", "active", "expired", "released"},
         cleanup : {"none", "active", "released"}]

StorageTyped == /\ have \in [Torrents -> SUBSET Files] /\ want \in [Torrents -> SUBSET Files]
                /\ mode \in [Torrents -> {"running", "stopped", "gone"}]
                /\ remote \in [Torrents -> SUBSET Files] /\ parked \in [Torrents -> BOOLEAN]

TablesTyped == /\ batches \in [Batches -> BatchRow] /\ resv \in [Batches -> Resv]
               /\ jobs \in [JobIds -> JobRows] /\ media \subseteq JobIds

MainTyped ==
  /\ main \in [pc : MainSteps, torrent : Torrents \cup {NoTorrent}, stopped : BOOLEAN,
              seen : SUBSET Files, rows : SUBSET Batches,
              batch : Batches \cup {NoBatch}, files : SUBSET Files]
  /\ main.pc # "idle" => main.torrent \in Torrents
  /\ main.pc \in {"enqueue", "mark", "apply", "applied", "apply_failed"} => main.batch \in Batches

WorkerTyped == /\ worker \in [pc : WorkerSteps, job : JobIds \cup {NoJob}, result : Results]
               /\ worker.pc # "idle" => worker.job \in JobIds

OthersTyped ==
  /\ cleaner \in JobIds \cup {NoJob}
  /\ recon \in [busy : BOOLEAN, expired : SUBSET JobIds, exhausted : SUBSET JobIds]
  /\ crashes \in 0..MaxCrashes /\ reconciles \in 0..MaxReconciles

\* Every variable holds a value of its kind; what a thread remembers is
\* complete for the step it is at.
TypeOK == StorageTyped /\ TablesTyped /\ MainTyped /\ WorkerTyped /\ OthersTyped

-----------------------------------------------------------------------------
(* Safety. *)

\* A batch whose local files may be given up has every one of them on the
\* remote: no interleaving of the three threads, no stale file list and no
\* crash lets an unverified batch into the cleanup states.
CleanupOnlyVerified ==
  \A b \in Batches : batches[b].state \in ReleasedStates
                       => batches[b].files \subseteq remote[batches[b].torrent]

\* Downloaded bytes that wait for upload or cleanup are reserved, whichever
\* thread moved the batch there.
PinnedReserved ==
  \A b \in Batches : batches[b].state \in {"upload_queued", "cleanup_deferred", "cleanup_requested"}
                       => resv[b].cleanup = "active"

\* No file belongs to two batches that are downloading, uploading or done,
\* although a batch leaves the inflight list when its cleanup is requested.
LiveBatchesDisjoint ==
  \A b, c \in Batches :
    /\ b # c /\ batches[b].torrent = batches[c].torrent
    /\ batches[b].state \in InflightStates \cup {"cleanup_requested"}
    /\ batches[c].state \in InflightStates \cup {"cleanup_requested"}
    => batches[b].files \cap batches[c].files = {}

\* A torrent never has two live uploads of the same batch, nor an upload of
\* its own beside another upload.
OneLiveUpload ==
  \A i, j \in JobIds :
    /\ i # j /\ jobs[i].kind = "upload" /\ jobs[j].kind = "upload"
    /\ Live(jobs[i]) /\ Live(jobs[j]) /\ jobs[i].torrent = jobs[j].torrent
    => jobs[i].batch # jobs[j].batch /\ jobs[i].batch # NoBatch

\* A verified upload of media files has its media_pipeline job, or the upload
\* thread is about to insert it.  (An insert that raises, which the thread's
\* loop survives, service.py:670-682, leaves what a crash leaves: the job is
\* settled and its media are lost.  It is not a step of its own.)
MediaNotLost ==
  \A j \in JobIds : /\ jobs[j].kind = "upload" /\ HasMedia(j)
                    /\ jobs[j].state \in {"done", "cleanup_deferred"}
                    => j \in media \/ (worker.job = j /\ worker.pc \in {"batch", "media"})

\* The delete call goes out only for a torrent whose wanted files were all
\* verified: neither a new selection nor a stale snapshot comes between the
\* upload and the delete.
DeleteOnlyVerified ==
  [][\A t \in Torrents : mode[t] # "gone" /\ mode'[t] = "gone" => want[t] \subseteq remote[t]]_vars

\* A settled job stays settled.
SettledIsFinal ==
  [][\A j \in JobIds : jobs[j].state \in {"done", "cleanup_deferred", "blocked"}
                         => jobs'[j].state = jobs[j].state]_vars

\* The pipeline keeps the promise of VerifiedRelease.
Promise == INSTANCE VerifiedRelease
             WITH Nobody <- NoTorrent, asked <- want, stored <- remote,
                  present <- [t \in Torrents |-> mode[t] # "gone"],
                  owner <- [b \in Batches |-> batches[b].torrent],
                  content <- [b \in Batches |-> batches[b].files],
                  released <- {b \in Batches : batches[b].state \in ReleasedStates}

KeepsPromise == Promise!Spec

-----------------------------------------------------------------------------
(* Liveness, under FairSpec. *)

\* A batch upload that is queued is settled in the end, although jobs that
\* fail verification are claimed again before it.
BatchUploadSettles ==
  \A j \in JobIds : (jobs[j].state = "queued" /\ jobs[j].batch # NoBatch)
                      ~> jobs[j].state = "cleanup_deferred"

-----------------------------------------------------------------------------
(* What the documents say and the code does not do.                        *)

\* requirements-map.md:23, "verified, then CleanupDeferred": a batch whose
\* upload settled as verified is in a cleanup state once the upload thread
\* has written it.
VerifiedIsDeferred ==
  \A j \in JobIds :
    /\ jobs[j].batch # NoBatch /\ jobs[j].state = "cleanup_deferred"
    /\ ~(worker.job = j /\ worker.pc = "batch")
    => batches[jobs[j].batch].state \in ReleasedStates

\* requirements-map.md:11, "no delete of the whole torrent half way": a torrent
\* that is downloaded in batches is deleted only after all its media files
\* are on the remote.
PipelineNotCutShort ==
  [][\A t \in Torrents :
       (mode[t] # "gone" /\ mode'[t] = "gone" /\ \E b \in Batches : batches[b].torrent = t)
         => Media \subseteq remote[t]]_vars

\* requirements-map.md:12, "file/batch loop -> UploadQueued": the files of a
\* downloaded batch get an upload job, unless the planner parks the batch.
DownloadedBatchQueued ==
  \A b \in Batches :
    (batches[b].state = "downloading" /\ \E t \in Torrents : batches[b].torrent = t
                                                            /\ batches[b].files \subseteq have[t])
      ~> (\/ batches[b].state = "paused_by_planner"
          \/ \E t \in Torrents : batches[b].torrent = t /\ mode[t] = "gone"
          \/ \E j \in JobIds : /\ Live(jobs[j]) /\ jobs[j].torrent = batches[b].torrent
                               /\ batches[b].files \subseteq jobs[j].files)
=============================================================================

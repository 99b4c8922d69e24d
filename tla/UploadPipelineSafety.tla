------------------------ MODULE UploadPipelineSafety ------------------------
(***************************************************************************)
(* What UploadPipeline releases is verified: the safety theorems, on top   *)
(* of the type invariant TypeInv and the lemmas of UploadPipelineProofs.   *)
(***************************************************************************)
EXTENDS UploadPipelineProofs

Gone(t) == mode[t] = "gone"

\* A torrent that is gone stays gone; what is complete stays complete until
\* the torrent goes.
LEMMA StorageKept ==
  ASSUME TypeInv, [Next]_vars, NEW t \in Torrents
  PROVE  /\ Gone(t) => Gone(t)'
         /\ have[t] \subseteq have'[t] \/ Gone(t)'
         /\ remote[t] \subseteq remote'[t]
<1> USE DEF Gone, TypeInv, TypeOK, StorageTyped
<1>1. CASE MainCallsQbt
  <2>1. UNCHANGED <<have, remote>>
    BY <1>1, MainFrames
  <2>2. Gone(t) => Gone(t)'
    BY <1>1
    DEF MainCallsQbt, RestartTorrent, ApplyBatch, ApplyBatchFails, DeselectRow, DeselectRowFails, Start
  <2>3. QED
    BY <2>1, <2>2
<1>2. CASE CopyVerified
  BY <1>2, WorkerFrames DEF CopyVerified
<1>3. CASE DeleteTorrent
  <2>1. UNCHANGED remote
    BY <1>3, WorkerFrames
  <2>2. mode' = [mode EXCEPT ![Job.torrent] = "gone"] /\ have' = [have EXCEPT ![Job.torrent] = {}]
    BY <1>3 DEF DeleteTorrent
  <2>3. QED
    BY <2>1, <2>2
<1>4. CASE PlannerCallsQbt
  BY <1>4, OtherFrames DEF PlannerCallsQbt, PlannerSelects, PlannerParks, SafetyStop, Start
<1>5. CASE Downloads
  BY <1>5, OtherFrames DEF Downloads, Download
<1>6. CASE UNCHANGED <<have, mode, remote>>
  BY <1>6
<1>7. QED
  BY <1>1, <1>2, <1>3, <1>4, <1>5, <1>6, Steps, MainFrames, WorkerFrames, OtherFrames

-----------------------------------------------------------------------------
(* Batches.                                                                *)

\* A batch upload is about files that are complete, and so is the file list
\* that the main thread has in hand.
BatchUploadsComplete ==
  \A j \in JobIds : Used(j) /\ jobs[j].batch # NoBatch
                      => Gone(jobs[j].torrent) \/ jobs[j].files \subseteq have[jobs[j].torrent]
ListComplete ==
  /\ main.pc \notin {"idle", "probe", "probe_full", "enqueue_full"}
       => Gone(main.torrent) \/ main.seen \subseteq have[main.torrent]
  /\ main.pc = "enqueue" => batches[main.batch].files \subseteq main.seen

\* The result that releases a batch is held only when its files are stored.
ResultVerified ==
  worker.pc \in {"settle", "batch"} /\ worker.result = "cleanup_deferred"
    => Job.files \subseteq remote[Job.torrent]

BatchInv == /\ TypeInv
            /\ BatchUploadsComplete /\ ListComplete /\ ResultVerified /\ CleanupOnlyVerified

LEMMA BatchInit == Init => BatchInv
<1> SUFFICES ASSUME Init PROVE BatchInv
  OBVIOUS
<1>1. TypeInv
  BY TypeInit
<1>2. BatchUploadsComplete /\ CleanupOnlyVerified
  BY DEF Init, BatchUploadsComplete, CleanupOnlyVerified, Used, NoJobRow, NoRow, ReleasedStates
<1>3. ListComplete /\ ResultVerified
  BY DEF Init, ListComplete, ResultVerified, Idle, Resting
<1>4. QED
  BY <1>1, <1>2, <1>3 DEF BatchInv

LEMMA BatchUploadsStep == ASSUME BatchInv, [Next]_vars PROVE BatchUploadsComplete'
<1> SUFFICES ASSUME NEW j \in JobIds, Used(j)', jobs'[j].batch # NoBatch
             PROVE  mode'[jobs'[j].torrent] = "gone" \/ jobs'[j].files \subseteq have'[jobs'[j].torrent]
  BY DEF BatchUploadsComplete, Used, Gone
<1>1. TypeInv
  BY DEF BatchInv
<1>2. CASE Used(j)
  <2>1. jobs[j].torrent \in Torrents
    BY <1>1, <1>2 DEF TypeInv, TablesOK
  <2>2. /\ jobs'[j].batch = jobs[j].batch /\ jobs'[j].torrent = jobs[j].torrent
        /\ jobs'[j].files = jobs[j].files
    BY <1>1, <1>2, JobKept
  <2>3. Gone(jobs[j].torrent) \/ jobs[j].files \subseteq have[jobs[j].torrent]
    BY <1>2, <2>2 DEF BatchInv, BatchUploadsComplete
  <2>4. QED
    BY <1>1, <2>1, <2>2, <2>3, StorageKept DEF Gone
<1>3. CASE EnqueueBatchUpload(j)
  <2>1. /\ main.pc = "enqueue" /\ UNCHANGED <<have, mode>>
        /\ jobs'[j] = JobRow("upload", 40, main.torrent, main.batch, batches[main.batch].files)
    BY <1>1, <1>3 DEF EnqueueBatchUpload, qbt, TypeInv, TypeOK, TablesTyped
  <2>2. jobs'[j].torrent = main.torrent /\ jobs'[j].files = batches[main.batch].files
    BY <2>1 DEF JobRow
  <2>3. /\ batches[main.batch].files \subseteq main.seen
        /\ Gone(main.torrent) \/ main.seen \subseteq have[main.torrent]
    BY <2>1 DEF BatchInv, ListComplete
  <2>4. QED
    BY <2>1, <2>2, <2>3 DEF Gone
<1>4. CASE EnqueueFullUpload(j)
  BY <1>1, <1>4 DEF EnqueueFullUpload, JobRow, TypeInv, TypeOK, TablesTyped
<1>5. ASSUME NEW t \in Torrents, RequestCleanup(t, j) PROVE FALSE
  BY <1>1, <1>5 DEF RequestCleanup, JobRow, TypeInv, TypeOK, TablesTyped
<1>6. QED
  BY <1>1, <1>2, <1>3, <1>4, <1>5, NewJob

LEMMA ListStep == ASSUME BatchInv, [Next]_vars PROVE ListComplete'
<1>1. TypeInv /\ ListComplete
  BY DEF BatchInv
<1>2. main.pc # "idle" => main.torrent \in Torrents
  BY <1>1 DEF TypeInv, TypeOK, MainTyped
<1>3. ASSUME main' = Idle PROVE ListComplete'
  BY <1>3 DEF ListComplete, Idle
<1>4. ASSUME main'.torrent = main.torrent, main'.seen = main.seen,
             main.pc \notin {"idle", "probe", "probe_full", "enqueue_full"},
             main'.pc = "enqueue" => batches'[main'.batch].files \subseteq main'.seen
      PROVE  ListComplete'
  <2>1. mode'[main'.torrent] = "gone" \/ main'.seen \subseteq have'[main'.torrent]
    BY <1>1, <1>2, <1>4, StorageKept DEF ListComplete, Gone
  <2>2. QED
    BY <1>4, <2>1 DEF ListComplete, Gone
<1>5. CASE UNCHANGED main
  <2>1. ASSUME main.pc = "enqueue" PROVE batches'[main.batch].files = batches[main.batch].files
    BY <1>1, <2>1, BatchKept DEF TypeInv, TypeOK, MainTyped, MainOK
  <2>2. QED
    BY <1>1, <1>4, <1>5, <2>1 DEF ListComplete, Gone
<1>6. CASE MainLooks
  <2>1. UNCHANGED <<have, mode, batches>>
    BY <1>6, MainFrames
  <2>2. ASSUME NEW t \in Torrents, Tick(t) PROVE ListComplete'
    BY <2>2 DEF Tick, Idle, ListComplete
  <2>3. CASE ProbeFiles
    BY <1>1, <2>1, <2>3 DEF ProbeFiles, ListComplete, TypeInv, TypeOK, MainTyped
  <2>4. CASE QueueDone \/ ReadStopped \/ \E b \in Batches : SkipRow(b)
    <3>1. /\ main'.torrent = main.torrent /\ main'.seen = main.seen
          /\ main.pc \in {"queue", "reconcile"} /\ main'.pc # "enqueue"
      BY <1>1, <2>4
      DEF QueueDone, ReadStopped, SkipRow, TypeInv, TypeOK, MainTyped
    <3>2. QED
      BY <1>4, <3>1
  <2>5. ASSUME NEW fs \in SUBSET Files, ProbeFull(fs) PROVE ListComplete'
    BY <1>1, <2>5 DEF ProbeFull, ListComplete, TypeInv, TypeOK, MainTyped
  <2>6. QED
    BY <1>3, <1>6, <2>2, <2>3, <2>4, <2>5 DEF MainLooks, GiveUp
<1>7. CASE MainInserts
  BY <1>1, <1>3, <1>4, <1>7
  DEF MainInserts, EnqueueBatchUpload, EnqueueFullUpload, ListComplete, TypeInv, TypeOK, MainTyped
<1>8. CASE MainWritesBatches
  <2>1. CASE MarkUploadQueued
    BY <1>1, <1>4, <2>1
    DEF MarkUploadQueued, MarkUploadQueuedWith, ListComplete, TypeInv, TypeOK, MainTyped
  <2>2. ASSUME NEW b \in Batches, NEW sel \in SUBSET Media, CreateBatch(b, sel) PROVE ListComplete'
    BY <1>1, <1>4, <2>2 DEF CreateBatch, CreateBatchBeside, ListComplete, TypeInv, TypeOK, MainTyped
  <2>3. QED
    BY <1>3, <1>8, <2>1, <2>2 DEF MainWritesBatches, PauseBatches, MarkBatchApplied, MarkBatchFailed
<1>9. CASE MainCallsQbt
  <2>1. UNCHANGED <<have, batches>>
    BY <1>9, MainFrames
  <2>2. CASE ApplyBatch \/ \E n \in 0..3 : ApplyBatchFails(n)
    BY <1>1, <1>4, <2>2 DEF ApplyBatch, ApplyBatchFails, ListComplete, TypeInv, TypeOK, MainTyped
  <2>3. ASSUME NEW b \in Batches, DeselectRow(b) \/ DeselectRowFails(b) PROVE ListComplete'
    BY <1>1, <1>4, <2>1, <2>3
    DEF DeselectRow, DeselectRowFails, ReadyRow, ListComplete, TypeInv, TypeOK, MainTyped
  <2>4. QED
    BY <1>3, <1>9, <2>2, <2>3 DEF MainCallsQbt, RestartTorrent
<1>10. CASE Crash
  BY <1>3, <1>10 DEF Crash
<1>11. QED
  BY <1>5, <1>6, <1>7, <1>8, <1>9, <1>10, Steps, MainFrames, WorkerFrames, OtherFrames

LEMMA ResultStep == ASSUME BatchInv, [Next]_vars PROVE ResultVerified'
<1>1. TypeInv /\ ResultVerified
  BY DEF BatchInv
<1>2. ASSUME worker.pc # "idle"
      PROVE  /\ worker.job \in JobIds /\ Used(worker.job) /\ Job.torrent \in Torrents
             /\ jobs'[worker.job].torrent = Job.torrent /\ jobs'[worker.job].files = Job.files
  <2>1. worker.job \in JobIds /\ Used(worker.job)
    BY <1>1, <1>2 DEF TypeInv, TypeOK, WorkerTyped, WorkerOK
  <2>2. Job.torrent \in Torrents
    BY <1>1, <2>1 DEF TypeInv, TablesOK, Job
  <2>3. QED
    BY <1>1, <2>1, <2>2, JobKept DEF Job
<1>3. ASSUME worker.pc \in {"settle", "batch"}, worker'.result = worker.result,
             worker'.job = worker.job
      PROVE  ResultVerified'
  BY <1>1, <1>2, <1>3, StorageKept DEF ResultVerified, Job
<1>4. ASSUME worker'.pc \notin {"settle", "batch"} \/ worker'.result # "cleanup_deferred"
      PROVE  ResultVerified'
  BY <1>4 DEF ResultVerified
<1>5. CASE UNCHANGED worker
  BY <1>3, <1>4, <1>5
<1>6. CASE CopyVerified
  <2>1. CASE Job.batch = NoBatch
    BY <1>1, <1>4, <1>6, <2>1 DEF CopyVerified, TypeInv, TypeOK, WorkerTyped
  <2>2. CASE Job.batch # NoBatch
    <3>1. ~Gone(Job.torrent) /\ worker.pc = "copy"
      BY <1>6 DEF CopyVerified, Gone
    <3>2. Job.files \subseteq have[Job.torrent]
      BY <1>2, <2>2, <3>1 DEF BatchInv, BatchUploadsComplete, Job
    <3>3. Job.files \subseteq remote'[Job.torrent]
      BY <1>1, <1>2, <1>6, <3>1, <3>2 DEF CopyVerified, TypeInv, TypeOK, StorageTyped
    <3>4. worker'.job = worker.job
      BY <1>1, <1>6 DEF CopyVerified, TypeInv, TypeOK, WorkerTyped
    <3>5. QED
      BY <1>2, <3>1, <3>3, <3>4 DEF ResultVerified, Job
  <2>3. QED
    BY <2>1, <2>2
<1>7. CASE WorkerFails
  BY <1>1, <1>4, <1>7
  DEF WorkerFails, CopyMismatch, CopyRaises, DeleteRaises, TypeInv, TypeOK, WorkerTyped
<1>8. CASE DeleteTorrent
  BY <1>1, <1>4, <1>8 DEF DeleteTorrent, TypeInv, TypeOK, WorkerTyped
<1>9. CASE WorkerWritesJobs
  <2>1. ASSUME NEW j \in JobIds, ClaimUpload(j) PROVE ResultVerified'
    BY <1>4, <2>1 DEF ClaimUpload
  <2>2. CASE RetryUpload
    BY <1>4, <2>2 DEF RetryUpload, Resting
  <2>3. CASE SettleJob
    BY <1>1, <1>3, <2>3 DEF SettleJob, TypeInv, TypeOK, WorkerTyped
  <2>4. QED
    BY <1>9, <2>1, <2>2, <2>3 DEF WorkerWritesJobs
<1>10. CASE SettleBatch
  BY <1>1, <1>4, <1>10 DEF SettleBatch, SettleBatchWith, TypeInv, TypeOK, WorkerTyped
<1>11. CASE EnqueueMedia \/ Crash
  BY <1>4, <1>11 DEF EnqueueMedia, EnqueueMediaAfter, Crash, Resting
<1>12. QED
  BY <1>5, <1>6, <1>7, <1>8, <1>9, <1>10, <1>11, Steps, MainFrames, WorkerFrames, OtherFrames

\* A batch enters the cleanup states by the hand of the upload thread only.
LEMMA ReleasedBy ==
  ASSUME TypeInv, [Next]_vars, NEW b \in Batches,
         batches[b].state \notin ReleasedStates, batches'[b].state \in ReleasedStates
  PROVE  SettleBatch /\ b = Job.batch /\ worker.result = "cleanup_deferred"
<1> USE DEF ReleasedStates, TypeInv, TypeOK, TablesTyped
<1>1. CASE MainWritesBatches
  <2>1. CASE MarkUploadQueued
    BY <1>1, <2>1 DEF MarkUploadQueued, MarkUploadQueuedWith, BatchRow
  <2>2. CASE PauseBatches
    BY <2>2 DEF PauseBatches, BatchRow
  <2>3. CASE MarkBatchApplied \/ MarkBatchFailed
    BY <2>3, ZenonT(30) DEF MarkBatchApplied, MarkBatchFailed, BatchRow
  <2>4. ASSUME NEW c \in Batches, NEW sel \in SUBSET Media, CreateBatch(c, sel) PROVE FALSE
    BY <2>4 DEF CreateBatch, CreateBatchBeside, BatchRow
  <2>5. QED
    BY <1>1, <2>1, <2>2, <2>3, <2>4 DEF MainWritesBatches
<1>2. CASE SettleBatch
  <2>1. batches' = [batches EXCEPT ![Job.batch].state = worker.result]
    BY <1>2 DEF SettleBatch, SettleBatchWith
  <2>2. worker.result \in Results
    BY DEF WorkerTyped
  <2>3. QED
    BY <1>2, <2>1, <2>2 DEF Results, BatchRow
<1>3. CASE CleanupThread
  <2>1. CASE ApplyCleanup
    BY <2>1 DEF ApplyCleanup, BatchesOf, BatchRow
  <2>2. CASE UNCHANGED batches
    BY <2>2
  <2>3. QED
    BY <1>3, <2>1, <2>2 DEF CleanupThread, RequestCleanup, ClaimCleanup
<1>4. CASE UNCHANGED batches
  BY <1>4
<1>5. QED
  BY <1>1, <1>2, <1>3, <1>4, Steps, MainFrames, WorkerFrames, OtherFrames

LEMMA ReleasedStep == ASSUME BatchInv, [Next]_vars PROVE CleanupOnlyVerified'
<1> SUFFICES ASSUME NEW b \in Batches, batches'[b].state \in ReleasedStates
             PROVE  batches'[b].files \subseteq remote'[batches'[b].torrent]
  BY DEF CleanupOnlyVerified
<1>1. TypeInv
  BY DEF BatchInv
<1>2. ASSUME Exists(b), batches[b].files \subseteq remote[batches[b].torrent]
      PROVE  batches'[b].files \subseteq remote'[batches'[b].torrent]
  <2>1. batches[b].torrent \in Torrents
    BY <1>1, <1>2 DEF TypeInv, TablesOK
  <2>2. QED
    BY <1>1, <1>2, <2>1, BatchKept, StorageKept
<1>3. CASE batches[b].state \in ReleasedStates
  BY <1>2, <1>3 DEF BatchInv, CleanupOnlyVerified, Exists, ReleasedStates
<1>4. CASE batches[b].state \notin ReleasedStates
  <2>1. SettleBatch /\ b = Job.batch /\ worker.result = "cleanup_deferred"
    BY <1>1, <1>4, ReleasedBy
  <2>2. worker.pc = "batch" /\ worker.job \in JobIds /\ OfBatch(worker.job)
    BY <1>1, <2>1
    DEF SettleBatch, SettleBatchWith, TypeInv, TypeOK, WorkerTyped, WorkerOK, TablesOK, Job
  <2>3. Job.files \subseteq remote[Job.torrent]
    BY <2>1, <2>2 DEF BatchInv, ResultVerified
  <2>4. QED
    BY <1>2, <2>1, <2>2, <2>3 DEF OfBatch, Job
<1>5. QED
  BY <1>3, <1>4

LEMMA BatchStep == BatchInv /\ [Next]_vars => BatchInv'
<1> SUFFICES ASSUME BatchInv, [Next]_vars PROVE BatchInv'
  OBVIOUS
<1>1. TypeInv'
  BY TypeStep DEF BatchInv
<1>2. QED
  BY <1>1, BatchUploadsStep, ListStep, ResultStep, ReleasedStep DEF BatchInv

\* No interleaving of the main, upload and cleanup threads with a crash, a
\* lapsed reservation or a reconciliation releases a batch that is not stored.
THEOREM ReleaseIsVerified == Spec => []CleanupOnlyVerified
<1>1. Spec => []BatchInv
  BY BatchInit, BatchStep, PTL DEF Spec
<1>2. BatchInv => CleanupOnlyVerified
  BY DEF BatchInv
<1>3. QED
  BY <1>1, <1>2, PTL

-----------------------------------------------------------------------------
(* Whole torrents.                                                         *)

\* Once a torrent has an upload of its own it is complete, every wanted file
\* is in that upload, and the main thread is past every step that changes
\* what is wanted of it.
FullPathAt(t) == main.torrent = t /\ main.pc \in {"probe_full", "enqueue_full"}
OwnUpload(j, t) == /\ Used(j) /\ jobs[j].torrent = t
                   /\ jobs[j].kind = "upload" /\ jobs[j].batch = NoBatch

PathComplete ==
  \A t \in Torrents :
    FullPathAt(t) => \/ Gone(t)
                     \/ Completed(t) /\ (main.pc = "enqueue_full" => want[t] \subseteq main.files)
UploadsComplete ==
  \A j \in JobIds, t \in Torrents :
    OwnUpload(j, t) => Gone(t) \/ (Completed(t) /\ want[t] \subseteq jobs[j].files)
PathsApart ==
  \A j \in JobIds, t \in Torrents : OwnUpload(j, t) => Gone(t) \/ main.torrent # t \/ FullPathAt(t)

\* The delete is under way only for a torrent whose wanted files are stored.
DeleteVerified ==
  \A t \in Torrents :
    worker.pc = "delete" /\ Job.torrent = t => Gone(t) \/ want[t] \subseteq remote[t]

WorkerUploads == worker.pc # "idle" => Job.kind = "upload"

FullInv == /\ TypeInv /\ PathComplete /\ UploadsComplete /\ PathsApart
           /\ WorkerUploads /\ DeleteVerified

LEMMA FullInit == Init => FullInv
<1> SUFFICES ASSUME Init PROVE FullInv
  OBVIOUS
<1>1. TypeInv
  BY TypeInit
<1>2. UploadsComplete /\ PathsApart
  BY DEF Init, UploadsComplete, PathsApart, OwnUpload, Used, NoJobRow
<1>3. PathComplete /\ WorkerUploads /\ DeleteVerified
  BY DEF Init, PathComplete, FullPathAt, WorkerUploads, DeleteVerified, Idle, Resting
<1>4. QED
  BY <1>1, <1>2, <1>3 DEF FullInv

\* Only the main thread, at work on t by the batch path, changes what is
\* wanted of t.
LEMMA WantKept ==
  ASSUME TypeInv, [Next]_vars, NEW t \in Torrents, want'[t] # want[t]
  PROVE  main.torrent = t /\ ~FullPathAt(t)
<1> USE DEF TypeInv, TypeOK, StorageTyped, FullPathAt
<1>1. CASE MainCallsQbt
  <2>1. CASE RestartTorrent
    BY <2>1 DEF RestartTorrent
  <2>2. CASE ApplyBatch
    BY <2>2 DEF ApplyBatch
  <2>3. ASSUME NEW n \in 0..3, ApplyBatchFails(n) PROVE main.torrent = t /\ ~FullPathAt(t)
    BY <2>3 DEF ApplyBatchFails
  <2>4. ASSUME NEW b \in Batches, DeselectRow(b) \/ DeselectRowFails(b)
        PROVE  main.torrent = t /\ ~FullPathAt(t)
    BY <2>4 DEF DeselectRow, DeselectRowFails, ReadyRow
  <2>5. QED
    BY <1>1, <2>1, <2>2, <2>3, <2>4 DEF MainCallsQbt
<1>2. CASE UNCHANGED want
  BY <1>2
<1>3. QED
  BY <1>1, <1>2, Steps, MainFrames, WorkerFrames, OtherFrames

\* A torrent that is complete stays so until it goes, as long as nothing else
\* is wanted of it.
LEMMA CompletedKept ==
  ASSUME TypeInv, [Next]_vars, NEW t \in Torrents, want'[t] = want[t], Gone(t) \/ Completed(t)
  PROVE  Gone(t)' \/ Completed(t)'
  BY StorageKept DEF Completed, Gone

\* The main thread comes to the full path, or goes on along it, in two ways.
LEMMA FullPathBy ==
  ASSUME TypeInv, [Next]_vars, NEW t \in Torrents, FullPathAt(t)'
  PROVE  \/ UNCHANGED main
         \/ Tick(t)
         \/ \E fs \in SUBSET Files : ProbeFull(fs)
<1>1. main' # Idle /\ main'.pc \in {"probe_full", "enqueue_full"}
  BY PipelineAssumption DEF FullPathAt, Idle
<1> USE DEF TypeInv, TypeOK, MainTyped
<1>2. CASE MainLooks
  <2>1. ASSUME NEW s \in Torrents, Tick(s) PROVE s = t
    BY <2>1 DEF Tick, Idle, FullPathAt
  <2>2. ASSUME NEW b \in Batches, SkipRow(b) PROVE FALSE
    BY <1>1, <2>2 DEF SkipRow
  <2>3. CASE ProbeFiles \/ QueueDone
    BY <1>1, <2>3 DEF ProbeFiles, QueueDone
  <2>4. CASE ReadStopped
    BY <1>1, <2>4 DEF ReadStopped
  <2>5. QED
    BY <1>1, <1>2, <2>1, <2>2, <2>3, <2>4 DEF MainLooks, GiveUp
<1>3. CASE MainInserts
  BY <1>1, <1>3 DEF MainInserts, EnqueueBatchUpload, EnqueueFullUpload
<1>4. CASE MainWritesBatches
  <2>1. CASE MarkUploadQueued
    BY <1>1, <2>1 DEF MarkUploadQueued, MarkUploadQueuedWith
  <2>2. ASSUME NEW b \in Batches, NEW sel \in SUBSET Media, CreateBatch(b, sel) PROVE FALSE
    BY <1>1, <2>2 DEF CreateBatch, CreateBatchBeside
  <2>3. QED
    BY <1>1, <1>4, <2>1, <2>2 DEF MainWritesBatches, PauseBatches, MarkBatchApplied, MarkBatchFailed
<1>5. CASE MainCallsQbt
  <2>1. CASE ApplyBatch \/ \E n \in 0..3 : ApplyBatchFails(n)
    BY <1>1, <2>1 DEF ApplyBatch, ApplyBatchFails
  <2>2. ASSUME NEW b \in Batches, DeselectRow(b) \/ DeselectRowFails(b) PROVE FALSE
    BY <1>1, <2>2 DEF DeselectRow, DeselectRowFails, ReadyRow
  <2>3. QED
    BY <1>1, <1>5, <2>1, <2>2 DEF MainCallsQbt, RestartTorrent
<1>6. CASE Crash
  BY <1>1, <1>6 DEF Crash
<1>7. QED
  BY <1>2, <1>3, <1>4, <1>5, <1>6, Steps, MainFrames, WorkerFrames, OtherFrames

LEMMA PathStep == ASSUME FullInv, [Next]_vars PROVE PathComplete'
<1> SUFFICES ASSUME NEW t \in Torrents, FullPathAt(t)'
             PROVE  \/ Gone(t)'
                    \/ /\ Completed(t)'
                       /\ main'.pc = "enqueue_full" => want'[t] \subseteq main'.files
  BY DEF PathComplete
<1>1. TypeInv /\ PathComplete
  BY DEF FullInv
<1>2. CASE UNCHANGED main
  BY <1>1, <1>2, WantKept, CompletedKept, StorageKept DEF PathComplete, FullPathAt
<1>3. CASE Tick(t)
  <2>1. /\ UNCHANGED <<have, want, mode>>
        /\ main'.pc = IF Completed(t) THEN "probe_full" ELSE "probe"
    BY <1>3 DEF Tick, Idle, qbt
  <2>2. QED
    BY <2>1 DEF FullPathAt, Completed
<1>4. ASSUME NEW fs \in SUBSET Files, ProbeFull(fs)
      PROVE  \/ Gone(t)'
             \/ Completed(t)' /\ want'[t] \subseteq main'.files
  <2>1. /\ main.pc = "probe_full" /\ main.torrent = t /\ main'.files = fs
        /\ fs = want[t] \/ have[t] \subseteq fs
        /\ UNCHANGED <<have, want, mode>>
    BY <1>1, <1>4 DEF ProbeFull, FullPathAt, qbt, TypeInv, TypeOK, MainTyped
  <2>2. Gone(t) \/ Completed(t)
    BY <1>1, <2>1 DEF PathComplete, FullPathAt
  <2>3. Completed(t) => want[t] \subseteq have[t]
    BY <1>1 DEF Completed, TypeInv, TypeOK, StorageTyped
  <2>4. QED
    BY <2>1, <2>2, <2>3 DEF Completed, Gone
<1>5. QED
  BY <1>1, <1>2, <1>3, <1>4, FullPathBy

\* The uploads of whole torrents are inserted by the main thread, which has
\* then finished with the torrent.
LEMMA OwnUploadBy ==
  ASSUME TypeInv, [Next]_vars, NEW j \in JobIds, NEW t \in Torrents, OwnUpload(j, t)', ~OwnUpload(j, t)
  PROVE  /\ main.pc = "enqueue_full" /\ main.torrent = t /\ main' = Idle
         /\ jobs'[j].files = main.files /\ UNCHANGED <<have, want, mode>>
<1>1. ~Used(j)
  BY JobKept DEF OwnUpload, Used
<1>2. ASSUME EnqueueBatchUpload(j) PROVE FALSE
  BY <1>2 DEF EnqueueBatchUpload, JobRow, OwnUpload, TypeInv, TypeOK, TablesTyped, MainTyped,
              Batches, NoBatch
<1>3. ASSUME NEW s \in Torrents, RequestCleanup(s, j) PROVE FALSE
  BY <1>3 DEF RequestCleanup, JobRow, OwnUpload, TypeInv, TypeOK, TablesTyped
<1>4. EnqueueFullUpload(j)
  BY <1>1, <1>2, <1>3, NewJob DEF OwnUpload
<1>5. QED
  BY <1>4 DEF EnqueueFullUpload, JobRow, OwnUpload, TypeInv, TypeOK, TablesTyped, qbt

LEMMA UploadsStep == ASSUME FullInv, [Next]_vars PROVE UploadsComplete'
<1> SUFFICES ASSUME NEW j \in JobIds, NEW t \in Torrents, OwnUpload(j, t)'
             PROVE  Gone(t)' \/ (Completed(t)' /\ want'[t] \subseteq jobs'[j].files)
  BY DEF UploadsComplete
<1>1. TypeInv
  BY DEF FullInv
<1>2. CASE OwnUpload(j, t)
  <2>1. jobs'[j].files = jobs[j].files
    BY <1>1, <1>2, JobKept DEF OwnUpload
  <2>2. CASE Gone(t)
    BY <1>1, <2>2, StorageKept
  <2>3. CASE ~Gone(t)
    <3>1. want'[t] = want[t]
      BY <1>1, <1>2, <2>3, WantKept DEF FullInv, PathsApart
    <3>2. QED
      BY <1>1, <1>2, <2>1, <2>3, <3>1, CompletedKept DEF FullInv, UploadsComplete
  <2>4. QED
    BY <2>2, <2>3
<1>3. CASE ~OwnUpload(j, t)
  <2>1. /\ main.pc = "enqueue_full" /\ main.torrent = t
        /\ jobs'[j].files = main.files /\ UNCHANGED <<have, want, mode>>
    BY <1>1, <1>3, OwnUploadBy
  <2>2. Gone(t) \/ (Completed(t) /\ want[t] \subseteq main.files)
    BY <2>1 DEF FullInv, PathComplete, FullPathAt
  <2>3. QED
    BY <2>1, <2>2 DEF Completed, Gone
<1>4. QED
  BY <1>2, <1>3

LEMMA ApartStep == ASSUME FullInv, [Next]_vars PROVE PathsApart'
<1> SUFFICES ASSUME NEW j \in JobIds, NEW t \in Torrents, OwnUpload(j, t)', main'.torrent = t
             PROVE  Gone(t)' \/ FullPathAt(t)'
  BY DEF PathsApart
<1> USE DEF FullPathAt
<1>1. TypeInv
  BY DEF FullInv
<1>2. main' # Idle
  BY PipelineAssumption DEF Idle
<1>3. OwnUpload(j, t)
  BY <1>1, <1>2, OwnUploadBy
<1>4. CASE Gone(t)
  BY <1>1, <1>4, StorageKept
<1>5. CASE ~Gone(t) /\ main.torrent = t
  <2>1. FullPathAt(t)
    BY <1>3, <1>5 DEF FullInv, PathsApart
  <2>2. CASE MainLooks
    <3>1. CASE \E fs \in SUBSET Files : ProbeFull(fs)
      BY <1>1, <2>1, <3>1 DEF ProbeFull, TypeInv, TypeOK, MainTyped
    <3>2. QED
      BY <1>2, <2>1, <2>2, <3>1
      DEF MainLooks, Tick, GiveUp, ProbeFiles, QueueDone, ReadStopped, SkipRow
  <2>3. CASE UNCHANGED main
    BY <2>1, <2>3
  <2>4. CASE MainInserts \/ Crash
    BY <1>2, <2>1, <2>4 DEF MainInserts, EnqueueBatchUpload, EnqueueFullUpload, Crash
  <2>5. CASE MainWritesBatches
    BY <2>1, <2>5
    DEF MainWritesBatches, MarkUploadQueued, MarkUploadQueuedWith, PauseBatches, MarkBatchApplied,
        MarkBatchFailed, CreateBatch, CreateBatchBeside
  <2>6. CASE MainCallsQbt
    BY <2>1, <2>6
    DEF MainCallsQbt, RestartTorrent, ApplyBatch, ApplyBatchFails, DeselectRow, DeselectRowFails,
        ReadyRow
  <2>7. QED
    BY <2>2, <2>3, <2>4, <2>5, <2>6, Steps, MainFrames, WorkerFrames, OtherFrames
<1>6. CASE ~Gone(t) /\ main.torrent # t
  <2>1. Completed(t)
    BY <1>3, <1>6 DEF FullInv, UploadsComplete
  <2>2. ASSUME NEW s \in Torrents, Tick(s) PROVE FullPathAt(t)'
    BY <2>1, <2>2 DEF Tick, Idle
  <2>3. CASE \E s \in Torrents : Tick(s)
    BY <2>2, <2>3
  <2>4. CASE main'.torrent = main.torrent \/ main' = Idle
    BY <1>2, <1>6, <2>4
  <2>5. CASE MainLooks
    BY <1>1, <2>3, <2>4, <2>5
    DEF MainLooks, GiveUp, ProbeFiles, QueueDone, ReadStopped, SkipRow, ProbeFull,
        TypeInv, TypeOK, MainTyped
  <2>6. CASE MainInserts \/ Crash
    BY <1>1, <2>4, <2>6
    DEF MainInserts, EnqueueBatchUpload, EnqueueFullUpload, Crash, TypeInv, TypeOK, MainTyped
  <2>7. CASE MainWritesBatches
    BY <1>1, <2>4, <2>7
    DEF MainWritesBatches, MarkUploadQueued, MarkUploadQueuedWith, PauseBatches, MarkBatchApplied,
        MarkBatchFailed, CreateBatch, CreateBatchBeside, TypeInv, TypeOK, MainTyped
  <2>8. CASE MainCallsQbt
    BY <1>1, <2>4, <2>8
    DEF MainCallsQbt, RestartTorrent, ApplyBatch, ApplyBatchFails, DeselectRow, DeselectRowFails,
        ReadyRow, TypeInv, TypeOK, MainTyped
  <2>9. QED
    BY <2>4, <2>5, <2>6, <2>7, <2>8, Steps, MainFrames, WorkerFrames, OtherFrames
<1>7. QED
  BY <1>4, <1>5, <1>6

LEMMA WorkerUploadsStep == ASSUME FullInv, [Next]_vars PROVE WorkerUploads'
<1>1. TypeInv /\ WorkerUploads
  BY DEF FullInv
<1>2. ASSUME worker.pc # "idle", worker'.job = worker.job PROVE WorkerUploads'
  <2>1. worker.job \in JobIds /\ Used(worker.job)
    BY <1>1, <1>2 DEF TypeInv, TypeOK, WorkerTyped, WorkerOK
  <2>2. jobs'[worker.job].kind = jobs[worker.job].kind
    BY <1>1, <2>1, JobKept
  <2>3. QED
    BY <1>1, <1>2, <2>2 DEF WorkerUploads, Job
<1>3. ASSUME NEW j \in JobIds, ClaimUpload(j) PROVE WorkerUploads'
  BY <1>1, <1>3
  DEF ClaimUpload, IsNextToClaim, IsFirst, Claimed, WorkerUploads, Job, TypeInv, TypeOK, TablesTyped,
      JobRows
<1>4. ASSUME worker' = Resting PROVE WorkerUploads'
  BY <1>4 DEF WorkerUploads, Resting
<1>5. CASE UNCHANGED worker
  BY <1>2, <1>5 DEF WorkerUploads
<1>6. CASE WorkerWritesJobs \/ WorkerFails
  BY <1>1, <1>2, <1>3, <1>4, <1>6
  DEF WorkerWritesJobs, WorkerFails, RetryUpload, SettleJob, CopyMismatch, CopyRaises, DeleteRaises,
      TypeInv, TypeOK, WorkerTyped
<1>7. CASE CopyVerified \/ DeleteTorrent
  BY <1>1, <1>2, <1>7 DEF CopyVerified, DeleteTorrent, TypeInv, TypeOK, WorkerTyped
<1>8. CASE SettleBatch \/ EnqueueMedia \/ Crash
  BY <1>1, <1>2, <1>4, <1>8
  DEF SettleBatch, SettleBatchWith, EnqueueMedia, EnqueueMediaAfter, Crash, TypeInv, TypeOK,
      WorkerTyped
<1>9. QED
  BY <1>5, <1>6, <1>7, <1>8, Steps, MainFrames, WorkerFrames, OtherFrames

LEMMA DeleteStep == ASSUME FullInv, [Next]_vars PROVE DeleteVerified'
<1> SUFFICES ASSUME NEW t \in Torrents, worker'.pc = "delete", jobs'[worker'.job].torrent = t
             PROVE  Gone(t)' \/ want'[t] \subseteq remote'[t]
  BY DEF DeleteVerified, Job
<1>0. worker \in [pc : WorkerSteps, job : JobIds \cup {NoJob}, result : Results]
  BY DEF FullInv, TypeInv, TypeOK, WorkerTyped
<1>1. TypeInv
  BY DEF FullInv
<1>2. ASSUME worker'.job = worker.job, worker.pc # "idle", Job.batch = NoBatch
      PROVE  OwnUpload(worker.job, t) /\ Job.torrent = t
  <2>1. worker.job \in JobIds /\ Used(worker.job) /\ Job.kind = "upload"
    BY <1>1, <1>2 DEF TypeInv, TypeOK, WorkerTyped, WorkerOK, FullInv, WorkerUploads
  <2>2. jobs'[worker.job].torrent = jobs[worker.job].torrent
    BY <1>1, <2>1, JobKept
  <2>3. QED
    BY <1>2, <2>1, <2>2 DEF OwnUpload, Job
<1>3. CASE UNCHANGED worker
  <2>1. OwnUpload(worker.job, t) /\ Job.torrent = t /\ worker.job \in JobIds
    BY <1>1, <1>2, <1>3 DEF TypeInv, TypeOK, WorkerTyped, WorkerOK
  <2>2. CASE Gone(t)
    BY <1>1, <2>2, StorageKept
  <2>3. CASE ~Gone(t)
    <3>1. want'[t] = want[t]
      BY <1>1, <2>1, <2>3, WantKept DEF FullInv, PathsApart
    <3>2. want[t] \subseteq remote[t]
      BY <1>3, <2>1, <2>3 DEF FullInv, DeleteVerified
    <3>3. QED
      BY <1>1, <3>1, <3>2, StorageKept
  <2>4. QED
    BY <2>2, <2>3
<1>4. CASE CopyVerified
  <2>1. /\ worker'.job = worker.job /\ worker.pc = "copy" /\ Job.batch = NoBatch
        /\ worker.job \in JobIds
    BY <1>1, <1>4 DEF CopyVerified, TypeInv, TypeOK, WorkerTyped
  <2>2. OwnUpload(worker.job, t) /\ Job.torrent = t
    BY <1>2, <2>1
  <2>3. ~Gone(t) /\ remote'[t] = remote[t] \cup (Job.files \cap have[t])
    BY <1>1, <1>4, <2>2 DEF CopyVerified, Gone, TypeInv, TypeOK, StorageTyped
  <2>4. Completed(t) /\ want[t] \subseteq Job.files
    BY <2>1, <2>2, <2>3 DEF FullInv, UploadsComplete, Job
  <2>5. want[t] \subseteq have[t]
    BY <1>1, <2>4 DEF Completed, TypeInv, TypeOK, StorageTyped
  <2>6. UNCHANGED want
    BY <1>4, WorkerFrames
  <2>7. QED
    BY <2>3, <2>4, <2>5, <2>6
<1>5. CASE WorkerWritesJobs \/ WorkerFails
  <2>1. CASE WorkerWritesJobs
    BY <1>0, <2>1 DEF WorkerWritesJobs, RetryUpload, SettleJob, ClaimUpload, Resting
  <2>2. CASE WorkerFails
    BY <1>0, <2>2 DEF WorkerFails, CopyMismatch, CopyRaises, DeleteRaises
  <2>3. QED
    BY <1>5, <2>1, <2>2
<1>6. CASE DeleteTorrent \/ SettleBatch \/ EnqueueMedia \/ Crash
  <2>1. CASE DeleteTorrent
    BY <1>0, <2>1 DEF DeleteTorrent
  <2>2. CASE SettleBatch
    BY <1>0, <2>2 DEF SettleBatch, SettleBatchWith
  <2>3. CASE EnqueueMedia \/ Crash
    BY <2>3 DEF EnqueueMedia, EnqueueMediaAfter, Crash, Resting
  <2>4. QED
    BY <1>6, <2>1, <2>2, <2>3
<1>7. QED
  BY <1>3, <1>4, <1>5, <1>6, Steps, MainFrames, WorkerFrames, OtherFrames

LEMMA FullStep == FullInv /\ [Next]_vars => FullInv'
<1> SUFFICES ASSUME FullInv, [Next]_vars PROVE FullInv'
  OBVIOUS
<1>1. TypeInv'
  BY TypeStep DEF FullInv
<1>2. QED
  BY <1>1, PathStep, UploadsStep, ApartStep, WorkerUploadsStep, DeleteStep DEF FullInv

\* A torrent goes by the delete of the upload thread only.
LEMMA GoneBy ==
  ASSUME TypeInv, [Next]_vars, NEW t \in Torrents, ~Gone(t), Gone(t)'
  PROVE  DeleteTorrent /\ Job.torrent = t
<1> USE DEF Gone, TypeInv, TypeOK, StorageTyped
<1>1. CASE MainCallsQbt
  BY <1>1
  DEF MainCallsQbt, RestartTorrent, ApplyBatch, ApplyBatchFails, DeselectRow, DeselectRowFails, Start
<1>2. CASE DeleteTorrent
  BY <1>2 DEF DeleteTorrent
<1>3. CASE PlannerCallsQbt
  BY <1>3 DEF PlannerCallsQbt, PlannerSelects, PlannerParks, SafetyStop, Start
<1>4. CASE UNCHANGED mode
  BY <1>4
<1>5. QED
  BY <1>1, <1>2, <1>3, <1>4, Steps, MainFrames, WorkerFrames, OtherFrames

\* What is asked of a torrent cannot change, and what is complete cannot
\* become incomplete, between the upload of the whole torrent and its delete.
THEOREM DeleteIsVerified == Spec => DeleteOnlyVerified
<1>1. ASSUME FullInv, [Next]_vars
      PROVE  [\A t \in Torrents : mode[t] # "gone" /\ mode'[t] = "gone"
                                    => want[t] \subseteq remote[t]]_vars
  <2>1. ASSUME NEW t \in Torrents, ~Gone(t), Gone(t)' PROVE want[t] \subseteq remote[t]
    BY <1>1, <2>1, GoneBy DEF FullInv, DeleteVerified, DeleteTorrent
  <2>2. QED
    BY <2>1 DEF Gone
<1>2. QED
  BY <1>1, FullInit, FullStep, PTL DEF Spec, DeleteOnlyVerified

-----------------------------------------------------------------------------
(* The pipeline keeps the promise of VerifiedRelease: the values that its    *)
(* variables stand for, and the step of the promise behind each step.        *)

Present == [t \in Torrents |-> mode[t] # "gone"]
Owner == [b \in Batches |-> batches[b].torrent]
Content == [b \in Batches |-> batches[b].files]
Released == {b \in Batches : batches[b].state \in ReleasedStates}

LEMMA PromiseInit == Init => Promise!Init
<1> SUFFICES ASSUME Init PROVE Promise!Init
  OBVIOUS
<1>1. \A t \in Torrents : mode[t] # "gone"
  BY DEF Init
<1>2. \A b \in Batches : batches[b] = NoRow
  BY DEF Init
<1>3. [t \in Torrents |-> mode[t] # "gone"] = [t \in Torrents |-> TRUE]
  BY <1>1
<1>4. {b \in Batches : batches[b].state \in ReleasedStates} = {}
  BY <1>2 DEF NoRow, ReleasedStates
<1>5. QED
  BY <1>2, <1>3, <1>4 DEF Init, NoRow, Promise!Init

\* What the batches consist of changes only when one is created.
LEMMA RowsKept ==
  ASSUME TypeInv, [Next]_vars, \A b \in Batches, sel \in SUBSET Media : ~CreateBatch(b, sel)
  PROVE  Owner' = Owner /\ Content' = Content
<1>1. \A b \in Batches : batches'[b].torrent = batches[b].torrent /\ batches'[b].files = batches[b].files
  BY BatchKept, NewBatch
<1>2. QED
  BY <1>1 DEF Owner, Content

\* Nothing but the upload thread, with the result of a verified copy, adds to
\* the released batches; a step that takes from them is a Reclaim.
LEMMA ReclaimStep ==
  ASSUME TypeInv, [Next]_vars,
         \A b \in Batches, sel \in SUBSET Media : ~CreateBatch(b, sel),
         ~(SettleBatch /\ worker.result = "cleanup_deferred"),
         want' = want, remote' = remote, Present' = Present
  PROVE  Promise!Next
<1>1. Owner' = Owner /\ Content' = Content
  BY RowsKept
<1>2. Released' \subseteq Released
  BY ReleasedBy DEF Released
<1>3. PICK bs \in SUBSET Batches : bs = Released \ Released'
  BY DEF Released
<1>4. Released' = Released \ bs
  BY <1>2, <1>3
<1>5. Promise!Reclaim(bs)
  BY <1>1, <1>4 DEF Promise!Reclaim, Owner, Content, Released, Present
<1>6. QED
  BY <1>5 DEF Promise!Next

LEMMA AskStep == ASSUME TypeInv, [Next]_vars, MainCallsQbt PROVE [Promise!Next]_(Promise!vars)
<1> USE DEF TypeInv, TypeOK, StorageTyped
<1>1. UNCHANGED <<remote, batches>>
  BY MainFrames
<1>2. Present' = Present
  BY DEF Present, MainCallsQbt, RestartTorrent, ApplyBatch, ApplyBatchFails, DeselectRow,
         DeselectRowFails, Start
<1>3. CASE want' = want
  BY <1>1, <1>2, <1>3 DEF Promise!vars, Present
<1>4. CASE want' # want
  <2>1. main.torrent \in Torrents
    BY <1>4
    DEF MainCallsQbt, RestartTorrent, ApplyBatch, ApplyBatchFails, DeselectRow, DeselectRowFails,
        ReadyRow, MainTyped
  <2>2. want' \in [Torrents -> SUBSET Files]
    BY StorageStep
  <2>3. \A t \in Torrents \ {main.torrent} : want'[t] = want[t]
    BY WantKept
  <2>4. want' = [want EXCEPT ![main.torrent] = want'[main.torrent]]
    BY <2>1, <2>2, <2>3
  <2>5. Promise!Ask(main.torrent, want'[main.torrent])
    BY <1>1, <1>2, <2>4 DEF Promise!Ask, Present
  <2>6. QED
    BY <2>1, <2>2, <2>5 DEF Promise!Next
<1>5. QED
  BY <1>3, <1>4

LEMMA StoreStep == ASSUME TypeInv, [Next]_vars, CopyVerified PROVE Promise!Next
<1>1. UNCHANGED <<want, mode, batches>>
  BY WorkerFrames
<1>2. Job.torrent \in Torrents
  BY DEF CopyVerified, TypeInv, TypeOK, WorkerTyped, WorkerOK, TablesOK, Job
<1>3. Job.files \cap have[Job.torrent] \in SUBSET Files
  BY <1>2 DEF TypeInv, TypeOK, StorageTyped
<1>4. Promise!Store(Job.torrent, Job.files \cap have[Job.torrent])
  BY <1>1, <1>2 DEF CopyVerified, Promise!Store
<1>5. QED
  BY <1>2, <1>3, <1>4 DEF Promise!Next

LEMMA RemoveStep ==
  ASSUME FullInv, [Next]_vars, DeleteTorrent PROVE [Promise!Next]_(Promise!vars)
<1>1. UNCHANGED <<want, remote, batches>>
  BY WorkerFrames
<1>2. PICK t \in Torrents : Job.torrent = t
  BY DEF DeleteTorrent, FullInv, TypeInv, TypeOK, WorkerTyped, WorkerOK, TablesOK, Job
<1>3. /\ mode' = [mode EXCEPT ![t] = "gone"]
      /\ mode \in [Torrents -> {"running", "stopped", "gone"}]
  BY <1>2 DEF DeleteTorrent, FullInv, TypeInv, TypeOK, StorageTyped
<1>4. CASE Gone(t)
  <2>1. Present' = Present
    BY <1>3, <1>4 DEF Present, Gone
  <2>2. QED
    BY <1>1, <2>1 DEF Promise!vars, Present
<1>5. CASE ~Gone(t)
  <2>1. want[t] \subseteq remote[t]
    BY <1>2, <1>5 DEF FullInv, DeleteVerified, DeleteTorrent
  <2>2. Present[t] /\ Present' = [Present EXCEPT ![t] = FALSE]
    BY <1>3, <1>5 DEF Present, Gone
  <2>3. Promise!Remove(t)
    BY <1>1, <2>1, <2>2 DEF Promise!Remove, Present
  <2>4. QED
    BY <2>3 DEF Promise!Next
<1>6. QED
  BY <1>4, <1>5

LEMMA OpenStep ==
  ASSUME TypeInv, [Next]_vars, NEW b \in Batches, NEW sel \in SUBSET Media, CreateBatch(b, sel)
  PROVE  Promise!Next
<1>1. MainWritesBatches
  BY DEF MainWritesBatches
<1>2. UNCHANGED <<want, mode, remote>>
  BY <1>1, MainFrames
<1>3. /\ main.torrent \in Torrents /\ batches[b].state = "absent"
      /\ batches' = [batches EXCEPT ![b] = [torrent |-> main.torrent, files |-> sel,
                                            state |-> "reserved"]]
  BY DEF CreateBatch, CreateBatchBeside, TypeInv, TypeOK, MainTyped
<1>4. batches[b].torrent = NoTorrent
  BY <1>3 DEF TypeInv, TablesOK, Exists, NoRow
<1>5. /\ Owner[b] = NoTorrent /\ Owner' = [Owner EXCEPT ![b] = main.torrent]
      /\ Content' = [Content EXCEPT ![b] = sel]
  BY <1>3, <1>4 DEF Owner, Content, TypeInv, TypeOK, TablesTyped
<1>6. Released' = Released
  BY <1>3 DEF Released, ReleasedStates, TypeInv, TypeOK, TablesTyped
<1>7. Promise!Open(b, main.torrent, sel)
  BY <1>2, <1>5, <1>6 DEF Promise!Open, Owner, Content, Released
<1>8. QED
  BY <1>3, <1>7, PipelineAssumption DEF Promise!Next

LEMMA ReleaseStep ==
  ASSUME BatchInv, [Next]_vars, SettleBatch, worker.result = "cleanup_deferred" PROVE Promise!Next
<1>1. UNCHANGED <<want, mode, remote>>
  BY WorkerFrames
<1>2. worker.pc = "batch" /\ batches' = [batches EXCEPT ![Job.batch].state = "cleanup_deferred"]
  BY DEF SettleBatch, SettleBatchWith
<1>3. PICK b \in Batches : Job.batch = b
  BY <1>2 DEF BatchInv, TypeInv, TypeOK, TablesTyped, JobRows, WorkerTyped, WorkerOK, Job
<1>4. OfBatch(worker.job) /\ Job.torrent \in Torrents
  BY <1>2 DEF BatchInv, TypeInv, TypeOK, WorkerTyped, WorkerOK, TablesOK, Job
<1>5. Content[b] \subseteq remote[Owner[b]] /\ Owner[b] # NoTorrent
  BY <1>2, <1>3, <1>4, PipelineAssumption
  DEF BatchInv, ResultVerified, OfBatch, Job, Owner, Content
<1>6. batches \in [Batches -> BatchRow]
  BY DEF BatchInv, TypeInv, TypeOK, TablesTyped
<1>7. Owner' = Owner /\ Content' = Content
  BY <1>2, <1>3, <1>6 DEF Owner, Content, BatchRow
<1>8. Released' = Released \cup {b}
  BY <1>2, <1>3, <1>6 DEF Released, ReleasedStates, BatchRow
<1>9. Promise!Release(b)
  BY <1>1, <1>5, <1>7, <1>8 DEF Promise!Release, Owner, Content, Released
<1>10. QED
  BY <1>9 DEF Promise!Next

LEMMA PromiseStep ==
  ASSUME BatchInv, FullInv, [Next]_vars PROVE [Promise!Next]_(Promise!vars)
<1>1. TypeInv
  BY DEF FullInv
<1>2. CASE MainCallsQbt
  BY <1>1, <1>2, AskStep
<1>3. CASE CopyVerified \/ DeleteTorrent
  BY <1>1, <1>3, StoreStep, RemoveStep
<1>4. CASE \E b \in Batches, sel \in SUBSET Media : CreateBatch(b, sel)
  BY <1>1, <1>4, OpenStep
<1>5. CASE SettleBatch /\ worker.result = "cleanup_deferred"
  BY <1>5, ReleaseStep
<1>6. CASE PlannerCallsQbt
  <2>1. UNCHANGED <<want, remote, batches>>
    BY <1>6, OtherFrames
  <2>2. Present' = Present
    BY <1>1, <1>6
    DEF PlannerCallsQbt, PlannerSelects, PlannerParks, SafetyStop, Start, Present, TypeInv, TypeOK,
        StorageTyped
  <2>3. QED
    BY <2>1, <2>2 DEF Promise!vars, Present
<1>7. CASE UNCHANGED <<want, mode, remote>>
  <2>1. Present' = Present
    BY <1>7 DEF Present
  <2>2. QED
    BY <1>1, <1>4, <1>5, <1>7, <2>1, ReclaimStep
<1>8. QED
  BY <1>2, <1>3, <1>6, <1>7, Steps, MainFrames, WorkerFrames, OtherFrames

\* The pipeline, with its threads, retries and crashes, implements the promise
\* that local bytes are given up only when they are stored.
THEOREM PromiseKept == Spec => KeepsPromise
<1>1. Spec => []BatchInv
  BY BatchInit, BatchStep, PTL DEF Spec
<1>2. Spec => []FullInv
  BY FullInit, FullStep, PTL DEF Spec
<1>3. QED
  BY <1>1, <1>2, PromiseInit, PromiseStep, PTL DEF Spec, KeepsPromise, Promise!Spec
=============================================================================

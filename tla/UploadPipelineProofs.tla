------------------------ MODULE UploadPipelineProofs ------------------------
(***************************************************************************)
(* Theorems about UploadPipeline, for every value of its constants.        *)
(*                                                                         *)
(* The first part sorts the actions by the variables they write: a proof   *)
(* that an invariant is preserved then names the actions that can disturb  *)
(* it and disposes of the others by what they leave unchanged.             *)
(***************************************************************************)
EXTENDS UploadPipeline, TLAPS

-----------------------------------------------------------------------------
(* Who writes what. *)

MainLooks == \/ \E t \in Torrents : Tick(t)
             \/ GiveUp \/ ProbeFiles \/ QueueDone \/ ReadStopped
             \/ \E b \in Batches : SkipRow(b)
             \/ \E fs \in SUBSET Files : ProbeFull(fs)
MainInserts == \E j \in JobIds : EnqueueBatchUpload(j) \/ EnqueueFullUpload(j)
MainWritesBatches == \/ MarkUploadQueued \/ PauseBatches \/ MarkBatchApplied \/ MarkBatchFailed
                     \/ \E b \in Batches, sel \in SUBSET Media : CreateBatch(b, sel)
MainCallsQbt == \/ RestartTorrent \/ ApplyBatch \/ \E n \in 0..3 : ApplyBatchFails(n)
                \/ \E b \in Batches : DeselectRow(b) \/ DeselectRowFails(b)
WorkerFails == CopyMismatch \/ CopyRaises \/ DeleteRaises
WorkerWritesJobs == RetryUpload \/ SettleJob \/ \E j \in JobIds : ClaimUpload(j)
PlannerCallsQbt == \E t \in Torrents : PlannerSelects(t) \/ PlannerParks(t) \/ SafetyStop(t)
Downloads == \E t \in Torrents, f \in Files : Download(t, f)
Lapses == \E b \in Batches : LapseReservation(b)
Reconciles == ReconcileWrites \/ \E expired \in SUBSET JobIds : ReconcileReads(expired)

LEMMA Steps ==
  [Next]_vars => \/ MainLooks \/ MainInserts \/ MainWritesBatches \/ MainCallsQbt
                 \/ WorkerFails \/ WorkerWritesJobs \/ CopyVerified \/ DeleteTorrent
                 \/ SettleBatch \/ EnqueueMedia \/ CleanupThread \/ PlannerCallsQbt
                 \/ Downloads \/ Lapses \/ Crash \/ Reconciles \/ UNCHANGED vars
  BY DEF Next, BatchPath, FullPath, UploadThread, Surroundings, MainLooks, MainInserts,
         MainWritesBatches, MainCallsQbt, WorkerFails, WorkerWritesJobs, PlannerCallsQbt,
         Downloads, Lapses, Reconciles

LEMMA MainFrames ==
  /\ MainLooks => UNCHANGED <<have, want, mode, remote, parked, batches, resv, jobs, media,
                              worker, cleaner, recon, crashes, reconciles>>
  /\ MainInserts => UNCHANGED <<have, want, mode, remote, parked, batches, resv, media,
                                worker, cleaner, recon, crashes, reconciles>>
  /\ MainWritesBatches => UNCHANGED <<have, want, mode, remote, parked, jobs, media,
                                      worker, cleaner, recon, crashes, reconciles>>
  /\ MainCallsQbt => UNCHANGED <<have, remote, parked, batches, resv, jobs, media,
                                 worker, cleaner, recon, crashes, reconciles>>
<1> USE DEF qbt, db, threads, bounds
<1>1. MainLooks => UNCHANGED <<have, want, mode, remote, parked, batches, resv, jobs, media,
                               worker, cleaner, recon, crashes, reconciles>>
  BY DEF MainLooks, Tick, GiveUp, ProbeFiles, QueueDone, ReadStopped, SkipRow,
         ProbeFull
<1>2. MainInserts => UNCHANGED <<have, want, mode, remote, parked, batches, resv, media,
                                 worker, cleaner, recon, crashes, reconciles>>
  BY DEF MainInserts, EnqueueBatchUpload, EnqueueFullUpload
<1>3. MainWritesBatches => UNCHANGED <<have, want, mode, remote, parked, jobs, media,
                                       worker, cleaner, recon, crashes, reconciles>>
  BY DEF MainWritesBatches, MarkUploadQueued, MarkUploadQueuedWith, PauseBatches,
         MarkBatchApplied, MarkBatchFailed, CreateBatch, CreateBatchBeside
<1>4. MainCallsQbt => UNCHANGED <<have, remote, parked, batches, resv, jobs, media,
                                  worker, cleaner, recon, crashes, reconciles>>
  BY DEF MainCallsQbt, RestartTorrent, ApplyBatch, ApplyBatchFails, DeselectRow, DeselectRowFails
<1>5. QED
  BY <1>1, <1>2, <1>3, <1>4

LEMMA WorkerFrames ==
  /\ WorkerFails => UNCHANGED <<have, want, mode, remote, parked, batches, resv, jobs, media,
                                main, cleaner, recon, crashes, reconciles>>
  /\ WorkerWritesJobs => UNCHANGED <<have, want, mode, remote, parked, batches, resv, media,
                                     main, cleaner, recon, crashes, reconciles>>
  /\ CopyVerified => UNCHANGED <<have, want, mode, parked, batches, resv, jobs, media,
                                 main, cleaner, recon, crashes, reconciles>>
  /\ DeleteTorrent => UNCHANGED <<want, remote, parked, batches, resv, jobs, media,
                                  main, cleaner, recon, crashes, reconciles>>
  /\ SettleBatch => UNCHANGED <<have, want, mode, remote, parked, jobs, media,
                                main, cleaner, recon, crashes, reconciles>>
  /\ EnqueueMedia => UNCHANGED <<have, want, mode, remote, parked, batches, resv, jobs,
                                 main, cleaner, recon, crashes, reconciles>>
  BY DEF qbt, db, bounds, WorkerFails, WorkerWritesJobs, CopyMismatch, CopyRaises, DeleteRaises,
         RetryUpload, SettleJob, ClaimUpload, CopyVerified, DeleteTorrent, SettleBatch,
         SettleBatchWith, EnqueueMedia, EnqueueMediaAfter

LEMMA OtherFrames ==
  /\ CleanupThread => UNCHANGED <<have, want, mode, remote, parked, media,
                                  main, worker, recon, crashes, reconciles>>
  /\ PlannerCallsQbt => UNCHANGED <<have, want, remote, batches, resv, jobs, media,
                                    main, worker, cleaner, recon, crashes, reconciles>>
  /\ Downloads => UNCHANGED <<want, mode, remote, parked, batches, resv, jobs, media,
                              main, worker, cleaner, recon, crashes, reconciles>>
  /\ Lapses => UNCHANGED <<have, want, mode, remote, parked, batches, jobs, media,
                           main, worker, cleaner, recon, crashes, reconciles>>
  /\ Crash => UNCHANGED <<have, want, mode, remote, parked, batches, resv, jobs, media,
                          recon, reconciles>>
  /\ Reconciles => UNCHANGED <<have, want, mode, remote, parked, batches, resv, media,
                               main, worker, cleaner, crashes>>
  /\ UNCHANGED vars => UNCHANGED <<have, want, mode, remote, parked, batches, resv, jobs, media,
                                   main, worker, cleaner, recon, crashes, reconciles>>
  BY DEF vars, qbt, db, threads, bounds, CleanupThread, RequestCleanup, ClaimCleanup, ApplyCleanup,
         PlannerCallsQbt, PlannerSelects, PlannerParks, SafetyStop, Downloads, Download, Lapses,
         LapseReservation, Crash, Reconciles, ReconcileReads, ReconcileWrites

-----------------------------------------------------------------------------
(* Type correctness.                                                       *)

Used(j) == jobs[j].state # "unused"
Exists(b) == batches[b].state # "absent"

OfBatch(j) == /\ Exists(jobs[j].batch)
              /\ batches[jobs[j].batch].torrent = jobs[j].torrent
              /\ batches[jobs[j].batch].files = jobs[j].files

\* A row that exists belongs to a torrent, one that does not is blank; a batch
\* upload is about the files of its batch; the threads hold rows that exist.
TablesOK ==
  /\ \A j \in JobIds : Used(j) => jobs[j].torrent \in Torrents
  /\ \A b \in Batches : IF Exists(b) THEN batches[b].torrent \in Torrents ELSE batches[b] = NoRow
  /\ \A j \in JobIds : Used(j) /\ jobs[j].batch # NoBatch => OfBatch(j)
  /\ \A j \in recon.expired \cup recon.exhausted : Used(j)
  /\ cleaner # NoJob => Used(cleaner)

\* The main thread works on batches of the torrent whose turn it is.
MainOK ==
  /\ main.pc \in {"queue", "enqueue", "mark", "pause"}
       => \A b \in main.rows : Exists(b) /\ batches[b].torrent = main.torrent
  /\ main.pc \in {"enqueue", "mark"} => main.batch \in main.rows
  /\ main.pc \in {"apply", "applied", "apply_failed"}
       => Exists(main.batch) /\ batches[main.batch].torrent = main.torrent

\* The upload thread is at a step that fits its job and its result: without
\* this a result could be written to a batch row that has no such state.
WorkerOK ==
  /\ worker.pc # "idle" => Used(worker.job)
  /\ worker.pc = "delete" => Job.batch = NoBatch
  /\ worker.pc = "batch" => Job.batch # NoBatch
  /\ worker.pc \in {"settle", "batch"} => worker.result # "none"
  /\ worker.pc \in {"settle", "batch"} /\ Job.batch # NoBatch => worker.result # "done"

TypeInv == TypeOK /\ TablesOK /\ MainOK /\ WorkerOK

LEMMA TypeInit == Init => TypeInv
<1> SUFFICES ASSUME Init PROVE TypeInv
  OBVIOUS
<1> USE PipelineAssumption, JobTableAssumption DEF Init
<1>1. StorageTyped
  BY DEF StorageTyped
<1>2. TablesTyped
  BY DEF TablesTyped, NoRow, NoJobRow, NoResv, BatchRow, JobRows, Resv, BatchStates, JobStates,
         Batches, NoBatch
<1>3. MainTyped /\ WorkerTyped /\ OthersTyped
  BY DEF MainTyped, WorkerTyped, OthersTyped, Idle, Resting, NoRecon, MainSteps, WorkerSteps, Results,
         NoJob, NoBatch
<1>4. TablesOK
  BY DEF TablesOK, Used, Exists, NoRow, NoJobRow, NoRecon
<1>5. MainOK /\ WorkerOK
  BY DEF MainOK, WorkerOK, Idle, Resting
<1>6. QED
  BY <1>1, <1>2, <1>3, <1>4, <1>5 DEF TypeInv, TypeOK

LEMMA SelectedTyped == ASSUME TypeOK, main.pc = "apply", NEW n PROVE Selected(n) \subseteq Files
  BY PipelineAssumption
  DEF TypeOK, StorageTyped, TablesTyped, MainTyped, Selected, BatchRow

LEMMA StorageStep == ASSUME TypeInv, [Next]_vars PROVE StorageTyped'
<1>1. CASE MainCallsQbt
  <2>1. UNCHANGED <<have, remote, parked>>
    BY <1>1, MainFrames
  <2>2. ASSUME main.pc = "apply", NEW n,
               want' = [want EXCEPT ![main.torrent] = Selected(n)],
               Start(main.torrent) \/ UNCHANGED mode
        PROVE  StorageTyped'
    BY <2>1, <2>2, SelectedTyped DEF TypeInv, TypeOK, StorageTyped, Start
  <2>3. CASE RestartTorrent
    BY <2>1, <2>3 DEF RestartTorrent, Start, TypeInv, TypeOK, StorageTyped
  <2>4. CASE ApplyBatch
    BY <2>2, <2>4 DEF ApplyBatch
  <2>5. ASSUME NEW n \in 0..3, ApplyBatchFails(n) PROVE StorageTyped'
    BY <2>2, <2>5 DEF ApplyBatchFails
  <2>6. ASSUME NEW b \in Batches, DeselectRow(b) \/ DeselectRowFails(b) PROVE StorageTyped'
    BY <2>1, <2>6 DEF DeselectRow, DeselectRowFails, TypeInv, TypeOK, StorageTyped
  <2>7. QED
    BY <1>1, <2>3, <2>4, <2>5, <2>6 DEF MainCallsQbt
<1>2. CASE CopyVerified
  BY <1>2, WorkerFrames DEF CopyVerified, TypeInv, TypeOK, StorageTyped
<1>3. CASE DeleteTorrent
  BY <1>3, WorkerFrames DEF DeleteTorrent, TypeInv, TypeOK, StorageTyped
<1>4. CASE PlannerCallsQbt
  BY <1>4, OtherFrames
  DEF PlannerCallsQbt, PlannerSelects, PlannerParks, SafetyStop, Start, db, TypeInv, TypeOK,
      StorageTyped
<1>5. CASE Downloads
  <2>1. UNCHANGED <<want, mode, remote, parked>>
    BY <1>5, OtherFrames
  <2>2. QED
    BY <1>5, <2>1 DEF Downloads, Download, TypeInv, TypeOK, StorageTyped
<1>6. CASE UNCHANGED <<have, want, mode, remote, parked>>
  BY <1>6 DEF TypeInv, TypeOK, StorageTyped
<1>7. QED
  BY <1>1, <1>2, <1>3, <1>4, <1>5, <1>6, Steps, MainFrames, WorkerFrames, OtherFrames

LEMMA ClaimedTyped == ASSUME NEW row \in JobRows PROVE Claimed(row) \in JobRows
<1>1. row.attempts \in 0..MaxAttempts
  BY DEF JobRows
<1>2. (IF row.attempts < MaxAttempts THEN row.attempts + 1 ELSE row.attempts) \in 0..MaxAttempts
  BY <1>1, JobTableAssumption
<1>3. QED
  BY <1>2 DEF Claimed, JobRows, JobStates

LEMMA WithStateTyped ==
  ASSUME NEW row \in JobRows, NEW st \in JobStates PROVE WithState(row, st) \in JobRows
  BY DEF WithState, JobRows

LEMMA TablesStep == ASSUME TypeInv, [Next]_vars PROVE TablesTyped'
<1> USE DEF TypeInv, TypeOK, TablesTyped
<1>1. CASE MainInserts
  <2>1. UNCHANGED <<batches, resv, media>>
    BY <1>1, MainFrames
  <2>2. ASSUME NEW j \in JobIds, EnqueueBatchUpload(j) PROVE jobs' \in [JobIds -> JobRows]
    BY <2>2, JobTableAssumption
    DEF EnqueueBatchUpload, JobRow, JobRows, JobStates, MainTyped, BatchRow
  <2>3. ASSUME NEW j \in JobIds, EnqueueFullUpload(j) PROVE jobs' \in [JobIds -> JobRows]
    BY <2>3, JobTableAssumption DEF EnqueueFullUpload, JobRow, JobRows, JobStates, MainTyped, NoBatch
  <2>4. QED
    BY <1>1, <2>1, <2>2, <2>3 DEF MainInserts
<1>2. CASE MainWritesBatches
  <2>1. UNCHANGED <<jobs, media>>
    BY <1>2, MainFrames
  <2>2. CASE MarkUploadQueued
    <3>1. main.batch \in Batches
      BY <2>2 DEF MarkUploadQueued, MarkUploadQueuedWith, MainTyped
    <3>2. batches' \in [Batches -> BatchRow]
      BY <2>2, <3>1 DEF MarkUploadQueued, MarkUploadQueuedWith, BatchRow, BatchStates
    <3>3. resv' \in [Batches -> Resv]
      BY <2>2, <3>1 DEF MarkUploadQueued, MarkUploadQueuedWith, Resv
    <3>4. QED
      BY <2>1, <3>2, <3>3
  <2>3. CASE PauseBatches
    <3>1. batches' \in [Batches -> BatchRow]
      BY <2>3 DEF PauseBatches, BatchRow, BatchStates
    <3>2. resv' \in [Batches -> Resv]
      BY <2>3 DEF PauseBatches, Resv
    <3>3. QED
      BY <2>1, <3>1, <3>2
  <2>4. CASE MarkBatchApplied
    BY <2>1, <2>4, ZenonT(30) DEF MarkBatchApplied, BatchRow, BatchStates
  <2>5. CASE MarkBatchFailed
    <3>1. batches' \in [Batches -> BatchRow]
      BY <2>5, ZenonT(30) DEF MarkBatchFailed, BatchRow, BatchStates
    <3>2. resv' \in [Batches -> Resv]
      BY <2>5 DEF MarkBatchFailed, Resv
    <3>3. QED
      BY <2>1, <3>1, <3>2
  <2>6. ASSUME NEW b \in Batches, NEW sel \in SUBSET Media, CreateBatch(b, sel) PROVE TablesTyped'
    <3>1. [torrent |-> main.torrent, files |-> sel, state |-> "reserved"] \in BatchRow
      BY <2>6, PipelineAssumption DEF MainTyped, BatchRow, BatchStates
    <3>2. batches' \in [Batches -> BatchRow]
      BY <2>6, <3>1 DEF CreateBatch, CreateBatchBeside
    <3>3. resv' \in [Batches -> Resv]
      BY <2>6 DEF CreateBatch, CreateBatchBeside, Resv
    <3>4. QED
      BY <2>1, <3>2, <3>3
  <2>7. QED
    BY <1>2, <2>2, <2>3, <2>4, <2>5, <2>6 DEF MainWritesBatches
<1>3. CASE WorkerWritesJobs
  <2>1. UNCHANGED <<batches, resv, media>>
    BY <1>3, WorkerFrames
  <2>2. ASSUME NEW j \in JobIds, ClaimUpload(j) PROVE jobs' \in [JobIds -> JobRows]
    BY <2>2, ClaimedTyped DEF ClaimUpload
  <2>3. CASE RetryUpload \/ SettleJob
    <3>1. PICK st \in {"retry_wait", "verify_pending", "cleanup_deferred", "done"} :
             jobs' = [jobs EXCEPT ![worker.job] = WithState(@, st)]
      BY <2>3 DEF RetryUpload, SettleJob, WorkerOK, WorkerTyped, Results
    <3>2. QED
      BY <2>1, <3>1, WithStateTyped DEF JobStates
  <2>4. QED
    BY <1>3, <2>1, <2>2, <2>3 DEF WorkerWritesJobs
<1>4. CASE SettleBatch
  <2>1. UNCHANGED <<jobs, media>>
    BY <1>4, WorkerFrames
  <2>2. Job.batch \in Batches /\ worker.result \in {"verify_pending", "cleanup_deferred"}
    BY <1>4 DEF SettleBatch, SettleBatchWith, JobRows, Job, WorkerOK, WorkerTyped, Results
  <2>3. batches' \in [Batches -> BatchRow]
    BY <1>4, <2>2 DEF SettleBatch, SettleBatchWith, BatchRow, BatchStates
  <2>4. resv' \in [Batches -> Resv]
    BY <1>4, <2>2 DEF SettleBatch, SettleBatchWith, Resv
  <2>5. QED
    BY <2>1, <2>3, <2>4
<1>5. CASE EnqueueMedia
  BY <1>5, WorkerFrames DEF EnqueueMedia, EnqueueMediaAfter, WorkerTyped
<1>6. CASE CleanupThread
  <2>1. UNCHANGED media
    BY <1>6, OtherFrames
  <2>2. ASSUME NEW t \in Torrents, NEW j \in JobIds, RequestCleanup(t, j) PROVE TablesTyped'
    BY <2>1, <2>2, JobTableAssumption DEF RequestCleanup, JobRow, JobRows, JobStates, NoBatch
  <2>3. ASSUME NEW j \in JobIds, ClaimCleanup(j) PROVE TablesTyped'
    BY <2>1, <2>3, ClaimedTyped DEF ClaimCleanup
  <2>4. CASE ApplyCleanup
    <3>1. jobs' \in [JobIds -> JobRows]
      <4>1. PICK st \in {"blocked", "done"} :
               jobs' = [jobs EXCEPT ![cleaner] = WithState(@, st)]
        BY <2>4 DEF ApplyCleanup
      <4>2. QED
        BY <4>1, WithStateTyped DEF JobStates
    <3>2. batches' \in [Batches -> BatchRow]
      BY <2>4 DEF ApplyCleanup, BatchRow, BatchStates
    <3>3. resv' \in [Batches -> Resv]
      BY <2>4 DEF ApplyCleanup, Resv
    <3>4. QED
      BY <2>1, <3>1, <3>2, <3>3
  <2>5. QED
    BY <1>6, <2>2, <2>3, <2>4 DEF CleanupThread
<1>7. CASE Lapses
  BY <1>7, OtherFrames DEF Lapses, LapseReservation, Resv
<1>8. CASE Reconciles
  BY <1>8, OtherFrames
  DEF Reconciles, ReconcileReads, ReconcileWrites, Reconciled, WithState, JobRows, JobStates, db
<1>9. CASE UNCHANGED <<batches, resv, jobs, media>>
  BY <1>9
<1>10. QED
  BY <1>1, <1>2, <1>3, <1>4, <1>5, <1>6, <1>7, <1>8, <1>9, Steps, MainFrames, WorkerFrames,
     OtherFrames

LEMMA IdleTyped == main' = Idle => MainTyped'
  BY DEF Idle, MainTyped, MainSteps

LEMMA MainStep == ASSUME TypeInv, [Next]_vars PROVE MainTyped'
<1> USE DEF TypeInv, TypeOK, MainTyped
<1>1. CASE MainLooks
  <2>1. ASSUME NEW t \in Torrents, Tick(t) PROVE MainTyped'
    BY <2>1, ZenonT(30) DEF Tick, Idle, MainSteps
  <2>2. CASE GiveUp
    BY <2>2, IdleTyped DEF GiveUp
  <2>3. CASE ProbeFiles
    BY <2>3 DEF ProbeFiles, MainSteps, StorageTyped, BatchesOf
  <2>4. CASE QueueDone \/ ReadStopped
    BY <2>4, ZenonT(30) DEF QueueDone, ReadStopped, MainSteps, BatchesOf
  <2>5. ASSUME NEW b \in Batches, SkipRow(b) PROVE MainTyped'
    BY <2>5 DEF SkipRow, MainSteps
  <2>6. ASSUME NEW fs \in SUBSET Files, ProbeFull(fs) PROVE MainTyped'
    BY <2>6 DEF ProbeFull, MainSteps
  <2>7. QED
    BY <1>1, <2>1, <2>2, <2>3, <2>4, <2>5, <2>6 DEF MainLooks
<1>2. CASE MainInserts
  <2>1. ASSUME NEW j \in JobIds, EnqueueBatchUpload(j) PROVE MainTyped'
    BY <2>1 DEF EnqueueBatchUpload, MainSteps
  <2>2. ASSUME NEW j \in JobIds, EnqueueFullUpload(j) PROVE MainTyped'
    BY <2>2, IdleTyped DEF EnqueueFullUpload
  <2>3. QED
    BY <1>2, <2>1, <2>2 DEF MainInserts
<1>3. CASE MainWritesBatches
  <2>1. CASE MarkUploadQueued
    BY <2>1 DEF MarkUploadQueued, MarkUploadQueuedWith, MainSteps
  <2>2. CASE PauseBatches \/ MarkBatchApplied \/ MarkBatchFailed
    BY <2>2, IdleTyped DEF PauseBatches, MarkBatchApplied, MarkBatchFailed
  <2>3. ASSUME NEW b \in Batches, NEW sel \in SUBSET Media, CreateBatch(b, sel) PROVE MainTyped'
    <3>1. FilesOf(BatchesOf(main.torrent, InflightStates)) \subseteq Files
      BY DEF FilesOf, BatchesOf, TablesTyped, BatchRow
    <3>2. QED
      BY <2>3, <3>1 DEF CreateBatch, CreateBatchBeside, MainSteps
  <2>4. QED
    BY <1>3, <2>1, <2>2, <2>3 DEF MainWritesBatches
<1>4. CASE MainCallsQbt
  <2>1. CASE RestartTorrent
    BY <2>1, IdleTyped DEF RestartTorrent
  <2>2. CASE ApplyBatch
    BY <2>2 DEF ApplyBatch, MainSteps
  <2>3. ASSUME NEW n \in 0..3, ApplyBatchFails(n) PROVE MainTyped'
    BY <2>3 DEF ApplyBatchFails, MainSteps
  <2>4. ASSUME NEW b \in Batches, DeselectRow(b) PROVE MainTyped'
    BY <2>4 DEF DeselectRow, ReadyRow, MainSteps
  <2>5. ASSUME NEW b \in Batches, DeselectRowFails(b) PROVE MainTyped'
    BY <2>5 DEF DeselectRowFails, ReadyRow, MainSteps
  <2>6. QED
    BY <1>4, <2>1, <2>2, <2>3, <2>4, <2>5 DEF MainCallsQbt
<1>5. CASE Crash
  BY <1>5, IdleTyped DEF Crash
<1>6. CASE UNCHANGED main
  BY <1>6
<1>7. QED
  BY <1>1, <1>2, <1>3, <1>4, <1>5, <1>6, Steps, MainFrames, WorkerFrames, OtherFrames

LEMMA WorkerStep == ASSUME TypeInv, [Next]_vars PROVE WorkerTyped'
<1> USE DEF TypeInv, TypeOK, WorkerTyped, WorkerSteps, Results
<1>1. CASE WorkerFails
  BY <1>1 DEF WorkerFails, CopyMismatch, CopyRaises, DeleteRaises
<1>2. CASE WorkerWritesJobs
  BY <1>2 DEF WorkerWritesJobs, RetryUpload, SettleJob, ClaimUpload, Resting, NoJob
<1>3. CASE CopyVerified \/ DeleteTorrent
  BY <1>3 DEF CopyVerified, DeleteTorrent
<1>4. CASE SettleBatch \/ EnqueueMedia \/ Crash
  BY <1>4 DEF SettleBatch, SettleBatchWith, EnqueueMedia, EnqueueMediaAfter, Crash, Resting, NoJob
<1>5. CASE UNCHANGED worker
  BY <1>5
<1>6. QED
  BY <1>1, <1>2, <1>3, <1>4, <1>5, Steps, MainFrames, WorkerFrames, OtherFrames

LEMMA OthersStep == ASSUME TypeInv, [Next]_vars PROVE OthersTyped'
<1> USE PipelineAssumption DEF TypeInv, TypeOK, OthersTyped
<1>1. CASE CleanupThread
  BY <1>1, OtherFrames DEF CleanupThread, RequestCleanup, ClaimCleanup, ApplyCleanup, threads, NoJob
<1>2. CASE Crash
  BY <1>2, OtherFrames DEF Crash, NoJob
<1>3. CASE Reconciles
  <2>1. UNCHANGED <<cleaner, crashes>>
    BY <1>3, OtherFrames
  <2>2. CASE ReconcileWrites
    BY <2>1, <2>2 DEF ReconcileWrites, NoRecon, bounds
  <2>3. ASSUME NEW expired \in SUBSET JobIds, ReconcileReads(expired) PROVE OthersTyped'
    <3>1. reconciles' \in 0..MaxReconciles
      BY <2>3 DEF ReconcileReads
    <3>2. recon' \in [busy : BOOLEAN, expired : SUBSET JobIds, exhausted : SUBSET JobIds]
      BY <2>3 DEF ReconcileReads, ExhaustedRetries
    <3>3. QED
      BY <2>1, <3>1, <3>2
  <2>4. QED
    BY <1>3, <2>2, <2>3 DEF Reconciles
<1>4. CASE UNCHANGED <<cleaner, recon, crashes, reconciles>>
  BY <1>4
<1>5. QED
  BY <1>1, <1>2, <1>3, <1>4, Steps, MainFrames, WorkerFrames, OtherFrames

\* What a row of torrent_jobs is about is decided when it is inserted.
LEMMA JobKept ==
  ASSUME TypeInv, [Next]_vars, NEW j \in JobIds, Used(j)
  PROVE  /\ Used(j)'
         /\ jobs'[j].kind = jobs[j].kind /\ jobs'[j].torrent = jobs[j].torrent
         /\ jobs'[j].batch = jobs[j].batch /\ jobs'[j].files = jobs[j].files
<1> DEFINE Kept == /\ Used(j)'
                   /\ jobs'[j].kind = jobs[j].kind /\ jobs'[j].torrent = jobs[j].torrent
                   /\ jobs'[j].batch = jobs[j].batch /\ jobs'[j].files = jobs[j].files
<1> USE DEF TypeInv, TypeOK, TablesTyped, JobRows, Used
<1>1. CASE MainInserts
  BY <1>1 DEF MainInserts, EnqueueBatchUpload, EnqueueFullUpload, IsNextId
<1>2. CASE WorkerWritesJobs
  <2>1. ASSUME NEW i \in JobIds, ClaimUpload(i) PROVE Kept
    BY <2>1 DEF ClaimUpload, Claimed
  <2>2. CASE RetryUpload \/ SettleJob
    BY <2>2 DEF RetryUpload, SettleJob, WithState, WorkerOK, WorkerTyped, Results
  <2>3. QED
    BY <1>2, <2>1, <2>2 DEF WorkerWritesJobs
<1>3. CASE CleanupThread
  <2>1. ASSUME NEW t \in Torrents, NEW i \in JobIds, RequestCleanup(t, i) PROVE Kept
    BY <2>1 DEF RequestCleanup, IsNextId
  <2>2. ASSUME NEW i \in JobIds, ClaimCleanup(i) PROVE Kept
    BY <2>2 DEF ClaimCleanup, Claimed
  <2>3. CASE ApplyCleanup
    <3>1. PICK st \in {"blocked", "done"} : jobs' = [jobs EXCEPT ![cleaner] = WithState(@, st)]
      BY <2>3 DEF ApplyCleanup
    <3>2. QED
      BY <3>1 DEF WithState
  <2>4. QED
    BY <1>3, <2>1, <2>2, <2>3 DEF CleanupThread
<1>4. CASE Reconciles
  BY <1>4 DEF Reconciles, ReconcileReads, ReconcileWrites, Reconciled, WithState, db
<1>5. CASE UNCHANGED jobs
  BY <1>5
<1>6. QED
  BY <1>1, <1>2, <1>3, <1>4, <1>5, Steps, MainFrames, WorkerFrames, OtherFrames

\* What a row of torrent_batches is about is decided when it is inserted.
LEMMA BatchKept ==
  ASSUME TypeInv, [Next]_vars, NEW b \in Batches, Exists(b)
  PROVE  /\ Exists(b)'
         /\ batches'[b].torrent = batches[b].torrent /\ batches'[b].files = batches[b].files
<1> DEFINE Kept == /\ Exists(b)'
                   /\ batches'[b].torrent = batches[b].torrent
                   /\ batches'[b].files = batches[b].files
<1> USE DEF TypeInv, TypeOK, TablesTyped, BatchRow, Exists
<1>1. CASE MainWritesBatches
  <2>1. CASE MarkUploadQueued
    BY <2>1 DEF MarkUploadQueued, MarkUploadQueuedWith
  <2>2. CASE PauseBatches
    BY <2>2 DEF PauseBatches
  <2>3. CASE MarkBatchApplied
    BY <2>3 DEF MarkBatchApplied
  <2>4. CASE MarkBatchFailed
    BY <2>4 DEF MarkBatchFailed
  <2>5. ASSUME NEW c \in Batches, NEW sel \in SUBSET Media, CreateBatch(c, sel) PROVE Kept
    BY <2>5 DEF CreateBatch, CreateBatchBeside
  <2>6. QED
    BY <1>1, <2>1, <2>2, <2>3, <2>4, <2>5 DEF MainWritesBatches
<1>2. CASE SettleBatch
  BY <1>2 DEF SettleBatch, SettleBatchWith, WorkerOK, WorkerTyped, Results
<1>3. CASE CleanupThread
  <2>1. CASE ApplyCleanup
    BY <2>1 DEF ApplyCleanup
  <2>2. CASE UNCHANGED batches
    BY <2>2
  <2>3. QED
    BY <1>3, <2>1, <2>2 DEF CleanupThread, RequestCleanup, ClaimCleanup
<1>4. CASE UNCHANGED batches
  BY <1>4
<1>5. QED
  BY <1>1, <1>2, <1>3, <1>4, Steps, MainFrames, WorkerFrames, OtherFrames

\* Rows that appear are made by the three inserts and by CreateBatch.
LEMMA NewJob ==
  ASSUME TypeInv, [Next]_vars, NEW j \in JobIds, ~Used(j), Used(j)'
  PROVE  EnqueueBatchUpload(j) \/ EnqueueFullUpload(j) \/ \E t \in Torrents : RequestCleanup(t, j)
<1> USE DEF TypeInv, TypeOK, TablesTyped, JobRows, Used
<1>1. CASE MainInserts
  BY <1>1 DEF MainInserts, EnqueueBatchUpload, EnqueueFullUpload
<1>2. CASE WorkerWritesJobs
  <2>1. ASSUME NEW i \in JobIds, ClaimUpload(i) PROVE FALSE
    BY <2>1 DEF ClaimUpload, Claimed, IsNextToClaim, IsFirst
  <2>2. CASE RetryUpload \/ SettleJob
    BY <2>2 DEF RetryUpload, SettleJob, WithState, WorkerOK, WorkerTyped
  <2>3. QED
    BY <1>2, <2>1, <2>2 DEF WorkerWritesJobs
<1>3. CASE CleanupThread
  <2>1. ASSUME NEW t \in Torrents, NEW i \in JobIds, RequestCleanup(t, i) PROVE i = j
    BY <2>1 DEF RequestCleanup
  <2>2. ASSUME NEW i \in JobIds, ClaimCleanup(i) PROVE FALSE
    BY <2>2 DEF ClaimCleanup, Claimed, IsNextToClaim, IsFirst
  <2>3. CASE ApplyCleanup
    <3>1. PICK st \in {"blocked", "done"} : jobs' = [jobs EXCEPT ![cleaner] = WithState(@, st)]
      BY <2>3 DEF ApplyCleanup
    <3>2. QED
      BY <2>3, <3>1 DEF WithState, ApplyCleanup, TablesOK, OthersTyped
  <2>4. QED
    BY <1>3, <2>1, <2>2, <2>3 DEF CleanupThread
<1>4. CASE Reconciles
  BY <1>4 DEF Reconciles, ReconcileReads, ReconcileWrites, Reconciled, WithState, db, TablesOK
<1>5. CASE UNCHANGED jobs
  BY <1>5
<1>6. QED
  BY <1>1, <1>2, <1>3, <1>4, <1>5, Steps, MainFrames, WorkerFrames, OtherFrames

LEMMA NewBatch ==
  ASSUME TypeInv, [Next]_vars, NEW b \in Batches, ~Exists(b), batches'[b] # batches[b]
  PROVE  \E sel \in SUBSET Media : CreateBatch(b, sel)
<1> USE DEF TypeInv, TypeOK, TablesTyped, BatchRow
<1>1. CASE MainWritesBatches
  <2>1. CASE MarkUploadQueued
    BY <2>1 DEF MarkUploadQueued, MarkUploadQueuedWith, MainOK
  <2>2. CASE PauseBatches
    BY <2>2 DEF PauseBatches, MainOK
  <2>3. CASE MarkBatchApplied \/ MarkBatchFailed
    BY <2>3 DEF MarkBatchApplied, MarkBatchFailed, MainOK
  <2>4. ASSUME NEW c \in Batches, NEW sel \in SUBSET Media, CreateBatch(c, sel) PROVE c = b
    BY <2>4 DEF CreateBatch, CreateBatchBeside
  <2>5. QED
    BY <1>1, <2>1, <2>2, <2>3, <2>4 DEF MainWritesBatches
<1>2. CASE SettleBatch
  <2>1. worker.pc = "batch" /\ batches'[b] = IF b = Job.batch
                                             THEN [batches[b] EXCEPT !.state = worker.result]
                                             ELSE batches[b]
    BY <1>2 DEF SettleBatch, SettleBatchWith
  <2>2. Exists(Job.batch)
    BY <2>1 DEF WorkerOK, WorkerTyped, TablesOK, Job, OfBatch
  <2>3. QED
    BY <2>1, <2>2
<1>3. CASE CleanupThread
  <2>1. CASE ApplyCleanup
    BY <2>1 DEF ApplyCleanup, BatchesOf, Exists
  <2>2. CASE UNCHANGED batches
    BY <2>2
  <2>3. QED
    BY <1>3, <2>1, <2>2 DEF CleanupThread, RequestCleanup, ClaimCleanup
<1>4. CASE UNCHANGED batches
  BY <1>4
<1>5. QED
  BY <1>1, <1>2, <1>3, <1>4, Steps, MainFrames, WorkerFrames, OtherFrames

LEMMA TablesOKStep == ASSUME TypeInv, TypeOK', [Next]_vars PROVE TablesOK'
<1>1. ASSUME NEW j \in JobIds, Used(j)' PROVE jobs'[j].torrent \in Torrents
  <2>1. CASE Used(j)
    BY <2>1, JobKept DEF TypeInv, TablesOK
  <2>2. ASSUME EnqueueBatchUpload(j) \/ EnqueueFullUpload(j) PROVE jobs'[j].torrent \in Torrents
    BY <2>2 DEF EnqueueBatchUpload, EnqueueFullUpload, JobRow, TypeInv, TypeOK, MainTyped, TablesTyped
  <2>3. ASSUME NEW t \in Torrents, RequestCleanup(t, j) PROVE jobs'[j].torrent \in Torrents
    BY <2>3 DEF RequestCleanup, JobRow, TypeInv, TypeOK, TablesTyped
  <2>4. QED
    BY <1>1, <2>1, <2>2, <2>3, NewJob
<1>2. ASSUME NEW b \in Batches
      PROVE  IF Exists(b)' THEN batches'[b].torrent \in Torrents ELSE batches'[b] = NoRow
  <2>1. CASE Exists(b)
    BY <2>1, BatchKept DEF TypeInv, TablesOK
  <2>2. CASE batches'[b] = batches[b]
    BY <2>2 DEF TypeInv, TablesOK, Exists
  <2>3. ASSUME NEW sel \in SUBSET Media, CreateBatch(b, sel)
        PROVE  Exists(b)' /\ batches'[b].torrent \in Torrents
    BY <2>3 DEF CreateBatch, CreateBatchBeside, Exists, TypeInv, TypeOK, TablesTyped, MainTyped
  <2>4. QED
    BY <2>1, <2>2, <2>3, NewBatch
<1>3. ASSUME NEW j \in JobIds, Used(j)', jobs'[j].batch # NoBatch
      PROVE  OfBatch(j)'
  <2>1. CASE Used(j)
    <3>1. /\ jobs'[j].batch = jobs[j].batch /\ jobs'[j].torrent = jobs[j].torrent
          /\ jobs'[j].files = jobs[j].files
      BY <2>1, JobKept
    <3>2. jobs[j].batch \in Batches /\ OfBatch(j)
      BY <1>3, <2>1, <3>1 DEF TypeInv, TypeOK, TablesTyped, JobRows, TablesOK
    <3>3. QED
      BY <3>1, <3>2, BatchKept DEF OfBatch
  <2>2. CASE EnqueueBatchUpload(j)
    <3>1. /\ main.batch \in Batches /\ Exists(main.batch)
          /\ batches[main.batch].torrent = main.torrent
      BY <2>2 DEF EnqueueBatchUpload, TypeInv, TypeOK, MainTyped, MainOK
    <3>2. jobs'[j] = JobRow("upload", 40, main.torrent, main.batch, batches[main.batch].files)
      BY <2>2 DEF EnqueueBatchUpload, TypeInv, TypeOK, TablesTyped
    <3>3. UNCHANGED batches
      BY <2>2 DEF EnqueueBatchUpload
    <3>4. QED
      BY <3>1, <3>2, <3>3 DEF OfBatch, JobRow, Exists
  <2>3. CASE EnqueueFullUpload(j)
    BY <1>3, <2>3 DEF EnqueueFullUpload, JobRow, TypeInv, TypeOK, TablesTyped
  <2>4. ASSUME NEW t \in Torrents, RequestCleanup(t, j) PROVE FALSE
    BY <1>3, <2>4 DEF RequestCleanup, JobRow, TypeInv, TypeOK, TablesTyped
  <2>5. QED
    BY <1>3, <2>1, <2>2, <2>3, <2>4, NewJob
<1>4. ASSUME NEW j \in recon'.expired \cup recon'.exhausted PROVE Used(j)'
  <2>1. CASE UNCHANGED recon
    BY <2>1, <1>4, JobKept DEF TypeInv, TypeOK, OthersTyped, TablesOK
  <2>2. CASE ReconcileWrites
    BY <2>2, <1>4 DEF ReconcileWrites, NoRecon
  <2>3. ASSUME NEW expired \in SUBSET JobIds, ReconcileReads(expired) PROVE Used(j)'
    BY <2>3, <1>4 DEF ReconcileReads, Running, ExhaustedRetries, Used, db
  <2>4. QED
    BY <2>1, <2>2, <2>3, Steps, MainFrames, WorkerFrames, OtherFrames DEF Reconciles
<1>5. cleaner' # NoJob => Used(cleaner)'
  <2>1. CASE UNCHANGED cleaner
    BY <2>1, JobKept DEF TypeInv, TypeOK, OthersTyped, TablesOK
  <2>2. ASSUME NEW j \in JobIds, ClaimCleanup(j) PROVE Used(cleaner)'
    BY <2>2, JobKept DEF ClaimCleanup, Claimed, Used, TypeInv, TypeOK, TablesTyped, JobRows
  <2>3. CASE ApplyCleanup \/ Crash
    BY <2>3 DEF ApplyCleanup, Crash
  <2>4. CASE CleanupThread
    BY <2>1, <2>2, <2>3, <2>4 DEF CleanupThread, RequestCleanup, threads
  <2>5. QED
    BY <2>1, <2>3, <2>4, Steps, MainFrames, WorkerFrames, OtherFrames
<1>6. QED
  BY <1>1, <1>2, <1>3, <1>4, <1>5 DEF TablesOK

LEMMA MainOKStep == ASSUME TypeInv, [Next]_vars PROVE MainOK'
<1> DEFINE Rows == \A b \in main.rows : Exists(b) /\ batches[b].torrent = main.torrent
<1>0. ASSUME NEW b \in Batches, Exists(b)
      PROVE  Exists(b)' /\ batches'[b].torrent = batches[b].torrent
  BY <1>0, BatchKept
<1>1. main.rows \subseteq Batches
  BY DEF TypeInv, TypeOK, MainTyped
<1>2. CASE UNCHANGED main
  BY <1>0, <1>1, <1>2 DEF TypeInv, TypeOK, MainTyped, MainOK
<1>3. ASSUME main' = Idle PROVE MainOK'
  BY <1>3 DEF MainOK, Idle
<1>4. CASE MainLooks
  <2>1. UNCHANGED batches
    BY <1>4, MainFrames
  <2>2. ASSUME NEW t \in Torrents, Tick(t) PROVE MainOK'
    BY <2>2 DEF Tick, Idle, MainOK
  <2>3. CASE ProbeFiles
    BY <2>1, <2>3 DEF ProbeFiles, BatchesOf, Exists, MainOK, TypeInv, TypeOK, MainTyped
  <2>4. CASE QueueDone \/ ReadStopped
    BY <2>1, <2>4, ZenonT(30)
    DEF QueueDone, ReadStopped, BatchesOf, Exists, MainOK, TypeInv, TypeOK,
        MainTyped, DownloadStates
  <2>5. ASSUME NEW b \in Batches, SkipRow(b) PROVE MainOK'
    BY <2>1, <2>5 DEF SkipRow, Exists, MainOK, TypeInv, TypeOK, MainTyped
  <2>6. ASSUME NEW fs \in SUBSET Files, ProbeFull(fs) PROVE MainOK'
    BY <2>1, <2>6 DEF ProbeFull, MainOK, TypeInv, TypeOK, MainTyped
  <2>7. QED
    BY <1>3, <1>4, <2>2, <2>3, <2>4, <2>5, <2>6 DEF MainLooks, GiveUp
<1>5. CASE MainInserts
  <2>1. ASSUME NEW j \in JobIds, EnqueueBatchUpload(j) PROVE MainOK'
    BY <2>1 DEF EnqueueBatchUpload, Exists, MainOK, TypeInv, TypeOK, MainTyped
  <2>2. QED
    BY <1>3, <1>5, <2>1 DEF MainInserts, EnqueueFullUpload
<1>6. CASE MainWritesBatches
  <2>1. CASE MarkUploadQueued
    BY <1>0, <1>1, <2>1 DEF MarkUploadQueued, MarkUploadQueuedWith, MainOK, TypeInv, TypeOK, MainTyped
  <2>2. ASSUME NEW b \in Batches, NEW sel \in SUBSET Media, CreateBatch(b, sel) PROVE MainOK'
    BY <2>2
    DEF CreateBatch, CreateBatchBeside, MainOK, Exists, TypeInv, TypeOK, TablesTyped, MainTyped
  <2>3. QED
    BY <1>3, <1>6, <2>1, <2>2 DEF MainWritesBatches, PauseBatches, MarkBatchApplied, MarkBatchFailed
<1>7. CASE MainCallsQbt
  <2>1. UNCHANGED batches
    BY <1>7, MainFrames
  <2>2. CASE ApplyBatch
    BY <2>1, <2>2 DEF ApplyBatch, Exists, MainOK, TypeInv, TypeOK, MainTyped
  <2>3. ASSUME NEW n \in 0..3, ApplyBatchFails(n) PROVE MainOK'
    BY <2>1, <2>3 DEF ApplyBatchFails, Exists, MainOK, TypeInv, TypeOK, MainTyped
  <2>4. ASSUME NEW b \in Batches, DeselectRow(b) \/ DeselectRowFails(b) PROVE MainOK'
    BY <2>1, <2>4
    DEF DeselectRow, DeselectRowFails, ReadyRow, IsNextRow, Exists, MainOK, TypeInv, TypeOK, MainTyped
  <2>5. QED
    BY <1>3, <1>7, <2>2, <2>3, <2>4 DEF MainCallsQbt, RestartTorrent
<1>8. CASE Crash
  BY <1>3, <1>8 DEF Crash
<1>9. QED
  BY <1>2, <1>4, <1>5, <1>6, <1>7, <1>8, Steps, MainFrames, WorkerFrames, OtherFrames

LEMMA WorkerOKStep == ASSUME TypeInv, [Next]_vars PROVE WorkerOK'
<1>0. \A j \in JobIds : Used(j) => jobs'[j].state # "unused" /\ jobs'[j].batch = jobs[j].batch
  BY JobKept DEF Used
<1> USE DEF TypeInv, TypeOK, WorkerTyped, WorkerOK, Job, Used
<1>1. CASE UNCHANGED worker
  BY <1>0, <1>1
<1>2. CASE WorkerFails
  BY <1>0, <1>2 DEF WorkerFails, CopyMismatch, CopyRaises, DeleteRaises
<1>3. CASE WorkerWritesJobs
  <2>1. ASSUME NEW j \in JobIds, ClaimUpload(j) PROVE WorkerOK'
    BY <2>1 DEF ClaimUpload, Claimed, Used, TablesTyped, JobRows
  <2>2. CASE RetryUpload
    BY <2>2 DEF RetryUpload, Resting
  <2>3. CASE SettleJob
    BY <1>0, <2>3 DEF SettleJob
  <2>4. QED
    BY <1>3, <2>1, <2>2, <2>3 DEF WorkerWritesJobs
<1>4. CASE CopyVerified
  BY <1>0, <1>4 DEF CopyVerified
<1>5. CASE DeleteTorrent
  BY <1>0, <1>5 DEF DeleteTorrent
<1>6. CASE SettleBatch
  BY <1>0, <1>6 DEF SettleBatch, SettleBatchWith
<1>7. CASE EnqueueMedia \/ Crash
  BY <1>7 DEF EnqueueMedia, EnqueueMediaAfter, Crash, Resting
<1>8. QED
  BY <1>1, <1>2, <1>3, <1>4, <1>5, <1>6, <1>7, Steps, MainFrames, WorkerFrames, OtherFrames

LEMMA TypeStep == TypeInv /\ [Next]_vars => TypeInv'
<1> SUFFICES ASSUME TypeInv, [Next]_vars PROVE TypeInv'
  OBVIOUS
<1>1. TypeOK'
  BY StorageStep, TablesStep, MainStep, WorkerStep, OthersStep DEF TypeOK
<1>2. QED
  BY <1>1, TablesOKStep, MainOKStep, WorkerOKStep DEF TypeInv

\* Every variable keeps a value of its kind in every behaviour: in particular
\* no thread ever writes a result to a batch row that has no such state, and
\* none acts on a row it does not hold.
THEOREM TypeCorrect == Spec => []TypeOK
<1>1. Spec => []TypeInv
  BY TypeInit, TypeStep, PTL DEF Spec
<1>2. TypeInv => TypeOK
  BY DEF TypeInv
<1>3. QED
  BY <1>1, <1>2, PTL
=============================================================================

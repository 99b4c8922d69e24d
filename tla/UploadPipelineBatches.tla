----------------------- MODULE UploadPipelineBatches -----------------------
(***************************************************************************)
(* Theorems about who holds what in UploadPipeline: which batch a file is  *)
(* in, which batch has its bytes reserved, which upload it has, and which  *)
(* job of a verified upload goes on.                                       *)
(***************************************************************************)
EXTENDS UploadPipelineSafety

-----------------------------------------------------------------------------
(* The main thread's work on a torrent, step by step.                      *)

SameTick == main'.torrent = main.torrent /\ main'.seen = main.seen

\* What the steps that only look, or only call qBittorrent, do to the record.
NextRow == /\ SameTick /\ main.pc = "queue" /\ main'.pc \in {"queue", "reconcile"}
           /\ main'.rows \subseteq main.rows
Deselects == \E b \in main.rows : /\ SameTick /\ ReadyRow(b) /\ main'.pc = "enqueue"
                                 /\ main'.rows = main.rows /\ main'.batch = b
Inserts == /\ SameTick /\ main.pc = "enqueue" /\ main'.pc = "mark"
           /\ main'.rows = main.rows /\ main'.batch = main.batch
           /\ \E j \in JobIds : EnqueueBatchUpload(j)
Marks == /\ SameTick /\ main.pc = "mark" /\ main'.pc = "queue"
         /\ main'.rows \subseteq main.rows /\ MarkUploadQueued
GoesCreate == SameTick /\ main.pc = "reconcile" /\ main'.pc = "create"
Creates == \E b \in Batches, sel \in SUBSET Media :
              CreateBatch(b, sel) /\ main'.pc = "apply" /\ main'.batch = b
Applies == /\ main.pc = "apply" /\ main'.pc \in {"applied", "apply_failed"}
           /\ main'.batch = main.batch

LEMMA MainMoves ==
  ASSUME TypeInv, [Next]_vars, main' # main
  PROVE  \/ main'.pc \in {"idle", "probe", "probe_full", "enqueue_full", "pause", "restart"}
         \/ ProbeFiles \/ NextRow \/ Deselects \/ Inserts \/ Marks \/ GoesCreate \/ Creates
         \/ Applies
<1> DEFINE Moves == \/ main'.pc \in {"idle", "probe", "probe_full", "enqueue_full", "pause", "restart"}
                    \/ ProbeFiles \/ NextRow \/ Deselects \/ Inserts \/ Marks \/ GoesCreate
                    \/ Creates \/ Applies
<1>0. main \in [pc : MainSteps, torrent : Torrents \cup {NoTorrent}, stopped : BOOLEAN,
                seen : SUBSET Files, rows : SUBSET Batches,
                batch : Batches \cup {NoBatch}, files : SUBSET Files]
  BY DEF TypeInv, TypeOK, MainTyped
<1>1. ASSUME main' = Idle PROVE Moves
  BY <1>1 DEF Idle
<1>2. CASE MainLooks
  <2>1. ASSUME NEW t \in Torrents, Tick(t) PROVE Moves
    BY <2>1 DEF Tick, Idle
  <2>2. CASE QueueDone
    BY <1>0, <2>2 DEF QueueDone, NextRow, SameTick
  <2>3. CASE ReadStopped
    BY <1>0, <2>3 DEF ReadStopped, GoesCreate, SameTick
  <2>4. ASSUME NEW b \in Batches, SkipRow(b) PROVE Moves
    BY <1>0, <2>4 DEF SkipRow, NextRow, SameTick
  <2>5. ASSUME NEW fs \in SUBSET Files, ProbeFull(fs) PROVE Moves
    BY <1>0, <2>5 DEF ProbeFull
  <2>6. QED
    BY <1>1, <1>2, <2>1, <2>2, <2>3, <2>4, <2>5 DEF MainLooks, GiveUp
<1>3. CASE MainInserts
  <2>1. ASSUME NEW j \in JobIds, EnqueueBatchUpload(j) PROVE Inserts
    BY <1>0, <2>1 DEF EnqueueBatchUpload, Inserts, SameTick
  <2>2. QED
    BY <1>1, <1>3, <2>1 DEF MainInserts, EnqueueFullUpload
<1>4. CASE MainWritesBatches
  <2>1. CASE MarkUploadQueued
    BY <1>0, <2>1 DEF MarkUploadQueued, MarkUploadQueuedWith, Marks, SameTick
  <2>2. ASSUME NEW b \in Batches, NEW sel \in SUBSET Media, CreateBatch(b, sel) PROVE Creates
    BY <1>0, <2>2 DEF CreateBatch, CreateBatchBeside, Creates
  <2>3. QED
    BY <1>1, <1>4, <2>1, <2>2 DEF MainWritesBatches, PauseBatches, MarkBatchApplied,
       MarkBatchFailed
<1>5. CASE MainCallsQbt
  <2>1. CASE ApplyBatch \/ \E n \in 0..3 : ApplyBatchFails(n)
    BY <1>0, <2>1 DEF ApplyBatch, ApplyBatchFails, Applies
  <2>2. ASSUME NEW b \in Batches, DeselectRow(b) PROVE Deselects
    BY <1>0, <2>2 DEF DeselectRow, ReadyRow, IsNextRow, Deselects, SameTick
  <2>3. ASSUME NEW b \in Batches, DeselectRowFails(b) PROVE NextRow
    BY <1>0, <2>3 DEF DeselectRowFails, ReadyRow, NextRow, SameTick
  <2>4. QED
    BY <1>1, <1>5, <2>1, <2>2, <2>3 DEF MainCallsQbt, RestartTorrent
<1>6. CASE Crash
  BY <1>1, <1>6 DEF Crash
<1>7. QED
  BY <1>2, <1>3, <1>4, <1>5, <1>6, Steps, MainFrames, WorkerFrames, OtherFrames

\* When the main thread moves on, only its inserts change torrent_jobs.
LEMMA MainKeepsJobs == ASSUME [Next]_vars, main' # main PROVE UNCHANGED jobs \/ MainInserts
  BY Steps, MainFrames, WorkerFrames, OtherFrames

-----------------------------------------------------------------------------
(* Reservations.                                                           *)

PinnedStates == {"upload_queued", "cleanup_deferred", "cleanup_requested"}
Pinned(b) == batches[b].state \in PinnedStates => resv[b].cleanup = "active"

LEMMA PinnedInit == Init => PinnedReserved
  BY DEF Init, PinnedReserved, NoRow

LEMMA PinnedStep == ASSUME TypeInv, PinnedReserved, [Next]_vars PROVE PinnedReserved'
<1> SUFFICES ASSUME NEW b \in Batches PROVE Pinned(b)'
  BY DEF PinnedReserved, Pinned, PinnedStates
<1>1. Pinned(b) /\ batches \in [Batches -> BatchRow] /\ resv \in [Batches -> Resv]
  BY DEF PinnedReserved, Pinned, PinnedStates, TypeInv, TypeOK, TablesTyped
<1>2. batches[b] \in BatchRow /\ resv[b] \in Resv
  BY <1>1
<1> USE DEF Pinned, PinnedStates
<1>3. CASE MainWritesBatches
  <2>1. CASE MarkUploadQueued
    BY <1>1, <2>1 DEF MarkUploadQueued, MarkUploadQueuedWith, BatchRow
  <2>2. CASE PauseBatches
    BY <1>1, <1>2, <2>2 DEF PauseBatches, BatchRow, Resv
  <2>3. CASE MarkBatchApplied
    BY <1>1, <1>2, <2>3 DEF MarkBatchApplied, BatchRow
  <2>4. CASE MarkBatchFailed
    <3>1. batches' = [batches EXCEPT ![main.batch].state = "failed"]
      BY <2>4 DEF MarkBatchFailed
    <3>2. b # main.batch => resv'[b] = resv[b]
      BY <1>1, <2>4 DEF MarkBatchFailed
    <3>3. QED
      BY <1>1, <1>2, <3>1, <3>2 DEF BatchRow
  <2>5. ASSUME NEW c \in Batches, NEW sel \in SUBSET Media, CreateBatch(c, sel) PROVE Pinned(b)'
    BY <1>1, <1>2, <2>5 DEF CreateBatch, CreateBatchBeside, BatchRow, Resv
  <2>6. QED
    BY <1>3, <2>1, <2>2, <2>3, <2>4, <2>5 DEF MainWritesBatches
<1>4. CASE SettleBatch
  <2>1. worker.result \in Results \ {"none", "done"}
    BY <1>4 DEF SettleBatch, SettleBatchWith, TypeInv, TypeOK, WorkerTyped, WorkerOK
  <2>2. QED
    BY <1>1, <1>2, <1>4, <2>1 DEF SettleBatch, SettleBatchWith, Results, BatchRow, Resv
<1>5. CASE CleanupThread
  <2>1. CASE ApplyCleanup
    BY <1>1, <1>2, <2>1 DEF ApplyCleanup, BatchesOf, BatchRow, Resv
  <2>2. CASE UNCHANGED <<batches, resv>>
    BY <1>1, <2>2
  <2>3. QED
    BY <1>5, <2>1, <2>2 DEF CleanupThread, RequestCleanup, ClaimCleanup
<1>6. CASE Lapses
  BY <1>1, <1>2, <1>6, OtherFrames DEF Lapses, LapseReservation, Resv
<1>7. CASE UNCHANGED <<batches, resv>>
  BY <1>1, <1>7
<1>8. QED
  BY <1>3, <1>4, <1>5, <1>6, <1>7, Steps, MainFrames, WorkerFrames, OtherFrames

\* Whichever thread moves a batch on, and whatever crashes or lapses between
\* two of its transactions, the bytes of a batch that is queued for upload or
\* whose cleanup is pending stay reserved.
THEOREM PinnedBytesReserved == Spec => []PinnedReserved
<1>1. TypeInv /\ PinnedReserved /\ [Next]_vars => (TypeInv /\ PinnedReserved)'
  BY TypeStep, PinnedStep
<1>2. QED
  BY TypeInit, PinnedInit, <1>1, PTL DEF Spec

-----------------------------------------------------------------------------
(* Files.                                                                  *)

LiveStates == InflightStates \cup {"cleanup_requested"}

\* A batch that the planner paused is not live, but an upload inserted before
\* it was paused may bring it back: its files stay its own.
HasUpload(b) == \E j \in JobIds : Used(j) /\ jobs[j].batch = b
Held(b) == batches[b].state \in LiveStates \/ HasUpload(b)

HeldDisjoint ==
  \A b, c \in Batches : b # c /\ batches[b].torrent = batches[c].torrent /\ Held(b) /\ Held(c)
                          => batches[b].files \cap batches[c].files = {}

\* A batch past its download has an upload, or gets it before the main thread
\* says so.
PastDownload == {"upload_queued", "verify_pending", "cleanup_deferred", "cleanup_requested"}
UploadedHaveJob ==
  /\ \A b \in Batches : batches[b].state \in PastDownload => HasUpload(b)
  /\ main.pc = "mark" => HasUpload(main.batch)

\* The batches that the main thread is at work on are held.
HandsHeld ==
  /\ main.pc \in {"queue", "enqueue", "mark"} => \A b \in main.rows : Held(b)
  /\ main.pc \in {"apply", "applied", "apply_failed"} => Held(main.batch)

\* The file list that a selection avoids shows every file that some batch of
\* the torrent has an upload of, although it is older than some of them.
Listed == {"queue", "enqueue", "mark", "reconcile", "create"}
UploadsSeen ==
  main.pc \in Listed
    => \A j \in JobIds : Used(j) /\ jobs[j].batch # NoBatch /\ jobs[j].torrent = main.torrent
                           => jobs[j].files \subseteq main.seen

FilesInv == BatchInv /\ HeldDisjoint /\ UploadedHaveJob /\ HandsHeld /\ UploadsSeen

LEMMA FilesInit == Init => FilesInv
<1> SUFFICES ASSUME Init PROVE FilesInv
  OBVIOUS
<1>1. \A b \in Batches : ~Held(b) /\ batches[b].state \notin PastDownload
  BY DEF Init, Held, HasUpload, LiveStates, InflightStates, PastDownload, Used, NoRow, NoJobRow
<1>2. HeldDisjoint /\ UploadedHaveJob /\ HandsHeld /\ UploadsSeen
  BY <1>1 DEF Init, HeldDisjoint, UploadedHaveJob, HandsHeld, UploadsSeen, Listed, Idle
<1>3. QED
  BY <1>2, BatchInit DEF FilesInv

LEMMA HasUploadKept ==
  ASSUME TypeInv, [Next]_vars, NEW b \in Batches, HasUpload(b) PROVE HasUpload(b)'
<1>1. PICK j \in JobIds : Used(j) /\ jobs[j].batch = b
  BY DEF HasUpload
<1>2. Used(j)' /\ jobs'[j].batch = b
  BY <1>1, JobKept
<1>3. QED
  BY <1>2 DEF HasUpload

\* A job of a batch comes from the main thread's enqueue.
LEMMA NewUpload ==
  ASSUME TypeInv, [Next]_vars, NEW b \in Batches, ~HasUpload(b), HasUpload(b)'
  PROVE  main.pc = "enqueue" /\ b = main.batch
<1>1. PICK j \in JobIds : Used(j)' /\ jobs'[j].batch = b
  BY DEF HasUpload, Used
<1>2. ~Used(j)
  BY <1>1, JobKept DEF HasUpload
<1>3. CASE EnqueueBatchUpload(j)
  BY <1>1, <1>3 DEF EnqueueBatchUpload, JobRow, TypeInv, TypeOK, TablesTyped
<1>4. ASSUME EnqueueFullUpload(j) \/ \E t \in Torrents : RequestCleanup(t, j) PROVE FALSE
  <2>1. b # NoBatch /\ jobs \in [JobIds -> JobRows]
    BY DEF Batches, NoBatch, TypeInv, TypeOK, TablesTyped
  <2>2. CASE EnqueueFullUpload(j)
    BY <1>1, <2>1, <2>2 DEF EnqueueFullUpload, JobRow
  <2>3. ASSUME NEW t \in Torrents, RequestCleanup(t, j) PROVE FALSE
    BY <1>1, <2>1, <2>3 DEF RequestCleanup, JobRow
  <2>4. QED
    BY <1>4, <2>2, <2>3
<1>5. QED
  BY <1>1, <1>2, <1>3, <1>4, NewJob

\* How the state of a batch changes: to one that is live, or by the last step
\* of the main thread on it.
LEMMA StateBy ==
  ASSUME TypeInv, [Next]_vars, NEW b \in Batches, batches'[b].state # batches[b].state
  PROVE  \/ \E sel \in SUBSET Media : CreateBatch(b, sel)
         \/ main.pc = "mark" /\ b = main.batch /\ batches'[b].state = "upload_queued"
         \/ main.pc = "applied" /\ b = main.batch /\ batches'[b].state = "downloading"
         \/ main' = Idle /\ batches'[b].state \in {"paused_by_planner", "failed"}
         \/ HasUpload(b) /\ batches'[b].state \in {"verify_pending", "cleanup_deferred"}
         \/ batches[b].state = "cleanup_deferred" /\ batches'[b].state = "cleanup_requested"
<1>1. batches \in [Batches -> BatchRow] /\ batches[b] \in BatchRow
  BY DEF TypeInv, TypeOK, TablesTyped
<1>2. CASE MainWritesBatches
  <2>1. CASE MarkUploadQueued
    BY <1>1, <2>1 DEF MarkUploadQueued, MarkUploadQueuedWith, BatchRow
  <2>2. CASE PauseBatches
    BY <1>1, <2>2 DEF PauseBatches, BatchRow
  <2>3. CASE MarkBatchApplied
    BY <1>1, <2>3 DEF MarkBatchApplied, BatchRow
  <2>4. CASE MarkBatchFailed
    BY <1>1, <2>4 DEF MarkBatchFailed, BatchRow
  <2>5. ASSUME NEW c \in Batches, NEW sel \in SUBSET Media, CreateBatch(c, sel)
        PROVE  CreateBatch(b, sel)
    <3>1. b = c
      BY <1>1, <2>5 DEF CreateBatch, CreateBatchBeside
    <3>2. QED
      BY <2>5, <3>1
  <2>6. QED
    BY <1>2, <2>1, <2>2, <2>3, <2>4, <2>5 DEF MainWritesBatches
<1>3. CASE SettleBatch
  <2>1. /\ worker.pc = "batch" /\ worker.result \in {"verify_pending", "cleanup_deferred"}
        /\ batches' = [batches EXCEPT ![Job.batch].state = worker.result]
    BY <1>3 DEF SettleBatch, SettleBatchWith, TypeInv, TypeOK, WorkerTyped, WorkerOK, Results
  <2>2. worker.job \in JobIds /\ Used(worker.job)
    BY <2>1 DEF TypeInv, TypeOK, WorkerTyped, WorkerOK
  <2>3. b = Job.batch
    BY <1>1, <2>1
  <2>4. batches'[b].state = worker.result
    BY <1>1, <2>1, <2>3 DEF BatchRow
  <2>5. QED
    BY <2>1, <2>2, <2>3, <2>4 DEF HasUpload, Job
<1>4. CASE CleanupThread
  <2>1. CASE ApplyCleanup
    BY <1>1, <2>1 DEF ApplyCleanup, BatchesOf, BatchRow
  <2>2. CASE UNCHANGED batches
    BY <2>2
  <2>3. QED
    BY <1>4, <2>1, <2>2 DEF CleanupThread, RequestCleanup, ClaimCleanup
<1>5. CASE UNCHANGED batches
  BY <1>5
<1>6. QED
  BY <1>2, <1>3, <1>4, <1>5, Steps, MainFrames, WorkerFrames, OtherFrames

\* A batch becomes held when it is made, never again later.
LEMMA HeldBy ==
  ASSUME FilesInv, [Next]_vars, NEW b \in Batches, Held(b)'
  PROVE  Held(b) \/ \E sel \in SUBSET Media : CreateBatch(b, sel)
<1>1. TypeInv /\ HandsHeld /\ UploadedHaveJob
  BY DEF FilesInv, BatchInv
<1>2. CASE HasUpload(b)' /\ ~HasUpload(b)
  <2>1. main.pc = "enqueue" /\ b = main.batch
    BY <1>1, <1>2, NewUpload
  <2>2. QED
    BY <1>1, <2>1 DEF HandsHeld, TypeInv, MainOK
<1>3. CASE HasUpload(b)
  BY <1>3 DEF Held
<1>4. CASE batches'[b].state = batches[b].state /\ batches'[b].state \in LiveStates
  BY <1>4 DEF Held
<1>5. CASE batches'[b].state # batches[b].state /\ batches'[b].state \in LiveStates
  <2>1. CASE main.pc = "mark" /\ b = main.batch
    BY <1>1, <2>1 DEF HandsHeld, TypeInv, MainOK
  <2>2. CASE main.pc = "applied" /\ b = main.batch
    BY <1>1, <2>2 DEF HandsHeld
  <2>3. CASE HasUpload(b) \/ batches[b].state = "cleanup_deferred"
    BY <2>3 DEF Held, LiveStates, InflightStates
  <2>4. QED
    BY <1>1, <1>5, <2>1, <2>2, <2>3, StateBy DEF LiveStates, InflightStates
<1>6. QED
  BY <1>2, <1>3, <1>4, <1>5 DEF Held

\* A batch that is held stays so until the main thread ends its work on it.
LEMMA HeldKept ==
  ASSUME FilesInv, [Next]_vars, main' # Idle, NEW b \in Batches, Held(b)
  PROVE  Held(b)'
<1>1. TypeInv
  BY DEF FilesInv, BatchInv
<1>2. CASE HasUpload(b)
  BY <1>1, <1>2, HasUploadKept DEF Held
<1>3. CASE batches[b].state \in LiveStates
  <2>1. CASE batches'[b].state = batches[b].state
    BY <1>3, <2>1 DEF Held
  <2>2. ASSUME NEW sel \in SUBSET Media, CreateBatch(b, sel) PROVE Held(b)'
    BY <1>3, <2>2 DEF CreateBatch, CreateBatchBeside, LiveStates, InflightStates
  <2>3. CASE batches'[b].state \in {"upload_queued", "downloading", "verify_pending",
                                    "cleanup_deferred", "cleanup_requested"}
    BY <2>3 DEF Held, LiveStates, InflightStates
  <2>4. QED
    BY <1>1, <2>1, <2>2, <2>3, StateBy
<1>4. QED
  BY <1>2, <1>3 DEF Held

LEMMA UploadedStep == ASSUME FilesInv, [Next]_vars PROVE UploadedHaveJob'
<1>1. TypeInv /\ UploadedHaveJob
  BY DEF FilesInv, BatchInv
<1>2. ASSUME NEW b \in Batches, batches'[b].state \in PastDownload PROVE HasUpload(b)'
  <2>1. CASE batches'[b].state = batches[b].state
    BY <1>1, <1>2, <2>1, HasUploadKept DEF UploadedHaveJob
  <2>2. CASE main.pc = "mark" /\ b = main.batch
    BY <1>1, <2>2, HasUploadKept DEF UploadedHaveJob
  <2>3. CASE HasUpload(b)
    BY <1>1, <2>3, HasUploadKept
  <2>4. CASE batches[b].state = "cleanup_deferred"
    BY <1>1, <2>4, HasUploadKept DEF UploadedHaveJob, PastDownload
  <2>5. ASSUME NEW sel \in SUBSET Media, CreateBatch(b, sel) PROVE FALSE
    BY <1>1, <1>2, <2>5
    DEF CreateBatch, CreateBatchBeside, PastDownload, TypeInv, TypeOK, TablesTyped
  <2>6. QED
    BY <1>1, <1>2, <2>1, <2>2, <2>3, <2>4, <2>5, StateBy DEF PastDownload
<1>3. ASSUME main'.pc = "mark" PROVE HasUpload(main.batch)' /\ main'.batch = main.batch
  <2>1. CASE UNCHANGED main
    BY <1>1, <1>3, <2>1, HasUploadKept DEF UploadedHaveJob, TypeInv, TypeOK, MainTyped
  <2>2. CASE Inserts
    <3>1. PICK j \in JobIds : EnqueueBatchUpload(j)
      BY <2>2 DEF Inserts
    <3>2. jobs'[j] = JobRow("upload", 40, main.torrent, main.batch, batches[main.batch].files)
      BY <1>1, <3>1 DEF EnqueueBatchUpload, TypeInv, TypeOK, TablesTyped
    <3>3. Used(j)' /\ jobs'[j].batch = main.batch
      BY <3>2 DEF Used, JobRow
    <3>4. main'.batch = main.batch
      BY <2>2 DEF Inserts
    <3>5. QED
      BY <3>3, <3>4 DEF HasUpload
  <2>3. CASE ProbeFiles
    BY <1>1, <1>3, <2>3 DEF ProbeFiles, TypeInv, TypeOK, MainTyped
  <2>4. CASE main' # main
    BY <1>1, <1>3, <2>2, <2>3, <2>4, MainMoves
    DEF NextRow, Deselects, Marks, GoesCreate, Creates, Applies
  <2>5. QED
    BY <2>1, <2>4
<1>4. QED
  BY <1>2, <1>3 DEF UploadedHaveJob

LEMMA HandsStep == ASSUME FilesInv, [Next]_vars PROVE HandsHeld'
<1>1. TypeInv /\ HandsHeld
  BY DEF FilesInv, BatchInv
<1>2. main.rows \subseteq Batches /\ main.pc \in MainSteps
  BY <1>1 DEF TypeInv, TypeOK, MainTyped
<1>3. ASSUME main'.pc \notin {"queue", "enqueue", "mark", "apply", "applied", "apply_failed"}
      PROVE  HandsHeld'
  BY <1>3 DEF HandsHeld
<1>4. ASSUME NEW b \in Batches, Held(b), main'.pc # "idle" PROVE Held(b)'
  BY <1>4, HeldKept DEF Idle
<1>5. ASSUME main.pc \in {"queue", "enqueue", "mark"}, main'.rows \subseteq main.rows,
             main'.pc \in {"queue", "enqueue", "mark"}
      PROVE  HandsHeld'
  BY <1>1, <1>2, <1>4, <1>5 DEF HandsHeld
<1>6. ASSUME main.pc \in {"apply", "applied", "apply_failed"}, main'.batch = main.batch,
             main'.pc \in {"apply", "applied", "apply_failed"}
      PROVE  HandsHeld'
  <2>1. PICK b \in Batches : b = main.batch /\ Held(b)
    BY <1>1, <1>6 DEF HandsHeld, TypeInv, TypeOK, MainTyped
  <2>2. Held(b)' /\ main'.batch = b
    BY <1>4, <1>6, <2>1
  <2>3. QED
    BY <1>6, <2>2 DEF HandsHeld, Held, HasUpload
<1>7. CASE ProbeFiles
  <2>1. /\ main'.pc = "queue" /\ UNCHANGED batches
        /\ main'.rows = BatchesOf(main.torrent, {"downloading"})
    BY <1>1, <1>7 DEF ProbeFiles, db, TypeInv, TypeOK, MainTyped
  <2>2. ASSUME NEW b \in main'.rows PROVE b \in Batches /\ batches'[b].state = "downloading"
    BY <2>1, <2>2 DEF BatchesOf
  <2>3. QED
    BY <2>1, <2>2 DEF HandsHeld, Held, LiveStates, InflightStates
<1>8. CASE Creates
  <2>1. PICK b \in Batches, sel \in SUBSET Media :
           CreateBatch(b, sel) /\ main'.pc = "apply" /\ main'.batch = b
    BY <1>8 DEF Creates
  <2>2. batches'[b].state = "reserved"
    BY <1>1, <2>1 DEF CreateBatch, CreateBatchBeside, TypeInv, TypeOK, TablesTyped
  <2>3. QED
    BY <2>1, <2>2 DEF HandsHeld, Held, LiveStates, InflightStates
<1>9. CASE UNCHANGED main
  BY <1>3, <1>5, <1>6, <1>9
<1>10. CASE Deselects \/ NextRow \/ Inserts \/ Marks
  BY <1>3, <1>5, <1>10 DEF Deselects, ReadyRow, NextRow, Inserts, Marks
<1>11. CASE GoesCreate \/ Applies
  BY <1>3, <1>6, <1>11 DEF GoesCreate, Applies
<1>12. CASE main'.pc \in {"idle", "probe", "probe_full", "enqueue_full", "pause", "restart"}
  BY <1>3, <1>12
<1>13. CASE main' # main
  BY <1>1, <1>7, <1>8, <1>10, <1>11, <1>12, <1>13, MainMoves
<1>14. QED
  BY <1>9, <1>13

LEMMA SeenStep == ASSUME FilesInv, [Next]_vars PROVE UploadsSeen'
<1>1. TypeInv /\ UploadsSeen
  BY DEF FilesInv, BatchInv
<1>2. ASSUME main'.pc \notin Listed PROVE UploadsSeen'
  BY <1>2 DEF UploadsSeen
<1>3. ASSUME main.pc \in Listed, SameTick,
             \A j \in JobIds : Used(j)' /\ ~Used(j) => jobs'[j].batch = NoBatch
      PROVE  UploadsSeen'
  BY <1>1, <1>3, JobKept DEF UploadsSeen, SameTick, Used
<1>4. ASSUME UNCHANGED jobs PROVE \A j \in JobIds : Used(j)' /\ ~Used(j) => jobs'[j].batch = NoBatch
  BY <1>4 DEF Used
<1>5. CASE UNCHANGED main
  <2>1. ASSUME NEW j \in JobIds, Used(j)', ~Used(j) PROVE jobs'[j].batch = NoBatch
    <3>1. ~EnqueueBatchUpload(j)
      BY <1>1, <1>5 DEF EnqueueBatchUpload, TypeInv, TypeOK, MainTyped
    <3>2. CASE EnqueueFullUpload(j)
      BY <1>1, <3>2 DEF EnqueueFullUpload, JobRow, TypeInv, TypeOK, TablesTyped
    <3>3. ASSUME NEW t \in Torrents, RequestCleanup(t, j) PROVE jobs'[j].batch = NoBatch
      BY <1>1, <3>3 DEF RequestCleanup, JobRow, TypeInv, TypeOK, TablesTyped
    <3>4. QED
      BY <1>1, <2>1, <3>1, <3>2, <3>3, NewJob
  <2>2. QED
    BY <1>2, <1>3, <1>5, <2>1 DEF SameTick
<1>6. CASE ProbeFiles
  <2>1. /\ main'.torrent = main.torrent /\ main'.seen = have[main.torrent]
        /\ ~Gone(main.torrent) /\ UNCHANGED jobs
    BY <1>1, <1>6 DEF ProbeFiles, Gone, db, TypeInv, TypeOK, MainTyped
  <2>2. BatchUploadsComplete
    BY DEF FilesInv, BatchInv
  <2>3. QED
    BY <2>1, <2>2 DEF BatchUploadsComplete, UploadsSeen, Used, Gone
<1>7. CASE Inserts
  <2>1. PICK j \in JobIds : EnqueueBatchUpload(j)
    BY <1>7 DEF Inserts
  <2>2. \A i \in JobIds \ {j} : jobs'[i] = jobs[i]
    BY <1>1, <2>1 DEF EnqueueBatchUpload, TypeInv, TypeOK, TablesTyped
  <2>3. jobs'[j].files \subseteq main.seen
    BY <1>1, <2>1 DEF EnqueueBatchUpload, JobRow, FilesInv, BatchInv, ListComplete,
       TypeInv, TypeOK, TablesTyped
  <2>4. main.pc \in Listed /\ SameTick
    BY <1>7 DEF Inserts, Listed
  <2>5. QED
    BY <1>1, <2>2, <2>3, <2>4 DEF UploadsSeen, SameTick, Used
<1>8. ASSUME main' # main, NextRow \/ Deselects \/ Marks \/ GoesCreate PROVE UploadsSeen'
  <2>1. main.pc \in Listed \ {"enqueue"} /\ SameTick
    BY <1>8 DEF NextRow, Deselects, ReadyRow, Marks, GoesCreate, Listed
  <2>2. UNCHANGED jobs
    BY <1>8, <2>1, MainKeepsJobs DEF MainInserts, EnqueueBatchUpload, EnqueueFullUpload, Listed
  <2>3. QED
    BY <1>3, <1>4, <2>1, <2>2
<1>9. CASE Creates \/ Applies
  BY <1>2, <1>9 DEF Creates, Applies, Listed
<1>10. CASE main'.pc \in {"idle", "probe", "probe_full", "enqueue_full", "pause", "restart"}
  BY <1>2, <1>10 DEF Listed
<1>11. CASE main' # main
  BY <1>1, <1>6, <1>7, <1>8, <1>9, <1>10, <1>11, MainMoves
<1>12. QED
  BY <1>5, <1>11

LEMMA DisjointStep == ASSUME FilesInv, [Next]_vars PROVE HeldDisjoint'
<1>1. TypeInv /\ HeldDisjoint
  BY DEF FilesInv, BatchInv
<1> SUFFICES ASSUME NEW b \in Batches, NEW c \in Batches, b # c,
                    batches'[b].torrent = batches'[c].torrent, Held(b)', Held(c)'
             PROVE  batches'[b].files \cap batches'[c].files = {}
  BY DEF HeldDisjoint, Held, HasUpload
<1>2. ASSUME NEW x \in Batches, Held(x) PROVE Exists(x)
  <2>1. CASE HasUpload(x)
    BY <1>1, <2>1 DEF HasUpload, TypeInv, TablesOK, OfBatch, Batches, NoBatch
  <2>2. CASE batches[x].state \in LiveStates
    BY <2>2 DEF Exists, LiveStates, InflightStates
  <2>3. QED
    BY <1>2, <2>1, <2>2 DEF Held
<1>3. CASE Held(b) /\ Held(c)
  BY <1>1, <1>2, <1>3, BatchKept DEF HeldDisjoint
<1>4. ASSUME NEW x \in Batches, NEW y \in Batches, x # y, NEW sel \in SUBSET Media,
             CreateBatch(x, sel), Held(y), batches'[x].torrent = batches'[y].torrent
      PROVE  batches'[x].files \cap batches'[y].files = {}
  <2>1. /\ main.pc = "create" /\ sel \cap (main.seen \cup InflightFiles) = {}
        /\ batches' = [batches EXCEPT ![x] = [torrent |-> main.torrent, files |-> sel,
                                             state |-> "reserved"]]
    BY <1>4 DEF CreateBatch, CreateBatchBeside
  <2>2. /\ batches'[x].files = sel /\ batches'[y] = batches[y]
        /\ batches[y].torrent = main.torrent
    BY <1>1, <1>4, <2>1 DEF TypeInv, TypeOK, TablesTyped
  <2>3. CASE batches[y].state \in InflightStates
    BY <2>1, <2>2, <2>3 DEF InflightFiles, FilesOf, BatchesOf
  <2>4. CASE HasUpload(y)
    <3>1. PICK j \in JobIds : Used(j) /\ jobs[j].batch = y
      BY <2>4 DEF HasUpload
    <3>2. jobs[j].batch # NoBatch
      BY <3>1 DEF Batches, NoBatch
    <3>3. batches[y].torrent = jobs[j].torrent /\ batches[y].files = jobs[j].files
      BY <1>1, <3>1, <3>2 DEF TypeInv, TablesOK, OfBatch
    <3>4. jobs[j].files \subseteq main.seen
      BY <2>1, <2>2, <3>1, <3>2, <3>3 DEF FilesInv, UploadsSeen, Listed
    <3>5. QED
      BY <2>1, <2>2, <3>3, <3>4
  <2>5. CASE batches[y].state = "cleanup_requested"
    BY <2>4, <2>5 DEF FilesInv, UploadedHaveJob, PastDownload
  <2>6. QED
    BY <1>4, <2>3, <2>4, <2>5 DEF Held, LiveStates
<1>5. ASSUME NEW x \in Batches, NEW y \in Batches, x # y,
             NEW sel \in SUBSET Media, NEW sel2 \in SUBSET Media,
             CreateBatch(x, sel), CreateBatch(y, sel2)
      PROVE  FALSE
  <2>1. /\ batches[x].state = "absent" /\ \A d \in 1..(x - 1) : batches[d].state # "absent"
        /\ batches[y].state = "absent" /\ \A d \in 1..(y - 1) : batches[d].state # "absent"
    BY <1>5 DEF CreateBatch, CreateBatchBeside
  <2>2. x \notin 1..(y - 1) /\ y \notin 1..(x - 1)
    BY <2>1
  <2>3. x \in Int /\ y \in Int /\ x >= 1 /\ y >= 1
    BY PipelineAssumption DEF Batches
  <2>4. QED
    BY <1>5, <2>2, <2>3
<1>6. QED
  BY <1>3, <1>4, <1>5, HeldBy

LEMMA FilesStep == FilesInv /\ [Next]_vars => FilesInv'
<1> SUFFICES ASSUME FilesInv, [Next]_vars PROVE FilesInv'
  OBVIOUS
<1>1. BatchInv'
  BY BatchStep DEF FilesInv
<1>2. QED
  BY <1>1, DisjointStep, UploadedStep, HandsStep, SeenStep DEF FilesInv

\* Whatever crashes, lapses or is put back, no file belongs to two batches that
\* are being downloaded, uploaded or cleaned up: neither a file list older
\* than an upload, nor an upload that brings a paused batch back, lets a file
\* be selected twice.
THEOREM FilesHaveOneBatch == Spec => []LiveBatchesDisjoint
<1>1. FilesInv => LiveBatchesDisjoint
  BY DEF FilesInv, HeldDisjoint, LiveBatchesDisjoint, Held, LiveStates
<1>2. QED
  BY FilesInit, FilesStep, <1>1, PTL DEF Spec


-----------------------------------------------------------------------------
(* Jobs.                                                                   *)

\* The two threads hold jobs of different kinds, so neither writes the job of
\* the other.
CleanerRequests == cleaner # NoJob => jobs[cleaner].kind = "cleanup_request"
HandsInv == FullInv /\ CleanerRequests

LEMMA HandsInit == Init => HandsInv
  BY FullInit DEF Init, HandsInv, CleanerRequests

LEMMA HandsInvStep == HandsInv /\ [Next]_vars => HandsInv'
<1> SUFFICES ASSUME HandsInv, [Next]_vars PROVE HandsInv'
  OBVIOUS
<1>1. TypeInv /\ FullInv /\ CleanerRequests
  BY DEF HandsInv, FullInv
<1>2. CASE UNCHANGED cleaner
  <2>1. cleaner # NoJob => cleaner \in JobIds /\ Used(cleaner)
    BY <1>1 DEF TypeInv, TypeOK, OthersTyped, TablesOK
  <2>2. CleanerRequests'
    BY <1>1, <1>2, <2>1, JobKept DEF CleanerRequests
  <2>3. QED
    BY <1>1, <2>2, FullStep DEF HandsInv
<1>3. ASSUME NEW j \in JobIds, ClaimCleanup(j) PROVE CleanerRequests'
  <2>1. jobs' = [jobs EXCEPT ![j] = Claimed(jobs[j])] /\ cleaner' = j
    BY <1>3 DEF ClaimCleanup
  <2>2. jobs[j].kind = "cleanup_request" /\ jobs \in [JobIds -> JobRows]
    BY <1>1, <1>3 DEF ClaimCleanup, IsNextToClaim, IsFirst, TypeInv, TypeOK, TablesTyped
  <2>3. jobs'[j].kind = "cleanup_request"
    BY <2>1, <2>2 DEF Claimed, JobRows
  <2>4. QED
    BY <2>1, <2>3 DEF CleanerRequests
<1>4. ASSUME ApplyCleanup \/ Crash PROVE CleanerRequests'
  <2>1. cleaner' = NoJob
    BY <1>4 DEF ApplyCleanup, Crash
  <2>2. QED
    BY <2>1 DEF CleanerRequests
<1>5. CASE CleanupThread
  <2>1. CleanerRequests'
    BY <1>2, <1>3, <1>4, <1>5 DEF CleanupThread, RequestCleanup, threads, HandsInv
  <2>2. QED
    BY <1>1, <2>1, FullStep DEF HandsInv
<1>6. CASE Crash
  BY <1>1, <1>4, <1>6, FullStep DEF HandsInv
<1>7. QED
  BY <1>2, <1>5, <1>6, Steps, MainFrames, WorkerFrames, OtherFrames

\* Who changes the state of a job, and to what.
Ready == {"queued", "verify_pending", "retry_wait"}
Verified == {"done", "cleanup_deferred"}
Inserted(j) == ~Used(j) /\ jobs'[j].state = "queued"
Taken(j) == jobs[j].state \in Ready /\ jobs'[j].state = "running"
SettledByWorker(j) ==
  /\ RetryUpload \/ (SettleJob /\ worker.pc = "settle")
  /\ worker.pc \in {"retry", "settle"} /\ j = worker.job
  /\ jobs'[j].state \in {"retry_wait", "verify_pending", "cleanup_deferred", "done"}
SettledByCleaner(j) ==
  /\ ApplyCleanup /\ cleaner # NoJob /\ j = cleaner
  /\ jobs'[j].state \in {"blocked", "done"}
PutBack(j) == Reconciles /\ jobs'[j].state \in {"retry_wait", "failed"}

LEMMA JobStateBy ==
  ASSUME TypeInv, [Next]_vars, NEW j \in JobIds, jobs'[j].state # jobs[j].state
  PROVE  Inserted(j) \/ Taken(j) \/ SettledByWorker(j) \/ SettledByCleaner(j) \/ PutBack(j)
<1> DEFINE Goal == Inserted(j) \/ Taken(j) \/ SettledByWorker(j) \/ SettledByCleaner(j) \/ PutBack(j)
<1>0. jobs \in [JobIds -> JobRows] /\ jobs[j] \in JobRows
  BY DEF TypeInv, TypeOK, TablesTyped
<1>1. ASSUME NEW i \in JobIds, jobs' = [jobs EXCEPT ![i] = Claimed(jobs[i])],
             jobs[i].state \in Ready
      PROVE  Taken(j)
  <2>1. i = j
    BY <1>0, <1>1
  <2>2. QED
    BY <1>0, <1>1, <2>1 DEF Taken, Claimed, JobRows
<1>2. CASE MainInserts
  BY <1>0, <1>2 DEF MainInserts, EnqueueBatchUpload, EnqueueFullUpload, IsNextId, JobRow,
     Inserted, Used
<1>3. CASE WorkerWritesJobs
  <2>1. ASSUME NEW i \in JobIds, ClaimUpload(i) PROVE Taken(j)
    BY <1>1, <2>1 DEF ClaimUpload, IsNextToClaim, IsFirst, Ready
  <2>2. CASE RetryUpload
    <3>1. /\ worker.pc = "retry"
          /\ jobs' = [jobs EXCEPT ![worker.job] = WithState(jobs[worker.job], "retry_wait")]
      BY <2>2 DEF RetryUpload
    <3>2. j = worker.job
      BY <1>0, <3>1
    <3>3. jobs'[j].state = "retry_wait"
      BY <1>0, <3>1, <3>2 DEF WithState, JobRows
    <3>4. QED
      BY <2>2, <3>1, <3>2, <3>3 DEF SettledByWorker
  <2>3. CASE SettleJob
    <3>1. /\ worker.pc = "settle" /\ worker.result \in Results \ {"none"}
          /\ jobs' = [jobs EXCEPT ![worker.job] = WithState(jobs[worker.job], worker.result)]
      BY <2>3 DEF SettleJob, TypeInv, TypeOK, WorkerTyped, WorkerOK
    <3>2. j = worker.job
      BY <1>0, <3>1
    <3>3. jobs'[j].state = worker.result
      BY <1>0, <3>1, <3>2 DEF WithState, JobRows
    <3>4. QED
      BY <2>3, <3>1, <3>2, <3>3 DEF SettledByWorker, Results
  <2>4. QED
    BY <1>3, <2>1, <2>2, <2>3 DEF WorkerWritesJobs
<1>4. CASE CleanupThread
  <2>1. ASSUME NEW t \in Torrents, NEW i \in JobIds, RequestCleanup(t, i) PROVE Inserted(j)
    BY <1>0, <2>1 DEF RequestCleanup, IsNextId, JobRow, Inserted, Used
  <2>2. ASSUME NEW i \in JobIds, ClaimCleanup(i) PROVE Taken(j)
    BY <1>1, <2>2 DEF ClaimCleanup, IsNextToClaim, IsFirst, Ready
  <2>3. CASE ApplyCleanup
    <3>1. PICK st \in {"blocked", "done"} :
             jobs' = [jobs EXCEPT ![cleaner] = WithState(jobs[cleaner], st)]
      BY <2>3 DEF ApplyCleanup
    <3>2. j = cleaner
      BY <1>0, <3>1
    <3>3. jobs'[j].state = st
      BY <1>0, <3>1, <3>2 DEF WithState, JobRows
    <3>4. QED
      BY <2>3, <3>2, <3>3 DEF SettledByCleaner, ApplyCleanup
  <2>4. QED
    BY <1>4, <2>1, <2>2, <2>3 DEF CleanupThread
<1>5. CASE Reconciles
  <2>1. CASE ReconcileWrites
    BY <1>0, <1>5, <2>1 DEF ReconcileWrites, Reconciled, WithState, JobRows, PutBack
  <2>2. CASE UNCHANGED jobs
    BY <2>2
  <2>3. QED
    BY <1>5, <2>1, <2>2 DEF Reconciles, ReconcileReads, db
<1>6. CASE UNCHANGED jobs
  BY <1>6
<1>7. QED
  BY <1>2, <1>3, <1>4, <1>5, <1>6, Steps, MainFrames, WorkerFrames, OtherFrames

\* How the upload thread's record changes.
Copies == /\ worker.pc \in {"copy", "delete"} /\ worker'.pc \in {"delete", "retry", "settle"}
          /\ worker'.job = worker.job /\ UNCHANGED jobs
Claims == \E j \in JobIds : /\ worker.pc = "idle" /\ worker'.pc = "copy" /\ worker'.job = j
                            /\ jobs[j].kind = "upload" /\ jobs'[j].state = "running"
Settles == /\ worker.pc = "settle" /\ worker'.pc \in {"batch", "media"}
           /\ worker'.job = worker.job /\ worker'.result = worker.result
           /\ jobs'[worker.job].state = worker.result
SettlesBatch == /\ worker.pc = "batch" /\ worker'.pc = "media" /\ UNCHANGED jobs
                /\ worker'.job = worker.job /\ worker'.result = worker.result
Rests == /\ worker'.pc = "idle"
         /\ worker.pc = "retry" \/ (worker.pc = "media" /\ EnqueueMedia) \/ Crash

LEMMA WorkerMoves ==
  ASSUME TypeInv, [Next]_vars, worker' # worker
  PROVE  Copies \/ Claims \/ Settles \/ SettlesBatch \/ Rests
<1>0. /\ worker \in [pc : WorkerSteps, job : JobIds \cup {NoJob}, result : Results]
      /\ jobs \in [JobIds -> JobRows]
  BY DEF TypeInv, TypeOK, TablesTyped, WorkerTyped
<1>1. CASE WorkerFails
  BY <1>0, <1>1, WorkerFrames DEF WorkerFails, CopyMismatch, CopyRaises, DeleteRaises, Copies
<1>2. CASE WorkerWritesJobs
  <2>1. ASSUME NEW j \in JobIds, ClaimUpload(j) PROVE Claims
    <3>1. /\ worker.pc = "idle" /\ worker' = [pc |-> "copy", job |-> j, result |-> "none"]
          /\ jobs' = [jobs EXCEPT ![j] = Claimed(jobs[j])] /\ jobs[j].kind = "upload"
      BY <2>1 DEF ClaimUpload, IsNextToClaim, IsFirst
    <3>2. jobs'[j].state = "running"
      BY <1>0, <3>1 DEF Claimed, JobRows
    <3>3. QED
      BY <3>1, <3>2 DEF Claims
  <2>2. CASE RetryUpload
    BY <2>2 DEF RetryUpload, Resting, Rests
  <2>3. CASE SettleJob
    <3>1. worker.job \in JobIds
      BY <2>3 DEF SettleJob, TypeInv, TypeOK, WorkerTyped
    <3>2. jobs'[worker.job].state = worker.result
      BY <1>0, <2>3, <3>1 DEF SettleJob, WithState, JobRows
    <3>3. QED
      BY <1>0, <2>3, <3>2 DEF SettleJob, Settles
  <2>4. QED
    BY <1>2, <2>1, <2>2, <2>3 DEF WorkerWritesJobs
<1>3. CASE CopyVerified \/ DeleteTorrent
  BY <1>0, <1>3, WorkerFrames DEF CopyVerified, DeleteTorrent, Copies
<1>4. CASE SettleBatch
  BY <1>0, <1>4, WorkerFrames DEF SettleBatch, SettleBatchWith, SettlesBatch
<1>5. CASE EnqueueMedia \/ Crash
  BY <1>5 DEF EnqueueMedia, EnqueueMediaAfter, Crash, Resting, Rests
<1>6. QED
  BY <1>1, <1>2, <1>3, <1>4, <1>5, Steps, MainFrames, WorkerFrames, OtherFrames

-----------------------------------------------------------------------------
(* Uploads. *)

UploadOf(j, t) == Used(j) /\ jobs[j].kind = "upload" /\ jobs[j].torrent = t

\* As long as no reconciliation has begun, nothing gives up a job, what is
\* inserted once is not inserted again, and a job in hand is running.
NoneGivenUp == recon = NoRecon /\ \A j \in JobIds : jobs[j].state # "failed"
EnqueueAlone ==
  main.pc = "enqueue"
    => \A j \in JobIds : UploadOf(j, main.torrent) => jobs[j].batch \notin {NoBatch, main.batch}
OneUpload ==
  \A i, j \in JobIds, t \in Torrents :
    i # j /\ UploadOf(i, t) /\ UploadOf(j, t)
      => jobs[i].batch # jobs[j].batch /\ jobs[i].batch # NoBatch
HandsRunning ==
  /\ worker.pc \in {"copy", "delete", "retry", "settle"} => Job.state = "running"
  /\ cleaner # NoJob => jobs[cleaner].state = "running"

Undisturbed == NoneGivenUp /\ EnqueueAlone /\ OneUpload /\ HandsRunning
UploadsInv == HandsInv /\ (reconciles = 0 => Undisturbed)

LEMMA UploadsInit == Init => UploadsInv
<1> SUFFICES ASSUME Init PROVE UploadsInv
  OBVIOUS
<1>1. NoneGivenUp /\ OneUpload
  BY DEF Init, NoneGivenUp, OneUpload, UploadOf, Used, NoJobRow
<1>2. EnqueueAlone /\ HandsRunning
  BY DEF Init, EnqueueAlone, HandsRunning, Idle, Resting
<1>3. QED
  BY <1>1, <1>2, HandsInit DEF UploadsInv, Undisturbed

\* No step before the first reconciliation is one of a reconciliation.
LEMMA Unreconciled ==
  ASSUME UploadsInv, [Next]_vars, reconciles' = 0
  PROVE  TypeInv /\ Undisturbed /\ ~Reconciles
<1>1. TypeInv /\ reconciles \in Nat
  BY PipelineAssumption DEF UploadsInv, HandsInv, FullInv, TypeInv, TypeOK, OthersTyped
<1>2. ASSUME NEW expired \in SUBSET JobIds, ReconcileReads(expired) PROVE FALSE
  BY <1>1, <1>2 DEF ReconcileReads
<1>3. reconciles = 0
  BY <1>2, Steps, MainFrames, WorkerFrames, OtherFrames DEF Reconciles, ReconcileWrites, bounds
<1>4. Undisturbed
  BY <1>3 DEF UploadsInv
<1>5. ~ReconcileWrites
  BY <1>4 DEF ReconcileWrites, Undisturbed, NoneGivenUp, NoRecon
<1>6. QED
  BY <1>1, <1>2, <1>4, <1>5 DEF Reconciles

LEMMA NoneGivenUpStep == ASSUME UploadsInv, [Next]_vars, reconciles' = 0 PROVE NoneGivenUp'
<1>1. TypeInv /\ NoneGivenUp /\ ~Reconciles
  BY Unreconciled DEF Undisturbed
<1>2. UNCHANGED recon
  BY <1>1, Steps, MainFrames, WorkerFrames, OtherFrames
<1>3. ASSUME NEW j \in JobIds, jobs'[j].state # jobs[j].state PROVE jobs'[j].state # "failed"
  BY <1>1, <1>3, JobStateBy DEF Inserted, Taken, SettledByWorker, SettledByCleaner, PutBack
<1>4. QED
  BY <1>1, <1>2, <1>3 DEF NoneGivenUp

LEMMA HandsRunningStep == ASSUME UploadsInv, [Next]_vars, reconciles' = 0 PROVE HandsRunning'
<1>1. TypeInv /\ HandsRunning /\ ~Reconciles /\ WorkerUploads /\ CleanerRequests
  BY Unreconciled DEF Undisturbed, UploadsInv, HandsInv, FullInv
<1>2. ASSUME NEW j \in JobIds, jobs[j].state = "running", jobs'[j].state # "running"
      PROVE  SettledByWorker(j) \/ SettledByCleaner(j)
  BY <1>1, <1>2, JobStateBy DEF Inserted, Taken, PutBack, Used, Ready
<1>3. worker'.pc \in {"copy", "delete", "retry", "settle"} => jobs'[worker'.job].state = "running"
  <2>1. ASSUME worker.pc \in {"copy", "delete", "retry", "settle"}, UNCHANGED worker
        PROVE  jobs'[worker.job].state = "running"
    <3>1. worker.job \in JobIds /\ Job.state = "running" /\ Job.kind = "upload"
      BY <1>1, <2>1 DEF HandsRunning, WorkerUploads, TypeInv, TypeOK, WorkerTyped
    <3>2. ~SettledByWorker(worker.job)
      BY <1>1, <2>1
      DEF SettledByWorker, RetryUpload, SettleJob, Resting, TypeInv, TypeOK, WorkerTyped
    <3>3. ~SettledByCleaner(worker.job)
      BY <1>1, <3>1 DEF SettledByCleaner, CleanerRequests, Job
    <3>4. QED
      BY <1>2, <3>1, <3>2, <3>3 DEF Job
  <2>2. CASE Copies
    BY <1>1, <2>2 DEF Copies, HandsRunning, Job
  <2>3. CASE Claims
    BY <2>3 DEF Claims
  <2>4. CASE worker' # worker
    BY <1>1, <2>2, <2>3, <2>4, WorkerMoves DEF Settles, SettlesBatch, Rests
  <2>5. QED
    BY <2>1, <2>4
<1>4. cleaner' # NoJob => jobs'[cleaner'].state = "running"
  <2>1. ASSUME cleaner # NoJob, UNCHANGED cleaner PROVE jobs'[cleaner].state = "running"
    <3>1. /\ cleaner \in JobIds /\ jobs[cleaner].state = "running"
          /\ jobs[cleaner].kind = "cleanup_request"
      BY <1>1, <2>1 DEF HandsRunning, CleanerRequests, TypeInv, TypeOK, OthersTyped
    <3>2. ~SettledByWorker(cleaner)
      BY <1>1, <3>1 DEF SettledByWorker, WorkerUploads, Job
    <3>3. ~SettledByCleaner(cleaner)
      BY <2>1 DEF SettledByCleaner, ApplyCleanup
    <3>4. QED
      BY <1>2, <3>1, <3>2, <3>3
  <2>2. ASSUME NEW j \in JobIds, ClaimCleanup(j) PROVE jobs'[cleaner'].state = "running"
    <3>1. cleaner' = j /\ jobs' = [jobs EXCEPT ![j] = Claimed(jobs[j])]
      BY <2>2 DEF ClaimCleanup
    <3>2. jobs'[j].state = "running"
      BY <1>1, <3>1 DEF Claimed, JobRows, TypeInv, TypeOK, TablesTyped
    <3>3. QED
      BY <3>1, <3>2
  <2>3. CASE ApplyCleanup \/ Crash
    BY <2>3 DEF ApplyCleanup, Crash
  <2>4. CASE CleanupThread
    BY <2>1, <2>2, <2>3, <2>4 DEF CleanupThread, RequestCleanup, threads
  <2>5. QED
    BY <2>1, <2>3, <2>4, Steps, MainFrames, WorkerFrames, OtherFrames
<1>5. QED
  BY <1>3, <1>4 DEF HandsRunning, Job

LEMMA EnqueueAloneStep == ASSUME UploadsInv, [Next]_vars, reconciles' = 0 PROVE EnqueueAlone'
<1>1. TypeInv /\ EnqueueAlone /\ NoneGivenUp /\ PathsApart
  BY Unreconciled DEF Undisturbed, UploadsInv, HandsInv, FullInv
<1>2. CASE main'.pc # "enqueue"
  BY <1>2 DEF EnqueueAlone
<1>3. ASSUME UNCHANGED main, main.pc = "enqueue" PROVE EnqueueAlone'
  <2>1. ASSUME NEW j \in JobIds, UploadOf(j, main.torrent)'
        PROVE  jobs'[j].batch \notin {NoBatch, main.batch}
    <3>1. CASE Used(j)
      BY <1>1, <1>3, <2>1, <3>1, JobKept DEF EnqueueAlone, UploadOf
    <3>2. ~EnqueueBatchUpload(j) /\ ~EnqueueFullUpload(j)
      BY <1>1, <1>3 DEF EnqueueBatchUpload, EnqueueFullUpload, TypeInv, TypeOK, MainTyped
    <3>3. ASSUME NEW t \in Torrents, RequestCleanup(t, j) PROVE FALSE
      BY <1>3, <3>3 DEF RequestCleanup
    <3>4. QED
      BY <1>1, <2>1, <3>1, <3>2, <3>3, NewJob DEF UploadOf
  <2>2. QED
    BY <1>3, <2>1 DEF EnqueueAlone, UploadOf, Used
<1>4. ASSUME main' # main, Deselects PROVE EnqueueAlone'
  <2>1. PICK b \in main.rows : SameTick /\ ReadyRow(b) /\ main'.batch = b
    BY <1>4 DEF Deselects
  <2>2. main.pc = "queue" /\ ~LiveUploadOfBatch(b) /\ ~Gone(main.torrent) /\ main.torrent \in Torrents
    BY <1>1, <2>1 DEF ReadyRow, Gone, TypeInv, TypeOK, MainTyped
  <2>3. UNCHANGED jobs
    BY <1>4, <2>2, MainKeepsJobs DEF MainInserts, EnqueueBatchUpload, EnqueueFullUpload
  <2>4. ASSUME NEW j \in JobIds, UploadOf(j, main.torrent) PROVE jobs[j].batch \notin {NoBatch, b}
    <3>1. Live(jobs[j]) /\ jobs[j].kind = "upload"
      BY <1>1, <2>4 DEF NoneGivenUp, UploadOf, Used, Live
    <3>2. jobs[j].batch # b
      BY <2>2, <3>1 DEF LiveUploadOfBatch
    <3>3. jobs[j].batch # NoBatch
      BY <1>1, <2>2, <2>4 DEF PathsApart, OwnUpload, UploadOf, FullPathAt
    <3>4. QED
      BY <3>2, <3>3
  <2>5. QED
    BY <2>1, <2>3, <2>4 DEF EnqueueAlone, UploadOf, Used, SameTick
<1>5. ASSUME main' # main, main'.pc = "enqueue" PROVE Deselects
  BY <1>1, <1>5, MainMoves
  DEF ProbeFiles, NextRow, Inserts, Marks, GoesCreate, Creates, Applies, TypeInv, TypeOK,
     MainTyped
<1>6. QED
  BY <1>2, <1>3, <1>4, <1>5

LEMMA OneUploadStep == ASSUME UploadsInv, [Next]_vars, reconciles' = 0 PROVE OneUpload'
<1>1. TypeInv /\ EnqueueAlone /\ NoneGivenUp /\ OneUpload
  BY Unreconciled DEF Undisturbed
<1>2. ASSUME NEW j \in JobIds, NEW t \in Torrents, ~Used(j), UploadOf(j, t)',
             NEW i \in JobIds, i # j, UploadOf(i, t)'
      PROVE  /\ jobs'[i].batch # jobs'[j].batch
             /\ jobs'[i].batch # NoBatch /\ jobs'[j].batch # NoBatch
  <2>1. jobs \in [JobIds -> JobRows] /\ Used(j)'
    BY <1>1, <1>2 DEF TypeInv, TypeOK, TablesTyped, UploadOf
  <2>2. CASE EnqueueBatchUpload(j)
    <3>1. /\ main.pc = "enqueue" /\ main.batch \in Batches
          /\ jobs' = [jobs EXCEPT ![j] = JobRow("upload", 40, main.torrent, main.batch,
                                              batches[main.batch].files)]
      BY <1>1, <2>2 DEF EnqueueBatchUpload, TypeInv, TypeOK, MainTyped
    <3>2. /\ jobs'[j].batch = main.batch /\ jobs'[j].torrent = main.torrent
          /\ jobs'[i] = jobs[i]
      BY <1>2, <2>1, <3>1 DEF JobRow
    <3>3. UploadOf(i, main.torrent)
      BY <1>2, <3>2 DEF UploadOf, Used
    <3>4. jobs[i].batch \notin {NoBatch, main.batch}
      BY <1>1, <3>1, <3>3 DEF EnqueueAlone
    <3>5. main.batch # NoBatch
      BY <3>1 DEF Batches, NoBatch
    <3>6. QED
      BY <3>2, <3>4, <3>5
  <2>3. CASE EnqueueFullUpload(j)
    <3>1. /\ ~LiveUploadOfTorrent(main.torrent)
          /\ jobs' = [jobs EXCEPT ![j] = JobRow("upload", 50, main.torrent, NoBatch, main.files)]
      BY <2>3 DEF EnqueueFullUpload
    <3>2. jobs'[j].torrent = main.torrent /\ jobs'[i] = jobs[i]
      BY <1>2, <2>1, <3>1 DEF JobRow
    <3>3. UploadOf(i, main.torrent)
      BY <1>2, <3>2 DEF UploadOf, Used
    <3>4. QED
      BY <1>1, <3>1, <3>3 DEF LiveUploadOfTorrent, UploadOf, Used, Live, NoneGivenUp
  <2>4. ASSUME NEW s \in Torrents, RequestCleanup(s, j) PROVE FALSE
    BY <1>2, <2>1, <2>4 DEF RequestCleanup, JobRow, UploadOf
  <2>5. QED
    BY <1>1, <1>2, <2>1, <2>2, <2>3, <2>4, NewJob
<1>3. ASSUME NEW i \in JobIds, NEW j \in JobIds, NEW t \in Torrents, i # j,
             UploadOf(i, t)', UploadOf(j, t)'
      PROVE  jobs'[i].batch # jobs'[j].batch /\ jobs'[i].batch # NoBatch
  <2>1. CASE ~Used(i) \/ ~Used(j)
    BY <1>2, <1>3, <2>1
  <2>2. CASE Used(i) /\ Used(j)
    BY <1>1, <1>3, <2>2, JobKept DEF OneUpload, UploadOf
  <2>3. QED
    BY <2>1, <2>2
<1>4. QED
  BY <1>3 DEF OneUpload, UploadOf, Used

LEMMA UploadsInvStep == UploadsInv /\ [Next]_vars => UploadsInv'
<1> SUFFICES ASSUME UploadsInv, [Next]_vars PROVE UploadsInv'
  OBVIOUS
<1>1. HandsInv'
  BY HandsInvStep DEF UploadsInv
<1>2. reconciles' = 0 => Undisturbed'
  BY NoneGivenUpStep, EnqueueAloneStep, OneUploadStep, HandsRunningStep DEF Undisturbed
<1>3. QED
  BY <1>1, <1>2 DEF UploadsInv

LEMMA UploadsAlways == Spec => []UploadsInv
  BY UploadsInit, UploadsInvStep, PTL DEF Spec

\* Until a reconciliation first runs, no crash, failed call or slow thread
\* makes a second upload of a batch, nor any upload beside a whole torrent's.
THEOREM UploadsAreSingle == Spec => [](reconciles = 0 => OneLiveUpload)
<1>1. UploadsInv => (reconciles = 0 => OneLiveUpload)
  <2> SUFFICES ASSUME UploadsInv, reconciles = 0 PROVE OneLiveUpload
    OBVIOUS
  <2>1. OneUpload /\ TablesOK
    BY DEF UploadsInv, Undisturbed, HandsInv, FullInv, TypeInv
  <2>2. QED
    BY <2>1 DEF OneUpload, UploadOf, Used, TablesOK, OneLiveUpload, Live
<1>2. QED
  BY UploadsAlways, <1>1, PTL

\* In a run without a reconciliation a settled job stays settled: the threads
\* write to running jobs only, whatever crashes between a claim and its result.
THEOREM SettledStaysSettled == Spec /\ [](reconciles = 0) => SettledIsFinal
<1> DEFINE Settled == {"done", "cleanup_deferred", "blocked"}
           Kept == \A j \in JobIds : jobs[j].state \in Settled => jobs'[j].state = jobs[j].state
<1>1. ASSUME UploadsInv, UploadsInv', [Next]_vars, reconciles = 0, reconciles' = 0,
             NEW j \in JobIds, jobs[j].state \in Settled
      PROVE  jobs'[j].state = jobs[j].state
  <2>1. HandsRunning /\ TypeInv /\ ~Reconciles
    BY <1>1, Unreconciled DEF UploadsInv, Undisturbed, HandsInv, FullInv
  <2>2. ~SettledByWorker(j) /\ ~SettledByCleaner(j)
    BY <1>1, <2>1 DEF SettledByWorker, SettledByCleaner, HandsRunning, Job
  <2>3. QED
    BY <1>1, <2>1, <2>2, JobStateBy DEF Inserted, Taken, PutBack, Used, Ready
<1>2. UploadsInv /\ UploadsInv' /\ [Next]_vars /\ reconciles = 0 /\ (reconciles = 0)' => [Kept]_vars
  BY <1>1
<1>3. QED
  BY UploadsAlways, <1>2, PTL DEF Spec, SettledIsFinal

-----------------------------------------------------------------------------
(* Media. *)

\* After the job is settled the upload thread still holds the same result.
ResultSettled ==
  worker.pc \in {"batch", "media"} /\ Job.state \in Verified => worker.result \in Verified

MediaInv == HandsInv /\ ResultSettled /\ (crashes = 0 => MediaNotLost)

LEMMA MediaInit == Init => MediaInv
<1> SUFFICES ASSUME Init PROVE MediaInv
  OBVIOUS
<1>1. ResultSettled /\ MediaNotLost
  BY DEF Init, ResultSettled, MediaNotLost, Resting, NoJobRow
<1>2. QED
  BY <1>1, HandsInit DEF MediaInv

\* A job that the worker holds is not verified by anybody else.
LEMMA VerifiedBy ==
  ASSUME HandsInv, [Next]_vars, NEW j \in JobIds, jobs[j].kind = "upload",
         jobs'[j].state \in Verified, jobs'[j].state # jobs[j].state
  PROVE  j = worker.job /\ Settles
<1>1. TypeInv /\ CleanerRequests
  BY DEF HandsInv, FullInv
<1>2. ~SettledByCleaner(j)
  BY <1>1 DEF SettledByCleaner, CleanerRequests
<1>3. SettledByWorker(j)
  BY <1>1, <1>2, JobStateBy DEF Inserted, Taken, PutBack, Verified
<1>4. CASE RetryUpload
  <2>1. jobs'[j].state = "retry_wait"
    BY <1>1, <1>3, <1>4 DEF SettledByWorker, RetryUpload, WithState, TypeInv, TypeOK,
       TablesTyped, JobRows
  <2>2. QED
    BY <2>1 DEF Verified
<1>5. CASE SettleJob
  <2>1. worker' # worker
    BY <1>1, <1>5 DEF SettleJob, TypeInv, TypeOK, WorkerTyped
  <2>2. worker.pc = "settle" /\ worker'.pc \in {"batch", "media"} /\ j = worker.job
    BY <1>1, <1>3, <1>5 DEF SettledByWorker, SettleJob, TypeInv, TypeOK, WorkerTyped
  <2>3. QED
    BY <1>1, <2>1, <2>2, WorkerMoves DEF Copies, Claims, SettlesBatch, Rests
<1>6. QED
  BY <1>3, <1>4, <1>5 DEF SettledByWorker

LEMMA VerifiedUsed ==
  ASSUME TypeInv, [Next]_vars, NEW j \in JobIds, jobs'[j].state \in Verified PROVE Used(j)
<1>1. worker.pc \in {"retry", "settle"} => Used(worker.job)
  BY DEF TypeInv, WorkerOK
<1>2. cleaner # NoJob => Used(cleaner)
  BY DEF TypeInv, TablesOK
<1>3. CASE jobs'[j].state = jobs[j].state
  BY <1>3 DEF Used, Verified
<1>4. CASE jobs'[j].state # jobs[j].state
  BY <1>1, <1>2, <1>4, JobStateBy
  DEF Inserted, Taken, SettledByWorker, SettledByCleaner, PutBack, Verified, Used, Ready
<1>5. QED
  BY <1>3, <1>4

LEMMA ResultSettledStep == ASSUME MediaInv, [Next]_vars PROVE ResultSettled'
<1>1. HandsInv /\ TypeInv /\ ResultSettled /\ WorkerUploads
  BY DEF MediaInv, HandsInv, FullInv
<1>2. CASE worker'.pc \notin {"batch", "media"}
  BY <1>2 DEF ResultSettled
<1>3. ASSUME worker.pc \in {"batch", "media"}, worker'.job = worker.job,
             worker'.result = worker.result, jobs'[worker.job].state \in Verified
      PROVE  worker'.result \in Verified
  <2>1. worker.job \in JobIds /\ Job.kind = "upload"
    BY <1>1, <1>3 DEF WorkerUploads, TypeInv, TypeOK, WorkerTyped
  <2>2. jobs'[worker.job].state = Job.state
    BY <1>1, <1>3, <2>1, VerifiedBy DEF Settles, Job
  <2>3. QED
    BY <1>1, <1>3, <2>2 DEF ResultSettled
<1>4. CASE UNCHANGED worker
  BY <1>3, <1>4 DEF ResultSettled, Job
<1>5. CASE Settles
  BY <1>5 DEF Settles, ResultSettled, Job
<1>6. CASE SettlesBatch
  BY <1>3, <1>6 DEF SettlesBatch, ResultSettled, Job
<1>7. CASE Copies \/ Claims \/ Rests
  BY <1>2, <1>7 DEF Copies, Claims, Rests
<1>8. QED
  BY <1>1, <1>4, <1>5, <1>6, <1>7, WorkerMoves

LEMMA MediaNotLostStep == ASSUME MediaInv, [Next]_vars, crashes' = 0 PROVE MediaNotLost'
<1>1. HandsInv /\ TypeInv /\ ResultSettled
  BY DEF MediaInv, HandsInv, FullInv
<1>2. crashes \in Nat
  BY <1>1, PipelineAssumption DEF TypeInv, TypeOK, OthersTyped
<1>3. ~Crash
  BY <1>2 DEF Crash
<1>4. MediaNotLost
  <2>1. UNCHANGED crashes
    BY <1>3, Steps, MainFrames, WorkerFrames, OtherFrames
  <2>2. QED
    BY <2>1 DEF MediaInv
<1>5. media \subseteq media'
  <2>1. CASE EnqueueMedia
    BY <2>1 DEF EnqueueMedia, EnqueueMediaAfter
  <2>2. QED
    BY <2>1, Steps, MainFrames, WorkerFrames, OtherFrames
<1> SUFFICES ASSUME NEW j \in JobIds, jobs'[j].kind = "upload", jobs'[j].files \cap Media # {},
                    jobs'[j].state \in Verified
             PROVE  j \in media' \/ (worker'.job = j /\ worker'.pc \in {"batch", "media"})
  BY DEF MediaNotLost, HasMedia, Verified
<1>6. Used(j) /\ jobs[j].kind = "upload" /\ HasMedia(j)
  BY <1>1, VerifiedUsed, JobKept DEF HasMedia
<1>7. CASE jobs'[j].state # jobs[j].state
  BY <1>1, <1>6, <1>7, VerifiedBy DEF Settles
<1>8. CASE jobs'[j].state = jobs[j].state
  <2>1. j \in media \/ (worker.job = j /\ worker.pc \in {"batch", "media"})
    BY <1>4, <1>6, <1>8 DEF MediaNotLost, Verified
  <2>2. ASSUME worker.job = j, worker.pc = "media", EnqueueMedia PROVE j \in media'
    <3>1. worker.result \in Verified
      BY <1>1, <1>8, <2>2 DEF ResultSettled, Job
    <3>2. QED
      BY <1>6, <2>2, <3>1 DEF EnqueueMedia, EnqueueMediaAfter, Verified
  <2>3. ASSUME worker.job = j, worker.pc \in {"batch", "media"}, worker' # worker
        PROVE  j \in media' \/ (worker'.job = j /\ worker'.pc \in {"batch", "media"})
    BY <1>1, <1>3, <2>2, <2>3, WorkerMoves DEF Copies, Claims, Settles, SettlesBatch, Rests
  <2>4. QED
    BY <1>5, <2>1, <2>3
<1>9. QED
  BY <1>7, <1>8

LEMMA MediaStep == MediaInv /\ [Next]_vars => MediaInv'
<1> SUFFICES ASSUME MediaInv, [Next]_vars PROVE MediaInv'
  OBVIOUS
<1>1. HandsInv'
  BY HandsInvStep DEF MediaInv
<1>2. QED
  BY <1>1, ResultSettledStep, MediaNotLostStep DEF MediaInv

\* As long as the daemon has not died, a verified upload of media files has its
\* media_pipeline job or the upload thread is about to insert it, even when a
\* reconciliation puts the job back while it is being settled.
THEOREM MediaIsNotLost == Spec => [](crashes = 0 => MediaNotLost)
<1>1. MediaInv => (crashes = 0 => MediaNotLost)
  BY DEF MediaInv
<1>2. QED
  BY MediaInit, MediaStep, <1>1, PTL DEF Spec
=============================================================================

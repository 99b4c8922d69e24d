----------------------- MODULE SidecarPipelineProofs -----------------------
(***************************************************************************)
(* Theorems about SidecarPipeline, for every value of its constants: any   *)
(* number of uploads, groups, artifacts, manifests, faults.                *)
(***************************************************************************)
EXTENDS SidecarPipeline, TLAPS

-----------------------------------------------------------------------------
(* Invariants. *)

Used(j) == jobs[j].kind # "none"
Sidecar(j) == jobs[j].kind = "sidecar_upload"
Scraped(m) == manifests[m].state \notin {"absent", "sidecar_verify_failed"}

\* A row that exists is about an upload, or about an artifact of a manifest
\* whose scrape was good; a manifest that exists belongs to a group.
RowsOK ==
  /\ \A j \in JobIds : jobs[j].state = "unused" <=> jobs[j].kind = "none"
  /\ \A j \in JobIds : jobs[j].kind = "media_pipeline" => jobs[j].upload \in Uploads
  /\ \A j \in JobIds : Sidecar(j) => /\ jobs[j].manifest \in Manifests
                                     /\ jobs[j].artifact \in Artifacts
                                     /\ Scraped(jobs[j].manifest)
                                     /\ jobs[j].state \in Unsettled \cup {"done", "failed"}
  /\ \A m \in Manifests : manifests[m].state # "absent" => manifests[m].group \in Groups

\* The threads hold jobs of their kind and what belongs to them.
ThreadsOK ==
  /\ mt.pc # "idle" => /\ mt.job \in JobIds /\ jobs[mt.job].kind = "media_pipeline"
                       /\ mt.upload = jobs[mt.job].upload
  /\ mt.pc \in {"read", "scrape"} => mt.next = 1
  /\ mt.pc = "enqueue" => /\ mt.manifest \in Manifests /\ Scraped(mt.manifest)
                          /\ manifests[mt.manifest].group = GroupOf[mt.upload]
  /\ ut.pc # "idle" => ut.job \in JobIds /\ Sidecar(ut.job)
  /\ em.pc = "call" => em.group \in Groups

TypeInv == TypeOK /\ RowsOK /\ ThreadsOK

\* Every artifact of a manifest has a job, or the media thread is about to
\* queue it.
ArtifactsQueued ==
  \A m \in Manifests : Scraped(m) /\ manifests[m].group \notin cut =>
    \A a \in Artifacts :
      \/ \E j \in JobIds : Sidecar(j) /\ jobs[j].manifest = m /\ jobs[j].artifact = a
      \/ mt.pc = "enqueue" /\ mt.manifest = m /\ a >= mt.next

Stored(j) == jobs[j].artifact \in remote[jobs[j].manifest]

\* What a job or the upload thread takes for verified is on the remote.
DoneStored ==
  /\ \A j \in JobIds : Sidecar(j) /\ jobs[j].state = "done" => Stored(j)
  /\ ut.pc # "idle" /\ ut.verified => Stored(ut.job)

\* A sidecar given up is known to its manifest or about to be.
FailedSeen ==
  \A j \in JobIds : Sidecar(j) /\ jobs[j].state = "failed" =>
    LET m == jobs[j].manifest IN
    \/ manifests[m].group \in cut
    \/ manifests[m].state = "sidecar_upload_failed"
    \/ ut.pc = "mark_failed" /\ jobs[ut.job].manifest = m

StoredInv == ArtifactsQueued /\ DoneStored /\ FailedSeen

\* The job a thread works on can be claimed again if the thread dies.
InHand(j) == jobs[j].state \in {"running", "retry_wait"} \/ GroupOfJob(jobs[j]) \in cut
HandsOpen ==
  /\ mt.pc # "idle" => InHand(mt.job)
  /\ ut.pc \in {"copy", "record"} => InHand(ut.job)

OpenSidecar(j) == Sidecar(j) /\ jobs[j].state \in Unsettled

\* A manifest under way has a job that will bring it further.
UnderWayServed ==
  \A m \in Manifests : manifests[m].state \in UnderWay /\ manifests[m].group \notin cut =>
    \/ mt.pc = "enqueue" /\ mt.manifest = m
    \/ \E j \in JobIds : OpenSidecar(j) /\ jobs[j].manifest = m
    \/ ut.pc \in {"update", "mark_failed"} /\ jobs[ut.job].manifest = m

\* Somebody other than the media thread will have g refreshed, if it need be.
Served(g) == \/ g \in cut \/ g \notin Owed
             \/ RefreshDue(g) \/ UploadBusy(g)
             \/ \E j \in JobIds : OpenSidecar(j) /\ GroupOfJob(jobs[j]) = g

\* An upload that leaves the refresh to others may do so.
LeftToOthers ==
  mt.pc = "finish" \/ (mt.pc = "set" /\ mt.outcome \notin RefreshNow) => Served(GroupOf[mt.upload])

ServedInv == HandsOpen /\ UnderWayServed /\ (AllowPassthrough => LeftToOthers /\ NoRefreshLost)

-----------------------------------------------------------------------------
(* Type correctness. *)

MediaDecides == ReadSidecars \/ SetRun \/ QueueRefresh
UploadRecords == RecordDone \/ RecordFailed \/ RecordRetry
EmbyMoves == MediaUpdated \/ \E g \in Groups : ClaimRefresh(g)
Queues == \E u \in Uploads : MediaUploaded(u)
Reconciles == \E expired \in SUBSET JobIds : Reconcile(expired)

LEMMA Steps ==
  [Next]_vars => \/ Queues \/ ClaimMedia \/ MediaDecides \/ Scrape \/ EnqueueSidecar
                 \/ FinishMedia \/ FailMedia \/ ClaimSidecar \/ CopySidecar \/ UploadRecords
                 \/ UpdateManifest \/ MarkFailed \/ EmbyMoves \/ Crash \/ Reconciles
                 \/ UNCHANGED vars
  BY DEF Next, MediaThread, SidecarThread, EmbyThread, MediaDecides, UploadRecords, EmbyMoves,
         Queues, Reconciles

\* What each step leaves alone, as far as the jobs and manifests go.
LEMMA Frames ==
  /\ MediaDecides => UNCHANGED <<jobs, manifests, remote, ut, em, unshown, refused, cut, crashed, faults>>
  /\ Queues
       => UNCHANGED <<manifests, runs, queued, remote, mt, ut, em, unshown, refused, cut, crashed, faults>>
  /\ ClaimSidecar
       => UNCHANGED <<manifests, runs, queued, remote, mt, em, unshown, refused, cut, crashed, faults>>
  /\ ClaimMedia => UNCHANGED <<manifests, queued, remote, ut, em, cut, crashed, faults>>
  /\ Scrape => UNCHANGED <<jobs, runs, queued, remote, ut, em, unshown, refused, cut, crashed, faults>>
  /\ EnqueueSidecar \/ FinishMedia
       => UNCHANGED <<manifests, runs, queued, remote, ut, em, unshown, refused, cut, crashed, faults>>
  /\ FailMedia => UNCHANGED <<manifests, runs, queued, remote, ut, em, unshown, refused, crashed>>
  /\ CopySidecar => UNCHANGED <<jobs, manifests, runs, queued, mt, em, cut, crashed, faults>>
  /\ UploadRecords
       => UNCHANGED <<manifests, runs, queued, remote, mt, em, unshown, refused, cut, crashed, faults>>
  /\ UpdateManifest \/ MarkFailed => UNCHANGED <<jobs, remote, mt, em, unshown, refused, cut, crashed, faults>>
  /\ EmbyMoves => UNCHANGED <<jobs, manifests, runs, remote, mt, ut, cut, crashed, faults>>
  /\ Crash => UNCHANGED <<jobs, manifests, runs, queued, remote, unshown, refused>>
  /\ Reconciles => UNCHANGED <<manifests, runs, queued, remote, mt, ut, em, unshown, refused, crashed>>
  /\ UNCHANGED vars => UNCHANGED <<jobs, manifests, runs, queued, remote, mt, ut, em, unshown, refused, cut,
                                   crashed, faults>>
<1> USE DEF db, threads
<1>1. MediaDecides => UNCHANGED <<jobs, manifests, remote, ut, em, unshown, refused, cut, crashed, faults>>
  BY DEF MediaDecides, ReadSidecars, SetRun, QueueRefresh
<1>2. /\ Queues
           => UNCHANGED <<manifests, runs, queued, remote, mt, ut, em, unshown, refused, cut, crashed, faults>>
      /\ ClaimSidecar
           => UNCHANGED <<manifests, runs, queued, remote, mt, em, unshown, refused, cut, crashed, faults>>
      /\ ClaimMedia => UNCHANGED <<manifests, queued, remote, ut, em, cut, crashed, faults>>
  BY DEF Queues, MediaUploaded, ClaimSidecar, ClaimMedia
<1>3. /\ Scrape => UNCHANGED <<jobs, runs, queued, remote, ut, em, unshown, refused, cut, crashed, faults>>
      /\ EnqueueSidecar \/ FinishMedia
           => UNCHANGED <<manifests, runs, queued, remote, ut, em, unshown, refused, cut, crashed, faults>>
      /\ FailMedia => UNCHANGED <<manifests, runs, queued, remote, ut, em, unshown, refused, crashed>>
  BY DEF Scrape, EnqueueSidecar, FinishMedia, FailMedia
<1>4. /\ CopySidecar => UNCHANGED <<jobs, manifests, runs, queued, mt, em, cut, crashed, faults>>
      /\ UploadRecords
           => UNCHANGED <<manifests, runs, queued, remote, mt, em, unshown, refused, cut, crashed, faults>>
      /\ UpdateManifest \/ MarkFailed
           => UNCHANGED <<jobs, remote, mt, em, unshown, refused, cut, crashed, faults>>
  BY DEF CopySidecar, UploadRecords, RecordDone, RecordFailed, RecordRetry, UpdateManifest,
     MarkFailed
<1>5. /\ EmbyMoves => UNCHANGED <<jobs, manifests, runs, remote, mt, ut, cut, crashed, faults>>
      /\ Crash => UNCHANGED <<jobs, manifests, runs, queued, remote, unshown, refused>>
      /\ Reconciles => UNCHANGED <<manifests, runs, queued, remote, mt, ut, em, unshown, refused, crashed>>
      /\ UNCHANGED vars => UNCHANGED <<jobs, manifests, runs, queued, remote, mt, ut, em, unshown, refused,
                                       cut, crashed, faults>>
  BY DEF EmbyMoves, MediaUpdated, ClaimRefresh, Crash, Reconciles, Reconcile, vars
<1>6. QED
  BY <1>1, <1>2, <1>3, <1>4, <1>5

JobsTyped == jobs \in [JobIds -> JobRows]
ManifestRow == [group : Groups \cup {NoGroup}, state : ManifestStates]
ManifestsTyped == manifests \in [Manifests -> ManifestRow]
RunsTyped == runs \in [Uploads -> RunStates]
RemoteTyped == remote \in [Manifests -> SUBSET Artifacts]
GroupsTyped == queued \subseteq Groups /\ unshown \subseteq Groups /\ refused \subseteq Groups /\ cut \subseteq Groups
MediaThreads == [pc : MediaSteps, job : {NoJob} \cup JobIds, upload : Uploads \cup {NoUpload},
                 manifest : {NoManifest} \cup Manifests, next : Artifacts, outcome : RunStates]
MediaTyped == mt \in MediaThreads
UploadTyped == ut \in [pc : UploadSteps, job : {NoJob} \cup JobIds, verified : BOOLEAN]
OthersTyped == /\ em \in [pc : {"idle", "call"}, group : Groups \cup {NoGroup}]
               /\ crashed \in BOOLEAN /\ faults \in 0..MaxFaults

LEMMA TypeParts ==
  TypeOK <=> /\ JobsTyped /\ ManifestsTyped /\ RunsTyped /\ RemoteTyped /\ GroupsTyped
             /\ MediaTyped /\ UploadTyped /\ OthersTyped
  BY DEF TypeOK, JobsTyped, ManifestsTyped, ManifestRow, RunsTyped, RemoteTyped,
     GroupsTyped, MediaTyped,
         MediaThreads, UploadTyped, OthersTyped

LEMMA IdleTyped == MediaIdle \in MediaThreads
<1>1. 1 \in Artifacts
  BY SidecarAssumption DEF Artifacts
<1>2. QED
  BY <1>1 DEF MediaIdle, MediaThreads, MediaSteps, RunStates

LEMMA TypeInit == Init => TypeInv
<1> SUFFICES ASSUME Init PROVE TypeInv
  OBVIOUS
<1> USE SidecarAssumption, JobTableAssumption DEF Init
<1>1. JobsTyped /\ ManifestsTyped
  BY DEF JobsTyped, JobRows, NoJobRow, JobStates, ManifestsTyped, ManifestRow, NoRow,
     ManifestStates
<1>2. RunsTyped /\ RemoteTyped /\ GroupsTyped
  BY DEF RunsTyped, RunStates, RemoteTyped, GroupsTyped
<1>3. MediaTyped
  BY IdleTyped DEF MediaTyped
<1>4. UploadTyped /\ OthersTyped
  <2>1. UploadTyped
    BY DEF UploadTyped, UploadIdle, UploadSteps
  <2>2. em \in [pc : {"idle", "call"}, group : Groups \cup {NoGroup}]
    BY DEF EmbyIdle
  <2>3. 0 \in 0..MaxFaults
    OBVIOUS
  <2>4. OthersTyped
    BY <2>2, <2>3 DEF OthersTyped
  <2>5. QED
    BY <2>1, <2>4
<1>5. RowsOK
  BY DEF RowsOK, Sidecar, NoJobRow, NoRow
<1>6. ThreadsOK
  BY DEF ThreadsOK, MediaIdle, UploadIdle, EmbyIdle
<1>7. QED
  BY <1>1, <1>2, <1>3, <1>4, <1>5, <1>6, TypeParts DEF TypeInv

NewMediaRow(u) == [NoJobRow EXCEPT !.kind = "media_pipeline", !.prio = 30, !.state = "queued",
                                   !.upload = u]
NewSidecarRow(m, a) == [NoJobRow EXCEPT !.kind = "sidecar_upload", !.prio = 20, !.state = "queued",
                                        !.manifest = m, !.artifact = a]

\* A row keeps its task; only its state and its attempts move on.
SameTask(row, old) == /\ row.kind = old.kind /\ row.upload = old.upload
                      /\ row.manifest = old.manifest /\ row.artifact = old.artifact

LEMMA RowsTyped ==
  /\ \A row \in JobRows : Claimed(row) \in JobRows /\ SameTask(Claimed(row), row)
                           /\ Claimed(row).state = "running"
  /\ \A row \in JobRows, s \in JobStates :
       /\ WithState(row, s) \in JobRows /\ SameTask(WithState(row, s), row)
       /\ WithState(row, s).state = s
  /\ \A u \in Uploads : NewMediaRow(u) \in JobRows
  /\ \A m \in Manifests, a \in Artifacts : NewSidecarRow(m, a) \in JobRows
<1>1. ASSUME NEW row \in JobRows
      PROVE  Claimed(row) \in JobRows /\ SameTask(Claimed(row), row) /\ Claimed(row).state = "running"
  <2>1. row.attempts \in 0..MaxAttempts
    BY DEF JobRows
  <2>2. (IF row.attempts < MaxAttempts THEN row.attempts + 1 ELSE row.attempts) \in 0..MaxAttempts
    BY <2>1, JobTableAssumption
  <2>3. QED
    BY <2>2 DEF Claimed, JobRows, JobStates, SameTask
<1>2. ASSUME NEW row \in JobRows, NEW s \in JobStates
      PROVE  /\ WithState(row, s) \in JobRows /\ SameTask(WithState(row, s), row)
             /\ WithState(row, s).state = s
  BY <1>2 DEF WithState, JobRows, SameTask
<1>3. NoJobRow \in JobRows
  BY JobTableAssumption DEF NoJobRow, JobRows, JobStates
<1>4. ASSUME NEW u \in Uploads PROVE NewMediaRow(u) \in JobRows
  BY <1>3 DEF NewMediaRow, JobRows, JobStates
<1>5. ASSUME NEW m \in Manifests, NEW a \in Artifacts PROVE NewSidecarRow(m, a) \in JobRows
  BY <1>3 DEF NewSidecarRow, JobRows, JobStates
<1>6. QED
  BY <1>1, <1>2, <1>4, <1>5

\* What the media thread remembers when it has claimed the job.
Reading(j) == [MediaIdle EXCEPT !.pc = "read", !.job = j, !.upload = jobs[j].upload]

\* How a step changes the job table.
Keeps(j) == jobs'[j] = jobs[j]
Advances(j) == /\ Used(j) /\ SameTask(jobs'[j], jobs[j])
               /\ jobs'[j].state \in Unsettled \cup {"done", "failed"}
GetsMedia(j) == ~Used(j) /\ \E u \in Uploads : jobs'[j] = NewMediaRow(u)
GetsSidecar(j) == /\ ~Used(j) /\ mt.pc = "enqueue"
                  /\ jobs'[j] = NewSidecarRow(mt.manifest, mt.next)
JobMoves == \A j \in JobIds : Keeps(j) \/ Advances(j) \/ GetsMedia(j) \/ GetsSidecar(j)

LEMMA JobsStep == ASSUME TypeInv, [Next]_vars PROVE JobsTyped' /\ JobMoves
<1>0. JobsTyped /\ MediaTyped /\ UploadTyped
  BY TypeParts DEF TypeInv
<1>1. CASE Queues
  <2>1. PICK u \in Uploads, j \in JobIds :
           jobs[j].state = "unused" /\ jobs' = [jobs EXCEPT ![j] = NewMediaRow(u)]
    BY <1>1 DEF Queues, MediaUploaded, IsNextId, NewMediaRow
  <2>2. ~Used(j)
    BY <2>1 DEF TypeInv, RowsOK, Used
  <2>3. QED
    BY <1>0, <2>1, <2>2, RowsTyped DEF JobsTyped, JobMoves, Keeps, GetsMedia
<1>2. CASE EnqueueSidecar
  <2>1. PICK j \in JobIds : /\ jobs[j].state = "unused"
                            /\ jobs' = [jobs EXCEPT ![j] = NewSidecarRow(mt.manifest, mt.next)]
    BY <1>2 DEF EnqueueSidecar, IsNextId, NewSidecarRow
  <2>2. ~Used(j)
    BY <2>1 DEF TypeInv, RowsOK, Used
  <2>3. mt.pc = "enqueue" /\ mt.manifest \in Manifests
    BY <1>2 DEF EnqueueSidecar, TypeInv, ThreadsOK
  <2>4. mt.next \in Artifacts
    BY <1>0 DEF MediaTyped, MediaThreads
  <2>5. QED
    BY <1>0, <2>1, <2>2, <2>3, <2>4, RowsTyped DEF JobsTyped, JobMoves, Keeps, GetsSidecar
<1>3. CASE ClaimMedia \/ ClaimSidecar
  <2>1. PICK j \in JobIds :
           jobs[j].kind # "none" /\ jobs' = [jobs EXCEPT ![j] = Claimed(jobs[j])]
    BY <1>3 DEF ClaimMedia, ClaimSidecar, IsNextToClaim, IsFirst
  <2>2. jobs[j] \in JobRows
    BY <1>0, <2>1 DEF JobsTyped
  <2>3. QED
    BY <1>0, <2>1, <2>2, RowsTyped DEF JobsTyped, JobMoves, Keeps, Advances, Used, Unsettled
<1>4. CASE FinishMedia \/ FailMedia \/ UploadRecords
  <2>1. PICK j \in JobIds, s \in {"done", "retry_wait", "failed", "verify_pending"} :
           jobs[j].kind # "none" /\ jobs' = [jobs EXCEPT ![j] = WithState(jobs[j], s)]
    <3>1. CASE FinishMedia
      BY <3>1 DEF FinishMedia, TypeInv, ThreadsOK
    <3>2. CASE FailMedia
      BY <3>2 DEF FailMedia, TypeInv, ThreadsOK
    <3>3. CASE UploadRecords
      BY <3>3 DEF UploadRecords, RecordDone, RecordFailed, RecordRetry, TypeInv, ThreadsOK,
         Sidecar
    <3>4. QED
      BY <1>4, <3>1, <3>2, <3>3
  <2>2. jobs[j] \in JobRows /\ s \in JobStates
    BY <1>0, <2>1 DEF JobsTyped, JobStates
  <2>3. QED
    BY <1>0, <2>1, <2>2, RowsTyped DEF JobsTyped, JobMoves, Keeps, Advances, Used, Unsettled
<1>5. CASE Reconciles
  <2>1. PICK expired \in SUBSET JobIds : Reconcile(expired)
    BY <1>5 DEF Reconciles
  <2>2. jobs' = [j \in JobIds |-> IF j \in ExhaustedRetries(jobs) THEN WithState(jobs[j], "failed")
                                  ELSE IF j \in expired THEN WithState(jobs[j], "retry_wait")
                                  ELSE jobs[j]]
    BY <2>1 DEF Reconcile, Reconciled
  <2>3. \A j \in ExhaustedRetries(jobs) \cup expired : Used(j)
    BY <2>1 DEF Reconcile, Running, ExhaustedRetries, TypeInv, RowsOK, Used
  <2>4. \A j \in JobIds : jobs[j] \in JobRows
    BY <1>0 DEF JobsTyped
  <2>5. ASSUME NEW j \in JobIds PROVE jobs'[j] \in JobRows /\ (Keeps(j) \/ Advances(j))
    BY <2>2, <2>3, <2>4, RowsTyped DEF Keeps, Advances, Unsettled, JobStates
  <2>6. QED
    BY <2>2, <2>5 DEF JobsTyped, JobMoves
<1>6. CASE UNCHANGED jobs
  BY <1>0, <1>6 DEF JobsTyped, JobMoves, Keeps
<1>7. QED
  BY <1>1, <1>2, <1>3, <1>4, <1>5, <1>6, Steps, Frames

\* How a step changes the manifests: the media thread adds one, the upload
\* thread writes the state of one that is there.
ManifestKept(m) == manifests'[m] = manifests[m]
ManifestAdded(m) == /\ Scrape /\ manifests[m].state = "absent"
                    /\ manifests'[m].group = GroupOf[mt.upload]
                    /\ manifests'[m].state \in {"local_sidecar_validated", "sidecar_verify_failed"}
ManifestSettled(m) == /\ UpdateManifest \/ MarkFailed
                      /\ ut.pc \in {"update", "mark_failed"} /\ m = jobs[ut.job].manifest
                      /\ manifests'[m].group = manifests[m].group
                      /\ manifests'[m].state \in {"sidecar_upload_failed", "sidecar_uploading",
                                                  "sidecar_verified"}
ManifestMoves == \A m \in Manifests : ManifestKept(m) \/ ManifestAdded(m) \/ ManifestSettled(m)

LEMMA ManifestsStep == ASSUME TypeInv, [Next]_vars PROVE ManifestsTyped' /\ ManifestMoves
<1>0. ManifestsTyped /\ MediaTyped
  BY TypeParts DEF TypeInv
<1>1. CASE Scrape
  <2>1. PICK m \in Manifests, s \in {"local_sidecar_validated", "sidecar_verify_failed"} :
          /\ manifests[m].state = "absent"
          /\ manifests' = [manifests EXCEPT ![m] = [group |-> GroupOf[mt.upload], state |-> s]]
    BY <1>1 DEF Scrape
  <2>2. mt.pc = "scrape" /\ mt.upload \in Uploads
    BY <1>1 DEF Scrape, TypeInv, ThreadsOK, RowsOK
  <2>3. GroupOf[mt.upload] \in Groups
    BY <2>2, SidecarAssumption
  <2>4. [group |-> GroupOf[mt.upload], state |-> s] \in ManifestRow
    BY <2>1, <2>3 DEF ManifestRow, ManifestStates
  <2>5. QED
    BY <1>0, <1>1, <2>1, <2>2, <2>4 DEF ManifestsTyped, ManifestMoves, ManifestKept, ManifestAdded
<1>2. CASE UpdateManifest \/ MarkFailed
  <2>1. PICK s \in {"sidecar_upload_failed", "sidecar_uploading", "sidecar_verified"} :
          manifests' = [manifests EXCEPT ![jobs[ut.job].manifest].state = s]
    BY <1>2 DEF UpdateManifest, MarkFailed, ApplyFailure
  <2>2. ut.pc \in {"update", "mark_failed"} /\ jobs[ut.job].manifest \in Manifests
    BY <1>2 DEF UpdateManifest, MarkFailed, TypeInv, ThreadsOK, RowsOK
  <2>3. \A m \in Manifests : manifests[m] \in ManifestRow
    BY <1>0 DEF ManifestsTyped
  <2>4. s \in ManifestStates
    BY <2>1 DEF ManifestStates
  <2>5. manifests' \in [Manifests -> ManifestRow]
    BY <1>0, <2>1, <2>2, <2>4 DEF ManifestsTyped, ManifestRow
  <2>6. ASSUME NEW m \in Manifests PROVE ManifestKept(m) \/ ManifestSettled(m)
    BY <1>0, <1>2, <2>1, <2>2, <2>3 DEF ManifestsTyped, ManifestRow, ManifestKept, ManifestSettled
  <2>7. QED
    BY <2>5, <2>6 DEF ManifestsTyped, ManifestMoves
<1>3. CASE UNCHANGED manifests
  BY <1>0, <1>3 DEF ManifestsTyped, ManifestMoves, ManifestKept
<1>4. QED
  BY <1>1, <1>2, <1>3, Steps, Frames

LEMMA MediaStep == ASSUME TypeInv, [Next]_vars PROVE MediaTyped' /\ RunsTyped'
<1>0. JobsTyped /\ MediaTyped /\ RunsTyped
  BY TypeParts DEF TypeInv
<1> USE <1>0 DEF MediaTyped, MediaThreads, RunsTyped
<1>1. CASE ClaimMedia
  <2>1. PICK j \in JobIds : /\ mt' = Reading(j)
                            /\ runs' = WithRun(jobs[j].upload) /\ jobs[j].kind = "media_pipeline"
    BY <1>1 DEF ClaimMedia, IsNextToClaim, IsFirst, Reading
  <2>2. jobs[j].upload \in Uploads
    BY <2>1 DEF TypeInv, RowsOK
  <2>3. mt' \in MediaThreads
    BY <2>1, <2>2, IdleTyped DEF Reading, MediaSteps
  <2>4. runs' \in [Uploads -> RunStates]
    BY <2>1, <2>2 DEF WithRun, RunStates
  <2>5. QED
    BY <2>3, <2>4
<1>2. CASE MediaDecides
  <2>1. CASE ReadSidecars
    <3>1. runs' = runs
      BY <2>1 DEF ReadSidecars, db
    <3>2. CASE mt' = [mt EXCEPT !.pc = "scrape"]
      BY <3>1, <3>2 DEF MediaSteps
    <3>3. ASSUME NEW s \in RunStates, Decide(s, "set") PROVE MediaTyped' /\ RunsTyped'
      BY <3>1, <3>3 DEF Decide, MediaSteps
    <3>4. QED
      BY <2>1, <3>2, <3>3 DEF ReadSidecars, RunStates
  <2>2. CASE SetRun
    <3>1. mt' \in MediaThreads
      BY <2>2 DEF SetRun, MediaSteps
    <3>2. runs' \in [Uploads -> RunStates]
      BY <2>2 DEF SetRun
    <3>3. QED
      BY <3>1, <3>2
  <2>3. CASE QueueRefresh
    BY <2>3 DEF QueueRefresh, MediaSteps
  <2>4. QED
    BY <1>2, <2>1, <2>2, <2>3 DEF MediaDecides
<1>3. CASE Scrape
  <2>1. runs' = runs
    BY <1>3 DEF Scrape
  <2>2. PICK m \in Manifests : \/ mt' = [mt EXCEPT !.pc = "enqueue", !.manifest = m]
                               \/ mt' = [mt EXCEPT !.pc = "set", !.outcome = "PassthroughAllowed"]
    BY <1>3 DEF Scrape
  <2>3. QED
    BY <2>1, <2>2 DEF MediaSteps, RunStates
<1>4. CASE EnqueueSidecar
  <2>1. runs' = runs
    BY <1>4 DEF EnqueueSidecar
  <2>2. CASE mt.next < NArtifacts
    <3>1. mt.next + 1 \in Artifacts
      BY <2>2, SidecarAssumption DEF Artifacts
    <3>2. QED
      BY <1>4, <2>1, <2>2, <3>1 DEF EnqueueSidecar
  <2>3. CASE ~(mt.next < NArtifacts)
    BY <1>4, <2>1, <2>3 DEF EnqueueSidecar, MediaSteps, RunStates
  <2>4. QED
    BY <2>2, <2>3
<1>5. CASE FinishMedia \/ FailMedia \/ Crash
  BY <1>5, IdleTyped DEF FinishMedia, FailMedia, Crash, db
<1>6. CASE UpdateManifest \/ MarkFailed
  <2>1. UNCHANGED mt
    BY <1>6, Frames
  <2>2. PICK s \in RunStates : runs' = RunsSettled(manifests[jobs[ut.job].manifest].group, s)
    <3>1. CASE UpdateManifest
      BY <3>1 DEF UpdateManifest, ApplyFailure, RunStates
    <3>2. CASE MarkFailed
      BY <3>2 DEF MarkFailed, ApplyFailure, RunStates
    <3>3. QED
      BY <1>6, <3>1, <3>2
  <2>3. QED
    BY <2>1, <2>2 DEF RunsSettled
<1>7. CASE UNCHANGED <<runs, mt>>
  BY <1>7
<1>8. QED
  BY <1>1, <1>2, <1>3, <1>4, <1>5, <1>6, <1>7, Steps, Frames

LEMMA UploadStep == ASSUME TypeInv, [Next]_vars PROVE UploadTyped' /\ RemoteTyped'
<1>0. UploadTyped /\ RemoteTyped
  BY TypeParts DEF TypeInv
<1> USE <1>0 DEF UploadTyped, RemoteTyped
<1>1. CASE ClaimSidecar
  BY <1>1 DEF ClaimSidecar, UploadIdle, UploadSteps
<1>2. CASE CopySidecar
  <2>1. UploadTyped'
    BY <1>2 DEF CopySidecar, UploadSteps
  <2>2. jobs[ut.job].manifest \in Manifests /\ jobs[ut.job].artifact \in Artifacts
    BY <1>2 DEF CopySidecar, TypeInv, ThreadsOK, RowsOK
  <2>3. RemoteTyped'
    BY <1>2, <2>2 DEF CopySidecar
  <2>4. QED
    BY <2>1, <2>3
<1>3. CASE UploadRecords
  <2>1. CASE RecordDone \/ RecordFailed
    BY <2>1 DEF RecordDone, RecordFailed, UploadSteps
  <2>2. CASE RecordRetry
    BY <2>2 DEF RecordRetry, UploadIdle, UploadSteps
  <2>3. QED
    BY <1>3, <2>1, <2>2 DEF UploadRecords
<1>4. CASE UpdateManifest \/ MarkFailed \/ Crash
  <2>1. ut' = UploadIdle
    BY <1>4 DEF UpdateManifest, MarkFailed, Crash
  <2>2. QED
    BY <1>4, <2>1, Frames DEF UploadIdle, UploadSteps
<1>5. CASE UNCHANGED <<ut, remote>>
  BY <1>5
<1>6. QED
  BY <1>1, <1>2, <1>3, <1>4, <1>5, Steps, Frames

\* The group of a row that is used, or in the hands of a thread.
LEMMA GroupsKnown ==
  ASSUME TypeInv
  PROVE  /\ \A j \in JobIds : Used(j) => GroupOfJob(jobs[j]) \in Groups
         /\ mt.pc # "idle" => mt.upload \in Uploads /\ GroupOf[mt.upload] \in Groups
         /\ ut.pc # "idle" => /\ jobs[ut.job].manifest \in Manifests
                              /\ manifests[jobs[ut.job].manifest].group \in Groups
                              /\ GroupOfJob(jobs[ut.job]) = manifests[jobs[ut.job].manifest].group
<1>1. ASSUME NEW j \in JobIds, Sidecar(j)
      PROVE  /\ jobs[j].manifest \in Manifests /\ manifests[jobs[j].manifest].group \in Groups
             /\ GroupOfJob(jobs[j]) = manifests[jobs[j].manifest].group
  BY <1>1 DEF TypeInv, RowsOK, Scraped, Sidecar, GroupOfJob
<1>2. ASSUME NEW j \in JobIds, jobs[j].kind = "media_pipeline"
      PROVE  jobs[j].upload \in Uploads /\ GroupOfJob(jobs[j]) \in Groups
  BY <1>2, SidecarAssumption DEF TypeInv, RowsOK, GroupOfJob
<1>3. ASSUME NEW j \in JobIds, Used(j) PROVE Sidecar(j) \/ jobs[j].kind = "media_pipeline"
  <2>1. jobs[j] \in JobRows
    BY TypeParts DEF TypeInv, JobsTyped
  <2>2. QED
    BY <1>3, <2>1 DEF JobRows, Used, Sidecar
<1>4. mt.pc # "idle" => mt.upload \in Uploads
  BY <1>2 DEF TypeInv, ThreadsOK
<1>5. QED
  BY <1>1, <1>2, <1>3, <1>4, SidecarAssumption DEF TypeInv, ThreadsOK

LEMMA OthersStep == ASSUME TypeInv, [Next]_vars PROVE GroupsTyped' /\ OthersTyped'
<1>0. GroupsTyped /\ OthersTyped
  BY TypeParts DEF TypeInv
<1> USE <1>0 DEF GroupsTyped, OthersTyped
<1>1. CASE ClaimMedia
  <2>1. PICK j \in JobIds : /\ NewContent(GroupOf[jobs[j].upload])
                            /\ jobs[j].kind = "media_pipeline"
    BY <1>1 DEF ClaimMedia, IsNextToClaim, IsFirst
  <2>2. GroupOf[jobs[j].upload] \in Groups
    BY <2>1, SidecarAssumption DEF TypeInv, RowsOK
  <2>3. QED
    BY <1>1, <2>1, <2>2, Frames DEF NewContent
<1>2. CASE MediaDecides
  <2>1. CASE QueueRefresh
    BY <1>2, <2>1, Frames, GroupsKnown DEF QueueRefresh, WithRefresh
  <2>2. CASE UNCHANGED queued
    BY <1>2, <2>2, Frames
  <2>3. QED
    BY <1>2, <2>1, <2>2 DEF MediaDecides, ReadSidecars, SetRun, db
<1>3. CASE FailMedia
  <2>1. faults' \in 0..MaxFaults
    BY <1>3, SidecarAssumption DEF FailMedia
  <2>2. cut' \subseteq Groups
    BY <1>3, GroupsKnown DEF FailMedia
  <2>3. QED
    BY <1>3, <2>1, <2>2, Frames
<1>4. CASE CopySidecar
  <2>1. unshown' \subseteq Groups /\ refused' \subseteq Groups
    BY <1>4, GroupsKnown DEF CopySidecar, NewContent
  <2>2. QED
    BY <1>4, <2>1, Frames
<1>5. CASE UpdateManifest \/ MarkFailed
  <2>1. queued' \subseteq Groups
    BY <1>5, GroupsKnown DEF UpdateManifest, MarkFailed, ApplyFailure, WithRefresh
  <2>2. QED
    BY <1>5, <2>1, Frames
<1>6. CASE EmbyMoves
  <2>1. UNCHANGED <<cut, crashed, faults>>
    BY <1>6, Frames
  <2>2. CASE MediaUpdated
    BY <2>1, <2>2 DEF MediaUpdated, EmbyIdle, db, TypeInv, ThreadsOK
  <2>3. ASSUME NEW g \in Groups, ClaimRefresh(g) PROVE GroupsTyped' /\ OthersTyped'
    BY <2>1, <2>3 DEF ClaimRefresh
  <2>4. QED
    BY <1>6, <2>2, <2>3 DEF EmbyMoves
<1>7. CASE Crash
  <2>1. faults' \in 0..MaxFaults
    BY <1>7, SidecarAssumption DEF Crash
  <2>2. cut' \subseteq Groups
    BY <1>7, GroupsKnown DEF Crash, TypeInv, ThreadsOK
  <2>3. QED
    BY <1>7, <2>1, <2>2, Frames DEF Crash, EmbyIdle
<1>8. CASE Reconciles
  <2>1. PICK expired \in SUBSET JobIds : Reconcile(expired)
    BY <1>8 DEF Reconciles
  <2>2. faults' \in 0..MaxFaults
    BY <2>1, SidecarAssumption DEF Reconcile
  <2>3. \A j \in ExhaustedRetries(jobs) : j \in JobIds /\ Used(j)
    BY DEF ExhaustedRetries, TypeInv, RowsOK, Used
  <2>4. cut' = cut \cup {GroupOfJob(jobs[j]) : j \in ExhaustedRetries(jobs)}
    BY <2>1 DEF Reconcile
  <2>5. cut' \subseteq Groups
    BY <2>3, <2>4, GroupsKnown
  <2>6. QED
    BY <1>8, <2>2, <2>5, Frames
<1>9. CASE UNCHANGED <<queued, unshown, refused, cut, em, crashed, faults>>
  BY <1>9
<1>10. QED
  BY <1>1, <1>2, <1>3, <1>4, <1>5, <1>6, <1>7, <1>8, <1>9, Steps, Frames

LEMMA RowsStep == ASSUME TypeInv, [Next]_vars PROVE RowsOK'
<1>0. JobMoves /\ ManifestMoves
  BY JobsStep, ManifestsStep
<1>1. ASSUME NEW m \in Manifests, Scraped(m) PROVE Scraped(m)'
  BY <1>0, <1>1 DEF ManifestMoves, ManifestKept, ManifestAdded, ManifestSettled, Scraped
<1>2. ASSUME NEW m \in Manifests, (manifests[m].state # "absent")'
      PROVE  (manifests[m].group \in Groups)'
  <2>1. CASE ManifestKept(m)
    BY <1>2, <2>1 DEF ManifestKept, TypeInv, RowsOK
  <2>2. CASE ManifestAdded(m)
    BY <2>2, GroupsKnown DEF ManifestAdded, Scrape
  <2>3. CASE ManifestSettled(m)
    BY <2>3, GroupsKnown DEF ManifestSettled
  <2>4. QED
    BY <1>0, <2>1, <2>2, <2>3 DEF ManifestMoves
<1>3. ASSUME NEW j \in JobIds
      PROVE  /\ (jobs[j].state = "unused")' <=> (jobs[j].kind = "none")'
             /\ (jobs[j].kind = "media_pipeline")' => (jobs[j].upload \in Uploads)'
             /\ Sidecar(j)' => /\ (jobs[j].manifest \in Manifests)' /\ (jobs[j].artifact \in Artifacts)'
                               /\ Scraped(jobs[j].manifest)'
                               /\ (jobs[j].state \in Unsettled \cup {"done", "failed"})'
  <2>0. /\ jobs[j].state = "unused" <=> jobs[j].kind = "none"
        /\ jobs[j].kind = "media_pipeline" => jobs[j].upload \in Uploads
        /\ Sidecar(j) => /\ jobs[j].manifest \in Manifests /\ jobs[j].artifact \in Artifacts
                         /\ Scraped(jobs[j].manifest)
                         /\ jobs[j].state \in Unsettled \cup {"done", "failed"}
    BY DEF TypeInv, RowsOK
  <2>1. CASE Keeps(j)
    BY <1>1, <2>0, <2>1 DEF Keeps, Sidecar, Scraped
  <2>2. CASE Advances(j)
    BY <1>1, <2>0, <2>2 DEF Advances, SameTask, Used, Sidecar, Scraped, Unsettled
  <2>3. CASE GetsMedia(j)
    BY <2>3 DEF GetsMedia, NewMediaRow, NoJobRow, Sidecar
  <2>4. CASE GetsSidecar(j)
    <3>1. mt.manifest \in Manifests /\ Scraped(mt.manifest)
      BY <2>4 DEF GetsSidecar, TypeInv, ThreadsOK
    <3>2. mt.next \in Artifacts
      BY TypeParts DEF TypeInv, MediaTyped, MediaThreads
    <3>3. jobs'[j] = NewSidecarRow(mt.manifest, mt.next)
      BY <2>4 DEF GetsSidecar
    <3>4. QED
      BY <1>1, <3>1, <3>2, <3>3 DEF NewSidecarRow, NoJobRow, Sidecar, Unsettled, Scraped
  <2>5. QED
    BY <1>0, <2>1, <2>2, <2>3, <2>4 DEF JobMoves
<1>4. QED
  BY <1>2, <1>3 DEF RowsOK

LEMMA ThreadsStep == ASSUME TypeInv, [Next]_vars PROVE ThreadsOK'
<1>0. JobMoves /\ ManifestMoves /\ MediaTyped /\ UploadTyped
  BY JobsStep, ManifestsStep, TypeParts DEF TypeInv
<1>1. \A m \in Manifests : Scraped(m) => Scraped(m)' /\ manifests'[m].group = manifests[m].group
  BY <1>0 DEF ManifestMoves, ManifestKept, ManifestAdded, ManifestSettled, Scraped
<1>2. \A j \in JobIds : Used(j) => SameTask(jobs'[j], jobs[j])
  BY <1>0 DEF JobMoves, Keeps, Advances, GetsMedia, GetsSidecar, SameTask
<1>3. ASSUME mt'.pc # "idle"
      PROVE  /\ (mt.job \in JobIds /\ jobs[mt.job].kind = "media_pipeline")'
             /\ (mt.upload = jobs[mt.job].upload)'
  <2>1. CASE ClaimMedia
    <3>1. PICK j \in JobIds : /\ mt' = Reading(j)
                              /\ jobs[j].kind = "media_pipeline"
      BY <2>1 DEF ClaimMedia, IsNextToClaim, IsFirst, Reading
    <3>2. mt'.job = j /\ mt'.upload = jobs[j].upload
      BY <3>1 DEF MediaIdle, Reading
    <3>3. QED
      BY <1>2, <3>1, <3>2 DEF Used, SameTask
  <2>2. CASE mt.pc # "idle" /\ mt'.job = mt.job /\ mt'.upload = mt.upload
    BY <1>2, <2>2 DEF TypeInv, ThreadsOK, Used, SameTask
  <2>3. CASE MediaDecides \/ Scrape \/ EnqueueSidecar
    <3>1. mt.pc # "idle" /\ mt'.job = mt.job /\ mt'.upload = mt.upload
      BY <1>0, <2>3 DEF MediaDecides, ReadSidecars, SetRun, QueueRefresh, Scrape,
         EnqueueSidecar, Decide,
                        MediaTyped, MediaThreads
    <3>2. QED
      BY <2>2, <3>1
  <2>4. CASE FinishMedia \/ FailMedia \/ Crash
    BY <1>3, <2>4 DEF FinishMedia, FailMedia, Crash, MediaIdle
  <2>5. CASE UNCHANGED mt
    BY <1>3, <2>2, <2>5
  <2>6. QED
    BY <2>1, <2>3, <2>4, <2>5, Steps, Frames
<1>4. ASSUME mt'.pc \in {"read", "scrape"} PROVE mt'.next = 1
  <2>1. CASE ClaimMedia
    BY <2>1 DEF ClaimMedia, MediaIdle
  <2>2. CASE ReadSidecars
    BY <1>0, <1>4, <2>2 DEF ReadSidecars, Decide, TypeInv, ThreadsOK, MediaTyped, MediaThreads
  <2>3. CASE Scrape \/ EnqueueSidecar \/ SetRun \/ QueueRefresh
    BY <1>0, <1>4, <2>3 DEF Scrape, EnqueueSidecar, SetRun, QueueRefresh, MediaTyped, MediaThreads
  <2>4. CASE FinishMedia \/ FailMedia \/ Crash
    BY <1>4, <2>4 DEF FinishMedia, FailMedia, Crash, MediaIdle
  <2>5. CASE UNCHANGED mt
    BY <1>4, <2>5 DEF TypeInv, ThreadsOK
  <2>6. QED
    BY <2>1, <2>2, <2>3, <2>4, <2>5, Steps, Frames DEF MediaDecides
<1>5. ASSUME mt'.pc = "enqueue"
      PROVE  /\ mt'.manifest \in Manifests /\ Scraped(mt.manifest)'
             /\ (manifests[mt.manifest].group = GroupOf[mt.upload])'
  <2>1. CASE Scrape
    <3>1. PICK m \in Manifests, good \in BOOLEAN :
            /\ manifests' = [manifests EXCEPT ![m] =
                 [group |-> GroupOf[mt.upload],
                  state |-> IF good THEN "local_sidecar_validated" ELSE "sidecar_verify_failed"]]
            /\ mt' = IF good THEN [mt EXCEPT !.pc = "enqueue", !.manifest = m]
                     ELSE [mt EXCEPT !.pc = "set", !.outcome = "PassthroughAllowed"]
      BY <2>1 DEF Scrape
    <3>2. good /\ mt'.manifest = m /\ mt'.upload = mt.upload
      BY <1>0, <1>5, <3>1 DEF MediaTyped, MediaThreads
    <3>3. manifests'[m] = [group |-> GroupOf[mt.upload], state |-> "local_sidecar_validated"]
      BY <3>1, <3>2, TypeParts DEF TypeInv, ManifestsTyped
    <3>4. QED
      BY <3>2, <3>3 DEF Scraped
  <2>2. CASE mt.pc = "enqueue" /\ mt'.manifest = mt.manifest /\ mt'.upload = mt.upload
    BY <1>1, <2>2 DEF TypeInv, ThreadsOK, Scraped
  <2>3. CASE EnqueueSidecar
    <3>1. mt.pc = "enqueue" /\ mt'.manifest = mt.manifest /\ mt'.upload = mt.upload
      BY <1>0, <2>3 DEF EnqueueSidecar, MediaTyped, MediaThreads
    <3>2. QED
      BY <2>2, <3>1
  <2>4. CASE ClaimMedia \/ MediaDecides
    BY <1>0, <1>5, <2>4
    DEF ClaimMedia, MediaDecides, ReadSidecars, SetRun, QueueRefresh, Decide, MediaIdle,
        MediaTyped, MediaThreads
  <2>5. CASE FinishMedia \/ FailMedia \/ Crash
    BY <1>5, <2>5 DEF FinishMedia, FailMedia, Crash, MediaIdle
  <2>6. CASE UNCHANGED mt
    BY <1>5, <2>2, <2>6
  <2>7. QED
    BY <2>1, <2>3, <2>4, <2>5, <2>6, Steps, Frames
<1>6. ASSUME ut'.pc # "idle" PROVE ut'.job \in JobIds /\ Sidecar(ut.job)'
  <2>1. CASE ClaimSidecar
    <3>1. PICK j \in JobIds : ut' = [UploadIdle EXCEPT !.pc = "copy", !.job = j] /\ Sidecar(j)
      BY <2>1 DEF ClaimSidecar, IsNextToClaim, IsFirst, Sidecar
    <3>2. ut'.job = j
      BY <3>1 DEF UploadIdle
    <3>3. QED
      BY <1>2, <3>1, <3>2 DEF Used, SameTask, Sidecar
  <2>2. CASE ut.pc # "idle" /\ ut'.job = ut.job
    BY <1>2, <2>2 DEF TypeInv, ThreadsOK, Used, SameTask, Sidecar
  <2>3. CASE CopySidecar \/ RecordDone \/ RecordFailed
    <3>1. ut.pc # "idle" /\ ut'.job = ut.job
      BY <1>0, <2>3 DEF CopySidecar, RecordDone, RecordFailed, UploadTyped
    <3>2. QED
      BY <2>2, <3>1
  <2>4. CASE RecordRetry \/ UpdateManifest \/ MarkFailed \/ Crash
    BY <1>6, <2>4 DEF RecordRetry, UpdateManifest, MarkFailed, Crash, UploadIdle
  <2>5. CASE UNCHANGED ut
    BY <1>6, <2>2, <2>5
  <2>6. QED
    BY <2>1, <2>3, <2>4, <2>5, Steps, Frames DEF UploadRecords
<1>7. ASSUME em'.pc = "call" PROVE em'.group \in Groups
  <2>1. CASE EmbyMoves
    BY <1>7, <2>1 DEF EmbyMoves, MediaUpdated, ClaimRefresh, EmbyIdle
  <2>2. CASE Crash
    BY <1>7, <2>2 DEF Crash, EmbyIdle
  <2>3. CASE UNCHANGED em
    BY <1>7, <2>3 DEF TypeInv, ThreadsOK
  <2>4. QED
    BY <2>1, <2>2, <2>3, Steps, Frames
<1>8. QED
  BY <1>3, <1>4, <1>5, <1>6, <1>7 DEF ThreadsOK

LEMMA TypeStep == TypeInv /\ [Next]_vars => TypeInv'
<1> SUFFICES ASSUME TypeInv, [Next]_vars PROVE TypeInv'
  OBVIOUS
<1>1. TypeOK'
  BY JobsStep, ManifestsStep, MediaStep, UploadStep, OthersStep
  DEF TypeOK, JobsTyped, ManifestsTyped, ManifestRow, RunsTyped, RemoteTyped, GroupsTyped,
     MediaTyped,
      MediaThreads, UploadTyped, OthersTyped
<1>2. QED
  BY <1>1, RowsStep, ThreadsStep DEF TypeInv

LEMMA Typed == Spec => []TypeInv
  BY TypeInit, TypeStep, PTL DEF Spec

\* The tables and the threads hold what they can hold, in every run.
THEOREM TypeCorrect == Spec => []TypeOK
<1>1. TypeInv => TypeOK
  BY DEF TypeInv
<1>2. QED
  BY <1>1, Typed, PTL

-----------------------------------------------------------------------------
(* Who moves a job that exists, and to what state. *)

ClaimedNow(j) == /\ \/ ClaimMedia /\ jobs[j].kind = "media_pipeline"
                    \/ ClaimSidecar /\ Sidecar(j)
                 /\ jobs'[j].state = "running"
MediaLets(j) == (FinishMedia \/ FailMedia) /\ j = mt.job
Verified(j) == RecordDone /\ j = ut.job /\ jobs'[j].state = "done"
GivenUp(j)  == RecordFailed /\ j = ut.job /\ jobs'[j].state = "failed"
Retried(j)  == RecordRetry /\ j = ut.job /\ jobs'[j].state \in {"verify_pending", "retry_wait"}
PutBack(j)  == /\ Reconciles
               /\ \/ jobs[j].state = "running" /\ jobs'[j].state = "retry_wait"
                  \/ jobs'[j].state = "failed" /\ GroupOfJob(jobs[j]) \in cut'

LEMMA Movers ==
  ASSUME TypeInv, [Next]_vars, NEW j \in JobIds, Used(j)
  PROVE  \/ Keeps(j) \/ ClaimedNow(j) \/ MediaLets(j) \/ Verified(j) \/ GivenUp(j)
         \/ Retried(j) \/ PutBack(j)
<1>0. JobsTyped /\ \A i \in JobIds : jobs[i] \in JobRows
  BY TypeParts DEF TypeInv, JobsTyped
<1>1. CASE Queues \/ EnqueueSidecar
  <2>1. PICK i \in JobIds : \E row : jobs[i].state = "unused" /\ jobs' = [jobs EXCEPT ![i] = row]
    <3>1. CASE Queues
      BY <3>1 DEF Queues, MediaUploaded, IsNextId
    <3>2. CASE EnqueueSidecar
      BY <3>2 DEF EnqueueSidecar, IsNextId
    <3>3. QED
      BY <1>1, <3>1, <3>2
  <2>2. i # j
    BY <2>1 DEF TypeInv, RowsOK, Used
  <2>3. QED
    BY <2>1, <2>2, <1>0 DEF Keeps, JobsTyped
<1>2. CASE ClaimMedia
  <2>1. PICK i \in JobIds : /\ jobs[i].kind = "media_pipeline"
                            /\ jobs' = [jobs EXCEPT ![i] = Claimed(jobs[i])]
    BY <1>2 DEF ClaimMedia, IsNextToClaim, IsFirst
  <2>2. QED
    BY <1>0, <1>2, <2>1, RowsTyped DEF Keeps, ClaimedNow, JobsTyped
<1>3. CASE ClaimSidecar
  <2>1. PICK i \in JobIds : Sidecar(i) /\ jobs' = [jobs EXCEPT ![i] = Claimed(jobs[i])]
    BY <1>3 DEF ClaimSidecar, IsNextToClaim, IsFirst, Sidecar
  <2>2. QED
    BY <1>0, <1>3, <2>1, RowsTyped DEF Keeps, ClaimedNow, JobsTyped
<1>4. CASE FinishMedia \/ FailMedia
  <2>1. PICK s : jobs' = [jobs EXCEPT ![mt.job] = WithState(jobs[mt.job], s)]
    BY <1>4 DEF FinishMedia, FailMedia
  <2>2. QED
    BY <1>0, <1>4, <2>1 DEF Keeps, MediaLets, JobsTyped
<1>5. CASE UploadRecords
  <2>1. ASSUME NEW s \in JobStates, jobs' = [jobs EXCEPT ![ut.job] = WithState(jobs[ut.job], s)]
        PROVE  Keeps(j) \/ (j = ut.job /\ jobs'[j].state = s)
    BY <1>0, <2>1, RowsTyped DEF Keeps, JobsTyped
  <2>2. CASE RecordDone
    BY <2>1, <2>2 DEF RecordDone, Verified, JobStates
  <2>3. CASE RecordFailed
    BY <2>1, <2>3 DEF RecordFailed, GivenUp, JobStates
  <2>4. CASE RecordRetry
    BY <2>1, <2>4 DEF RecordRetry, Retried, JobStates
  <2>5. QED
    BY <1>5, <2>2, <2>3, <2>4 DEF UploadRecords
<1>6. CASE Reconciles
  <2>1. PICK expired \in SUBSET JobIds : Reconcile(expired)
    BY <1>6 DEF Reconciles
  <2>2. jobs'[j] = IF j \in ExhaustedRetries(jobs) THEN WithState(jobs[j], "failed")
                   ELSE IF j \in expired THEN WithState(jobs[j], "retry_wait")
                   ELSE jobs[j]
    BY <2>1 DEF Reconcile, Reconciled
  <2>3. j \in expired => jobs[j].state = "running"
    BY <2>1 DEF Reconcile, Running
  <2>4. cut' = cut \cup {GroupOfJob(jobs[i]) : i \in ExhaustedRetries(jobs)}
    BY <2>1 DEF Reconcile
  <2>5. /\ WithState(jobs[j], "failed").state = "failed"
        /\ WithState(jobs[j], "retry_wait").state = "retry_wait"
    BY <1>0, RowsTyped DEF JobStates
  <2>6. QED
    BY <1>6, <2>2, <2>3, <2>4, <2>5 DEF Keeps, PutBack
<1>7. CASE UNCHANGED jobs
  BY <1>7 DEF Keeps
<1>8. QED
  BY <1>1, <1>2, <1>3, <1>4, <1>5, <1>6, <1>7, Steps, Frames

\* What is known of a job or a manifest stays true of it.
LEMMA Lasts ==
  ASSUME TypeInv, [Next]_vars
  PROVE  /\ \A j \in JobIds : Used(j) => /\ SameTask(jobs'[j], jobs[j]) /\ (Sidecar(j)' <=> Sidecar(j))
                                         /\ GroupOfJob(jobs[j])' = GroupOfJob(jobs[j])
         /\ \A m \in Manifests :
              manifests[m].state # "absent" => manifests'[m].group = manifests[m].group
         /\ \A m \in Manifests : Scraped(m) => Scraped(m)'
         /\ cut \subseteq cut'
         /\ \A m \in Manifests : remote[m] \subseteq remote'[m]
<1>0. JobMoves /\ ManifestMoves
  BY JobsStep, ManifestsStep
<1>1. \A j \in JobIds : Used(j) => SameTask(jobs'[j], jobs[j]) /\ (Sidecar(j)' <=> Sidecar(j))
  BY <1>0 DEF JobMoves, Keeps, Advances, GetsMedia, GetsSidecar, SameTask, Sidecar
<1>2. \A m \in Manifests : manifests[m].state # "absent" => manifests'[m].group = manifests[m].group
  BY <1>0 DEF ManifestMoves, ManifestKept, ManifestAdded, ManifestSettled
<1>3. \A m \in Manifests : Scraped(m) => Scraped(m)'
  BY <1>0 DEF ManifestMoves, ManifestKept, ManifestAdded, ManifestSettled, Scraped
<1>4. ASSUME NEW j \in JobIds, Used(j) PROVE GroupOfJob(jobs[j])' = GroupOfJob(jobs[j])
  <2>1. CASE Sidecar(j)
    BY <1>1, <1>2, <1>4, <2>1 DEF SameTask, Sidecar, GroupOfJob, TypeInv, RowsOK, Scraped
  <2>2. CASE ~Sidecar(j)
    BY <1>1, <1>4, <2>2 DEF SameTask, Sidecar, GroupOfJob
  <2>3. QED
    BY <2>1, <2>2
<1>5. cut \subseteq cut'
  BY Steps, Frames DEF FailMedia, Crash, Reconciles, Reconcile
<1>6. \A m \in Manifests : remote[m] \subseteq remote'[m]
  <2>1. CASE CopySidecar
    BY <2>1, TypeParts DEF CopySidecar, TypeInv, RemoteTyped
  <2>2. CASE UNCHANGED remote
    BY <2>2
  <2>3. QED
    BY <2>1, <2>2, Steps, Frames
<1>7. QED
  BY <1>1, <1>2, <1>3, <1>4, <1>5, <1>6

-----------------------------------------------------------------------------
(* What is verified is stored. *)

LEMMA StoredInit == TypeInv /\ Init => StoredInv
<1> SUFFICES ASSUME TypeInv, Init PROVE StoredInv
  OBVIOUS
<1>1. \A j \in JobIds : ~Sidecar(j)
  BY DEF Init, NoJobRow, Sidecar
<1>2. \A m \in Manifests : ~Scraped(m)
  BY DEF Init, NoRow, Scraped
<1>3. ut.pc = "idle"
  BY DEF Init, UploadIdle
<1>4. QED
  BY <1>1, <1>2, <1>3 DEF StoredInv, ArtifactsQueued, DoneStored, FailedSeen

LEMMA QueuedStep == ASSUME TypeInv, StoredInv, [Next]_vars PROVE ArtifactsQueued'
<1> DEFINE HasJob(m, a) == \E j \in JobIds : Sidecar(j) /\ jobs[j].manifest = m /\ jobs[j].artifact = a
<1>1. SUFFICES ASSUME NEW m \in Manifests, Scraped(m)', manifests'[m].group \notin cut',
                      NEW a \in Artifacts
               PROVE  HasJob(m, a)' \/ (mt'.pc = "enqueue" /\ mt'.manifest = m /\ a >= mt'.next)
  BY DEF ArtifactsQueued
<1>0. MediaTyped
  BY TypeParts DEF TypeInv
<1>2. HasJob(m, a) => HasJob(m, a)'
  BY Lasts DEF Used, Sidecar, SameTask
<1>3. CASE Scrape
  <2>1. CASE Scraped(m)
    <3>1. manifests[m].group \notin cut
      BY <1>1, <2>1, Lasts DEF Scraped
    <3>2. HasJob(m, a)
      BY <1>3, <2>1, <3>1 DEF StoredInv, ArtifactsQueued, Scrape
    <3>3. QED
      BY <1>2, <3>2
  <2>2. CASE ~Scraped(m)
    <3>1. PICK n \in Manifests, good \in BOOLEAN :
            /\ manifests' = [manifests EXCEPT ![n] =
                 [group |-> GroupOf[mt.upload],
                  state |-> IF good THEN "local_sidecar_validated" ELSE "sidecar_verify_failed"]]
            /\ mt' = IF good THEN [mt EXCEPT !.pc = "enqueue", !.manifest = n]
                     ELSE [mt EXCEPT !.pc = "set", !.outcome = "PassthroughAllowed"]
      BY <1>3 DEF Scrape
    <3>2. n = m
      BY <1>1, <2>2, <3>1, TypeParts DEF Scraped, TypeInv, ManifestsTyped
    <3>3. good
      BY <1>1, <3>1, <3>2, TypeParts DEF Scraped, TypeInv, ManifestsTyped
    <3>4. mt'.pc = "enqueue" /\ mt'.manifest = m /\ mt'.next = 1
      BY <1>0, <1>3, <3>1, <3>2, <3>3 DEF MediaTyped, MediaThreads, Scrape, TypeInv, ThreadsOK
    <3>5. QED
      BY <3>4 DEF Artifacts
  <2>3. QED
    BY <2>1, <2>2
<1>4. CASE ~Scrape
  <2>1. Scraped(m) /\ manifests[m].group \notin cut
    <3>1. ManifestKept(m) => Scraped(m)
      BY <1>1 DEF ManifestKept, Scraped
    <3>2. ManifestSettled(m) => Scraped(m)
      BY DEF ManifestSettled, TypeInv, ThreadsOK, RowsOK
    <3>3. Scraped(m)
      BY <1>4, <3>1, <3>2, ManifestsStep DEF ManifestMoves, ManifestAdded
    <3>4. QED
      BY <1>1, <3>3, Lasts DEF Scraped
  <2>2. CASE HasJob(m, a)
    BY <1>2, <2>2
  <2>3. CASE mt.pc = "enqueue" /\ mt.manifest = m /\ a >= mt.next
    <3>1. CASE EnqueueSidecar
      <4>1. PICK j \in JobIds : /\ jobs[j].state = "unused"
                                /\ jobs' = [jobs EXCEPT ![j] = NewSidecarRow(mt.manifest, mt.next)]
        BY <3>1 DEF EnqueueSidecar, IsNextId, NewSidecarRow
      <4>2. jobs'[j] = NewSidecarRow(mt.manifest, mt.next)
        BY <4>1, TypeParts DEF TypeInv, JobsTyped
      <4>3. CASE a = mt.next
        <5>1. jobs'[j] = NewSidecarRow(m, a)
          BY <2>3, <4>2, <4>3
        <5>2. QED
          BY <5>1 DEF NewSidecarRow, NoJobRow, Sidecar
      <4>4. CASE a # mt.next
        <5>1. mt.next \in 1..NArtifacts /\ a \in 1..NArtifacts
          BY <1>0 DEF MediaTyped, MediaThreads, Artifacts
        <5>2. mt.next < NArtifacts /\ a >= mt.next + 1
          BY <2>3, <4>4, <5>1, SidecarAssumption
        <5>3. mt' = [mt EXCEPT !.next = mt.next + 1]
          BY <3>1, <5>2 DEF EnqueueSidecar
        <5>4. QED
          BY <1>0, <2>3, <5>2, <5>3 DEF MediaTyped, MediaThreads
      <4>5. QED
        BY <4>3, <4>4
    <3>2. CASE FailMedia \/ Crash
      BY <1>1, <2>1, <2>3, <3>2, Lasts DEF FailMedia, Crash, TypeInv, ThreadsOK, Scraped
    <3>3. CASE UNCHANGED mt
      BY <2>3, <3>3
    <3>4. QED
      BY <1>4, <2>3, <3>1, <3>2, <3>3, Steps, Frames
      DEF ClaimMedia, MediaDecides, ReadSidecars, SetRun, QueueRefresh, FinishMedia
  <2>4. QED
    BY <2>1, <2>2, <2>3 DEF StoredInv, ArtifactsQueued
<1>5. QED
  BY <1>3, <1>4

LEMMA DoneStep == ASSUME TypeInv, StoredInv, [Next]_vars PROVE DoneStored'
<1>0. UploadTyped /\ RemoteTyped
  BY TypeParts DEF TypeInv
<1>1. ASSUME NEW j \in JobIds, Sidecar(j), Stored(j) PROVE Stored(j)'
  BY <1>1, Lasts DEF Stored, Used, Sidecar, SameTask, TypeInv, RowsOK
<1>2. ASSUME NEW j \in JobIds, Sidecar(j)', jobs'[j].state = "done" PROVE Stored(j)'
  <2>1. Used(j)
    BY <1>2, JobsStep DEF JobMoves, Keeps, Advances, GetsMedia, GetsSidecar, NewMediaRow,
       NewSidecarRow,
                          NoJobRow, Used, Sidecar
  <2>2. Sidecar(j)
    BY <1>2, <2>1, Lasts
  <2>3. CASE jobs[j].state = "done"
    BY <1>1, <2>2, <2>3 DEF StoredInv, DoneStored
  <2>4. CASE Verified(j)
    BY <1>1, <2>2, <2>4 DEF Verified, RecordDone, StoredInv, DoneStored
  <2>5. ~MediaLets(j)
    BY <2>2 DEF MediaLets, FinishMedia, FailMedia, TypeInv, ThreadsOK, Sidecar
  <2>6. QED
    BY <1>2, <2>1, <2>3, <2>4, <2>5, Movers DEF Keeps, ClaimedNow, GivenUp, Retried, PutBack
<1>3. ASSUME ut'.pc # "idle", ut'.verified PROVE Stored(ut.job)'
  <2>1. CASE CopySidecar
    <3>0. ut.pc # "idle" /\ ut.job \in JobIds /\ Sidecar(ut.job) /\ ut'.job = ut.job
      BY <1>0, <2>1 DEF CopySidecar, UploadTyped, TypeInv, ThreadsOK
    <3>1. CASE ut.verified
      BY <1>1, <3>0, <3>1 DEF StoredInv, DoneStored, Stored
    <3>2. CASE ~ut.verified
      <4>1. /\ jobs' = jobs
            /\ remote' = [remote EXCEPT ![jobs[ut.job].manifest] = @ \cup {jobs[ut.job].artifact}]
        BY <1>0, <1>3, <2>1, <3>2 DEF CopySidecar, UploadTyped, db
      <4>2. jobs[ut.job].manifest \in Manifests
        BY <3>0 DEF TypeInv, RowsOK
      <4>3. QED
        BY <1>0, <3>0, <4>1, <4>2 DEF Stored, RemoteTyped
    <3>3. QED
      BY <3>1, <3>2
  <2>2. CASE ut.pc # "idle" /\ ut.verified /\ ut'.job = ut.job
    BY <1>1, <2>2 DEF StoredInv, DoneStored, TypeInv, ThreadsOK, Stored
  <2>3. CASE RecordDone \/ RecordFailed
    <3>1. ut.pc # "idle" /\ ut'.job = ut.job /\ ut'.verified = ut.verified
      BY <1>0, <2>3 DEF RecordDone, RecordFailed, UploadTyped
    <3>2. QED
      BY <1>3, <2>2, <3>1
  <2>4. CASE ClaimSidecar \/ RecordRetry \/ UpdateManifest \/ MarkFailed \/ Crash
    <3>1. ClaimSidecar => ~ut'.verified
      BY DEF ClaimSidecar, UploadIdle
    <3>2. RecordRetry \/ UpdateManifest \/ MarkFailed \/ Crash => ut'.pc = "idle"
      BY DEF RecordRetry, UpdateManifest, MarkFailed, Crash, UploadIdle
    <3>3. QED
      BY <1>3, <2>4, <3>1, <3>2
  <2>5. CASE UNCHANGED ut
    BY <1>3, <2>2, <2>5
  <2>6. QED
    BY <2>1, <2>3, <2>4, <2>5, Steps, Frames DEF UploadRecords
<1>4. QED
  BY <1>2, <1>3 DEF DoneStored

LEMMA FailedStep == ASSUME TypeInv, StoredInv, [Next]_vars PROVE FailedSeen'
<1>0. UploadTyped /\ ManifestsTyped
  BY TypeParts DEF TypeInv
<1> SUFFICES ASSUME NEW j \in JobIds, Sidecar(j)', jobs'[j].state = "failed",
                    NEW m, m = jobs'[j].manifest
             PROVE  \/ (manifests[m].group \in cut)' \/ (manifests[m].state = "sidecar_upload_failed")'
                    \/ ut'.pc = "mark_failed" /\ (jobs[ut.job].manifest = m)'
  BY DEF FailedSeen
<1>1. Sidecar(j) /\ Used(j)
  <2>1. Used(j)
    BY JobsStep DEF JobMoves, Keeps, Advances, GetsMedia, GetsSidecar, NewMediaRow, NewSidecarRow,
                    NoJobRow, Used, Sidecar
  <2>2. QED
    BY <2>1, Lasts
<1>2. m = jobs[j].manifest /\ m \in Manifests /\ Scraped(m) /\ manifests'[m].group = manifests[m].group
      /\ GroupOfJob(jobs[j]) = manifests[m].group
  BY <1>1, Lasts DEF SameTask, TypeInv, RowsOK, Scraped, Sidecar, GroupOfJob
<1>3. CASE PutBack(j)
  BY <1>2, <1>3 DEF PutBack
<1>4. CASE GivenUp(j)
  <2>1. ut'.pc = "mark_failed" /\ ut'.job = j
    BY <1>0, <1>4 DEF GivenUp, RecordFailed, UploadTyped
  <2>2. QED
    BY <2>1
<1>5. CASE jobs[j].state = "failed"
  <2>1. CASE manifests[m].group \in cut
    BY <1>2, <2>1, Lasts
  <2>2. CASE manifests[m].state = "sidecar_upload_failed"
    <3>1. CASE ManifestSettled(m)
      <4>1. "failed" \in StatesOf(m)
        BY <1>1, <1>2, <1>5 DEF StatesOf, SidecarJobs, Sidecar
      <4>2. m = jobs[ut.job].manifest
        BY <3>1 DEF ManifestSettled
      <4>3. ApplyFailure(m)
        BY <3>1, <4>1, <4>2 DEF ManifestSettled, UpdateManifest, MarkFailed
      <4>4. QED
        BY <1>0, <1>2, <4>3 DEF ApplyFailure, ManifestsTyped, ManifestRow
    <3>2. QED
      BY <1>2, <2>2, <3>1, ManifestsStep DEF ManifestMoves, ManifestKept, ManifestAdded
  <2>3. CASE ut.pc = "mark_failed" /\ jobs[ut.job].manifest = m
    <3>1. CASE MarkFailed
      BY <1>0, <1>2, <2>3, <3>1 DEF MarkFailed, ApplyFailure, ManifestsTyped, ManifestRow
    <3>2. CASE Crash
      <4>1. GroupOfJob(jobs[ut.job]) = manifests[m].group
        BY <2>3, GroupsKnown
      <4>2. QED
        BY <1>2, <2>3, <3>2, <4>1 DEF Crash
    <3>3. CASE UNCHANGED ut
      BY <2>3, <3>3, Lasts DEF TypeInv, ThreadsOK, Sidecar, Used, SameTask
    <3>4. QED
      BY <2>3, <3>1, <3>2, <3>3, Steps, Frames
      DEF ClaimSidecar, CopySidecar, UploadRecords, RecordDone, RecordFailed, RecordRetry,
         UpdateManifest
  <2>4. QED
    BY <1>1, <1>2, <1>5, <2>1, <2>2, <2>3 DEF StoredInv, FailedSeen
<1>6. ~MediaLets(j)
  BY <1>1 DEF MediaLets, FinishMedia, FailMedia, TypeInv, ThreadsOK, Sidecar
<1>7. QED
  BY <1>1, <1>3, <1>4, <1>5, <1>6, Movers DEF Keeps, ClaimedNow, Verified, Retried

LEMMA StoredAlways == Spec => [](TypeInv /\ StoredInv)
<1>1. Init => TypeInv /\ StoredInv
  BY TypeInit, StoredInit
<1>2. TypeInv /\ StoredInv /\ [Next]_vars => (TypeInv /\ StoredInv)'
  BY TypeStep, QueuedStep, DoneStep, FailedStep DEF StoredInv
<1>3. QED
  BY <1>1, <1>2, PTL DEF Spec

\* Once the uploads of a manifest have settled it is verified only if each of
\* its artifacts is on the remote, however the media thread, the upload thread,
\* retries, crashes and reconciliations come between the first artifact queued
\* and the last one settled.
THEOREM NothingVerifiedUnstored == Spec => []VerifiedIsStored
<1>1. ASSUME TypeInv, StoredInv, NEW m \in Manifests,
             manifests[m].state = "sidecar_verified", manifests[m].group \notin cut,
             StatesOf(m) \cap Unsettled = {}, ~(mt.pc = "enqueue" /\ mt.manifest = m),
             ~UploadBusy(manifests[m].group)
      PROVE  remote[m] = Artifacts
  <2>1. ASSUME NEW a \in Artifacts PROVE a \in remote[m]
    <3>1. PICK j \in JobIds : Sidecar(j) /\ jobs[j].manifest = m /\ jobs[j].artifact = a
      BY <1>1 DEF StoredInv, ArtifactsQueued, Scraped
    <3>2. jobs[j].state \notin Unsettled
      BY <1>1, <3>1 DEF StatesOf, SidecarJobs, Sidecar
    <3>3. ~(ut.pc = "mark_failed" /\ jobs[ut.job].manifest = m)
      BY <1>1, GroupsKnown DEF UploadBusy
    <3>4. jobs[j].state # "failed"
      BY <1>1, <3>1, <3>3 DEF StoredInv, FailedSeen
    <3>5. jobs[j].state = "done"
      BY <1>1, <3>1, <3>2, <3>4 DEF TypeInv, RowsOK
    <3>6. QED
      BY <1>1, <3>1, <3>5 DEF StoredInv, DoneStored, Stored
  <2>2. remote[m] \subseteq Artifacts
    BY <1>1, TypeParts DEF TypeInv, RemoteTyped
  <2>3. QED
    BY <2>1, <2>2
<1>2. TypeInv /\ StoredInv => VerifiedIsStored
  BY <1>1 DEF VerifiedIsStored
<1>3. QED
  BY <1>2, StoredAlways, PTL

\* A manifest turns verified with all its artifacts on the remote, or while the
\* media thread has not queued them all: the count of settled uploads is never
\* misled by failures, retries, crashes or other manifests.
THEOREM StoredWhenVerified == Spec => VerifiedWhenStored
<1>1. ASSUME TypeInv, StoredInv, [Next]_vars, NEW m \in Manifests,
             manifests[m].state # "sidecar_verified", manifests'[m].state = "sidecar_verified",
             manifests[m].group \notin cut, ~(mt.pc = "enqueue" /\ mt.manifest = m)
      PROVE  remote[m] = Artifacts
  <2>1. UpdateManifest /\ m = jobs[ut.job].manifest /\ StatesOf(m) = {"done"}
    <3>0. ManifestsTyped
      BY <1>1, TypeParts DEF TypeInv
    <3>1. CASE Scrape
      BY <1>1, <3>0, <3>1 DEF Scrape, ManifestsTyped, ManifestRow
    <3>2. CASE MarkFailed
      BY <1>1, <3>0, <3>2 DEF MarkFailed, ApplyFailure, ManifestsTyped, ManifestRow
    <3>3. CASE UpdateManifest
      BY <1>1, <3>0, <3>3 DEF UpdateManifest, ApplyFailure, ManifestsTyped, ManifestRow
    <3>4. CASE UNCHANGED manifests
      BY <1>1, <3>4
    <3>5. QED
      BY <1>1, <3>1, <3>2, <3>3, <3>4, Steps, Frames
  <2>2. ut.pc # "idle" /\ Sidecar(ut.job) /\ ut.job \in JobIds
    BY <1>1, <2>1 DEF UpdateManifest, TypeInv, ThreadsOK, Sidecar
  <2>3. Scraped(m)
    BY <1>1, <2>1, <2>2 DEF TypeInv, RowsOK
  <2>4. ASSUME NEW a \in Artifacts PROVE a \in remote[m]
    <3>1. PICK j \in JobIds : Sidecar(j) /\ jobs[j].manifest = m /\ jobs[j].artifact = a
      BY <1>1, <2>3 DEF StoredInv, ArtifactsQueued
    <3>2. jobs[j].state = "done"
      BY <2>1, <3>1 DEF StatesOf, SidecarJobs, Sidecar
    <3>3. QED
      BY <1>1, <3>1, <3>2 DEF StoredInv, DoneStored, Stored
  <2>5. remote[m] \subseteq Artifacts
    BY <1>1, TypeParts DEF TypeInv, RemoteTyped
  <2>6. QED
    BY <2>4, <2>5
<1>2. TypeInv /\ StoredInv /\ [Next]_vars
        => [\A m \in Manifests :
              (/\ manifests[m].state # "sidecar_verified"
               /\ manifests'[m].state = "sidecar_verified"
               /\ manifests[m].group \notin cut)
              => remote[m] = Artifacts \/ (mt.pc = "enqueue" /\ mt.manifest = m)]_vars
  BY <1>1
<1>3. QED
  BY <1>2, StoredAlways, PTL DEF Spec, VerifiedWhenStored

-----------------------------------------------------------------------------
(* No refresh is lost.                                                     *)
(*                                                                         *)
(* The media thread drops its job after it has queued the refresh, or when *)
(* it may leave it to others (LeftToOthers); the upload thread settles its *)
(* job before the manifest, so in between it alone answers for the group   *)
(* (UnderWayServed); a thread that dies leaves a job that can be claimed   *)
(* again, or its group is cut off (HandsOpen).                             *)

LEMMA ServedInit == TypeInv /\ Init => ServedInv
<1> SUFFICES ASSUME TypeInv, Init PROVE ServedInv
  OBVIOUS
<1>1. HandsOpen /\ LeftToOthers
  BY DEF Init, MediaIdle, UploadIdle, HandsOpen, LeftToOthers
<1>2. UnderWayServed
  BY DEF Init, NoRow, UnderWay, UnderWayServed
<1>3. NoRefreshLost
  BY DEF Init, NoRefreshLost, Owed
<1>4. QED
  BY <1>1, <1>2, <1>3 DEF ServedInv

LEMMA InHandStays ==
  ASSUME TypeInv, [Next]_vars, NEW j \in JobIds, Used(j), InHand(j)
  PROVE  InHand(j)' \/ MediaLets(j) \/ Verified(j) \/ GivenUp(j) \/ Retried(j)
<1>1. GroupOfJob(jobs[j])' = GroupOfJob(jobs[j]) /\ cut \subseteq cut'
  BY Lasts
<1>2. CASE GroupOfJob(jobs[j]) \in cut
  BY <1>1, <1>2 DEF InHand
<1>3. CASE Keeps(j)
  BY <1>1, <1>3 DEF InHand, Keeps
<1>4. CASE ClaimedNow(j)
  BY <1>4 DEF InHand, ClaimedNow
<1>5. CASE PutBack(j)
  BY <1>1, <1>5 DEF InHand, PutBack
<1>6. QED
  BY <1>3, <1>4, <1>5, Movers

LEMMA HandsStep == ASSUME TypeInv, HandsOpen, [Next]_vars PROVE HandsOpen'
<1>0. JobsTyped /\ MediaTyped /\ UploadTyped /\ \A j \in JobIds : jobs[j] \in JobRows
  BY TypeParts DEF TypeInv, JobsTyped
<1>1. ASSUME mt'.pc # "idle" PROVE InHand(mt.job)'
  <2>1. CASE ClaimMedia
    <3>1. PICK j \in JobIds : /\ mt' = Reading(j)
                              /\ jobs' = [jobs EXCEPT ![j] = Claimed(jobs[j])]
      BY <2>1 DEF ClaimMedia, Reading
    <3>2. mt'.job = j
      BY <3>1 DEF MediaIdle, Reading
    <3>3. jobs'[j].state = "running"
      BY <1>0, <3>1, RowsTyped DEF JobsTyped
    <3>4. QED
      BY <3>2, <3>3 DEF InHand
  <2>2. CASE mt.pc # "idle" /\ mt'.job = mt.job
    <3>1. mt.job \in JobIds /\ Used(mt.job) /\ jobs[mt.job].kind = "media_pipeline" /\ InHand(mt.job)
      BY <2>2 DEF TypeInv, ThreadsOK, HandsOpen, Used
    <3>2. PICK j : j = mt.job
      OBVIOUS
    <3>3. ~MediaLets(j)
      BY <1>1 DEF MediaLets, FinishMedia, FailMedia, MediaIdle
    <3>4. ~Verified(j) /\ ~GivenUp(j) /\ ~Retried(j)
      BY <3>1, <3>2 DEF Verified, GivenUp, Retried, RecordDone, RecordFailed, RecordRetry,
         TypeInv, ThreadsOK,
                        Sidecar
    <3>5. InHand(j)'
      BY <3>1, <3>2, <3>3, <3>4, InHandStays
    <3>6. QED
      BY <2>2, <3>2, <3>5 DEF InHand
  <2>3. CASE MediaDecides \/ Scrape \/ EnqueueSidecar
    <3>1. mt.pc # "idle" /\ mt'.job = mt.job
      BY <1>0, <2>3 DEF MediaDecides, ReadSidecars, SetRun, QueueRefresh, Scrape,
         EnqueueSidecar, Decide,
                        MediaTyped, MediaThreads
    <3>2. QED
      BY <2>2, <3>1
  <2>4. CASE FinishMedia \/ FailMedia \/ Crash
    BY <1>1, <2>4 DEF FinishMedia, FailMedia, Crash, MediaIdle
  <2>5. CASE UNCHANGED mt
    BY <1>1, <2>2, <2>5
  <2>6. QED
    BY <2>1, <2>3, <2>4, <2>5, Steps, Frames
<1>2. ASSUME ut'.pc \in {"copy", "record"} PROVE InHand(ut.job)'
  <2>1. CASE ClaimSidecar
    <3>1. PICK j \in JobIds : /\ ut' = [UploadIdle EXCEPT !.pc = "copy", !.job = j]
                              /\ jobs' = [jobs EXCEPT ![j] = Claimed(jobs[j])]
      BY <2>1 DEF ClaimSidecar
    <3>2. ut'.job = j
      BY <3>1 DEF UploadIdle
    <3>3. jobs'[j].state = "running"
      BY <1>0, <3>1, RowsTyped DEF JobsTyped
    <3>4. QED
      BY <3>2, <3>3 DEF InHand
  <2>2. CASE ut.pc \in {"copy", "record"} /\ ut'.job = ut.job /\ ~UploadRecords
    <3>1. ut.job \in JobIds /\ Used(ut.job) /\ Sidecar(ut.job) /\ InHand(ut.job)
      BY <2>2 DEF TypeInv, ThreadsOK, HandsOpen, Used, Sidecar
    <3>2. PICK j : j = ut.job
      OBVIOUS
    <3>3. ~MediaLets(j)
      BY <3>1, <3>2 DEF MediaLets, FinishMedia, FailMedia, TypeInv, ThreadsOK, Sidecar
    <3>4. ~Verified(j) /\ ~GivenUp(j) /\ ~Retried(j)
      BY <2>2 DEF Verified, GivenUp, Retried, UploadRecords
    <3>5. InHand(j)'
      BY <3>1, <3>2, <3>3, <3>4, InHandStays
    <3>6. QED
      BY <2>2, <3>2, <3>5 DEF InHand
  <2>3. CASE UploadRecords
    <3>1. RecordDone \/ RecordFailed => ut'.pc \in {"update", "mark_failed"}
      BY <1>0 DEF RecordDone, RecordFailed, UploadTyped
    <3>2. RecordRetry => ut'.pc = "idle"
      BY DEF RecordRetry, UploadIdle
    <3>3. QED
      BY <1>2, <2>3, <3>1, <3>2 DEF UploadRecords
  <2>4. CASE CopySidecar
    <3>1. ut.pc = "copy" /\ ut'.job = ut.job
      BY <1>0, <2>4 DEF CopySidecar, UploadTyped
    <3>2. ~UploadRecords
      BY <3>1 DEF UploadRecords, RecordDone, RecordFailed, RecordRetry
    <3>3. QED
      BY <2>2, <3>1, <3>2
  <2>5. CASE UpdateManifest \/ MarkFailed \/ Crash
    BY <1>2, <2>5 DEF UpdateManifest, MarkFailed, Crash, UploadIdle
  <2>6. CASE UNCHANGED ut
    BY <1>2, <2>2, <2>3, <2>6
  <2>7. QED
    BY <2>1, <2>3, <2>4, <2>5, <2>6, Steps, Frames
<1>3. QED
  BY <1>1, <1>2 DEF HandsOpen

\* How an upload ends for its manifest: a refresh, or a job that goes on.
LEMMA UploadEnds ==
  ASSUME TypeInv, UpdateManifest \/ MarkFailed,
         NEW m, m = jobs[ut.job].manifest
  PROVE  /\ manifests'[m].state \in UnderWay
              => \E j \in JobIds : OpenSidecar(j) /\ jobs[j].manifest = m
         /\ AllowPassthrough => \/ manifests[m].group \in queued'
                               \/ \E j \in JobIds : OpenSidecar(j) /\ jobs[j].manifest = m
<1>0. ManifestsTyped /\ m \in Manifests
  BY TypeParts DEF TypeInv, ThreadsOK, RowsOK, UpdateManifest, MarkFailed
<1>1. ut.job \in JobIds /\ Sidecar(ut.job)
  BY DEF UpdateManifest, MarkFailed, TypeInv, ThreadsOK
<1>2. CASE ApplyFailure(m)
  <2>1. manifests'[m].state \notin UnderWay
    BY <1>0, <1>2 DEF ApplyFailure, ManifestsTyped, ManifestRow, UnderWay
  <2>2. AllowPassthrough => manifests[m].group \in queued'
    BY <1>2 DEF ApplyFailure, WithRefresh
  <2>3. QED
    BY <2>1, <2>2
<1>3. CASE "failed" \notin StatesOf(m) /\ StatesOf(m) # {"done"}
  <2>1. jobs[ut.job].state \in StatesOf(m)
    BY <1>1 DEF StatesOf, SidecarJobs, Sidecar
  <2>2. PICK s \in StatesOf(m) : s \notin {"done", "failed"}
    BY <1>3, <2>1
  <2>3. PICK j \in JobIds : Sidecar(j) /\ jobs[j].manifest = m /\ jobs[j].state = s
    BY <2>2 DEF StatesOf, SidecarJobs, Sidecar
  <2>4. s \in Unsettled
    BY <2>2, <2>3 DEF TypeInv, RowsOK
  <2>5. QED
    BY <2>3, <2>4 DEF OpenSidecar
<1>4. CASE /\ manifests' = [manifests EXCEPT ![m].state = "sidecar_verified"]
           /\ queued' = WithRefresh(manifests[m].group)
  <2>1. manifests'[m].state \notin UnderWay
    BY <1>0, <1>4 DEF ManifestsTyped, ManifestRow, UnderWay
  <2>2. manifests[m].group \in queued'
    BY <1>4 DEF WithRefresh
  <2>3. QED
    BY <2>1, <2>2
<1>5. QED
  BY <1>2, <1>3, <1>4 DEF UpdateManifest, MarkFailed

\* An open sidecar job stays open, or the upload thread settles it and will
\* tell its manifest, or its group is cut off.
LEMMA OpenStays ==
  ASSUME TypeInv, [Next]_vars, NEW j \in JobIds, OpenSidecar(j)
  PROVE  /\ Used(j) /\ jobs'[j].manifest = jobs[j].manifest
         /\ GroupOfJob(jobs[j])' = GroupOfJob(jobs[j])
         /\ \/ OpenSidecar(j)'
            \/ ut'.pc \in {"update", "mark_failed"} /\ ut'.job = j
            \/ GroupOfJob(jobs[j]) \in cut'
<1> DEFINE Goes == \/ OpenSidecar(j)'
                   \/ ut'.pc \in {"update", "mark_failed"} /\ ut'.job = j
                   \/ GroupOfJob(jobs[j]) \in cut'
<1>0. UploadTyped
  BY TypeParts DEF TypeInv
<1>1. Used(j) /\ Sidecar(j)'
  BY Lasts DEF OpenSidecar, Used, Sidecar
<1>2. ASSUME Keeps(j) PROVE Goes
  BY <1>1, <1>2 DEF Keeps, OpenSidecar
<1>3. ASSUME ClaimedNow(j) \/ Retried(j) PROVE Goes
  BY <1>1, <1>3 DEF ClaimedNow, Retried, OpenSidecar, Unsettled
<1>4. ASSUME Verified(j) \/ GivenUp(j) PROVE Goes
  BY <1>0, <1>4 DEF Verified, GivenUp, RecordDone, RecordFailed, UploadTyped
<1>5. ASSUME PutBack(j) PROVE Goes
  BY <1>1, <1>5 DEF PutBack, OpenSidecar, Unsettled
<1>6. ~MediaLets(j)
  BY DEF MediaLets, FinishMedia, FailMedia, TypeInv, ThreadsOK, Sidecar, OpenSidecar
<1>7. Goes
  BY <1>1, <1>2, <1>3, <1>4, <1>5, <1>6, Movers
<1>8. QED
  BY <1>1, <1>7, Lasts DEF SameTask

LEMMA GroupOfSidecar ==
  ASSUME TypeInv, NEW j \in JobIds, Sidecar(j)
  PROVE  /\ jobs[j].manifest \in Manifests /\ Scraped(jobs[j].manifest)
         /\ GroupOfJob(jobs[j]) = manifests[jobs[j].manifest].group
  BY DEF TypeInv, RowsOK, GroupOfJob, Sidecar

LEMMA UnderWayStep ==
  ASSUME TypeInv, UnderWayServed, [Next]_vars PROVE UnderWayServed'
<1>0. MediaTyped /\ UploadTyped /\ ManifestsTyped
  BY TypeParts DEF TypeInv
<1> SUFFICES ASSUME NEW m \in Manifests,
                    manifests'[m].state \in UnderWay, manifests'[m].group \notin cut'
             PROVE  \/ mt'.pc = "enqueue" /\ mt'.manifest = m
                    \/ \E j \in JobIds : OpenSidecar(j)' /\ jobs'[j].manifest = m
                    \/ ut'.pc \in {"update", "mark_failed"} /\ jobs'[ut'.job].manifest = m
  BY DEF UnderWayServed
<1>1. CASE ManifestAdded(m)
  <2>1. PICK n \in Manifests, good \in BOOLEAN :
          /\ manifests' = [manifests EXCEPT ![n] =
               [group |-> GroupOf[mt.upload],
                state |-> IF good THEN "local_sidecar_validated" ELSE "sidecar_verify_failed"]]
          /\ mt' = IF good THEN [mt EXCEPT !.pc = "enqueue", !.manifest = n]
                   ELSE [mt EXCEPT !.pc = "set", !.outcome = "PassthroughAllowed"]
    BY <1>1 DEF ManifestAdded, Scrape
  <2>2. n = m
    BY <1>0, <1>1, <2>1 DEF ManifestAdded, ManifestsTyped, UnderWay
  <2>3. good
    BY <1>0, <2>1, <2>2 DEF ManifestsTyped, UnderWay
  <2>4. QED
    BY <1>0, <2>1, <2>2, <2>3 DEF MediaTyped, MediaThreads
<1>2. CASE (UpdateManifest \/ MarkFailed) /\ m = jobs[ut.job].manifest
  <2>1. PICK j \in JobIds : OpenSidecar(j) /\ jobs[j].manifest = m
    BY <1>2, UploadEnds
  <2>2. jobs' = jobs
    BY <1>2, Frames
  <2>3. OpenSidecar(j)' /\ jobs'[j].manifest = m
    BY <2>1, <2>2 DEF OpenSidecar, Sidecar
  <2>4. QED
    BY <2>3
<1>3. CASE ManifestKept(m) /\ ~((UpdateManifest \/ MarkFailed) /\ m = jobs[ut.job].manifest)
  <2>1. manifests[m].state \in UnderWay /\ manifests[m].group = manifests'[m].group
        /\ manifests[m].group \notin cut
    BY <1>3, Lasts DEF ManifestKept
  <2>2. CASE mt.pc = "enqueue" /\ mt.manifest = m
    <3>1. CASE EnqueueSidecar
      <4>1. PICK j \in JobIds : jobs' = [jobs EXCEPT ![j] = NewSidecarRow(mt.manifest, mt.next)]
        BY <3>1 DEF EnqueueSidecar, NewSidecarRow
      <4>2. jobs'[j] = NewSidecarRow(m, mt.next)
        BY <2>2, <4>1, TypeParts DEF TypeInv, JobsTyped
      <4>3. OpenSidecar(j)' /\ jobs'[j].manifest = m
        BY <4>2 DEF NewSidecarRow, NoJobRow, OpenSidecar, Sidecar, Unsettled
      <4>4. QED
        BY <4>3
    <3>2. CASE FailMedia \/ Crash
      BY <2>1, <2>2, <3>2 DEF FailMedia, Crash, TypeInv, ThreadsOK
    <3>3. CASE UNCHANGED mt
      BY <2>2, <3>3
    <3>4. QED
      BY <2>2, <3>1, <3>2, <3>3, Steps, Frames
      DEF ClaimMedia, MediaDecides, ReadSidecars, SetRun, QueueRefresh, FinishMedia, Scrape
  <2>3. ASSUME NEW j \in JobIds, OpenSidecar(j), jobs[j].manifest = m
        PROVE  \/ OpenSidecar(j)' /\ jobs'[j].manifest = m
               \/ ut'.pc \in {"update", "mark_failed"} /\ jobs'[ut'.job].manifest = m
    BY <2>1, <2>3, OpenStays, GroupOfSidecar DEF OpenSidecar
  <2>4. CASE ut.pc \in {"update", "mark_failed"} /\ jobs[ut.job].manifest = m
    <3>1. CASE Crash
      BY <2>1, <2>4, <3>1, GroupsKnown DEF Crash
    <3>2. CASE UNCHANGED ut
      BY <2>4, <3>2, Lasts DEF TypeInv, ThreadsOK, Sidecar, Used, SameTask
    <3>3. QED
      BY <1>3, <2>4, <3>1, <3>2, Steps, Frames
      DEF ClaimSidecar, CopySidecar, UploadRecords, RecordDone, RecordFailed, RecordRetry
  <2>5. QED
    BY <2>1, <2>2, <2>3, <2>4 DEF UnderWayServed
<1>4. QED
  BY <1>1, <1>2, <1>3, ManifestsStep DEF ManifestMoves, ManifestSettled

\* What keeps a group served goes on doing so, until the refresh is made.
LEMMA ServedStays ==
  ASSUME TypeInv, HandsOpen, AllowPassthrough, [Next]_vars, NEW g, Served(g)
  PROVE  Served(g)' \/ (ClaimMedia /\ mt'.pc # "idle" /\ g = GroupOf[mt'.upload])
<1>0. UploadTyped /\ cut \subseteq cut'
  BY TypeParts, Lasts DEF TypeInv
<1>1. CASE g \in cut
  BY <1>0, <1>1 DEF Served
<1>2. ASSUME NEW j \in JobIds, OpenSidecar(j), GroupOfJob(jobs[j]) = g PROVE Served(g)'
  <2>1. GroupOfJob(jobs[j])' = g
    BY <1>2, OpenStays
  <2>2. CASE OpenSidecar(j)'
    BY <2>1, <2>2 DEF Served
  <2>3. CASE ut'.pc \in {"update", "mark_failed"} /\ ut'.job = j
    BY <2>1, <2>3 DEF Served, UploadBusy, GroupOfJob
  <2>4. CASE g \in cut'
    BY <2>4 DEF Served
  <2>5. QED
    BY <1>2, <2>2, <2>3, <2>4, OpenStays
<1>3. CASE g \notin Owed
  <2>1. CASE ClaimMedia
    <3>1. PICK j \in JobIds : /\ mt' = Reading(j)
                              /\ NewContent(GroupOf[jobs[j].upload])
      BY <2>1 DEF ClaimMedia, Reading
    <3>2. mt'.pc = "read" /\ mt'.upload = jobs[j].upload
      BY <3>1 DEF MediaIdle, Reading
    <3>3. CASE g = GroupOf[jobs[j].upload]
      BY <2>1, <3>2, <3>3
    <3>4. CASE g # GroupOf[jobs[j].upload]
      BY <1>3, <3>1, <3>4 DEF Served, Owed, NewContent
    <3>5. QED
      BY <3>3, <3>4
  <2>2. CASE CopySidecar
    <3>1. CASE g \notin Owed'
      BY <3>1 DEF Served
    <3>2. CASE g \in Owed'
      <4>1. g = manifests[jobs[ut.job].manifest].group /\ ut.pc # "idle"
        BY <1>3, <2>2, <3>2 DEF CopySidecar, Owed, NewContent
      <4>2. UNCHANGED <<jobs, manifests>> /\ ut'.pc # "idle" /\ ut'.job = ut.job
        BY <1>0, <2>2, Frames DEF CopySidecar, UploadTyped
      <4>3. UploadBusy(g)'
        BY <4>1, <4>2, GroupsKnown DEF UploadBusy, GroupOfJob
      <4>4. QED
        BY <4>3 DEF Served
    <3>3. QED
      BY <3>1, <3>2
  <2>3. CASE EmbyMoves
    BY <1>3, <2>3 DEF EmbyMoves, MediaUpdated, ClaimRefresh, Served, Owed
  <2>4. CASE UNCHANGED <<unshown, refused>>
    BY <1>3, <2>4 DEF Served, Owed
  <2>5. QED
    BY <2>1, <2>2, <2>3, <2>4, Steps, Frames
<1>4. CASE RefreshDue(g)
  <2>1. CASE MediaUpdated
    BY <1>4, <2>1 DEF MediaUpdated, RefreshDue, Served, Owed, db
  <2>2. ASSUME NEW h \in Groups, ClaimRefresh(h) PROVE Served(g)'
    BY <1>4, <2>2 DEF ClaimRefresh, RefreshDue, Served
  <2>3. CASE Crash
    BY <1>4, <2>3 DEF Crash, RefreshDue, Served, db
  <2>4. CASE queued \subseteq queued' /\ UNCHANGED em
    BY <1>4, <2>4 DEF RefreshDue, Served
  <2>5. UpdateManifest \/ MarkFailed => queued \subseteq queued' /\ UNCHANGED em
    BY Frames DEF UpdateManifest, MarkFailed, ApplyFailure, WithRefresh
  <2>6. MediaDecides => queued \subseteq queued' /\ UNCHANGED em
    BY DEF MediaDecides, ReadSidecars, SetRun, QueueRefresh, WithRefresh, db
  <2>7. QED
    BY <2>1, <2>2, <2>3, <2>4, <2>5, <2>6, Steps, Frames DEF EmbyMoves
<1>5. CASE UploadBusy(g)
  <2>0. /\ ut.pc # "idle" /\ ut.job \in JobIds /\ Sidecar(ut.job) /\ Used(ut.job)
        /\ GroupOfJob(jobs[ut.job]) = g /\ manifests[jobs[ut.job].manifest].group = g
    BY <1>5, GroupsKnown DEF UploadBusy, TypeInv, ThreadsOK, Used, Sidecar
  <2>1. ASSUME ut'.pc # "idle", ut'.job = ut.job PROVE Served(g)'
    <3>1. GroupOfJob(jobs[ut.job])' = g
      BY <2>0, <2>1, Lasts DEF GroupOfJob
    <3>2. QED
      BY <2>1, <3>1 DEF Served, UploadBusy
  <2>2. CASE CopySidecar \/ RecordDone \/ RecordFailed
    BY <1>0, <2>1, <2>2 DEF CopySidecar, RecordDone, RecordFailed, UploadTyped
  <2>3. CASE RecordRetry
    <3>1. PICK s \in {"verify_pending", "retry_wait"} :
            jobs' = [jobs EXCEPT ![ut.job] = WithState(jobs[ut.job], s)]
      BY <2>3 DEF RecordRetry
    <3>2. PICK j \in JobIds : j = ut.job
      BY <2>0
    <3>3. jobs'[j].state = s
      BY <3>1, <3>2, TypeParts, RowsTyped DEF TypeInv, JobsTyped, JobStates
    <3>4. OpenSidecar(j)' /\ GroupOfJob(jobs[j])' = g
      BY <2>0, <3>1, <3>2, <3>3, Lasts DEF OpenSidecar, Unsettled
    <3>5. QED
      BY <3>4 DEF Served
  <2>4. CASE UpdateManifest \/ MarkFailed
    <3>1. \/ g \in queued'
          \/ \E j \in JobIds : OpenSidecar(j) /\ jobs[j].manifest = jobs[ut.job].manifest
      BY <2>0, <2>4, UploadEnds
    <3>2. CASE g \in queued'
      BY <3>2 DEF Served, RefreshDue
    <3>3. ASSUME NEW j \in JobIds, OpenSidecar(j), jobs[j].manifest = jobs[ut.job].manifest
          PROVE  Served(g)'
      BY <1>2, <2>0, <3>3, GroupOfSidecar DEF OpenSidecar
    <3>4. QED
      BY <3>1, <3>2, <3>3
  <2>5. CASE Crash
    <3>1. CASE ut.pc \in {"update", "mark_failed"}
      BY <2>0, <2>5, <3>1 DEF Crash, Served
    <3>2. CASE ut.pc \in {"copy", "record"}
      BY <1>1, <1>2, <2>0, <3>2 DEF HandsOpen, InHand, OpenSidecar, Unsettled
    <3>3. QED
      BY <1>0, <2>0, <3>1, <3>2 DEF UploadTyped, UploadSteps
  <2>6. CASE UNCHANGED ut
    BY <2>0, <2>1, <2>6
  <2>7. QED
    BY <2>0, <2>2, <2>3, <2>4, <2>5, <2>6, Steps, Frames DEF UploadRecords, ClaimSidecar
<1>6. QED
  BY <1>1, <1>2, <1>3, <1>4, <1>5 DEF Served

LEMMA LeftStep ==
  ASSUME TypeInv, ServedInv, AllowPassthrough, [Next]_vars PROVE LeftToOthers'
<1>0. MediaTyped
  BY TypeParts DEF TypeInv
<1> SUFFICES ASSUME mt'.pc = "finish" \/ (mt'.pc = "set" /\ mt'.outcome \notin RefreshNow),
                    NEW g, g = GroupOf[mt'.upload]
             PROVE  Served(g)'
  BY DEF LeftToOthers
<1>1. ASSUME Served(g), ~ClaimMedia PROVE Served(g)'
  BY <1>1, ServedStays DEF ServedInv
<1>2. CASE ReadSidecars
  <2>1. SidecarsOf(g, UnderWay) # {} /\ mt.pc = "read" /\ mt'.upload = mt.upload
    BY <1>0, <1>2 DEF ReadSidecars, Decide, RefreshNow, MediaTyped, MediaThreads
  <2>2. PICK m \in Manifests : manifests[m].group = g /\ manifests[m].state \in UnderWay
    BY <2>1 DEF SidecarsOf
  <2>3. ASSUME NEW j \in JobIds, OpenSidecar(j), jobs[j].manifest = m PROVE Served(g)
    BY <2>2, <2>3, GroupOfSidecar DEF OpenSidecar, Served
  <2>4. CASE ut.pc \in {"update", "mark_failed"} /\ jobs[ut.job].manifest = m
    <3>1. UploadBusy(g)
      BY <2>2, <2>4, GroupsKnown DEF UploadBusy
    <3>2. Served(g)
      BY <3>1 DEF Served
    <3>3. QED
      BY <1>1, <2>1, <3>2 DEF ClaimMedia
  <2>5. CASE g \in cut
    BY <1>1, <2>1, <2>5 DEF ClaimMedia, Served
  <2>6. QED
    BY <1>1, <2>1, <2>2, <2>3, <2>4, <2>5 DEF ServedInv, UnderWayServed, ClaimMedia
<1>3. CASE Scrape
  BY <1>0, <1>3 DEF Scrape, RefreshNow, MediaTyped, MediaThreads
<1>4. CASE EnqueueSidecar
  <2>1. PICK j \in JobIds : jobs' = [jobs EXCEPT ![j] = NewSidecarRow(mt.manifest, mt.next)]
    BY <1>4 DEF EnqueueSidecar, NewSidecarRow
  <2>2. jobs'[j] = NewSidecarRow(mt.manifest, mt.next)
    BY <2>1, TypeParts DEF TypeInv, JobsTyped
  <2>3. mt'.upload = mt.upload /\ manifests' = manifests
    BY <1>0, <1>4 DEF EnqueueSidecar, MediaTyped, MediaThreads
  <2>4. manifests'[mt.manifest].group = g
    BY <1>4, <2>3 DEF EnqueueSidecar, TypeInv, ThreadsOK
  <2>5. OpenSidecar(j)' /\ GroupOfJob(jobs[j])' = g
    BY <2>2, <2>4 DEF NewSidecarRow, NoJobRow, OpenSidecar, Sidecar, Unsettled, GroupOfJob
  <2>6. QED
    BY <2>5 DEF Served
<1>5. CASE SetRun
  <2>1. mt.pc = "set" /\ mt.outcome \notin RefreshNow /\ mt'.upload = mt.upload
    BY <1>0, <1>5 DEF SetRun, MediaTyped, MediaThreads
  <2>2. QED
    BY <1>1, <2>1 DEF ServedInv, LeftToOthers, ClaimMedia
<1>6. CASE QueueRefresh
  <2>1. mt'.upload = mt.upload
    BY <1>0, <1>6 DEF QueueRefresh, MediaTyped, MediaThreads
  <2>2. g \in queued'
    BY <1>6, <2>1 DEF QueueRefresh, WithRefresh
  <2>3. QED
    BY <2>2 DEF Served, RefreshDue
<1>7. CASE ClaimMedia \/ FinishMedia \/ FailMedia \/ Crash
  <2>1. ClaimMedia => mt'.pc = "read"
    BY DEF ClaimMedia, MediaIdle
  <2>2. FinishMedia \/ FailMedia \/ Crash => mt'.pc = "idle"
    BY DEF FinishMedia, FailMedia, Crash, MediaIdle
  <2>3. QED
    BY <1>7, <2>1, <2>2
<1>8. CASE UNCHANGED mt
  BY <1>1, <1>8 DEF ServedInv, LeftToOthers, ClaimMedia, MediaIdle
<1>9. QED
  BY <1>2, <1>3, <1>4, <1>5, <1>6, <1>7, <1>8, Steps, Frames DEF MediaDecides

LEMMA RefreshStep ==
  ASSUME TypeInv, ServedInv, AllowPassthrough, [Next]_vars PROVE NoRefreshLost'
<1>0. JobsTyped /\ MediaTyped /\ \A j \in JobIds : jobs[j] \in JobRows
  BY TypeParts DEF TypeInv, JobsTyped
<1> SUFFICES ASSUME NEW g \in Groups, g \in Owed', g \notin cut'
             PROVE  RefreshDue(g)' \/ JobOpen(g)' \/ MediaBusy(g)' \/ UploadBusy(g)'
  <2>1. Owed' \subseteq Groups
    BY OthersStep DEF GroupsTyped, Owed
  <2>2. QED
    BY <2>1 DEF NoRefreshLost
<1> DEFINE Answered == RefreshDue(g)' \/ JobOpen(g)' \/ MediaBusy(g)' \/ UploadBusy(g)'
<1>1. Served(g)' => Answered
  BY DEF Served, JobOpen, OpenSidecar
<1>2. CASE Served(g)
  BY <1>1, <1>2, ServedStays DEF ServedInv, MediaBusy
<1>3. CASE MediaBusy(g)
  <2>0. /\ mt.pc # "idle" /\ GroupOf[mt.upload] = g /\ mt.job \in JobIds /\ Used(mt.job)
        /\ GroupOfJob(jobs[mt.job]) = g
    BY <1>3 DEF MediaBusy, TypeInv, ThreadsOK, Used, GroupOfJob
  <2>1. CASE FinishMedia
    BY <1>2, <2>0, <2>1 DEF FinishMedia, ServedInv, LeftToOthers
  <2>2. CASE FailMedia
    <3>1. PICK j \in JobIds : j = mt.job
      BY <2>0
    <3>2. jobs'[j] = WithState(jobs[j], "retry_wait")
      BY <1>0, <2>2, <3>1 DEF FailMedia, JobsTyped
    <3>3. jobs'[j].state = "retry_wait" /\ GroupOfJob(jobs[j])' = g
      BY <1>0, <2>0, <3>1, <3>2, RowsTyped, Lasts DEF JobStates
    <3>4. QED
      BY <3>3 DEF JobOpen, Unsettled
  <2>3. CASE Crash
    <3>1. PICK j \in JobIds : j = mt.job
      BY <2>0
    <3>2. jobs' = jobs /\ GroupOfJob(jobs[j])' = g /\ g \notin cut
      BY <2>0, <2>3, <3>1, Frames, Lasts
    <3>3. jobs'[j].state \in {"running", "retry_wait"}
      BY <2>0, <3>1, <3>2 DEF ServedInv, HandsOpen, InHand
    <3>4. QED
      BY <3>2, <3>3 DEF JobOpen, Unsettled
  <2>4. CASE MediaDecides \/ Scrape \/ EnqueueSidecar
    <3>1. mt'.pc # "idle" /\ mt'.upload = mt.upload
      BY <1>0, <2>4 DEF MediaDecides, ReadSidecars, SetRun, QueueRefresh, Scrape,
         EnqueueSidecar, Decide,
                        MediaTyped, MediaThreads
    <3>2. QED
      BY <2>0, <3>1 DEF MediaBusy
  <2>5. CASE UNCHANGED mt
    BY <2>0, <2>5 DEF MediaBusy
  <2>6. QED
    BY <2>0, <2>1, <2>2, <2>3, <2>4, <2>5, Steps, Frames DEF ClaimMedia
<1>4. ASSUME NEW j \in JobIds, jobs[j].state \in Unsettled, GroupOfJob(jobs[j]) = g, ~Sidecar(j)
      PROVE  Answered
  <2>1. Used(j) /\ GroupOfJob(jobs[j])' = g
    BY <1>4, Lasts DEF TypeInv, RowsOK, Used, Unsettled
  <2>2. CASE Keeps(j) \/ ClaimedNow(j) \/ PutBack(j)
    <3>1. jobs'[j].state \in Unsettled
      BY <1>4, <2>2 DEF Keeps, ClaimedNow, PutBack, Unsettled
    <3>2. QED
      BY <2>1, <3>1 DEF JobOpen
  <2>3. CASE MediaLets(j)
    <3>1. MediaBusy(g)
      BY <1>4, <2>3 DEF MediaLets, FinishMedia, FailMedia, MediaBusy, TypeInv, ThreadsOK,
         GroupOfJob
    <3>2. QED
      BY <1>3, <3>1
  <2>4. ~Verified(j) /\ ~GivenUp(j) /\ ~Retried(j)
    BY <1>4 DEF Verified, GivenUp, Retried, RecordDone, RecordFailed, RecordRetry, TypeInv,
       ThreadsOK
  <2>5. QED
    BY <2>1, <2>2, <2>3, <2>4, Movers
<1>5. CASE g \in Owed /\ g \notin cut
  <2>1. RefreshDue(g) \/ JobOpen(g) \/ MediaBusy(g) \/ UploadBusy(g)
    BY <1>5 DEF ServedInv, NoRefreshLost
  <2>2. CASE RefreshDue(g) \/ UploadBusy(g)
    BY <1>2, <2>2 DEF Served
  <2>3. CASE JobOpen(g)
    <3>1. PICK j \in JobIds : jobs[j].state \in Unsettled /\ GroupOfJob(jobs[j]) = g
      BY <2>3 DEF JobOpen
    <3>2. CASE Sidecar(j)
      BY <1>2, <3>1, <3>2 DEF Served, OpenSidecar
    <3>3. QED
      BY <1>4, <3>1, <3>2
  <2>4. QED
    BY <1>3, <2>1, <2>2, <2>3
<1>6. QED
  BY <1>2, <1>5 DEF Served

LEMMA ServedAlways == Spec => [](TypeInv /\ ServedInv)
<1>1. Init => TypeInv /\ ServedInv
  BY TypeInit, ServedInit
<1>2. TypeInv /\ ServedInv /\ [Next]_vars => (TypeInv /\ ServedInv)'
  <2>1. ASSUME TypeInv, ServedInv, [Next]_vars PROVE HandsOpen' /\ UnderWayServed'
    BY <2>1, HandsStep, UnderWayStep DEF ServedInv
  <2>2. ASSUME TypeInv, ServedInv, [Next]_vars, AllowPassthrough
        PROVE  LeftToOthers' /\ NoRefreshLost'
    BY <2>2, LeftStep, RefreshStep
  <2>3. QED
    BY <2>1, <2>2, TypeStep DEF ServedInv
<1>3. QED
  BY <1>1, <1>2, PTL DEF Spec

\* Content that no Emby call has been made for is never left to nobody: somebody
\* queues the refresh, makes it or still works for the group, unless the group
\* was cut off or given up.  A call that fails is outside: it is not made again.
THEOREM RefreshIsNotLost == Spec => []NoRefreshLost
<1>1. TypeInv /\ ServedInv => NoRefreshLost
  BY DEF ServedInv, NoRefreshLost
<1>2. QED
  BY <1>1, ServedAlways, PTL
=============================================================================

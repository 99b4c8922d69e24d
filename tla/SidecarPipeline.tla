-------------------------- MODULE SidecarPipeline --------------------------
(***************************************************************************)
(* From a verified media upload to the Emby refresh of its directory:      *)
(* MediaPipelineJobRunner with MediaPipelineService (media thread), the    *)
(* sidecar half of UploadJobRunner (upload thread), EmbyRefreshWorker      *)
(* (Emby thread), reconcile_jobs and daemon crashes.                       *)
(*                                                                         *)
(* One action is one transaction, one external call, or one read of the    *)
(* database with the local work up to the next call.  What a thread holds  *)
(* in local variables is its record (mt, ut, em), lost in a crash.  A      *)
(* media group has one Emby directory, so the refresh tasks are a set of   *)
(* groups; a task's due time (debounce) is a free choice of the moment.    *)
(* Uploads whose files all fail the content gate are left out: their job   *)
(* is done at once and touches no other row.                               *)
(***************************************************************************)
EXTENDS TorrentJobs, FiniteSets

CONSTANTS Uploads, NoUpload,  \* upload_manifest_id of the verified media uploads
          Groups, NoGroup,
          Recognized,    \* uploads whose name the normalizer is sure of
          GroupOf,       \* the media group of an upload
          NArtifacts,    \* sidecars of a scrape, in list order
          MaxManifests,  \* bound: rows sidecar_manifests can hold
          AllowPassthrough, \* allow_unrecognized_passthrough
          FaultSteps,    \* bound: steps of the media thread that may raise
          MaxFaults      \* bound: errors, crashes and reconciliations

ASSUME SidecarAssumption ==
  /\ GroupOf \in [Uploads -> Groups] /\ NoGroup \notin Groups /\ Recognized \subseteq Uploads
  /\ NoUpload \notin Uploads /\ NArtifacts \in Nat \ {0}
  /\ MaxManifests \in Nat \ {0} /\ AllowPassthrough \in BOOLEAN
  /\ MaxFaults \in Nat

VARIABLES
  jobs,       \* torrent_jobs: media_pipeline and sidecar_upload rows
  manifests,  \* sidecar_manifests
  runs,       \* media_pipeline_runs: state of each upload's run
  queued,     \* groups with an emby_refresh_tasks row in state queued
  remote,     \* artifacts of each manifest seen on the remote at their size
  mt, ut, em, \* what the media, upload and Emby threads remember
  unshown,    \* observer: groups with content Emby has not been told of
  refused,    \* observer: those of them whose last Emby call failed
  cut,        \* observer: groups whose handling was cut off between two of
              \*   its transactions by a crash, an error or a reconciliation
  crashed,    \* observer: the daemon has died once
  faults      \* counter of the bound

db      == <<jobs, manifests, runs, queued>>
threads == <<mt, ut, em>>
vars    == <<db, remote, threads, unshown, refused, cut, crashed, faults>>

Manifests == 1..MaxManifests
NoManifest == 0
NoJob == 0
Artifacts == 1..NArtifacts

ManifestStates == {"absent", "local_sidecar_validated", "sidecar_uploading",
                   "sidecar_verified", "sidecar_verify_failed", "sidecar_upload_failed"}
UnderWay == {"local_sidecar_validated", "sidecar_uploading"}
RunStates == {"absent", "created", "SidecarUploadQueued", "SidecarUploading",
              "SidecarVerified", "PassthroughAllowed", "ManualReview"}
Waiting == {"SidecarUploadQueued", "SidecarUploading"}
MediaSteps == {"idle", "read", "scrape", "enqueue", "set", "refresh", "finish"}
UploadSteps == {"idle", "copy", "record", "update", "mark_failed"}
Unsettled == {"queued", "running", "retry_wait", "verify_pending"}

NoJobRow  == [kind |-> "none", prio |-> 0, state |-> "unused", attempts |-> 0,
              upload |-> NoUpload, manifest |-> NoManifest, artifact |-> 0]
NoRow     == [group |-> NoGroup, state |-> "absent"]
\* Fault: the artifacts are counted from zero.
MediaIdleFromZero == [pc |-> "idle", job |-> NoJob, upload |-> NoUpload,
              manifest |-> NoManifest, next |-> 0, outcome |-> "absent"]
MediaIdle == [pc |-> "idle", job |-> NoJob, upload |-> NoUpload,
              manifest |-> NoManifest, next |-> 1, outcome |-> "absent"]
UploadIdle == [pc |-> "idle", job |-> NoJob, verified |-> FALSE]
EmbyIdle  == [pc |-> "idle", group |-> NoGroup]

Init ==
  /\ jobs = [j \in JobIds |-> NoJobRow]
  /\ manifests = [m \in Manifests |-> NoRow]
  /\ runs = [u \in Uploads |-> "absent"]
  /\ queued = {}
  /\ remote = [m \in Manifests |-> {}]
  /\ mt = MediaIdle /\ ut = UploadIdle /\ em = EmbyIdle
  /\ unshown = {} /\ refused = {} /\ cut = {}
  /\ crashed = FALSE /\ faults = 0

-----------------------------------------------------------------------------
(* Reads shared by the handlers. *)

GroupOfJob(row) == IF row.kind = "media_pipeline" THEN GroupOf[row.upload]
                   ELSE IF row.kind = "sidecar_upload" THEN manifests[row.manifest].group
                   ELSE NoGroup
SidecarJobs(m) == {j \in JobIds : jobs[j].kind = "sidecar_upload" /\ jobs[j].manifest = m}
\* Fault: uploads that were not tried yet do not count.
StatesOfTried(m) == {jobs[j].state : j \in {i \in SidecarJobs(m) : jobs[i].attempts > 0}}

\* Fault: uploads that were given up do not count.
StatesOfLive(m) == {jobs[j].state : j \in {i \in SidecarJobs(m) : Live(jobs[i])}}

StatesOf(m) == {jobs[j].state : j \in SidecarJobs(m)}

\* _sidecar_manifest_state: a verified row of the group comes first.
SidecarsOf(g, states) == {m \in Manifests : manifests[m].group = g /\ manifests[m].state \in states}

\* _existing queued task of the directory or a new one.
WithRefresh(g) == queued \cup {g}

\* The run a group's sidecars decide: those of its uploads that wait for them.
RunsSettled(g, s) == [u \in Uploads |-> IF GroupOf[u] = g /\ runs[u] \in Waiting THEN s ELSE runs[u]]

\* Observers: the group has something that Emby should learn of.
NewContent(g) == unshown' = unshown \cup {g} /\ refused' = refused \ {g}

-----------------------------------------------------------------------------
(* UploadJobRunner, the media half: a verified media upload.               *)

\* _enqueue_media_pipeline_if_present, by the upload thread.
MediaUploaded(u) ==
  /\ ut.pc = "idle"
  /\ \A j \in JobIds : jobs[j].upload # u
  /\ \E j \in JobIds :
       /\ IsNextId(jobs, j)
       /\ jobs' = [jobs EXCEPT ![j] = [NoJobRow EXCEPT !.kind = "media_pipeline", !.prio = 30,
                                                       !.state = "queued", !.upload = u]]
  /\ UNCHANGED <<manifests, runs, queued, remote, threads, unshown, refused, cut, crashed, faults>>

-----------------------------------------------------------------------------
(* MediaPipelineJobRunner.run_next, MediaPipelineService.handle_upload_verified. *)

\* _ensure_pipeline_run: insert or ignore.
WithRun(u) == [runs EXCEPT ![u] = IF @ = "absent" THEN "created" ELSE @]

\* claim_next, then _ensure_media_group and _ensure_pipeline_run, whose rows no
\* other thread reads before the handler goes on.  From here on the group has
\* content that Emby should learn of.
ClaimMedia ==
  /\ mt.pc = "idle"
  /\ \E j \in JobIds :
       LET u == jobs[j].upload IN
       /\ IsNextToClaim(jobs, {"media_pipeline"}, j)
       /\ jobs' = [jobs EXCEPT ![j] = Claimed(@)]
       /\ mt' = [MediaIdle EXCEPT !.pc = "read", !.job = j, !.upload = u]
       /\ runs' = WithRun(u)
       /\ NewContent(GroupOf[u])
  /\ UNCHANGED <<manifests, queued, remote, ut, em, cut, crashed, faults>>

Decide(s, next) == mt' = [mt EXCEPT !.pc = next, !.outcome = s]

\* The sidecars the group has already, and what follows from them.
ReadSidecars ==
  LET g == GroupOf[mt.upload] IN
  /\ mt.pc = "read"
  /\ \/ /\ SidecarsOf(g, {"sidecar_verified"}) # {}
        /\ Decide("SidecarVerified", "set")
     \/ /\ SidecarsOf(g, {"sidecar_verified"}) = {}
        /\ SidecarsOf(g, UnderWay) # {}
        /\ Decide("SidecarUploadQueued", "set")
     \/ /\ SidecarsOf(g, UnderWay \cup {"sidecar_verified"}) = {}
        /\ mt.upload \notin Recognized
        /\ Decide(IF AllowPassthrough THEN "PassthroughAllowed" ELSE "ManualReview", "set")
     \/ /\ SidecarsOf(g, UnderWay \cup {"sidecar_verified"}) = {}
        /\ mt.upload \in Recognized
        /\ mt' = [mt EXCEPT !.pc = "scrape"]
  /\ UNCHANGED <<db, remote, ut, em, unshown, refused, cut, crashed, faults>>

\* scrape_one found all required artifacts or not; _record_sidecar_manifest.
Scrape ==
  /\ mt.pc = "scrape"
  /\ \E m \in Manifests, good \in BOOLEAN :
       /\ manifests[m].state = "absent" /\ \A i \in 1..(m - 1) : manifests[i].state # "absent"
       /\ manifests' = [manifests EXCEPT ![m] =
            [group |-> GroupOf[mt.upload],
             state |-> IF good THEN "local_sidecar_validated" ELSE "sidecar_verify_failed"]]
       /\ mt' = IF good THEN [mt EXCEPT !.pc = "enqueue", !.manifest = m]
                ELSE [mt EXCEPT !.pc = "set", !.outcome = "PassthroughAllowed"]
  /\ UNCHANGED <<jobs, runs, queued, remote, ut, em, unshown, refused, cut, crashed, faults>>

\* _enqueue_sidecar_uploads: one transaction for each artifact.
EnqueueSidecar ==
  /\ mt.pc = "enqueue"
  /\ \E j \in JobIds :
       /\ IsNextId(jobs, j)
       /\ jobs' = [jobs EXCEPT ![j] = [NoJobRow EXCEPT !.kind = "sidecar_upload", !.prio = 20,
                     !.state = "queued", !.manifest = mt.manifest, !.artifact = mt.next]]
  /\ mt' = IF mt.next < NArtifacts THEN [mt EXCEPT !.next = @ + 1]
            ELSE [mt EXCEPT !.pc = "set", !.outcome = "SidecarUploadQueued"]
  /\ UNCHANGED <<manifests, runs, queued, remote, ut, em, unshown, refused, cut, crashed, faults>>

\* Fault: an upload that finds sidecars under way or done waits for others to
\* queue the refresh.
RefreshPassthroughOnly == {"PassthroughAllowed"}

\* queue_refresh.
RefreshNow == {"SidecarVerified", "PassthroughAllowed"}

\* _set_pipeline_state.
SetRun ==
  /\ mt.pc = "set"
  /\ runs' = [runs EXCEPT ![mt.upload] = mt.outcome]
  /\ mt' = [mt EXCEPT !.pc = IF mt.outcome \in RefreshNow THEN "refresh" ELSE "finish"]
  /\ UNCHANGED <<jobs, manifests, queued, remote, ut, em, unshown, refused, cut, crashed, faults>>

\* _queue_emby_refresh.
QueueRefresh ==
  /\ mt.pc = "refresh"
  /\ queued' = WithRefresh(GroupOf[mt.upload])
  /\ mt' = [mt EXCEPT !.pc = "finish"]
  /\ UNCHANGED <<jobs, manifests, runs, remote, ut, em, unshown, refused, cut, crashed, faults>>

FinishMedia ==
  /\ mt.pc = "finish"
  /\ jobs' = [jobs EXCEPT ![mt.job] = WithState(@, "done")]
  /\ mt' = MediaIdle
  /\ UNCHANGED <<manifests, runs, queued, remote, ut, em, unshown, refused, cut, crashed, faults>>

\* An exception anywhere in the handler: the job is tried again later, and
\* reads the rows the first try has left behind.
FailMedia ==
  /\ mt.pc \in FaultSteps \ {"idle"} /\ faults < MaxFaults
  /\ faults' = faults + 1
  /\ jobs' = [jobs EXCEPT ![mt.job] = WithState(@, "retry_wait")]
  /\ cut' = IF mt.pc = "enqueue" THEN cut \cup {GroupOf[mt.upload]} ELSE cut
  /\ mt' = MediaIdle
  /\ UNCHANGED <<manifests, runs, queued, remote, ut, em, unshown, refused, crashed>>

-----------------------------------------------------------------------------
(* UploadJobRunner.run_next on a sidecar.                                  *)

ClaimSidecar ==
  /\ ut.pc = "idle"
  /\ \E j \in JobIds :
       /\ IsNextToClaim(jobs, {"sidecar_upload"}, j)
       /\ jobs' = [jobs EXCEPT ![j] = Claimed(@)]
       /\ ut' = [UploadIdle EXCEPT !.pc = "copy", !.job = j]
  /\ UNCHANGED <<manifests, runs, queued, remote, mt, em, unshown, refused, cut, crashed, faults>>

\* copyto and lsjson_size.
CopySidecar ==
  LET row == jobs[ut.job] IN
  /\ ut.pc = "copy"
  /\ \/ /\ ut' = [ut EXCEPT !.pc = "record", !.verified = TRUE]
        /\ remote' = [remote EXCEPT ![row.manifest] = @ \cup {row.artifact}]
        /\ NewContent(manifests[row.manifest].group)
     \/ /\ ut' = [ut EXCEPT !.pc = "record"]
        /\ UNCHANGED <<remote, unshown, refused>>
  /\ UNCHANGED <<db, mt, em, cut, crashed, faults>>

Exhausted == AttemptsExhausted(jobs[ut.job])

\* The job row first.
RecordDone ==
  /\ ut.pc = "record" /\ ut.verified
  /\ jobs' = [jobs EXCEPT ![ut.job] = WithState(@, "done")]
  /\ ut' = [ut EXCEPT !.pc = "update"]
  /\ UNCHANGED <<manifests, runs, queued, remote, mt, em, unshown, refused, cut, crashed, faults>>

RecordFailed ==
  /\ ut.pc = "record" /\ ~ut.verified /\ Exhausted
  /\ jobs' = [jobs EXCEPT ![ut.job] = WithState(@, "failed")]
  /\ ut' = [ut EXCEPT !.pc = "mark_failed"]
  /\ UNCHANGED <<manifests, runs, queued, remote, mt, em, unshown, refused, cut, crashed, faults>>

\* A wrong size is verify_pending; a copy that fails or raises is retried later.
RecordRetry ==
  /\ ut.pc = "record" /\ ~ut.verified /\ ~Exhausted
  /\ \E s \in {"verify_pending", "retry_wait"} : jobs' = [jobs EXCEPT ![ut.job] = WithState(@, s)]
  /\ ut' = UploadIdle
  /\ UNCHANGED <<manifests, runs, queued, remote, mt, em, unshown, refused, cut, crashed, faults>>

\* _apply_sidecar_upload_failure_txn.
ApplyFailure(m) ==
  LET g == manifests[m].group IN
  /\ manifests' = [manifests EXCEPT ![m].state = "sidecar_upload_failed"]
  /\ runs' = RunsSettled(g, IF AllowPassthrough THEN "PassthroughAllowed" ELSE "ManualReview")
  /\ queued' = IF AllowPassthrough THEN WithRefresh(g) ELSE queued

\* _update_sidecar_upload_state: a failed upload of the manifest decides, then
\* one that is not done yet, else the manifest is verified.
UpdateManifest ==
  LET m == jobs[ut.job].manifest
      g == manifests[m].group
  IN
  /\ ut.pc = "update"
  /\ \/ /\ "failed" \in StatesOf(m)
        /\ ApplyFailure(m)
     \/ /\ "failed" \notin StatesOf(m) /\ StatesOf(m) # {"done"}
        /\ manifests' = [manifests EXCEPT ![m].state = "sidecar_uploading"]
        /\ runs' = RunsSettled(g, "SidecarUploading")
        /\ UNCHANGED queued
     \/ /\ StatesOf(m) = {"done"}
        /\ manifests' = [manifests EXCEPT ![m].state = "sidecar_verified"]
        /\ runs' = RunsSettled(g, "SidecarVerified")
        /\ queued' = WithRefresh(g)
  /\ ut' = UploadIdle
  /\ UNCHANGED <<jobs, remote, mt, em, unshown, refused, cut, crashed, faults>>

\* _mark_sidecar_upload_failed.
MarkFailed ==
  /\ ut.pc = "mark_failed"
  /\ ApplyFailure(jobs[ut.job].manifest)
  /\ ut' = UploadIdle
  /\ UNCHANGED <<jobs, remote, mt, em, unshown, refused, cut, crashed, faults>>

-----------------------------------------------------------------------------
(* EmbyRefreshWorker.run_next.  Nothing reads a task that is running, done *)
(* or blocked: a refresh whose call fails is never tried again, and Emby   *)
(* learns of the content only from a later refresh of the same directory.  *)

ClaimRefresh(g) ==
  /\ em.pc = "idle" /\ g \in queued
  /\ queued' = queued \ {g}
  /\ em' = [pc |-> "call", group |-> g]
  /\ UNCHANGED <<jobs, manifests, runs, remote, mt, ut, unshown, refused, cut, crashed, faults>>

\* media_updated answers, or raises (_finish "blocked"), also on a bad path.
MediaUpdated ==
  /\ em.pc = "call"
  /\ \/ unshown' = unshown \ {em.group} /\ refused' = refused \ {em.group}
     \/ refused' = refused \cup {em.group} /\ UNCHANGED unshown
  /\ em' = EmbyIdle
  /\ UNCHANGED <<db, remote, mt, ut, cut, crashed, faults>>

-----------------------------------------------------------------------------
(* Surroundings. *)

\* The daemon dies and comes back.  Rows that were running stay running.
Crash ==
  /\ faults < MaxFaults
  /\ threads # <<MediaIdle, UploadIdle, EmbyIdle>>
  /\ faults' = faults + 1 /\ crashed' = TRUE
  /\ cut' = cut \cup (IF mt.pc = "enqueue" THEN {GroupOf[mt.upload]} ELSE {})
                \cup (IF ut.pc \in {"update", "mark_failed"} THEN {GroupOfJob(jobs[ut.job])} ELSE {})
                \cup (IF em.pc = "call" THEN {em.group} ELSE {})
  /\ mt' = MediaIdle /\ ut' = UploadIdle /\ em' = EmbyIdle
  /\ UNCHANGED <<db, remote, unshown, refused>>

\* reconcile --apply: running rows whose lease has run out are put back, rows
\* that wait for one retry too many are declared failed.
Reconcile(expired) ==
  /\ faults < MaxFaults
  /\ expired \subseteq Running(jobs)
  /\ expired \cup ExhaustedRetries(jobs) # {}
  /\ faults' = faults + 1
  /\ jobs' = Reconciled(jobs, expired, ExhaustedRetries(jobs))
  /\ cut' = cut \cup {GroupOfJob(jobs[j]) : j \in ExhaustedRetries(jobs)}
  /\ UNCHANGED <<manifests, runs, queued, remote, threads, unshown, refused, crashed>>

-----------------------------------------------------------------------------
MediaThread == \/ ClaimMedia \/ ReadSidecars \/ Scrape \/ EnqueueSidecar
               \/ SetRun \/ QueueRefresh \/ FinishMedia
SidecarThread == \/ ClaimSidecar \/ CopySidecar \/ RecordDone \/ RecordFailed
                 \/ RecordRetry \/ UpdateManifest \/ MarkFailed
EmbyThread == \/ \E g \in Groups : ClaimRefresh(g)
              \/ MediaUpdated

Next ==
  \/ \E u \in Uploads : MediaUploaded(u)
  \/ MediaThread \/ FailMedia
  \/ SidecarThread
  \/ EmbyThread
  \/ Crash
  \/ \E expired \in SUBSET JobIds : Reconcile(expired)

Spec == Init /\ [][Next]_vars

\* Each thread goes on; every copy, scrape and call ends one way or the other.
Fairness == WF_vars(MediaThread) /\ WF_vars(SidecarThread) /\ WF_vars(EmbyThread)
FairSpec == Spec /\ Fairness

-----------------------------------------------------------------------------
(* Properties. *)

JobRows == [kind : {"none", "media_pipeline", "sidecar_upload"}, prio : {0, 20, 30},
            state : JobStates, attempts : 0..MaxAttempts, upload : Uploads \cup {NoUpload},
            manifest : {NoManifest} \cup Manifests, artifact : {0} \cup Artifacts]

\* The variables hold what the tables and the threads can hold.
TypeOK ==
  /\ jobs \in [JobIds -> JobRows]
  /\ manifests \in [Manifests -> [group : Groups \cup {NoGroup}, state : ManifestStates]]
  /\ runs \in [Uploads -> RunStates]
  /\ queued \subseteq Groups /\ unshown \subseteq Groups /\ refused \subseteq Groups
  /\ cut \subseteq Groups
  /\ remote \in [Manifests -> SUBSET Artifacts]
  /\ mt \in [pc : MediaSteps, job : {NoJob} \cup JobIds, upload : Uploads \cup {NoUpload},
             manifest : {NoManifest} \cup Manifests, next : Artifacts, outcome : RunStates]
  /\ ut \in [pc : UploadSteps, job : {NoJob} \cup JobIds, verified : BOOLEAN]
  /\ em \in [pc : {"idle", "call"}, group : Groups \cup {NoGroup}]
  /\ crashed \in BOOLEAN /\ faults \in 0..MaxFaults

\* Groups with content that no Emby call has been made for.
Owed == unshown \ refused

\* Who is still going to have the directory of g refreshed.
JobOpen(g) == \E j \in JobIds : jobs[j].state \in Unsettled /\ GroupOfJob(jobs[j]) = g
MediaBusy(g) == mt.pc # "idle" /\ GroupOf[mt.upload] = g
UploadBusy(g) == ut.pc # "idle" /\ GroupOfJob(jobs[ut.job]) = g
RefreshDue(g) == g \in queued \/ (em.pc = "call" /\ em.group = g)

\* A refresh is not lost before it is made: while a group has content that Emby
\* was not told of, a refresh of it is queued or being made, or a job of the
\* group is open, or a thread is at work on the group.  The exceptions are where
\* the code does lose it: the Emby call itself failed, which leaves the task
\* blocked for good (media.py:455); the group was cut off at one of the places
\* where two transactions belong together (media.py:169, runtime.py:163,
\* media.py:437) or given up by reconcile.
NoRefreshLost ==
  AllowPassthrough =>
    \A g \in Owed \ cut : RefreshDue(g) \/ JobOpen(g) \/ MediaBusy(g) \/ UploadBusy(g)

\* Once all uploads of a manifest have settled it is verified only if every one
\* of its artifacts is on the remote at the right size, even though the first
\* ones are settled while the last ones are not yet queued.
VerifiedIsStored ==
  \A m \in Manifests :
    (/\ manifests[m].state = "sidecar_verified"
     /\ manifests[m].group \notin cut
     /\ StatesOf(m) \cap Unsettled = {}
     /\ ~(mt.pc = "enqueue" /\ mt.manifest = m)
     /\ ~UploadBusy(manifests[m].group))
    => remote[m] = Artifacts

\* A manifest is marked verified, and its group's runs and refresh with it, only
\* when all its artifacts are on the remote: other uploads, failures, retries and
\* reconciliations of the group cannot make the count of settled uploads come
\* out too early.  The one window in which it does is named: while the media
\* thread is still queueing the artifacts, one transaction each, the upload
\* thread may have settled all there are so far (runtime.py:149-161), which
\* requirements-map.md:26 forbids.
VerifiedWhenStored ==
  [][\A m \in Manifests :
       (/\ manifests[m].state # "sidecar_verified"
        /\ manifests'[m].state = "sidecar_verified"
        /\ manifests[m].group \notin cut)
       => remote[m] = Artifacts \/ (mt.pc = "enqueue" /\ mt.manifest = m)]_vars

\* New content of a group is shown in Emby in the end, whatever is retried in
\* between, unless the daemon dies, the group is cut off, or the Emby call fails,
\* after which nobody makes it again.
ContentShown ==
  AllowPassthrough =>
    \A g \in Groups : (g \in unshown) ~> (g \notin Owed \/ g \in cut \/ crashed)
=============================================================================

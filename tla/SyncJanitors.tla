---------------------------- MODULE SyncJanitors ----------------------------
(***************************************************************************)
(* The main thread's view of qBittorrent and what it does on the strength  *)
(* of it: QbtSyncCache (sync/maindata polls, suspect answers), the         *)
(* emergency stop of SafetyMonitor, and the OrphanJanitorService that      *)
(* moves content no torrent owns to the trash.                             *)
(*                                                                         *)
(* qBittorrent is external.  It answers a poll with the whole list, or,    *)
(* if the client's rid is the one of its last answer, with a delta: whole  *)
(* records of new torrents, the changed fields of others, removed hashes.  *)
(* After a restart it forgets the rid and lists its torrents one by one.   *)
(* The content of torrent t is the entry t of the download root.           *)
(***************************************************************************)
EXTENDS Integers, FiniteSets

CONSTANTS Torrents,
          Contents,           \* those of them whose content is old enough for the janitor
          MinConfirmations,   \* min_confirmations
          MaxFaults           \* bound: failing stop calls, crashes of the daemon and of qBittorrent

VARIABLES
  server,     \* qBittorrent: each torrent as it is
  visible,    \*   those it lists (all, once it has loaded them)
  told,       \*   what the list was at its last answer
  synced,     \*   does the client's rid name that answer?
  cache,      \* QbtSyncCache.snapshots
  highRisk,   \* high_risk_actions_allowed
  disk,       \* does free_bytes_provider report less than the emergency floor?
  files,      \* download root
  trash,      \* trash_dir
  confirmations, \* orphan_candidates
  main,       \* the step of the main loop and the janitor's candidates
  accepted,   \* observer: was the last poll answered, and its answer believed?
  listed,     \* observer: the torrents in the last answer that was believed
  harmed,     \* observer: torrents in the cache that a delta has replaced
  robbed,     \* observer: content moved while its torrent was listed, and was it harmed?
  faults      \* counter of the bound

qbt == <<server, visible, told>>
client == <<synced, cache, highRisk, accepted, listed, harmed>>
janitor == <<files, trash, confirmations, robbed>>
vars == <<qbt, client, disk, janitor, main, faults>>

ASSUME SyncAssumption ==
  /\ IsFiniteSet(Torrents) /\ Contents \subseteq Torrents
  /\ MinConfirmations \in Nat \ {0} /\ MaxFaults \in Nat

ServerStates == {"absent", "stopped", "running"}

\* A snapshot: does it say stopped, auto, and where the content is?
NoSnapshot == [here |-> FALSE, stopped |-> FALSE, auto |-> FALSE, path |-> FALSE]
Whole(t)   == [here |-> TRUE, stopped |-> server[t] = "stopped", auto |-> TRUE, path |-> TRUE]
Snapshots  == [here : BOOLEAN, stopped : BOOLEAN, auto : BOOLEAN, path : BOOLEAN]

MainIdle == [pc |-> "poll", todo |-> {}, path |-> {}]

Init ==
  /\ server = [t \in Torrents |-> "absent"] /\ visible = {} /\ told = server
  /\ synced = FALSE
  /\ cache = [t \in Torrents |-> NoSnapshot] /\ highRisk = FALSE
  /\ disk = "ok"
  /\ files = {} /\ trash = {} /\ confirmations = [t \in Contents |-> 0]
  /\ main = MainIdle
  /\ accepted = FALSE /\ listed = {} /\ harmed = {} /\ robbed = {} /\ faults = 0

-----------------------------------------------------------------------------
(* qBittorrent, its users, the disk. *)

Add(t) ==
  /\ server[t] = "absent" /\ visible = {u \in Torrents : server[u] # "absent"}
  /\ server' = [server EXCEPT ![t] = "running"]
  /\ visible' = visible \cup {t}
  /\ files' = files \cup {t}
  /\ UNCHANGED <<told, client, disk, trash, confirmations, robbed, main, faults>>

\* With or without its content.
Delete(t) ==
  /\ t \in visible
  /\ server' = [server EXCEPT ![t] = "absent"]
  /\ visible' = visible \ {t}
  /\ files' \in {files, files \ {t}}
  /\ UNCHANGED <<told, client, disk, trash, confirmations, robbed, main, faults>>

StartOrStop(t) ==
  /\ t \in visible
  /\ server' = [server EXCEPT ![t] = IF @ = "running" THEN "stopped" ELSE "running"]
  /\ UNCHANGED <<visible, told, client, disk, janitor, main, faults>>

RestartQbt ==
  /\ faults < MaxFaults
  /\ faults' = faults + 1
  /\ synced' = FALSE
  /\ visible' \in SUBSET visible
  /\ UNCHANGED <<server, told, cache, highRisk, accepted, listed, harmed, disk, janitor, main>>

Load(t) ==
  /\ server[t] # "absent" /\ t \notin visible
  /\ visible' = visible \cup {t}
  /\ UNCHANGED <<server, told, client, disk, janitor, main, faults>>

DiskChanges ==
  /\ disk' \in {"ok", "emergency"} \ {disk}
  /\ UNCHANGED <<qbt, client, janitor, main, faults>>

-----------------------------------------------------------------------------
(* QbtSyncCache.poll_once. *)

Listing == [t \in Torrents |-> IF t \in visible THEN server[t] ELSE "absent"]
Cached == {t \in Torrents : cache[t].here}
TickStep == IF disk = "emergency" THEN "stop" ELSE "tasks"

\* Fault: a failing call leaves high_risk_actions_allowed as it was.
AfterFailureKeep == highRisk
AfterFailure == FALSE

\* Fault: the exception ends the loop.
StepAfterFailureEnd == "ended"
\* Fault: the emergency stop waits for a poll that is believed.
StepAfterFailureSkip == "tasks"
StepAfterFailure == TickStep

\* The call raised, or the answer is not what it should be; qBittorrent may
\* have answered all the same.
PollFails ==
  /\ main.pc = "poll"
  /\ highRisk' = AfterFailure /\ accepted' = FALSE
  /\ \/ UNCHANGED <<told, synced>>
     \/ told' = Listing /\ synced' = FALSE
  /\ main' = [main EXCEPT !.pc = StepAfterFailure]
  /\ UNCHANGED <<server, visible, cache, listed, harmed, disk, janitor, faults>>

\* A full list that has shrunk by more than half (max_snapshot_count_drop_ratio).
Suspect == Cached # {} /\ 2 * Cardinality(visible) < Cardinality(Cached)

\* Fault: the rid of a list that is not believed is remembered.
SyncedAfterSuspectYes == TRUE
SyncedAfterSuspect == FALSE

PollFull ==
  /\ main.pc = "poll" /\ ~synced
  /\ told' = Listing
  /\ \/ /\ Suspect
        /\ highRisk' = FALSE /\ accepted' = FALSE /\ synced' = SyncedAfterSuspect
        /\ UNCHANGED <<cache, listed, harmed>>
     \/ /\ ~Suspect
        /\ cache' = [t \in Torrents |-> IF t \in visible THEN Whole(t) ELSE NoSnapshot]
        /\ highRisk' = TRUE /\ accepted' = TRUE /\ synced' = TRUE
        /\ listed' = visible /\ harmed' = {}
  /\ main' = [main EXCEPT !.pc = TickStep]
  /\ UNCHANGED <<server, visible, disk, janitor, faults>>

\* from_qbt fills the fields that a partial record lacks with their defaults.
Partial(t) == [here |-> TRUE, stopped |-> server[t] = "stopped" /\ told[t] # server[t],
               auto |-> FALSE, path |-> FALSE]

\* A torrent that stays is in the delta if its state has changed, and often if
\* not: its speed or its peers have.
PollDelta ==
  /\ main.pc = "poll" /\ synced
  /\ \E same \in SUBSET {t \in visible : told[t] = server[t]} :
       LET new == {t \in visible : told[t] = "absent"}
           removed == {t \in Torrents : told[t] # "absent" /\ t \notin visible}
           partial == visible \ (same \cup new)
       IN
       /\ cache' = [t \in Torrents |-> IF t \in removed THEN NoSnapshot
                                       ELSE IF t \in new THEN Whole(t)
                                       ELSE IF t \in partial THEN Partial(t)
                                       ELSE cache[t]]
       /\ harmed' = (harmed \cup partial) \ (removed \cup new)
  /\ told' = Listing /\ listed' = visible
  /\ highRisk' = TRUE /\ accepted' = TRUE
  /\ main' = [main EXCEPT !.pc = TickStep]
  /\ UNCHANGED <<server, visible, synced, disk, janitor, faults>>

-----------------------------------------------------------------------------
(* SafetyMonitor.tick, second half: emergency_pause_action. *)

StopTargets == {t \in Cached : cache[t].auto /\ ~cache[t].stopped}

EmergencyStop ==
  /\ main.pc = "stop"
  /\ server' = [t \in Torrents |-> IF t \in StopTargets \cap visible THEN "stopped" ELSE server[t]]
  /\ main' = [main EXCEPT !.pc = "tasks"]
  /\ UNCHANGED <<visible, told, client, disk, janitor, faults>>

\* The call raises; the loop logs it and goes on with its tasks.
EmergencyStopFails ==
  /\ main.pc = "stop" /\ StopTargets # {} /\ faults < MaxFaults
  /\ faults' = faults + 1
  /\ main' = [main EXCEPT !.pc = "tasks"]
  /\ UNCHANGED <<qbt, client, disk, janitor>>

-----------------------------------------------------------------------------
(* OrphanJanitorService.reconcile, a task of the main loop. *)

\* Nothing is due, or the sync is not to be relied on.
SkipTasks ==
  /\ main.pc = "tasks"
  /\ main' = MainIdle
  /\ UNCHANGED <<qbt, client, disk, janitor, faults>>

\* Fault: a torrent that is stopped protects nothing.
ProtectedIfRunning == {t \in Cached : cache[t].path /\ ~cache[t].stopped}
Protected == {t \in Cached : cache[t].path}

\* Entries younger than min_age_sec are no candidates.
ScanCandidates ==
  /\ main.pc = "tasks" /\ highRisk
  /\ \E old \in SUBSET ((files \cap Contents) \ Protected) :
       main' = [MainIdle EXCEPT !.pc = "record", !.todo = old]
  /\ UNCHANGED <<qbt, client, disk, janitor, faults>>

RecordCandidate ==
  /\ main.pc = "record"
  /\ \E t \in main.todo :
       LET n == confirmations[t] + 1 IN
       /\ confirmations' = [confirmations EXCEPT ![t] = IF n < MinConfirmations THEN n
                                                        ELSE MinConfirmations]
       /\ main' = [pc |-> IF n < MinConfirmations THEN "record" ELSE "move",
                   todo |-> main.todo \ {t}, path |-> {t}]
  /\ UNCHANGED <<qbt, client, disk, files, trash, robbed, faults>>

Quarantine ==
  /\ main.pc = "move" /\ main.path \subseteq files
  /\ files' = files \ main.path
  /\ trash' = trash \cup main.path
  /\ robbed' = robbed \cup {<<t, t \in harmed>> : t \in main.path \cap listed}
  /\ main' = [main EXCEPT !.pc = "record"]
  /\ UNCHANGED <<qbt, client, disk, confirmations, faults>>

\* The pass is over; if the entry is gone, shutil.move raises and it is too.
EndPass ==
  /\ \/ main.pc = "record" /\ main.todo = {}
     \/ main.pc = "move" /\ ~(main.path \subseteq files)
  /\ main' = MainIdle
  /\ UNCHANGED <<qbt, client, disk, janitor, faults>>

\* The daemon dies and comes back with an empty cache.
Crash ==
  /\ faults < MaxFaults
  /\ faults' = faults + 1
  /\ cache' = [t \in Torrents |-> NoSnapshot]
  /\ synced' = FALSE /\ highRisk' = FALSE /\ accepted' = FALSE /\ listed' = {} /\ harmed' = {}
  /\ main' = MainIdle
  /\ UNCHANGED <<qbt, disk, janitor>>

-----------------------------------------------------------------------------
Qbt == RestartQbt \/ \E t \in Torrents : Add(t) \/ Delete(t) \/ StartOrStop(t) \/ Load(t)
MainLoop == \/ PollFails \/ PollFull \/ PollDelta
            \/ EmergencyStop
            \/ SkipTasks \/ ScanCandidates \/ RecordCandidate \/ Quarantine \/ EndPass

Next == Qbt \/ DiskChanges \/ MainLoop \/ EmergencyStopFails \/ Crash

Spec == Init /\ [][Next]_vars
\* The main loop goes on, though no poll need ever succeed; a restarted
\* qBittorrent loads its torrents.
FairSpec == Spec /\ WF_vars(MainLoop) /\ \A t \in Torrents : WF_vars(Load(t))

-----------------------------------------------------------------------------
(* Properties. *)

\* The variables hold what qBittorrent and the daemon can hold.
TypeOK ==
  /\ server \in [Torrents -> ServerStates] /\ told \in [Torrents -> ServerStates]
  /\ visible \subseteq {t \in Torrents : server[t] # "absent"}
  /\ synced \in BOOLEAN /\ highRisk \in BOOLEAN /\ accepted \in BOOLEAN
  /\ cache \in [Torrents -> Snapshots]
  /\ disk \in {"ok", "emergency"}
  /\ files \subseteq Torrents /\ trash \subseteq Contents
  /\ confirmations \in [Contents -> 0..MinConfirmations]
  /\ main \in [pc : {"poll", "stop", "tasks", "record", "move"},
               todo : SUBSET Contents, path : SUBSET Contents]
  /\ listed \subseteq Torrents /\ harmed \subseteq Torrents
  /\ robbed \subseteq Contents \X BOOLEAN
  /\ faults \in 0..MaxFaults

\* Through lost answers, suspect lists and restarts of either side, the hashes
\* in the cache are those of the last answer that was believed.
CacheKeysTrue == Cached = listed

\* While the last poll failed or its answer was not believed, the janitor moves
\* nothing.
SuspectMovesNothing == [][trash' # trash => accepted]_vars

\* Content whose torrent was in the last answer stays where it is, as long as
\* no delta has replaced the torrent's snapshot.
KnownContentStays == \A r \in robbed : r[2]

\* In an emergency the stop does not wait for qBittorrent's polls to recover:
\* a torrent that the cache shows as running is stopped, however often they
\* fail, unless the disk recovers or the torrent is deleted.  The way out that
\* is none of these is the code's: a torrent whose snapshot a delta has emptied
\* is in no category, and runs on below the floor, although
\* requirements-map.md:8 has it stopped.
EmergencyStops ==
  \A t \in Torrents :
    (disk = "emergency" /\ t \in StopTargets)
      ~> (disk = "ok" \/ server[t] # "running" \/ t \notin Cached \/ t \in harmed)

\* The janitor moves only content that no listed torrent owns.
OnlyOrphansMove == robbed = {}
=============================================================================

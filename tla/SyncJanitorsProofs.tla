------------------------- MODULE SyncJanitorsProofs -------------------------
(***************************************************************************)
(* What SyncJanitors keeps for any number of torrents, confirmations and   *)
(* faults: types, the cache's keys, and what the janitor leaves alone.     *)
(***************************************************************************)
EXTENDS SyncJanitors, TLAPS

LEMMA TypeInit == Init => TypeOK
<1> SUFFICES ASSUME Init PROVE TypeOK
  OBVIOUS
<1>1. NoSnapshot \in Snapshots /\ "absent" \in ServerStates
  BY DEF NoSnapshot, Snapshots, ServerStates
<1>2. /\ server \in [Torrents -> ServerStates] /\ told \in [Torrents -> ServerStates]
      /\ cache \in [Torrents -> Snapshots]
  BY <1>1 DEF Init
<1>3. main \in [pc : {"poll", "stop", "tasks", "record", "move"},
                todo : SUBSET Contents, path : SUBSET Contents]
  BY DEF Init, MainIdle
<1>4. confirmations \in [Contents -> 0..MinConfirmations] /\ faults \in 0..MaxFaults
  BY SyncAssumption DEF Init
<1>5. QED
  BY <1>2, <1>3, <1>4 DEF Init, TypeOK

\* qBittorrent, its users and the disk touch the server and the files only.
LEMMA QbtFrame ==
  ASSUME Qbt PROVE UNCHANGED <<told, cache, highRisk, accepted, listed, harmed, disk, trash,
                               confirmations, robbed, main>>
BY DEF Qbt, RestartQbt, Add, Delete, StartOrStop, Load, client, janitor

\* The polls leave qBittorrent and the janitor's tables alone.
Poll == PollFails \/ PollFull \/ PollDelta

LEMMA PollFrame ==
  ASSUME Poll PROVE /\ UNCHANGED <<server, visible, disk, janitor, faults>>
                    /\ main.pc = "poll" /\ main' = [main EXCEPT !.pc = TickStep]
BY DEF Poll, PollFails, PollFull, PollDelta, StepAfterFailure

\* The janitor's steps, and the ones that end a tick.
Pass == SkipTasks \/ ScanCandidates \/ RecordCandidate \/ Quarantine \/ EndPass

LEMMA PassFrame == ASSUME Pass PROVE UNCHANGED <<qbt, client, disk, faults>>
BY DEF Pass, SkipTasks, ScanCandidates, RecordCandidate, Quarantine, EndPass

LEMMA StopFrame ==
  ASSUME EmergencyStop \/ EmergencyStopFails
  PROVE  /\ UNCHANGED <<visible, told, client, disk, janitor>>
         /\ main.pc = "stop" /\ main' = [main EXCEPT !.pc = "tasks"]
BY DEF EmergencyStop, EmergencyStopFails, qbt

LEMMA Steps ==
  ASSUME [Next]_vars
  PROVE  Qbt \/ DiskChanges \/ Poll \/ EmergencyStop \/ EmergencyStopFails \/ Pass \/ Crash
         \/ UNCHANGED vars
BY DEF Next, MainLoop, Poll, Pass

-----------------------------------------------------------------------------
(* Types.                                                                  *)

LEMMA TypeQbt == ASSUME TypeOK, Qbt PROVE TypeOK'
<1> USE DEF TypeOK, ServerStates
<1>1. CASE RestartQbt
  <2>1. /\ visible' \subseteq visible /\ faults' \in 0..MaxFaults /\ synced' = FALSE
        /\ UNCHANGED <<server, told, cache, highRisk, accepted, listed, harmed, disk, janitor, main>>
    BY <1>1, SyncAssumption DEF RestartQbt
  <2>2. QED
    BY <2>1 DEF janitor
<1>2. ASSUME NEW t \in Torrents, Add(t) PROVE TypeOK'
  BY <1>2 DEF Add, client
<1>3. ASSUME NEW t \in Torrents, Delete(t) PROVE TypeOK'
  BY <1>3 DEF Delete, client
<1>4. ASSUME NEW t \in Torrents, StartOrStop(t) PROVE TypeOK'
  BY <1>4 DEF StartOrStop, client, janitor
<1>5. ASSUME NEW t \in Torrents, Load(t) PROVE TypeOK'
  BY <1>5 DEF Load, client, janitor
<1>6. QED
  BY <1>1, <1>2, <1>3, <1>4, <1>5 DEF Qbt

LEMMA TypePoll == ASSUME TypeOK, Poll PROVE TypeOK'
<1>1. UNCHANGED <<server, visible, disk, janitor, faults>>
  BY PollFrame
<1>2. main' \in [pc : {"poll", "stop", "tasks", "record", "move"},
                 todo : SUBSET Contents, path : SUBSET Contents]
  BY PollFrame DEF TypeOK, TickStep
<1>3. Listing \in [Torrents -> ServerStates]
  BY DEF TypeOK, Listing, ServerStates
<1>4. /\ told' \in [Torrents -> ServerStates] /\ synced' \in BOOLEAN
      /\ highRisk' \in BOOLEAN /\ accepted' \in BOOLEAN
  BY <1>3
  DEF TypeOK, Poll, PollFails, PollFull, PollDelta, AfterFailure, SyncedAfterSuspect
<1>5. ASSUME NEW t \in Torrents
      PROVE  NoSnapshot \in Snapshots /\ Whole(t) \in Snapshots /\ Partial(t) \in Snapshots
  BY DEF NoSnapshot, Whole, Partial, Snapshots
<1>6. cache' \in [Torrents -> Snapshots]
  BY <1>5 DEF TypeOK, Poll, PollFails, PollFull, PollDelta
<1>7. listed' \subseteq Torrents /\ harmed' \subseteq Torrents
  BY DEF TypeOK, Poll, PollFails, PollFull, PollDelta
<1>8. QED
  BY <1>1, <1>2, <1>4, <1>6, <1>7 DEF TypeOK, janitor

LEMMA TypePass == ASSUME TypeOK, Pass PROVE TypeOK'
<1>1. UNCHANGED <<qbt, client, disk, faults>>
  BY PassFrame
<1>2. CASE SkipTasks \/ ScanCandidates \/ EndPass
  <2>1. UNCHANGED janitor
    BY <1>2 DEF SkipTasks, ScanCandidates, EndPass
  <2>2. main' \in [pc : {"poll", "stop", "tasks", "record", "move"},
                   todo : SUBSET Contents, path : SUBSET Contents]
    <3>1. CASE ScanCandidates
      <4>1. PICK old \in SUBSET ((files \cap Contents) \ Protected) :
              main' = [MainIdle EXCEPT !.pc = "record", !.todo = old]
        BY <3>1 DEF ScanCandidates
      <4>2. main' = [pc |-> "record", todo |-> old, path |-> {}]
        BY <4>1 DEF MainIdle
      <4>3. QED
        BY <4>2
    <3>2. CASE SkipTasks \/ EndPass
      BY <3>2 DEF SkipTasks, EndPass, MainIdle
    <3>3. QED
      BY <1>2, <3>1, <3>2
  <2>3. QED
    BY <1>1, <2>1, <2>2 DEF TypeOK, qbt, client, janitor
<1>3. CASE RecordCandidate
  <2>1. PICK t \in main.todo :
          /\ confirmations' = [confirmations EXCEPT
               ![t] = IF confirmations[t] + 1 < MinConfirmations THEN confirmations[t] + 1
                      ELSE MinConfirmations]
          /\ main' = [pc |-> IF confirmations[t] + 1 < MinConfirmations THEN "record" ELSE "move",
                      todo |-> main.todo \ {t}, path |-> {t}]
    BY <1>3 DEF RecordCandidate
  <2>2. t \in Contents /\ main.todo \subseteq Contents
    BY DEF TypeOK
  <2>3. confirmations' \in [Contents -> 0..MinConfirmations]
    BY <2>1, <2>2, SyncAssumption DEF TypeOK
  <2>4. main' \in [pc : {"poll", "stop", "tasks", "record", "move"},
                   todo : SUBSET Contents, path : SUBSET Contents]
    BY <2>1, <2>2
  <2>5. QED
    BY <1>1, <1>3, <2>3, <2>4 DEF RecordCandidate, TypeOK, qbt, client
<1>4. CASE Quarantine
  <2>1. main.path \subseteq Contents
    BY DEF TypeOK
  <2>2. robbed' \subseteq Contents \X BOOLEAN
    <3>1. ASSUME NEW t \in main.path \cap listed PROVE <<t, t \in harmed>> \in Contents \X BOOLEAN
      <4>1. t \in Contents /\ (t \in harmed) \in BOOLEAN
        BY <2>1
      <4>2. QED
        BY <4>1
    <3>2. robbed' = robbed \cup {<<t, t \in harmed>> : t \in main.path \cap listed}
      BY <1>4 DEF Quarantine
    <3>3. QED
      BY <3>1, <3>2 DEF TypeOK
  <2>3. /\ files' = files \ main.path /\ trash' = trash \cup main.path
        /\ main' = [main EXCEPT !.pc = "record"] /\ UNCHANGED confirmations
    BY <1>4 DEF Quarantine
  <2>4. QED
    BY <1>1, <2>1, <2>2, <2>3 DEF TypeOK, qbt, client
<1>5. QED
  BY <1>2, <1>3, <1>4 DEF Pass

LEMMA TypeStep == ASSUME TypeOK, [Next]_vars PROVE TypeOK'
<1>1. CASE EmergencyStop
  BY <1>1 DEF TypeOK, EmergencyStop, client, janitor, ServerStates
<1>2. CASE EmergencyStopFails
  BY <1>2, SyncAssumption DEF TypeOK, EmergencyStopFails, qbt, client, janitor
<1>3. CASE Crash
  <2>1. NoSnapshot \in Snapshots
    BY DEF NoSnapshot, Snapshots
  <2>2. /\ cache' \in [Torrents -> Snapshots] /\ faults' \in 0..MaxFaults
        /\ UNCHANGED <<qbt, disk, janitor>>
    BY <1>3, <2>1, SyncAssumption DEF Crash, TypeOK
  <2>3. main' \in [pc : {"poll", "stop", "tasks", "record", "move"},
                   todo : SUBSET Contents, path : SUBSET Contents]
    BY <1>3 DEF Crash, MainIdle
  <2>4. QED
    BY <1>3, <2>2, <2>3 DEF TypeOK, Crash, qbt, janitor
<1>4. CASE DiskChanges
  BY <1>4 DEF TypeOK, DiskChanges, qbt, client, janitor
<1>5. CASE UNCHANGED vars
  BY <1>5 DEF TypeOK, vars, qbt, client, janitor
<1>6. QED
  BY <1>1, <1>2, <1>3, <1>4, <1>5, TypeQbt, TypePoll, TypePass, Steps

\* Every step keeps the variables within what qBittorrent and the daemon hold.
THEOREM TypeCorrect == Spec => []TypeOK
BY TypeInit, TypeStep, PTL DEF Spec

-----------------------------------------------------------------------------
(* The cache.                                                              *)

\* A delta is taken only on the answer the cache was built from, and a
\* snapshot without its path is one that a delta replaced.
SyncedAsTold == synced => Cached = {t \in Torrents : told[t] # "absent"}
PathsKnown   == \A t \in Torrents : cache[t].here => cache[t].path \/ t \in harmed

CacheInv == TypeOK /\ CacheKeysTrue /\ SyncedAsTold /\ PathsKnown

LEMMA CacheInit == Init => CacheInv
BY TypeInit DEF Init, CacheInv, CacheKeysTrue, SyncedAsTold, PathsKnown, Cached, NoSnapshot

LEMMA CacheFull ==
  ASSUME CacheInv, PollFull PROVE CacheKeysTrue' /\ SyncedAsTold' /\ PathsKnown'
<1> USE DEF CacheInv, CacheKeysTrue, SyncedAsTold, PathsKnown
<1>1. CASE Suspect
  BY <1>1 DEF PollFull, Cached, SyncedAfterSuspect
<1>2. CASE ~Suspect
  <2>1. /\ cache' = [t \in Torrents |-> IF t \in visible THEN Whole(t) ELSE NoSnapshot]
        /\ listed' = visible /\ harmed' = {} /\ told' = Listing
    BY <1>2 DEF PollFull
  <2>2. visible \subseteq Torrents /\ \A t \in visible : server[t] # "absent"
    BY DEF TypeOK
  <2>3. Cached' = visible
    BY <2>1, <2>2 DEF Cached, Whole, NoSnapshot
  <2>4. visible = {t \in Torrents : told'[t] # "absent"}
    BY <2>1, <2>2 DEF Listing
  <2>5. PathsKnown'
    BY <2>1 DEF Whole, NoSnapshot
  <2>6. QED
    BY <2>1, <2>3, <2>4, <2>5
<1>3. QED
  BY <1>1, <1>2

LEMMA CacheDelta ==
  ASSUME CacheInv, PollDelta PROVE CacheKeysTrue' /\ SyncedAsTold' /\ PathsKnown'
<1> DEFINE new == {t \in visible : told[t] = "absent"}
           removed == {t \in Torrents : told[t] # "absent" /\ t \notin visible}
<1>1. PICK same \in SUBSET {t \in visible : told[t] = server[t]} :
        /\ cache' = [t \in Torrents |-> IF t \in removed THEN NoSnapshot
                                        ELSE IF t \in new THEN Whole(t)
                                        ELSE IF t \in visible \ (same \cup new) THEN Partial(t)
                                        ELSE cache[t]]
        /\ harmed' = (harmed \cup (visible \ (same \cup new))) \ (removed \cup new)
  BY DEF PollDelta
<1>2. synced /\ synced' = synced /\ told' = Listing /\ listed' = visible
  BY DEF PollDelta
<1>3. visible \subseteq Torrents /\ \A t \in visible : server[t] # "absent"
  BY DEF CacheInv, TypeOK
<1>4. \A t \in Torrents : cache[t].here <=> told[t] # "absent"
  BY <1>2 DEF CacheInv, SyncedAsTold, Cached
<1>5. ASSUME NEW t \in Torrents PROVE cache'[t].here <=> t \in visible
  BY <1>1, <1>3, <1>4 DEF NoSnapshot, Whole, Partial
<1>6. Cached' = visible
  BY <1>3, <1>5 DEF Cached
<1>7. visible = {t \in Torrents : told'[t] # "absent"}
  BY <1>2, <1>3 DEF Listing
<1>8. ASSUME NEW t \in Torrents, cache'[t].here PROVE cache'[t].path \/ t \in harmed'
  <2>1. t \in visible
    BY <1>5, <1>8
  <2>2. cache[t].here => cache[t].path \/ t \in harmed
    BY DEF CacheInv, PathsKnown
  <2>3. QED
    BY <1>1, <1>4, <2>1, <2>2 DEF Whole, Partial
<1>9. QED
  BY <1>2, <1>6, <1>7, <1>8 DEF CacheKeysTrue, SyncedAsTold, PathsKnown

LEMMA CacheStep == ASSUME CacheInv, [Next]_vars PROVE CacheInv'
<1>1. TypeOK'
  BY TypeStep DEF CacheInv
<1>2. CASE PollFails
  BY <1>1, <1>2 DEF PollFails, CacheInv, CacheKeysTrue, SyncedAsTold, PathsKnown, Cached
<1>3. CASE Crash
  BY <1>1, <1>3 DEF Crash, CacheInv, CacheKeysTrue, SyncedAsTold, PathsKnown, Cached, NoSnapshot
<1>4. CASE RestartQbt
  BY <1>1, <1>4 DEF RestartQbt, CacheInv, CacheKeysTrue, SyncedAsTold, PathsKnown, Cached
<1>5. CASE UNCHANGED <<told, client>>
  BY <1>1, <1>5 DEF client, CacheInv, CacheKeysTrue, SyncedAsTold, PathsKnown, Cached
<1>6. Qbt => RestartQbt \/ UNCHANGED <<told, client>>
  BY DEF Qbt, Add, Delete, StartOrStop, Load
<1>7. DiskChanges => UNCHANGED <<told, client>>
  BY DEF DiskChanges, qbt
<1>8. UNCHANGED vars => UNCHANGED <<told, client>>
  BY DEF vars, qbt
<1>9. Pass => UNCHANGED <<told, client>>
  BY PassFrame DEF qbt
<1>10. QED
  BY <1>1, <1>2, <1>3, <1>4, <1>5, <1>6, <1>7, <1>8, <1>9, CacheFull, CacheDelta, Steps, StopFrame
  DEF Poll, CacheInv

\* Through lost answers, suspect lists and restarts of either side the keys of
\* the cache are those of the last answer that was believed.
THEOREM CacheKeysAreTrue == Spec => []CacheKeysTrue
<1>1. CacheInv => CacheKeysTrue
  BY DEF CacheInv
<1>2. QED
  BY <1>1, CacheInit, CacheStep, PTL DEF Spec

-----------------------------------------------------------------------------
(* The janitor.                                                            *)

\* A pass runs on an answer that was believed, and whatever it has in hand was
\* owned by no torrent whose snapshot is whole.
BelievedOnly == highRisk => accepted
PassFounded  == main.pc \in {"record", "move"}
                  => accepted /\ (main.todo \cup main.path) \cap listed \subseteq harmed

JanitorInv == CacheInv /\ BelievedOnly /\ PassFounded /\ KnownContentStays

LEMMA JanitorInit == Init => JanitorInv
BY CacheInit DEF Init, JanitorInv, BelievedOnly, PassFounded, KnownContentStays, MainIdle

LEMMA BelievedStep == ASSUME JanitorInv, [Next]_vars PROVE BelievedOnly'
<1>1. CASE Poll
  BY <1>1 DEF Poll, PollFails, PollFull, PollDelta, AfterFailure, BelievedOnly
<1>2. CASE Crash
  BY <1>2 DEF Crash, BelievedOnly
<1>3. CASE UNCHANGED <<highRisk, accepted>>
  BY <1>3 DEF JanitorInv, BelievedOnly
<1>4. DiskChanges \/ UNCHANGED vars => UNCHANGED <<highRisk, accepted>>
  BY DEF DiskChanges, vars, client
<1>5. QED
  BY <1>1, <1>2, <1>3, <1>4, Steps, QbtFrame, PassFrame, StopFrame DEF client

LEMMA FoundedStep == ASSUME JanitorInv, [Next]_vars PROVE PassFounded'
<1>1. CASE ScanCandidates
  <2>1. /\ highRisk /\ UNCHANGED client /\ main'.path = {}
        /\ main'.todo \subseteq Torrents \ Protected
    BY <1>1 DEF ScanCandidates, MainIdle, JanitorInv, CacheInv, TypeOK
  <2>2. listed \subseteq Protected \cup harmed
    BY DEF JanitorInv, CacheInv, CacheKeysTrue, PathsKnown, Cached, Protected
  <2>3. QED
    BY <2>1, <2>2 DEF JanitorInv, BelievedOnly, PassFounded, client
<1>2. CASE RecordCandidate
  <2>1. /\ main.pc = "record" /\ UNCHANGED client
        /\ main'.todo \cup main'.path \subseteq main.todo
    BY <1>2 DEF RecordCandidate
  <2>2. QED
    BY <2>1 DEF JanitorInv, PassFounded, client
<1>3. CASE Quarantine
  <2>1. /\ main.pc = "move" /\ UNCHANGED client
        /\ main'.todo = main.todo /\ main'.path = main.path
    BY <1>3 DEF Quarantine, JanitorInv, CacheInv, TypeOK
  <2>2. QED
    BY <2>1 DEF JanitorInv, PassFounded, client
<1>4. CASE main'.pc \notin {"record", "move"}
  BY <1>4 DEF PassFounded
<1>5. CASE UNCHANGED <<main, accepted, listed, harmed>>
  BY <1>5 DEF JanitorInv, PassFounded
<1>6. SkipTasks \/ EndPass \/ Crash => main'.pc \notin {"record", "move"}
  BY DEF SkipTasks, EndPass, Crash, MainIdle
<1>7. Poll \/ EmergencyStop \/ EmergencyStopFails => main'.pc \notin {"record", "move"}
  BY PollFrame, StopFrame DEF TickStep, JanitorInv, CacheInv, TypeOK
<1>8. DiskChanges \/ UNCHANGED vars => UNCHANGED <<main, accepted, listed, harmed>>
  BY DEF DiskChanges, vars, client
<1>9. QED
  BY <1>1, <1>2, <1>3, <1>4, <1>5, <1>6, <1>7, <1>8, Steps, QbtFrame DEF Pass

LEMMA ContentStep == ASSUME JanitorInv, [Next]_vars PROVE KnownContentStays'
<1>1. CASE Quarantine
  <2>1. ASSUME NEW r \in robbed' PROVE r[2]
    <3>1. CASE r \in robbed
      BY <3>1 DEF JanitorInv, KnownContentStays
    <3>2. CASE r \notin robbed
      <4>1. PICK t \in main.path \cap listed : r = <<t, t \in harmed>>
        BY <1>1, <2>1, <3>2 DEF Quarantine
      <4>2. t \in harmed
        BY <1>1, <4>1 DEF Quarantine, JanitorInv, PassFounded
      <4>3. QED
        BY <4>1, <4>2
    <3>3. QED
      BY <3>1, <3>2
  <2>2. QED
    BY <2>1 DEF KnownContentStays
<1>2. CASE UNCHANGED robbed
  BY <1>2 DEF JanitorInv, KnownContentStays
<1>3. SkipTasks \/ ScanCandidates \/ RecordCandidate \/ EndPass => UNCHANGED robbed
  BY DEF SkipTasks, ScanCandidates, RecordCandidate, EndPass, janitor
<1>4. DiskChanges \/ Crash \/ UNCHANGED vars => UNCHANGED robbed
  BY DEF DiskChanges, Crash, vars, janitor
<1>5. QED
  BY <1>1, <1>2, <1>3, <1>4, Steps, QbtFrame, PollFrame, StopFrame DEF Pass, janitor

LEMMA JanitorStep == ASSUME JanitorInv, [Next]_vars PROVE JanitorInv'
<1>1. CacheInv'
  BY CacheStep DEF JanitorInv
<1>2. QED
  BY <1>1, BelievedStep, FoundedStep, ContentStep DEF JanitorInv

\* The janitor moves nothing of a torrent that the last believed answer listed,
\* unless a delta has replaced its snapshot.
THEOREM KnownContentIsSafe == Spec => []KnownContentStays
<1>1. JanitorInv => KnownContentStays
  BY DEF JanitorInv
<1>2. QED
  BY <1>1, JanitorInit, JanitorStep, PTL DEF Spec

\* While the last poll failed or was not believed the janitor moves nothing.
THEOREM SuspectIsSafe == Spec => SuspectMovesNothing
<1>1. ASSUME JanitorInv, [Next]_vars PROVE [trash' # trash => accepted]_vars
  <2>1. CASE Quarantine
    BY <2>1, <1>1 DEF Quarantine, JanitorInv, PassFounded
  <2>2. SkipTasks \/ ScanCandidates \/ RecordCandidate \/ EndPass => UNCHANGED trash
    BY DEF SkipTasks, ScanCandidates, RecordCandidate, EndPass, janitor
  <2>3. DiskChanges \/ Crash \/ UNCHANGED vars => UNCHANGED trash
    BY DEF DiskChanges, Crash, vars, janitor
  <2>4. QED
    BY <1>1, <2>1, <2>2, <2>3, Steps, QbtFrame, PollFrame, StopFrame DEF Pass, janitor
<1>2. QED
  BY <1>1, JanitorInit, JanitorStep, PTL DEF Spec, SuspectMovesNothing
=============================================================================

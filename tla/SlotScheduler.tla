---------------------------- MODULE SlotScheduler ----------------------------
(***************************************************************************)
(* Who may download: SoakQueueService.run_once, DownloadPlanner.           *)
(* plan_and_apply (the two halves of planner_tick) and the CarouselService.*)
(* All run on the main thread and share scheduler_allocations, soak_state, *)
(* carousel_state and resource_reservations; qBittorrent itself moves on   *)
(* between the snapshot they read and the calls they make.                 *)
(*                                                                         *)
(* A tick is a sequence of transactions and qBittorrent calls; it is cut   *)
(* when a call raises or the daemon dies.  A tick under an unhealthy sync  *)
(* changes nothing modelled here and is a stuttering step; so is a         *)
(* carousel tick suspended by its disk guard.  Sizes are in abstract       *)
(* units; speeds, swarms, ages and sort keys are read from snapshots and   *)
(* health rows and are inputs of the steps that test them.  Download       *)
(* limits and sequential mode are left out (a call for them that raises    *)
(* cuts the tick like the others).                                         *)
(*                                                                         *)
(* All torrents are in category auto, and stay in it: a delta never holds  *)
(* the category, so a torrent that a delta mentions is "bare" in the cache *)
(* until the next full answer: listed, but managed by nobody.              *)
(***************************************************************************)
EXTENDS Integers, FiniteSets, FiniteSetsExt, SequencesExt

CONSTANTS Torrents,
          Left, Exposure, Claim,     \* amount_left, soak exposure, bytes of a batch, of each torrent
          FreeLevels,                \* what free_bytes_provider may report
          EmergencyFloor, DiskFloor, RecoverBelow, RecoveryMargin, RecoveryMaxLeft,
          ActiveSlots, RecoverySlots, ResidentSlots, MaxActiveLike,
          MaxExposure,               \* max_total_exposure_bytes
          Concurrency,               \* of the carousel
          MaxTicks,                  \* bound: ticks of either kind that begin
          MaxEvents                  \* bound: changes of qBittorrent, batches, lapses, cuts

VARIABLES
  world,    \* qBittorrent: each torrent as it is
  snap,     \*   as the sync cache has it
  soak,     \* soak_state.state, a cooldown that has passed apart
  hotSince, \*   hot_since: not set, less than hot_confirm_sec ago, longer ago
  alloc,    \* scheduler_allocations.desired_state
  act,      \* active_download reservation
  prb,      \* soak_probe reservation
  batch,    \* batch with its reservation
  car,      \* carousel_state.state, with whether its timer has run out
  tick,     \* step of the main thread and what it still needs to remember
  ticks, events \* counters of the bounds

tables == <<soak, hotSince, alloc, act, prb, batch, car>>
bounds == <<ticks, events>>
vars == <<world, snap, tables, tick, bounds>>

ASSUME SlotAssumption ==
  /\ IsFiniteSet(Torrents) /\ FreeLevels \subseteq Nat
  /\ Left \in [Torrents -> Nat \ {0}] /\ Claim \in [Torrents -> Nat]
  /\ Exposure \in [Torrents -> Nat \ {0}] /\ \A t \in Torrents : Exposure[t] <= Left[t]
  /\ {EmergencyFloor, DiskFloor, RecoverBelow, RecoveryMargin, RecoveryMaxLeft,
      ActiveSlots, RecoverySlots, ResidentSlots, MaxActiveLike, MaxExposure,
      Concurrency, MaxTicks, MaxEvents} \subseteq Nat

Idle == [pc |-> "idle", free |-> 0, sel |-> {}, zero |-> {}, hot |-> {}, since |-> {},
         start |-> {}, victims |-> {}, stale |-> {}, cool |-> {}, prot |-> {},
         pick |-> {}, slow |-> {}, grew |-> FALSE]

WorldStates == {"run", "stop", "done", "gone"}
CacheStates == WorldStates \union {"bare"}
SoakStates  == {"candidate", "soak_resident", "soak_hot", "cooling", "cooled"}
AllocStates == {"none", "active", "soak", "soak_cooldown", "soak_resident", "soak_hot",
                "dead", "carousel_probe"}
CarStates   == {"none", "probing", "elapsed", "soak", "backoff", "ripe"}

Init ==
  /\ world \in [Torrents -> {"run", "stop"}] /\ snap = world
  /\ soak = [t \in Torrents |-> "candidate"] /\ hotSince = [t \in Torrents |-> "none"]
  \* the tables of a daemon that starts anew may hold torrents found dead before
  /\ alloc \in [Torrents -> {"none", "dead"}]
  /\ act = [t \in Torrents |-> "none"] /\ prb = act /\ batch = act
  /\ car = [t \in Torrents |-> "none"]
  /\ tick = Idle /\ ticks = 0 /\ events = 0

Write(f, S, v) == [t \in DOMAIN f |-> IF t \in S THEN v ELSE f[t]]

----------------------------------------------------------------------------
(* Reservations.  Only the ones that have not expired count in a budget.   *)

Resident == {t \in Torrents : soak[t] \in {"soak_resident", "soak_hot"}}
Cooling  == {t \in Torrents : soak[t] = "cooling"}

ActiveBytes(t) == IF act[t] = "live" THEN Left[t] ELSE 0
BatchBytes(t)  == IF batch[t] = "live" THEN Claim[t] ELSE 0
ProbeBytes(t)  == IF prb[t] = "live" THEN Exposure[t] ELSE 0

NonSoakBytes(t) == Max({ActiveBytes(t), BatchBytes(t)})
NonSoak       == SumFunctionOnSet([t \in Torrents |-> NonSoakBytes(t)], Torrents)
SoakBytes     == SumFunctionOnSet([t \in Torrents |-> ProbeBytes(t)], Torrents)
ExposureOf(S) == SumFunctionOnSet(Exposure, S)
LeftOf(S)     == SumFunctionOnSet(Left, S)

At(pc)   == tick.pc = pc
Go(next) == tick' = [tick EXCEPT !.pc = next]

Halt(S)   == world' = [t \in Torrents |-> IF t \in S /\ world[t] = "run" THEN "stop" ELSE world[t]]
Resume(S) == world' = [t \in Torrents |-> IF t \in S /\ world[t] = "stop" THEN "run" ELSE world[t]]

----------------------------------------------------------------------------
(* The soak queue.                                                         *)

Preserving(free) == EmergencyFloor <= free /\ free < DiskFloor

\* _select_preemption_victims: the first of the running active downloads, in
\* the order of their score, that release enough; none when all do not.
Victims(scored, t, taken, needed) ==
  LET fit == {i \in DOMAIN scored : scored[i] \notin taken \union {t} /\ act[scored[i]] # "none"}
      first(n) == {scored[i] : i \in {k \in fit : k <= n}}
      enough == {n \in fit : LeftOf(first(n)) >= needed}
  IN IF enough = {} THEN {} ELSE first(Min(enough))

\* _trim_to_budget: a torrent is kept within the cap; a running resident is
\* kept for nothing while the disk is between its floors; one confirmed hot
\* may have active downloads preempted for it.
TrimStep(acc, t, scored, free, ema) ==
  LET keep == [acc EXCEPT !.out = @ \union {t}, !.used = @ + Exposure[t]]
      over == acc.used + Exposure[t] - acc.cap
      hotReady == ema[t] = "hot" /\ hotSince[t] = "confirmed"
      fallen == Victims(scored, t, acc.victims, over)
  IN IF Preserving(free) /\ t \in Resident /\ snap[t] = "run"
     THEN [acc EXCEPT !.out = @ \union {t}, !.zero = @ \union {t}]
     ELSE IF over <= 0 THEN keep
     ELSE IF hotReady /\ fallen # {}
     THEN [keep EXCEPT !.victims = @ \union fallen, !.cap = @ + LeftOf(fallen)]
     ELSE acc

Trim(seq, scored, free, cap, ema) ==
  FoldLeft(LAMBDA acc, t : TrimStep(acc, t, scored, free, ema),
           [out |-> {}, zero |-> {}, victims |-> {}, used |-> 0, cap |-> cap], seq)

\* mutant: the planner's reservations are not taken off
CapAlone(free) == Min({MaxExposure, Max({0, free - DiskFloor})})

Cap(free) == Min({MaxExposure, Max({0, free - DiskFloor - NonSoak})})

\* The speeds that make a difference: below low_bps, between, hot.
Speeds(t) == IF snap[t] \in {"done", "gone", "bare"} THEN {"low"}
             ELSE IF hotSince[t] = "none" THEN {"low", "hot"} ELSE {"low", "mid", "hot"}
Emas == {ema \in [Torrents -> {"low", "mid", "hot"}] : \A t \in Torrents : ema[t] \in Speeds(t)}

\* The active downloads their tags and progress allow to preempt, if one may be;
\* nobody asks whether they are managed, and a delta can leave the progress.
Spares == IF \A t \in Torrents : hotSince[t] # "confirmed" THEN {{}}
          ELSE SUBSET {t \in Torrents : alloc[t] = "active" /\ snap[t] \in {"run", "bare"}}

\* run_once up to the first call: everything is decided on the snapshot and
\* the rows as they are now.
Running  == {t \in Torrents : snap[t] = "run"}
StartSlots(n) == Max({0, Min({ResidentSlots - n, MaxActiveLike - Cardinality(Running)})})
\* Each list in an order of its own: the snapshot's, and the candidates' sort key.
Existing == Running \cap Resident
\* mutant: a torrent in its cooldown is a candidate
WaitingWarm == {t \in Torrents : snap[t] = "stop"}
Waiting  == {t \in Torrents : snap[t] = "stop"} \ Cooling
Chosen(existing, waiting) ==
  existing \o SubSeq(waiting, 1, Min({StartSlots(Len(existing)), Len(waiting)}))

SoakBegin ==
  /\ At("idle")
  /\ \E free \in FreeLevels, existing \in SetToSeqs(Existing), waiting \in SetToSeqs(Waiting),
        scored \in UNION {SetToSeqs(spare) : spare \in Spares}, ema \in Emas :
     \E out \in {Trim(Chosen(existing, waiting), scored, free, Cap(free), ema)} :
       LET hotNow == {t \in out.out : ema[t] = "hot"}
       IN tick' = [Idle EXCEPT
            !.pc = "preempt", !.free = free,
            !.sel = out.out, !.zero = out.zero, !.victims = out.victims,
            !.hot = {t \in hotNow : hotSince[t] = "confirmed"},
            !.since = hotNow \union {t \in out.out : ema[t] = "mid" /\ hotSince[t] # "none"},
            !.start = {t \in out.out : snap[t] = "stop"},
            !.stale = Existing \ out.out,
            !.cool = Cooling \union out.victims]
  /\ UNCHANGED <<world, snap, tables>>

\* _preempt_active: first the stop call, then the rows.
Preempt ==
  /\ At("preempt") /\ Halt(tick.victims) /\ Go("preempted")
  /\ UNCHANGED <<snap, tables>>

Cool(S) ==
  /\ soak' = Write(soak, S, "cooling")
  /\ alloc' = Write(alloc, S, "soak_cooldown")

PreemptRows ==
  /\ At("preempted") /\ Go("residents")
  /\ act' = Write(act, tick.victims, "none")
  /\ Cool(tick.victims)
  /\ UNCHANGED <<world, snap, hotSince, prb, batch, car>>

\* _update_resident_state
Residents ==
  /\ At("residents") /\ tick' = [tick EXCEPT !.pc = "pause", !.since = {}]
  /\ soak' = Write(Write(soak, tick.sel, "soak_resident"), tick.hot, "soak_hot")
  /\ alloc' = Write(Write(alloc, tick.sel, "soak_resident"), tick.hot, "soak_hot")
  /\ hotSince' = [t \in Torrents |->
       IF t \notin tick.sel THEN hotSince[t]
       ELSE IF t \notin tick.since THEN "none"
       ELSE IF hotSince[t] = "none" THEN "recent" ELSE hotSince[t]]
  /\ UNCHANGED <<world, snap, act, prb, batch, car>>

\* _pause_stale_residents: the stop call, then the rows.
Pause ==
  /\ At("pause") /\ Halt(tick.stale) /\ Go("paused")
  /\ UNCHANGED <<snap, tables>>

PauseRows ==
  /\ At("paused") /\ tick' = [tick EXCEPT !.pc = "release", !.stale = {}] /\ Cool(tick.stale)
  /\ UNCHANGED <<world, snap, hotSince, act, prb, batch, car>>

\* _release_stale_reservations
ReleaseStale ==
  /\ At("release") /\ Go("reserve")
  /\ prb' = Write(prb, Torrents \ tick.sel, "none")
  /\ UNCHANGED <<world, snap, soak, hotSince, alloc, act, batch, car>>

\* _sync_reservations
SyncReservations ==
  /\ At("reserve") /\ Go("start")
  /\ prb' = Write(Write(prb, tick.sel, "live"), tick.zero, "zero")
  /\ UNCHANGED <<world, snap, soak, hotSince, alloc, act, batch, car>>

SoakStart ==
  /\ At("start") /\ Resume(tick.start) /\ Go("reconcile")
  /\ UNCHANGED <<snap, tables>>

----------------------------------------------------------------------------
(* The planner.                                                            *)

Mode == IF tick.free < EmergencyFloor THEN "emergency"
        ELSE IF tick.free < RecoverBelow THEN "recovery" ELSE "normal"

SlotLimit == CASE Mode = "normal" -> ActiveSlots
               [] Mode = "recovery" -> RecoverySlots
               [] OTHER -> 0

PlannerFloor == CASE Mode = "normal" -> DiskFloor
                  [] Mode = "recovery" -> EmergencyFloor + RecoveryMargin
                  [] OTHER -> EmergencyFloor

\* _reconcile_absent_allocations, after active_pipeline_batch_hashes was read
Reconcile ==
  LET absent == {t \in Torrents : snap[t] = "gone" /\ alloc[t] # "none"}
  IN /\ At("reconcile")
     /\ tick' = [tick EXCEPT !.pc = "plan",
                   !.prot = tick.sel \union {t \in Torrents : batch[t] = "live"}]
     /\ alloc' = Write(alloc, absent, "none")
     /\ act' = Write(act, absent, "none") /\ prb' = Write(prb, absent, "none")
     /\ batch' = [t \in Torrents |-> IF t \in absent /\ batch[t] = "live" THEN "bare" ELSE batch[t]]
     /\ soak' = Write(soak, absent, "candidate") /\ hotSince' = Write(hotSince, absent, "none")
     /\ UNCHANGED <<world, snap, car>>

External  == ExposureOf(tick.sel \ tick.zero)
Budgeted(t) == NonSoakBytes(t) + (IF External > 0 THEN 0 ELSE ProbeBytes(t))
Budget == Max({0, tick.free - PlannerFloor
                  - SumFunctionOnSet([t \in Torrents |-> Budgeted(t)], Torrents) - External})

\* The selection: first the hot residents, then the others, in the planner's
\* order, while a slot is free and the bytes not yet reserved for them fit.
PickStep(acc, t, budget) ==
  LET more == Max({0, Left[t] - Budgeted(t)})
  IN IF Cardinality(acc.pick) >= SlotLimit \/ acc.used + more > budget THEN acc
     ELSE [pick |-> acc.pick \union {t}, used |-> acc.used + more]

Pick(seq, budget) ==
  FoldLeft(LAMBDA acc, t : PickStep(acc, t, budget), [pick |-> {}, used |-> 0], seq)

\* _is_managed, in the planner's list of snapshots.
Managed == {t \in Torrents : snap[t] \notin {"gone", "bare"}}
Unfinished == {t \in Managed : snap[t] # "done"}

\* _candidate_lists: torrents not dead nor cooling; the ones soak or a batch
\* protects and, in recovery, the large ones are only held.
Held(open) == (open \cap (tick.prot \ tick.hot))
              \union {t \in open : Mode = "recovery" /\ Left[t] > RecoveryMaxLeft}

\* mutant: the allocation's word is written into soak_state
SlowRowsMixed(kept, slow) == Write(Write(soak, kept, "soak"), slow \ kept, "cooling")

\* _mark_soak_resident and _mark_soak_cooldown of the slow active downloads
SlowRows(kept, slow) == Write(Write(soak, kept, "soak_resident"), slow \ kept, "cooling")

\* plan_and_apply up to its health update: the rows it writes one by one.
\* "expired" are the torrents _should_mark_dead finds without a swarm for an
\* hour, "slow" the ones _should_demote_active does.
Cold(slow) == (tick.cool \union slow) \cap Managed
Open(expired, slow) ==
  Unfinished \ (expired \union {t \in Managed : alloc[t] = "dead"} \union Cold(slow))
Candidates(expired, slow) == Open(expired, slow) \ Held(Open(expired, slow))
Kept(slow) == IF Mode = "recovery" THEN slow ELSE {}

PlanRows(expired, slow, plan) ==
  /\ tick' = [tick EXCEPT !.pc = "active", !.pick = plan.pick, !.slow = Kept(slow),
                          !.grew = plan.used > 0, !.hot = {}]
  /\ alloc' = [t \in Torrents |->
       CASE t \in expired -> "dead"
         [] t \in Cold(slow) \ expired -> IF t \in slow THEN "soak" ELSE "soak_cooldown"
         [] t \in plan.pick -> "active"
         [] t \in Open(expired, slow) \ plan.pick -> "soak"
         [] OTHER -> alloc[t]]
  /\ soak' = SlowRows(Kept(slow), slow)

Plan ==
  /\ At("plan")
  /\ \E expired \in SUBSET {t \in Unfinished : alloc[t] \in {"soak", "dead"}},
        slow \in SUBSET {t \in Managed : alloc[t] = "active"} :
       \E forced \in SetToSeqs(Candidates(expired, slow) \cap tick.hot),
          regular \in SetToSeqs(Candidates(expired, slow) \ tick.hot) :
         \E plan \in {Pick(forced \o regular, Budget)} : PlanRows(expired, slow, plan)
  /\ UNCHANGED <<world, snap, hotSince, act, prb, batch, car>>

\* _sync_active_download_reservations
SyncActive ==
  /\ At("active") /\ Go("launch")
  /\ act' = Write(Write(act, Managed \ tick.pick, "none"), tick.pick, "live")
  /\ UNCHANGED <<world, snap, soak, hotSince, alloc, prb, batch, car>>

Launched == {t \in tick.pick : snap[t] = "stop"}

\* mutant: what soak or a batch protects is stopped like the rest
ParkedUnprotected == Running \ (tick.pick \union tick.slow)
Parked   == Running \ (tick.pick \union tick.prot \union tick.slow)

PlanStart ==
  /\ At("launch") /\ Resume(Launched)
  /\ tick' = [tick EXCEPT !.pc = "park", !.free = 0, !.grew = FALSE, !.zero = {}, !.cool = {},
                          !.victims = {}]
  /\ UNCHANGED <<snap, tables>>

PlanStop ==
  /\ At("park") /\ Halt(Parked) /\ Go("done")
  /\ UNCHANGED <<snap, tables>>

Finish == At("done") /\ tick' = Idle /\ UNCHANGED <<world, snap, tables>>

----------------------------------------------------------------------------
(* The carousel.                                                           *)

Probing == {t \in Torrents : car[t] \in {"probing", "elapsed"}}

\* _reconcile_active_probes: the rows; then one stop call for the expired.
CarouselReconcile ==
  \E seen \in SUBSET {t \in Probing : snap[t] # "gone"} :
    LET over == {t \in Probing \ seen : car[t] = "elapsed"}
    IN /\ At("idle")
       /\ tick' = [Idle EXCEPT !.pc = "carStop", !.stale = over]
       /\ car' = Write(Write(car, seen, "soak"), over, "backoff")
       /\ alloc' = Write(Write(alloc, seen, "soak"), over, "dead")
       /\ UNCHANGED <<world, snap, soak, hotSince, act, prb, batch>>

CarouselStop ==
  /\ At("carStop") /\ Halt(tick.stale) /\ Go("carPick")
  /\ UNCHANGED <<snap, tables>>

DeadCandidates == {t \in Torrents : /\ alloc[t] = "dead" /\ snap[t] \in {"run", "stop"}
                                    /\ car[t] \in {"none", "ripe"}}

\* mutant: the probes still out are not counted
AllRoom == Min({Cardinality(DeadCandidates), Concurrency})
Room == Min({Cardinality(DeadCandidates), Max({0, Concurrency - Cardinality(Probing)})})

\* _start_new_probes: the rows of all that are chosen, then one start call.
\* Neither soak_state nor a snapshot of a running torrent holds it back.
Probe(S) ==
  /\ car' = Write(car, S, "probing") /\ alloc' = Write(alloc, S, "carousel_probe")
  /\ UNCHANGED <<world, snap, soak, hotSince, act, prb, batch>>

CarouselPick ==
  /\ At("carPick")
  /\ \E probes \in SUBSET DeadCandidates :
       /\ Cardinality(probes) = Room /\ Probe(probes)
       /\ tick' = [tick EXCEPT !.pc = "carStart", !.start = probes]

\* The call _disable_seq_dl before the rows of a torrent raises.
CarouselPickCut ==
  /\ At("carPick") /\ tick' = Idle
  /\ \E probes \in SUBSET DeadCandidates : Cardinality(probes) < Room /\ Probe(probes)

CarouselStart ==
  /\ At("carStart") /\ Resume(tick.start) /\ tick' = Idle
  /\ UNCHANGED <<snap, tables>>

----------------------------------------------------------------------------
(* A tick is cut, the sync sees qBittorrent again, and the world moves on. *)

Cut == tick.pc \notin {"idle", "done"} /\ tick' = Idle /\ UNCHANGED <<world, snap, tables>>

\* What a delta makes of a torrent: an entry of the changed fields replaces the
\* snapshot, whether its state changed or only its numbers did.
AfterDelta(t) == IF world[t] = "gone" THEN {"gone"}
                 ELSE IF snap[t] = world[t] THEN {snap[t], "bare"} ELSE {"bare"}

\* poll_once: a full answer, or a delta.
Sync ==
  /\ At("idle")
  /\ \/ snap' = world
     \/ snap' \in {view \in [Torrents -> CacheStates] : \A t \in Torrents : view[t] \in AfterDelta(t)}
  /\ UNCHANGED <<world, tables, tick>>

\* The user, the safety loop, the pipeline or the download itself changes a
\* torrent; between the steps of a tick this is the same as before the tick.
Change(t) ==
  /\ At("idle") /\ world[t] # "gone"
  /\ \E w \in WorldStates :
       /\ w # world[t]
       /\ world[t] = "done" => w = "gone"
       /\ w = "done" => world[t] = "run"
       /\ world' = [world EXCEPT ![t] = w]
  /\ UNCHANGED <<snap, tables, tick>>

\* The file/batch loop reserves a batch (main thread); the upload thread
\* releases it at any time.
BatchBegin(t) ==
  /\ At("idle") /\ Claim[t] > 0 /\ batch[t] = "none" /\ batch' = [batch EXCEPT ![t] = "live"]
  /\ UNCHANGED <<world, snap, soak, hotSince, alloc, act, prb, car, tick>>

BatchEnd(t) ==
  /\ batch[t] # "none" /\ batch' = [batch EXCEPT ![t] = "none"]
  /\ UNCHANGED <<world, snap, soak, hotSince, alloc, act, prb, car, tick>>

\* The clocks: a cooldown ends, a hot torrent stays hot, a probe's time is up,
\* a backoff ends, reservations are not renewed for two minutes.
Elapse(t) ==
  /\ At("idle")
  /\ \/ soak[t] = "cooling" /\ soak' = [soak EXCEPT ![t] = "cooled"] /\ UNCHANGED <<hotSince, car>>
     \/ /\ hotSince[t] = "recent" /\ hotSince' = [hotSince EXCEPT ![t] = "confirmed"]
        /\ UNCHANGED <<soak, car>>
     \/ car[t] = "probing" /\ car' = [car EXCEPT ![t] = "elapsed"] /\ UNCHANGED <<soak, hotSince>>
     \/ car[t] = "backoff" /\ car' = [car EXCEPT ![t] = "ripe"] /\ UNCHANGED <<soak, hotSince>>
  /\ UNCHANGED <<world, snap, alloc, act, prb, batch, tick>>

Lapse ==
  /\ At("idle")
  /\ act' = [t \in Torrents |-> IF act[t] = "live" THEN "lapsed" ELSE act[t]]
  /\ prb' = [t \in Torrents |-> IF prb[t] = "live" THEN "lapsed" ELSE prb[t]]
  /\ UNCHANGED <<world, snap, soak, hotSince, alloc, batch, car, tick>>

Begin == ticks < MaxTicks /\ ticks' = ticks + 1 /\ UNCHANGED events
Event == events < MaxEvents /\ events' = events + 1 /\ UNCHANGED ticks

SoakStep == Preempt \/ PreemptRows \/ Residents \/ Pause \/ PauseRows
            \/ ReleaseStale \/ SyncReservations \/ SoakStart
PlannerStep == Reconcile \/ Plan \/ SyncActive \/ PlanStart \/ PlanStop \/ Finish
CarouselStep == CarouselStop \/ CarouselPick \/ CarouselStart

Next ==
  \/ (SoakBegin \/ CarouselReconcile) /\ Begin
  \/ (SoakStep \/ PlannerStep \/ CarouselStep \/ Sync) /\ UNCHANGED bounds
  \/ (Cut \/ CarouselPickCut \/ Lapse) /\ Event
  \/ \E t \in Torrents : (Change(t) \/ BatchBegin(t)) /\ Event
  \/ \E t \in Torrents : (BatchEnd(t) \/ Elapse(t)) /\ UNCHANGED bounds

Spec == Init /\ [][Next]_vars

----------------------------------------------------------------------------
(* Properties.                                                             *)

TypeOK ==
  /\ world \in [Torrents -> WorldStates] /\ snap \in [Torrents -> CacheStates]
  /\ soak \in [Torrents -> SoakStates] /\ hotSince \in [Torrents -> {"none", "recent", "confirmed"}]
  /\ alloc \in [Torrents -> AllocStates] /\ car \in [Torrents -> CarStates]
  /\ act \in [Torrents -> {"none", "live", "lapsed"}]
  /\ prb \in [Torrents -> {"none", "zero", "live", "lapsed"}]
  /\ batch \in [Torrents -> {"none", "live", "bare"}]
  /\ ticks \in 0..MaxTicks /\ events \in 0..MaxEvents
  /\ tick.pc \in {"idle", "preempt", "preempted", "residents", "pause", "paused", "release",
                  "reserve", "start", "reconcile", "plan", "active", "launch", "park", "done",
                  "carStop", "carPick", "carStart"}

\* A torrent that was in its cooldown when the tick began, or is preempted or
\* demoted into one by it, is started neither by the soak queue nor by the
\* planner of that tick, whichever put it there and however old the snapshot
\* is.  (The carousel does not ask: see CarouselPick.)
CooldownHonoured ==
  [][\A t \in Torrents : /\ tick.pc \in {"start", "launch"}
                         /\ world[t] = "stop" /\ world'[t] = "run"
                         => t \notin tick.cool /\ soak[t] # "cooling"]_vars

\* The calls agree with the reservations, although each is a step of its own,
\* the snapshot is older than the tick and earlier ticks may have been cut: the
\* soak queue and the planner start only what holds a live reservation of
\* theirs, and a zero one, kept for a resident that runs between the floors,
\* covers no start; the planner stops nothing that still holds bytes, of its
\* own, the soak queue's or a batch's (requirements-map.md:9).  (That a download
\* that is left running holds bytes is not true: one that a delta made bare
\* loses its soak reservation, and neither of the two stops it.)
CallsMatchReservations ==
  [][\A t \in Torrents :
       /\ world[t] = "stop" /\ world'[t] = "run"
            => (At("start") => prb[t] = "live") /\ (At("launch") => act[t] = "live")
       /\ At("park") /\ world[t] = "run" /\ world'[t] = "stop"
            => act[t] # "live" /\ prb[t] \notin {"live", "zero"} /\ batch[t] # "live"]_vars

\* When the soak queue starts torrents without preempting, or the planner
\* gives out bytes that were not reserved yet, all live reservations together
\* fit between the free space of the tick and the floor that holds.
StartsFit ==
  /\ tick.pc = "start" /\ tick.start # {} /\ tick.victims = {}
       => NonSoak + SoakBytes <= tick.free - DiskFloor
  /\ tick.pc = "launch" /\ tick.grew
       => NonSoak + SoakBytes <= tick.free - PlannerFloor

\* The carousel never has more probes out than its concurrency, whatever
\* ticks were cut between a row and its call.
ProbesBounded == Cardinality(Probing) <= Concurrency
=============================================================================

------------------------ MODULE SlotSchedulerProofs ------------------------
(***************************************************************************)
(* Theorems about SlotScheduler, for every value of its constants: any     *)
(* number of torrents, slots, probes and ticks, any sizes and floors.      *)
(*                                                                         *)
(* The carousel's concurrency, what a tick starts in spite of a cooldown,  *)
(* what its calls have reserved, and whether what it starts fits the disk. *)
(* All but the first rest on what the folds over ordered lists (Trim,      *)
(* Pick) select, shown by induction along the list, and the last on sums.  *)
(***************************************************************************)
EXTENDS SlotScheduler, FiniteSetTheorems, WellFoundedInduction, SequenceTheorems, TLAPS

-----------------------------------------------------------------------------
(* Type correctness. *)

TickSteps == {"idle", "preempt", "preempted", "residents", "pause", "paused", "release",
              "reserve", "start", "reconcile", "plan", "active", "launch", "park", "done",
              "carStop", "carPick", "carStart"}

\* What the main thread remembers is a record with the fields of Idle.
TickShape == DOMAIN tick = DOMAIN Idle /\ tick.pc \in TickSteps

WorldTyped == world \in [Torrents -> WorldStates] /\ snap \in [Torrents -> CacheStates]
RowsTyped ==
  /\ soak \in [Torrents -> SoakStates] /\ hotSince \in [Torrents -> {"none", "recent", "confirmed"}]
  /\ alloc \in [Torrents -> AllocStates] /\ car \in [Torrents -> CarStates]
ClaimsTyped ==
  /\ act \in [Torrents -> {"none", "live", "lapsed"}]
  /\ prb \in [Torrents -> {"none", "zero", "live", "lapsed"}]
  /\ batch \in [Torrents -> {"none", "live", "bare"}]
BoundsTyped == ticks \in 0..MaxTicks /\ events \in 0..MaxEvents

TypeInv == TickShape /\ WorldTyped /\ RowsTyped /\ ClaimsTyped /\ BoundsTyped

LEMMA TypeParts == TypeInv => TypeOK
  BY DEF TypeInv, TypeOK, TickShape, TickSteps, WorldTyped, RowsTyped, ClaimsTyped, BoundsTyped

LEMMA TypeInit == Init => TypeInv
<1> SUFFICES ASSUME Init PROVE TypeInv
  OBVIOUS
<1>1. TickShape
  BY DEF Init, Idle, TickShape, TickSteps
<1>2. WorldTyped /\ RowsTyped /\ ClaimsTyped
  BY DEF Init, WorldTyped, WorldStates, CacheStates, RowsTyped, SoakStates, AllocStates, CarStates, ClaimsTyped
<1>3. BoundsTyped
  BY SlotAssumption DEF Init, BoundsTyped
<1>4. QED
  BY <1>1, <1>2, <1>3 DEF TypeInv

\* The actions, sorted by the part of the state they write.
Calls == Preempt \/ Pause \/ SoakStart \/ PlanStart \/ PlanStop \/ CarouselStop \/ CarouselStart
         \/ \E t \in Torrents : Change(t)
Rows == PreemptRows \/ Residents \/ PauseRows \/ ReleaseStale \/ SyncReservations \/ Reconcile
        \/ Plan \/ SyncActive \/ CarouselReconcile \/ CarouselPick \/ CarouselPickCut \/ Lapse
        \/ \E t \in Torrents : BatchBegin(t) \/ BatchEnd(t) \/ Elapse(t)
Others == SoakBegin \/ Finish \/ Cut \/ Sync
Bounds == UNCHANGED bounds \/ Begin \/ Event

LEMMA Steps == [Next]_vars => (Calls \/ Rows \/ Others \/ UNCHANGED vars) /\ Bounds
  BY DEF Next, Calls, Rows, Others, Bounds, SoakStep, PlannerStep, CarouselStep, vars

LEMMA Frames ==
  /\ Calls => UNCHANGED <<snap, tables>>
  /\ Rows => UNCHANGED <<world, snap>>
  /\ Others => UNCHANGED <<world, tables>>
<1>1. Calls => UNCHANGED <<snap, tables>>
  BY DEF Calls, Preempt, Pause, SoakStart, PlanStart, PlanStop, CarouselStop,
     CarouselStart, Change
<1>2. Rows => UNCHANGED <<world, snap>>
  BY DEF Rows, PreemptRows, Residents, PauseRows, ReleaseStale, SyncReservations, Reconcile, Plan,
         SyncActive, CarouselReconcile, CarouselPick, CarouselPickCut, Probe, Lapse, BatchBegin,
         BatchEnd, Elapse
<1>3. Others => UNCHANGED <<world, tables>>
  BY DEF Others, SoakBegin, Finish, Cut, Sync
<1>4. QED
  BY <1>1, <1>2, <1>3

\* What the soak queue has decided when its first call is made.
Decided(free, out, hot, since) ==
  [Idle EXCEPT !.pc = "preempt", !.free = free,
     !.sel = out.out, !.zero = out.zero, !.victims = out.victims, !.hot = hot, !.since = since,
     !.start = {t \in out.out : snap[t] = "stop"},
     !.stale = Existing \ out.out,
     !.cool = Cooling \union out.victims]

LEMMA SoakDecides == SoakBegin => \E free, out, hot, since : tick' = Decided(free, out, hot, since)
<1> SUFFICES ASSUME SoakBegin PROVE \E free, out, hot, since : tick' = Decided(free, out, hot, since)
  OBVIOUS
<1> DEFINE HotNow(out, ema) == {t \in out.out : ema[t] = "hot"}
           Confirmed(out, ema) == {t \in HotNow(out, ema) : hotSince[t] = "confirmed"}
           Warm(out, ema) == {t \in out.out : ema[t] = "mid" /\ hotSince[t] # "none"}
<1>1. PICK free \in FreeLevels, existing \in SetToSeqs(Existing), waiting \in SetToSeqs(Waiting),
           scored \in UNION {SetToSeqs(spare) : spare \in Spares}, ema \in Emas :
        \E out \in {Trim(Chosen(existing, waiting), scored, free, Cap(free), ema)} :
          tick' = Decided(free, out, Confirmed(out, ema), HotNow(out, ema) \union Warm(out, ema))
  BY DEF SoakBegin, Decided
<1>2. PICK out : tick' = Decided(free, out, Confirmed(out, ema), HotNow(out, ema) \union Warm(out, ema))
  BY <1>1
<1>3. QED
  BY <1>2

LEMMA TickStep == ASSUME TypeInv, [Next]_vars PROVE TickShape'
<1>0. TickShape
  BY DEF TypeInv
<1>1. ASSUME NEW pc \in TickSteps, Go(pc) PROVE TickShape'
  BY <1>0, <1>1 DEF Go, TickShape
<1>2. ASSUME tick' = Idle PROVE TickShape'
  BY <1>2 DEF Idle, TickShape, TickSteps
<1>3. CASE Calls
  <2>1. CASE Preempt \/ Pause \/ SoakStart \/ PlanStop \/ CarouselStop
    BY <1>1, <2>1 DEF Preempt, Pause, SoakStart, PlanStop, CarouselStop, TickSteps
  <2>2. CASE PlanStart
    BY <1>0, <2>2 DEF PlanStart, TickShape, TickSteps
  <2>3. CASE CarouselStart
    BY <1>2, <2>3 DEF CarouselStart
  <2>4. CASE \E t \in Torrents : Change(t)
    BY <1>0, <2>4 DEF Change, TickShape
  <2>5. QED
    BY <1>3, <2>1, <2>2, <2>3, <2>4 DEF Calls
<1>4. CASE Rows
  <2>1. CASE PreemptRows \/ ReleaseStale \/ SyncReservations \/ SyncActive
    BY <1>1, <2>1 DEF PreemptRows, ReleaseStale, SyncReservations, SyncActive, TickSteps
  <2>2. CASE Residents
    BY <1>0, <2>2 DEF Residents, TickShape, TickSteps
  <2>3. CASE PauseRows
    BY <1>0, <2>3 DEF PauseRows, TickShape, TickSteps
  <2>4. CASE Reconcile
    BY <1>0, <2>4 DEF Reconcile, TickShape, TickSteps
  <2>5. CASE Plan
    BY <1>0, <2>5 DEF Plan, PlanRows, TickShape, TickSteps
  <2>6. CASE CarouselReconcile
    <3>1. PICK over : tick' = [Idle EXCEPT !.pc = "carStop", !.stale = over]
      BY <2>6 DEF CarouselReconcile
    <3>2. QED
      BY <3>1 DEF Idle, TickShape, TickSteps
  <2>7. CASE CarouselPick
    <3>1. PICK probes : tick' = [tick EXCEPT !.pc = "carStart", !.start = probes]
      BY <2>7 DEF CarouselPick
    <3>2. QED
      BY <1>0, <3>1 DEF TickShape, TickSteps
  <2>8. CASE CarouselPickCut
    BY <1>2, <2>8 DEF CarouselPickCut
  <2>9. CASE Lapse \/ \E t \in Torrents : BatchBegin(t) \/ BatchEnd(t) \/ Elapse(t)
    BY <1>0, <2>9 DEF Lapse, BatchBegin, BatchEnd, Elapse, TickShape
  <2>10. QED
    BY <1>4, <2>1, <2>2, <2>3, <2>4, <2>5, <2>6, <2>7, <2>8, <2>9 DEF Rows
<1>5. CASE Others
  <2>1. CASE SoakBegin
    BY <2>1, SoakDecides DEF Decided, Idle, TickShape, TickSteps
  <2>2. CASE Finish \/ Cut
    BY <1>2, <2>2 DEF Finish, Cut
  <2>3. CASE Sync
    BY <1>0, <2>3 DEF Sync, TickShape
  <2>4. QED
    BY <1>5, <2>1, <2>2, <2>3 DEF Others
<1>6. CASE UNCHANGED vars
  BY <1>0, <1>6 DEF vars, TickShape
<1>7. QED
  BY <1>3, <1>4, <1>5, <1>6, Steps

LEMMA WorldStep == ASSUME TypeInv, [Next]_vars PROVE WorldTyped'
<1>0. WorldTyped
  BY DEF TypeInv
<1>1. CASE Calls
  <2>1. snap' = snap
    BY <1>1, Frames
  <2>2. ASSUME NEW S, Halt(S) \/ Resume(S) PROVE WorldTyped'
    BY <1>0, <2>1, <2>2 DEF Halt, Resume, WorldTyped, WorldStates
  <2>3. CASE \E t \in Torrents : Change(t)
    BY <1>0, <2>1, <2>3 DEF Change, WorldTyped
  <2>4. QED
    BY <1>1, <2>2, <2>3
    DEF Calls, Preempt, Pause, SoakStart, PlanStart, PlanStop, CarouselStop, CarouselStart
<1>2. CASE Sync
  <2>1. ASSUME NEW t \in Torrents PROVE AfterDelta(t) \subseteq CacheStates
    BY <1>0 DEF AfterDelta, WorldTyped, CacheStates, WorldStates
  <2>2. world \in [Torrents -> CacheStates]
    BY <1>0 DEF WorldTyped, CacheStates
  <2>3. snap' \in [Torrents -> CacheStates] /\ world' = world
    BY <1>2, <2>2 DEF Sync
  <2>4. QED
    BY <1>0, <2>3 DEF WorldTyped
<1>4. CASE UNCHANGED <<world, snap>>
  BY <1>0, <1>4 DEF WorldTyped
<1>5. QED
  BY <1>1, <1>2, <1>4, Steps, Frames DEF Others, SoakBegin, Finish, Cut, vars

LEMMA RowsStep == ASSUME TypeInv, [Next]_vars PROVE RowsTyped'
<1>0. RowsTyped
  BY DEF TypeInv
<1> USE <1>0 DEF RowsTyped, Write
<1>1. CASE PreemptRows \/ PauseRows
  <2>1. PICK S : /\ soak' = Write(soak, S, "cooling") /\ alloc' = Write(alloc, S, "soak_cooldown")
                 /\ UNCHANGED <<hotSince, car>>
    BY <1>1 DEF PreemptRows, PauseRows, Cool
  <2>2. QED
    BY <2>1 DEF SoakStates, AllocStates
<1>2. CASE Residents
  <2>1. soak' \in [Torrents -> SoakStates]
    BY <1>2 DEF Residents, SoakStates
  <2>2. alloc' \in [Torrents -> AllocStates]
    BY <1>2 DEF Residents, AllocStates
  <2>3. hotSince' \in [Torrents -> {"none", "recent", "confirmed"}] /\ car' = car
    BY <1>2 DEF Residents
  <2>4. QED
    BY <2>1, <2>2, <2>3
<1>3. CASE Reconcile
  <2>1. PICK absent : /\ alloc' = Write(alloc, absent, "none")
                      /\ soak' = Write(soak, absent, "candidate")
                      /\ hotSince' = Write(hotSince, absent, "none") /\ car' = car
    BY <1>3 DEF Reconcile
  <2>2. QED
    BY <2>1 DEF SoakStates, AllocStates
<1>4. CASE Plan
  <2>1. PICK expired, slow, plan : PlanRows(expired, slow, plan)
    BY <1>4 DEF Plan
  <2>2. hotSince' = hotSince /\ car' = car
    BY <1>4 DEF Plan
  <2>3. soak' \in [Torrents -> SoakStates]
    BY <2>1 DEF PlanRows, SlowRows, SoakStates
  <2>4. alloc' \in [Torrents -> AllocStates]
    BY <2>1 DEF PlanRows, AllocStates
  <2>5. QED
    BY <2>2, <2>3, <2>4
<1>5. CASE CarouselReconcile
  <2> DEFINE Over(seen) == {t \in Probing \ seen : car[t] = "elapsed"}
  <2>1. PICK seen \in SUBSET {t \in Probing : snap[t] # "gone"} :
          /\ car' = Write(Write(car, seen, "soak"), Over(seen), "backoff")
          /\ alloc' = Write(Write(alloc, seen, "soak"), Over(seen), "dead")
          /\ UNCHANGED <<soak, hotSince>>
    BY <1>5 DEF CarouselReconcile
  <2>2. QED
    BY <2>1 DEF CarStates, AllocStates
<1>6. CASE CarouselPick \/ CarouselPickCut
  <2>1. PICK S : Probe(S)
    BY <1>6 DEF CarouselPick, CarouselPickCut
  <2>2. QED
    BY <2>1 DEF Probe, CarStates, AllocStates
<1>7. ASSUME NEW t \in Torrents, Elapse(t) PROVE RowsTyped'
  BY <1>7 DEF Elapse, SoakStates, CarStates
<1>8. CASE UNCHANGED <<soak, hotSince, alloc, car>>
  BY <1>8
<1>9. Calls \/ Others \/ UNCHANGED vars => UNCHANGED <<soak, hotSince, alloc, car>>
  BY Frames DEF tables, vars
<1>10. QED
  BY <1>1, <1>2, <1>3, <1>4, <1>5, <1>6, <1>7, <1>8, <1>9, Steps
  DEF Rows, ReleaseStale, SyncReservations, SyncActive, Lapse, BatchBegin, BatchEnd

LEMMA ClaimsStep == ASSUME TypeInv, [Next]_vars PROVE ClaimsTyped'
<1>0. ClaimsTyped
  BY DEF TypeInv
<1> USE <1>0 DEF ClaimsTyped, Write
<1>1. CASE PreemptRows \/ ReleaseStale \/ SyncReservations \/ SyncActive
  BY <1>1 DEF PreemptRows, ReleaseStale, SyncReservations, SyncActive
<1>2. CASE Reconcile
  <2>1. PICK absent :
          /\ act' = Write(act, absent, "none") /\ prb' = Write(prb, absent, "none")
          /\ batch' = [t \in Torrents |->
               IF t \in absent /\ batch[t] = "live" THEN "bare" ELSE batch[t]]
    BY <1>2 DEF Reconcile
  <2>2. QED
    BY <2>1
<1>3. CASE Lapse
  BY <1>3 DEF Lapse
<1>4. ASSUME NEW t \in Torrents, BatchBegin(t) \/ BatchEnd(t) PROVE ClaimsTyped'
  BY <1>4 DEF BatchBegin, BatchEnd
<1>5. CASE UNCHANGED <<act, prb, batch>>
  BY <1>5
<1>6. Calls \/ Others \/ UNCHANGED vars => UNCHANGED <<act, prb, batch>>
  BY Frames DEF tables, vars
<1>7. QED
  BY <1>1, <1>2, <1>3, <1>4, <1>5, <1>6, Steps
  DEF Rows, Residents, PauseRows, Plan, CarouselReconcile, CarouselPick, CarouselPickCut,
     Probe, Elapse

LEMMA TypeStep == TypeInv /\ [Next]_vars => TypeInv'
<1> SUFFICES ASSUME TypeInv, [Next]_vars PROVE TypeInv'
  OBVIOUS
<1>1. BoundsTyped'
  BY Steps, SlotAssumption DEF Bounds, bounds, Begin, Event, TypeInv, BoundsTyped
<1>2. QED
  BY <1>1, TickStep, WorldStep, RowsStep, ClaimsStep DEF TypeInv

LEMMA Typed == Spec => []TypeInv
  BY TypeInit, TypeStep, PTL DEF Spec

\* The tables, the snapshot and the tick hold what they can hold.
THEOREM TypeCorrect == Spec => []TypeOK
  BY Typed, TypeParts, PTL

-----------------------------------------------------------------------------
(* The carousel keeps within its concurrency. *)

LEMMA Larger == ASSUME NEW a \in Int, NEW b \in Int PROVE Max({a, b}) = IF a >= b THEN a ELSE b
<1> DEFINE larger == IF a >= b THEN a ELSE b
<1>1. larger \in {a, b} /\ \A y \in {a, b} : larger >= y
  OBVIOUS
<1>2. Max({a, b}) \in {a, b} /\ \A y \in {a, b} : Max({a, b}) >= y
  BY <1>1 DEF Max
<1>3. QED
  BY <1>1, <1>2

LEMMA Smaller == ASSUME NEW a \in Int, NEW b \in Int PROVE Min({a, b}) = IF a <= b THEN a ELSE b
<1> DEFINE smaller == IF a <= b THEN a ELSE b
<1>1. smaller \in {a, b} /\ \A y \in {a, b} : smaller =< y
  OBVIOUS
<1>2. Min({a, b}) \in {a, b} /\ \A y \in {a, b} : Min({a, b}) =< y
  BY <1>1 DEF Min
<1>3. QED
  BY <1>1, <1>2

LEMMA ProbingFinite ==
  /\ IsFiniteSet(Probing) /\ Cardinality(Probing) \in Nat
  /\ IsFiniteSet(DeadCandidates) /\ Cardinality(DeadCandidates) \in Nat
<1>1. Probing \in SUBSET Torrents /\ DeadCandidates \in SUBSET Torrents
  BY DEF Probing, DeadCandidates
<1>2. QED
  BY <1>1, SlotAssumption, FS_Subset, FS_CardinalityType

LEMMA RoomIsInt == Room \in Int
<1>1. PICK n : n = Max({0, Concurrency - Cardinality(Probing)})
  OBVIOUS
<1>2. Concurrency - Cardinality(Probing) \in Int
  BY ProbingFinite, SlotAssumption
<1>3. n \in Int
  BY <1>1, <1>2, Larger
<1>4. Min({Cardinality(DeadCandidates), n}) \in Int
  BY <1>3, ProbingFinite, Smaller
<1>5. QED
  BY <1>1, <1>4 DEF Room

\* As many probes as there is room for, or fewer, fit beside those still out.
LEMMA RoomSuffices ==
  ASSUME TypeInv, ProbesBounded, NEW probes \in SUBSET DeadCandidates,
         Cardinality(probes) <= Room, Probe(probes)
  PROVE  ProbesBounded'
<1> DEFINE out == Cardinality(Probing)
<1>1. out \in Nat /\ Concurrency \in Nat /\ out <= Concurrency /\ Cardinality(DeadCandidates) \in Nat
  BY ProbingFinite, SlotAssumption DEF ProbesBounded
<1>2. Max({0, Concurrency - out}) = Concurrency - out
  BY <1>1, Larger
<1>3. Room <= Concurrency - out
  BY <1>1, <1>2, Smaller DEF Room
<1>4. IsFiniteSet(probes) /\ Cardinality(probes) \in Nat
  BY ProbingFinite, FS_Subset, FS_CardinalityType
<1>5. Probing' = Probing \cup probes
  BY DEF Probe, Write, Probing, DeadCandidates, TypeInv, RowsTyped
<1>6. /\ Cardinality(Probing \cup probes)
           = out + Cardinality(probes) - Cardinality(Probing \cap probes)
      /\ Cardinality(Probing \cap probes) \in Nat
  <2>1. IsFiniteSet(Probing \cap probes)
    BY <1>4, FS_Subset
  <2>2. QED
    BY <1>4, <2>1, ProbingFinite, FS_Union, FS_CardinalityType
<1>7. Room \in Int
  BY RoomIsInt
<1>8. Cardinality(Probing \cup probes) <= Concurrency
  BY <1>1, <1>3, <1>4, <1>6, <1>7
<1>9. QED
  BY <1>5, <1>8 DEF ProbesBounded

LEMMA ProbesStep == ASSUME TypeInv, ProbesBounded, [Next]_vars PROVE ProbesBounded'
<1>1. CASE CarouselPick
  <2>1. PICK probes \in SUBSET DeadCandidates : Cardinality(probes) = Room /\ Probe(probes)
    BY <1>1 DEF CarouselPick
  <2>2. Cardinality(probes) \in Nat
    BY ProbingFinite, FS_Subset, FS_CardinalityType
  <2>3. QED
    BY <2>1, <2>2, RoomSuffices
<1>2. CASE CarouselPickCut
  <2>1. PICK probes \in SUBSET DeadCandidates : Cardinality(probes) < Room /\ Probe(probes)
    BY <1>2 DEF CarouselPickCut
  <2>2. Cardinality(probes) \in Nat /\ Room \in Int
    BY RoomIsInt, ProbingFinite, FS_Subset, FS_CardinalityType
  <2>3. Cardinality(probes) <= Room
    BY <2>1, <2>2
  <2>4. QED
    BY <2>1, <2>3, RoomSuffices
<1>3. ASSUME Probing' \subseteq Probing PROVE ProbesBounded'
  <2>1. PICK P : P = Probing'
    OBVIOUS
  <2>2. Cardinality(P) <= Cardinality(Probing) /\ Cardinality(P) \in Nat
    BY <1>3, <2>1, ProbingFinite, FS_Subset, FS_CardinalityType
  <2>3. Cardinality(P) <= Concurrency
    BY <2>2, ProbingFinite, SlotAssumption DEF ProbesBounded
  <2>4. QED
    BY <2>1, <2>3 DEF ProbesBounded
<1>4. CASE CarouselReconcile
  <2> DEFINE Over(seen) == {t \in Probing \ seen : car[t] = "elapsed"}
  <2>1. PICK seen \in SUBSET {t \in Probing : snap[t] # "gone"} :
          car' = Write(Write(car, seen, "soak"), Over(seen), "backoff")
    BY <1>4 DEF CarouselReconcile
  <2>2. Probing' \subseteq Probing
    BY <2>1 DEF Probing, Write, TypeInv, RowsTyped
  <2>3. QED
    BY <1>3, <2>2
<1>5. ASSUME NEW t \in Torrents, Elapse(t) PROVE ProbesBounded'
  <2>1. Probing' \subseteq Probing
    BY <1>5 DEF Elapse, Probing, TypeInv, RowsTyped
  <2>2. QED
    BY <1>3, <2>1
<1>6. CASE UNCHANGED car
  BY <1>3, <1>6 DEF Probing
<1>7. Calls \/ Others \/ UNCHANGED vars => UNCHANGED car
  BY Frames DEF tables, vars
<1>8. QED
  BY <1>1, <1>2, <1>4, <1>5, <1>6, <1>7, Steps
  DEF Rows, PreemptRows, Residents, PauseRows, ReleaseStale, SyncReservations, Reconcile, Plan,
      SyncActive, Lapse, BatchBegin, BatchEnd

\* However often ticks are cut between the rows of the probes and their calls,
\* the probes out never exceed the concurrency.
THEOREM ProbesWithinConcurrency == Spec => []ProbesBounded
<1>1. Init => ProbesBounded
  <2>1. ASSUME Init PROVE Probing = {}
    BY <2>1 DEF Init, Probing
  <2>2. QED
    BY <2>1, FS_EmptySet, SlotAssumption DEF ProbesBounded
<1>2. TypeInv /\ ProbesBounded /\ [Next]_vars => ProbesBounded'
  BY ProbesStep
<1>3. QED
  BY <1>1, <1>2, Typed, PTL DEF Spec

-----------------------------------------------------------------------------
(* Induction, sums and folds.                                              *)
(*                                                                         *)
(* The induction theorems of the library take a predicate, which no        *)
(* installed prover can instantiate.  A set of counterexamples is a set,   *)
(* and its least element serves as well.                                   *)

LEMMA Least == ASSUME NEW U, U \subseteq Nat, U # {} PROVE \E n \in U : \A m \in U : n <= m
<1>1. \A m, n \in Nat : m < n => <<m, n>> \in OpToRel(<, Nat)
  BY DEF OpToRel
<1>2. \E R : IsWellFoundedOn(R, Nat) /\ \A m, n \in Nat : m < n => <<m, n>> \in R
  BY <1>1, NatLessThanWellFounded, Zenon
<1>3. PICK R : IsWellFoundedOn(R, Nat) /\ \A m, n \in Nat : m < n => <<m, n>> \in R
  BY <1>2
<1>4. IsWellFoundedOn(R, Nat)
  BY <1>3
<1>5. PICK n \in U : \A m \in U : ~ (<<m, n>> \in R)
  BY <1>4, WFMin, Zenon
<1>6. ASSUME NEW m \in U PROVE n <= m
  <2>1. m \in Nat /\ n \in Nat
    OBVIOUS
  <2>2. ~ (m < n)
    BY <1>3, <1>5, <2>1, Zenon
  <2>3. QED
    BY <2>1, <2>2
<1>7. QED
  BY <1>6

\* Induction up to n, on the set of numbers for which the claim holds.
LEMMA UpTo ==
  ASSUME NEW n \in Nat, NEW Q, 0 \in Q, \A i \in 1..n : i - 1 \in Q => i \in Q
  PROVE  \A i \in 0..n : i \in Q
<1> DEFINE U == (0..n) \ Q
<1> SUFFICES ASSUME U # {} PROVE FALSE
  OBVIOUS
<1>1. PICK i \in U : \A j \in U : i <= j
  <2>1. U \subseteq Nat
    OBVIOUS
  <2> HIDE DEF U
  <2>2. QED
    BY <2>1, Least
<1>2. i \in 1..n /\ i - 1 \in 0..n /\ ~ (i <= i - 1)
  OBVIOUS
<1>3. i - 1 \in Q
  BY <1>1, <1>2
<1>4. QED
  BY <1>1, <1>2, <1>3

\* Induction over the subsets of a finite set, smaller ones first.
LEMMA SmallerFirst ==
  ASSUME NEW S, IsFiniteSet(S), NEW Q,
         \A A \in SUBSET S : (\A B \in SUBSET A : B # A => B \in Q) => A \in Q
  PROVE  \A A \in SUBSET S : A \in Q
<1> DEFINE U == (SUBSET S) \ Q
<1> SUFFICES ASSUME U # {} PROVE FALSE
  OBVIOUS
<1>1. IsWellFoundedOn(StrictSubsetOrdering(S), SUBSET S)
  <2>1. IsWellFoundedOn(StrictSubsetOrdering(S), FiniteSubsetsOf(S))
    BY FS_StrictSubsetOrderingWellFounded
  <2>2. FiniteSubsetsOf(S) = SUBSET S
    BY FS_FiniteSubsetsOfFinite
  <2>3. QED
    BY <2>1, <2>2
<1>2. PICK A \in U : \A B \in U : ~ (<<B, A>> \in StrictSubsetOrdering(S))
  <2>1. U \subseteq SUBSET S
    OBVIOUS
  <2> HIDE DEF U
  <2>2. QED
    BY <1>1, <2>1, WFMin
<1>3. ASSUME NEW B \in SUBSET A, B # A PROVE B \in Q
  <2>1. <<B, A>> \in StrictSubsetOrdering(S)
    BY <1>3 DEF StrictSubsetOrdering
  <2>2. QED
    BY <1>2, <2>1
<1>4. QED
  BY <1>3

\* A recursion that takes one element off a finite set at a time has a solution.
Chooses(ch, S) == \A s \in SUBSET S : s # {} => ch[s] \in s
Folds(g, S, base, ch, h) ==
  \A s \in SUBSET S : g[s] = IF s = {} THEN base ELSE h[<<ch[s], g[s \ {ch[s]}]>>]

LEMMA FoldExists ==
  ASSUME NEW S, IsFiniteSet(S), NEW V, NEW base \in V, NEW ch, Chooses(ch, S),
         NEW h \in [S \X V -> V]
  PROVE  \E g \in [SUBSET S -> V] : Folds(g, S, base, ch, h)
<1> DEFINE Solves(g, s) == g[s] = IF s = {} THEN base ELSE h[<<ch[s], g[s \ {ch[s]}]>>]
           Solved(n) == \E g \in [SUBSET S -> V] : 
                           \A s \in SUBSET S : Cardinality(s) <= n => Solves(g, s)
           Q == {n \in Nat : Solved(n)}
<1>0. \A s \in SUBSET S : IsFiniteSet(s) /\ Cardinality(s) \in Nat
  BY FS_Subset, FS_CardinalityType
<1>1. Solved(0)
  <2>1. [s \in SUBSET S |-> base] \in [SUBSET S -> V]
    OBVIOUS
  <2>2. \A s \in SUBSET S : Cardinality(s) <= 0 => s = {}
    BY <1>0, FS_EmptySet
  <2>3. QED
    BY <2>1, <2>2
<1>2. ASSUME NEW n \in Nat, Solved(n) PROVE Solved(n + 1)
  <2>1. PICK g \in [SUBSET S -> V] : \A s \in SUBSET S : Cardinality(s) <= n => Solves(g, s)
    BY <1>2
  <2> DEFINE k == [s \in SUBSET S |-> IF Cardinality(s) <= n THEN g[s] 
                                      ELSE IF s = {} THEN base ELSE h[<<ch[s], g[s \ {ch[s]}]>>]]
  <2>2. k \in [SUBSET S -> V]
    <3>1. ASSUME NEW s \in SUBSET S, s # {} PROVE h[<<ch[s], g[s \ {ch[s]}]>>] \in V
      <4>1. ch[s] \in S /\ s \ {ch[s]} \in SUBSET S
        BY <3>1 DEF Chooses
      <4>2. QED
        BY <4>1
    <3>2. QED
      BY <3>1
  <2>3. ASSUME NEW s \in SUBSET S, Cardinality(s) <= n + 1 PROVE Solves(k, s)
    <3>1. CASE s = {}
      BY <3>1, <2>1
    <3>2. CASE s # {}
      <4>1. ch[s] \in s /\ s \ {ch[s]} \in SUBSET S
        BY <3>2 DEF Chooses
      <4>2. Cardinality(s \ {ch[s]}) = Cardinality(s) - 1
        BY <1>0, <4>1, FS_RemoveElement
      <4>3. Cardinality(s \ {ch[s]}) <= n
        BY <1>0, <2>3, <4>2
      <4>4. k[s \ {ch[s]}] = g[s \ {ch[s]}]
        BY <4>1, <4>3
      <4>5. k[s] = h[<<ch[s], g[s \ {ch[s]}]>>]
        BY <3>2, <2>1
      <4>6. QED
        BY <3>2, <4>4, <4>5
    <3>3. QED
      BY <3>1, <3>2
  <2>4. QED
    BY <2>2, <2>3
<1> HIDE DEF Solved
<1>3. \A i \in 0..Cardinality(S) : i \in Q
  <2>1. 0 \in Q /\ \A i \in 1..Cardinality(S) : i - 1 \in Q => i \in Q
    BY <1>1, <1>2
  <2> HIDE DEF Q
  <2>2. QED
    BY <2>1, FS_CardinalityType, UpTo
<1>4. Solved(Cardinality(S))
  BY <1>3, FS_CardinalityType
<1>5. \A s \in SUBSET S : Cardinality(s) <= Cardinality(S)
  BY FS_Subset
<1>6. QED
  BY <1>4, <1>5 DEF Solved, Folds

-----------------------------------------------------------------------------
(* Sums. *)

Sums(f, S, it) ==
  it = [s \in SUBSET S |-> IF s = {} THEN 0
          ELSE f[CHOOSE x \in s : TRUE] + it[s \ {CHOOSE x \in s : TRUE}]]

LEMMA SumUnfolds ==
  ASSUME NEW f, NEW S, IsFiniteSet(S), \A x \in S : f[x] \in Nat
  PROVE  \E it : Sums(f, S, it) /\ SumFunctionOnSet(f, S) = it[S]
<1> DEFINE ch == [s \in SUBSET S |-> CHOOSE x \in s : TRUE]
           h == [p \in S \X Nat |-> f[p[1]] + p[2]]
<1>1. h \in [S \X Nat -> Nat]
  OBVIOUS
<1>2. Chooses(ch, S)
  BY DEF Chooses
<1>3. PICK g \in [SUBSET S -> Nat] : Folds(g, S, 0, ch, h)
  <2>1. 0 \in Nat
    OBVIOUS
  <2> HIDE DEF ch, h
  <2>2. QED
    BY <1>1, <1>2, <2>1, FoldExists
<1>4. Sums(f, S, g)
  <2>1. ASSUME NEW s \in SUBSET S, s # {}
        PROVE  g[s] = f[CHOOSE x \in s : TRUE] + g[s \ {CHOOSE x \in s : TRUE}]
    <3>1. ch[s] \in s /\ ch[s] \in S /\ s \ {ch[s]} \in SUBSET S
      BY <1>2, <2>1 DEF Chooses
    <3>2. g[s] = h[<<ch[s], g[s \ {ch[s]}]>>] /\ g[s \ {ch[s]}] \in Nat
      BY <1>3, <2>1, <3>1 DEF Folds
    <3>3. QED
      BY <3>1, <3>2
  <2>2. g[{}] = 0
    BY <1>3 DEF Folds
  <2>3. QED
    BY <2>1, <2>2 DEF Sums
<1> DEFINE it == CHOOSE it : Sums(f, S, it)
<1>5. Sums(f, S, it)
  BY <1>4
<1>6. SumFunctionOnSet(f, S) = it[S]
  BY DEF SumFunctionOnSet, FoldFunctionOnSet, MapThenFoldSet, Sums
<1>7. QED
  BY <1>5, <1>6

LEMMA SumsAgree ==
  ASSUME NEW f, NEW S, IsFiniteSet(S), \A x \in S : f[x] \in Nat,
         NEW it, Sums(f, S, it), NEW A \in SUBSET S
  PROVE  SumFunctionOnSet(f, A) = it[A]
<1>1. IsFiniteSet(A)
  BY FS_Subset
<1>2. PICK jt : Sums(f, A, jt) /\ SumFunctionOnSet(f, A) = jt[A]
  BY <1>1, SumUnfolds
<1> DEFINE Q == {B \in SUBSET A : it[B] = jt[B]}
<1>3. ASSUME NEW B \in SUBSET A, \A C \in SUBSET B : C # B => C \in Q PROVE B \in Q
  <2>1. CASE B = {}
    BY <1>2, <2>1 DEF Sums
  <2>2. CASE B # {}
    <3> DEFINE c == CHOOSE x \in B : TRUE
    <3>1. c \in B /\ B \ {c} \in SUBSET B /\ B \ {c} # B
      BY <2>2
    <3>2. it[B \ {c}] = jt[B \ {c}]
      BY <1>3, <3>1
    <3>3. it[B] = f[c] + it[B \ {c}] /\ jt[B] = f[c] + jt[B \ {c}]
      BY <1>2, <2>2 DEF Sums
    <3>4. QED
      BY <3>2, <3>3
  <2>3. QED
    BY <2>1, <2>2
<1> HIDE DEF Q
<1>4. A \in Q
  BY <1>1, <1>3, SmallerFirst
<1>5. QED
  BY <1>2, <1>4 DEF Q

\* A finite sum of naturals is a natural, and any of its terms may come first.
LEMMA SumTerms ==
  ASSUME NEW f, NEW S, IsFiniteSet(S), \A x \in S : f[x] \in Nat
  PROVE  /\ SumFunctionOnSet(f, S) \in Nat
         /\ SumFunctionOnSet(f, {}) = 0
         /\ \A x \in S : SumFunctionOnSet(f, S) = f[x] + SumFunctionOnSet(f, S \ {x})
<1>1. PICK it : Sums(f, S, it)
  BY SumUnfolds
<1>2. it[{}] = 0
  BY <1>1 DEF Sums
<1> DEFINE Q == {A \in SUBSET S : it[A] \in Nat /\ \A x \in A : it[A] = f[x] + it[A \ {x}]}
<1>3. ASSUME NEW A \in SUBSET S, \A B \in SUBSET A : B # A => B \in Q PROVE A \in Q
  <2>1. CASE A = {}
    BY <1>2, <2>1
  <2>2. CASE A # {}
    <3> DEFINE c == CHOOSE x \in A : TRUE
    <3>1. c \in A /\ A \ {c} \in Q
      BY <1>3, <2>2
    <3>2. it[A] = f[c] + it[A \ {c}]
      BY <1>1, <2>2 DEF Sums
    <3>3. it[A] \in Nat
      BY <3>1, <3>2
    <3>4. ASSUME NEW x \in A, x # c PROVE it[A] = f[x] + it[A \ {x}]
      <4> DEFINE B == A \ {c, x}
      <4>1. A \ {x} \in Q /\ c \in A \ {x} /\ x \in A \ {c} /\ it[B] \in Nat
        BY <1>3, <3>1, <3>4
      <4>2. (A \ {x}) \ {c} = B /\ (A \ {c}) \ {x} = B
        OBVIOUS
      <4>3. it[A \ {c}] = f[x] + it[B]
        BY <3>1, <4>1, <4>2
      <4>4. it[A \ {x}] = f[c] + it[B]
        BY <4>1, <4>2
      <4>5. f[c] \in Nat /\ f[x] \in Nat
        BY <3>1
      <4>6. QED
        BY <3>2, <4>1, <4>3, <4>4, <4>5
    <3>5. QED
      BY <3>2, <3>3, <3>4
  <2>3. QED
    BY <2>1, <2>2
<1> HIDE DEF Q
<1>4. \A A \in SUBSET S : A \in Q
  BY <1>3, SmallerFirst
<1>5. \A A \in SUBSET S : SumFunctionOnSet(f, A) = it[A]
  BY <1>1, SumsAgree
<1>6. \A A \in SUBSET S : it[A] \in Nat /\ \A x \in A : it[A] = f[x] + it[A \ {x}]
  BY <1>4 DEF Q
<1>7. SumFunctionOnSet(f, S) \in Nat /\ SumFunctionOnSet(f, {}) = 0
  BY <1>2, <1>5, <1>6
<1>8. ASSUME NEW x \in S PROVE SumFunctionOnSet(f, S) = f[x] + SumFunctionOnSet(f, S \ {x})
  <2>1. S \ {x} \in SUBSET S
    OBVIOUS
  <2>2. SumFunctionOnSet(f, S) = it[S] /\ SumFunctionOnSet(f, S \ {x}) = it[S \ {x}]
    BY <1>5, <2>1
  <2>3. QED
    BY <1>6, <2>2
<1>9. QED
  BY <1>7, <1>8

LEMMA SumIsNat ==
  ASSUME NEW f, NEW S, IsFiniteSet(S), \A x \in S : f[x] \in Nat
  PROVE  SumFunctionOnSet(f, S) \in Nat /\ SumFunctionOnSet(f, {}) = 0
  BY SumTerms

LEMMA SumOneMore ==
  ASSUME NEW f, NEW S, IsFiniteSet(S), NEW x, x \notin S, \A y \in S \union {x} : f[y] \in Nat
  PROVE  SumFunctionOnSet(f, S \union {x}) = f[x] + SumFunctionOnSet(f, S)
<1>1. IsFiniteSet(S \union {x}) /\ (S \union {x}) \ {x} = S
  BY FS_AddElement
<1>2. QED
  BY <1>1, SumTerms

LEMMA SumMonotone ==
  ASSUME NEW f, NEW g, NEW S, IsFiniteSet(S),
         \A x \in S : f[x] \in Nat /\ g[x] \in Nat /\ f[x] <= g[x]
  PROVE  SumFunctionOnSet(f, S) <= SumFunctionOnSet(g, S)
<1> DEFINE Q == {A \in SUBSET S : SumFunctionOnSet(f, A) <= SumFunctionOnSet(g, A)}
<1>1. ASSUME NEW A \in SUBSET S, \A B \in SUBSET A : B # A => B \in Q PROVE A \in Q
  <2>1. CASE A = {}
    <3>1. SumFunctionOnSet(f, A) = 0 /\ SumFunctionOnSet(g, A) = 0
      BY <2>1, SumIsNat
    <3>2. QED
      BY <3>1
  <2>2. ASSUME NEW x \in A PROVE A \in Q
    <3>1. IsFiniteSet(A) /\ IsFiniteSet(A \ {x})
      BY FS_Subset
    <3>2. SumFunctionOnSet(f, A \ {x}) <= SumFunctionOnSet(g, A \ {x})
      BY <1>1
    <3>3. SumFunctionOnSet(f, A) = f[x] + SumFunctionOnSet(f, A \ {x})
      BY <3>1, SumTerms
    <3>4. SumFunctionOnSet(g, A) = g[x] + SumFunctionOnSet(g, A \ {x})
      BY <3>1, SumTerms
    <3>5. SumFunctionOnSet(f, A \ {x}) \in Nat /\ SumFunctionOnSet(g, A \ {x}) \in Nat
      BY <3>1, SumIsNat
    <3>6. SumFunctionOnSet(f, A) <= SumFunctionOnSet(g, A)
      BY <3>2, <3>3, <3>4, <3>5
    <3>7. QED
      BY <3>6
  <2>3. QED
    BY <2>1, <2>2
<1> HIDE DEF Q
<1>2. S \in Q
  BY <1>1, SmallerFirst
<1>3. QED
  BY <1>2 DEF Q

LEMMA SumOfSums ==
  ASSUME NEW f, NEW g, NEW h, NEW S, IsFiniteSet(S),
         \A x \in S : f[x] \in Nat /\ g[x] \in Nat /\ h[x] = f[x] + g[x]
  PROVE  SumFunctionOnSet(h, S) = SumFunctionOnSet(f, S) + SumFunctionOnSet(g, S)
<1> DEFINE Q == {A \in SUBSET S : SumFunctionOnSet(h, A)
                                    = SumFunctionOnSet(f, A) + SumFunctionOnSet(g, A)}
<1>0. \A x \in S : f[x] \in Nat /\ g[x] \in Nat /\ h[x] \in Nat
  OBVIOUS
<1>1. ASSUME NEW A \in SUBSET S, \A B \in SUBSET A : B # A => B \in Q PROVE A \in Q
  <2>1. CASE A = {}
    <3>1. SumFunctionOnSet(f, {}) = 0 /\ SumFunctionOnSet(g, {}) = 0 /\ SumFunctionOnSet(h, {}) = 0
      BY <1>0, SumIsNat
    <3>2. QED
      BY <2>1, <3>1
  <2>2. ASSUME NEW x \in A PROVE A \in Q
    <3>1. IsFiniteSet(A) /\ IsFiniteSet(A \ {x})
      BY FS_Subset
    <3>2. SumFunctionOnSet(h, A \ {x})
            = SumFunctionOnSet(f, A \ {x}) + SumFunctionOnSet(g, A \ {x})
      BY <1>1
    <3>3. SumFunctionOnSet(f, A) = f[x] + SumFunctionOnSet(f, A \ {x})
      BY <1>0, <3>1, SumTerms
    <3>4. SumFunctionOnSet(g, A) = g[x] + SumFunctionOnSet(g, A \ {x})
      BY <1>0, <3>1, SumTerms
    <3>5. SumFunctionOnSet(h, A) = h[x] + SumFunctionOnSet(h, A \ {x})
      BY <1>0, <3>1, SumTerms
    <3>6. SumFunctionOnSet(f, A \ {x}) \in Nat /\ SumFunctionOnSet(g, A \ {x}) \in Nat
      BY <1>0, <3>1, SumIsNat
    <3>7. SumFunctionOnSet(h, A) = SumFunctionOnSet(f, A) + SumFunctionOnSet(g, A)
      BY <1>0, <3>2, <3>3, <3>4, <3>5, <3>6
    <3>8. QED
      BY <3>7
  <2>3. QED
    BY <2>1, <2>2
<1> HIDE DEF Q
<1>2. S \in Q
  BY <1>1, SmallerFirst
<1>3. QED
  BY <1>2 DEF Q

\* A sum over a part of S is the sum over S of what is 0 elsewhere.
LEMMA SumOverPart ==
  ASSUME NEW f, NEW g, NEW S, IsFiniteSet(S), NEW P \in SUBSET S,
         \A x \in S : f[x] \in Nat /\ g[x] = IF x \in P THEN f[x] ELSE 0
  PROVE  SumFunctionOnSet(g, S) = SumFunctionOnSet(f, P)
<1> DEFINE Q == {A \in SUBSET S : SumFunctionOnSet(g, A) = SumFunctionOnSet(f, A \cap P)}
<1>0. \A x \in S : f[x] \in Nat /\ g[x] \in Nat
  OBVIOUS
<1>1. ASSUME NEW A \in SUBSET S, \A B \in SUBSET A : B # A => B \in Q PROVE A \in Q
  <2>1. CASE A = {}
    <3>1. SumFunctionOnSet(f, {}) = 0 /\ SumFunctionOnSet(g, {}) = 0
      BY <1>0, SumIsNat
    <3>2. A \cap P = {}
      BY <2>1
    <3>3. QED
      BY <2>1, <3>1, <3>2
  <2>2. ASSUME NEW x \in A PROVE A \in Q
    <3>1. IsFiniteSet(A) /\ IsFiniteSet(A \ {x}) /\ IsFiniteSet(A \cap P)
      <4>1. A \cap P \in SUBSET S /\ A \ {x} \in SUBSET S
        OBVIOUS
      <4>2. QED
        BY <4>1, FS_Subset
    <3>2. SumFunctionOnSet(g, A \ {x}) = SumFunctionOnSet(f, (A \ {x}) \cap P)
      BY <1>1
    <3>3. SumFunctionOnSet(g, A) = g[x] + SumFunctionOnSet(g, A \ {x})
      BY <1>0, <3>1, SumTerms
    <3>4. SumFunctionOnSet(g, A \ {x}) \in Nat
      BY <1>0, <3>1, SumIsNat
    <3>5. CASE x \in P
      <4>1. x \in A \cap P /\ (A \cap P) \ {x} = (A \ {x}) \cap P
        BY <3>5
      <4>2. SumFunctionOnSet(f, A \cap P) = f[x] + SumFunctionOnSet(f, (A \ {x}) \cap P)
        BY <1>0, <3>1, <4>1, SumTerms
      <4>3. QED
        BY <3>2, <3>3, <3>5, <4>2
    <3>6. CASE x \notin P
      <4>1. A \cap P = (A \ {x}) \cap P
        BY <3>6
      <4>2. SumFunctionOnSet(g, A) = SumFunctionOnSet(g, A \ {x})
        <5>1. g[x] = 0
          BY <3>6
        <5>2. QED
          BY <3>3, <3>4, <5>1
      <4>3. QED
        BY <3>2, <4>1, <4>2
    <3>7. QED
      BY <3>5, <3>6
  <2>3. QED
    BY <2>1, <2>2
<1> HIDE DEF Q
<1>2. S \in Q
  BY <1>1, SmallerFirst
<1>3. S \cap P = P
  OBVIOUS
<1>4. QED
  BY <1>2, <1>3 DEF Q

-----------------------------------------------------------------------------
(* Folds over a sequence, as a series of steps. *)

LEMMA LastOf ==
  ASSUME NEW n \in Nat
  PROVE  /\ Chooses([s \in SUBSET (1..n) |-> Max(s)], 1..n)
         /\ \A i \in 1..n : Max(1..i) = i
<1>1. ASSUME NEW s \in SUBSET (1..n), s # {} PROVE Max(s) \in s
  <2> DEFINE U == {y \in 0..n : \E x \in s : y = n - x}
  <2>1. PICK y \in U : \A z \in U : y <= z
    <3>1. PICK x \in s : TRUE
      BY <1>1
    <3>2. x \in 1..n
      OBVIOUS
    <3>3. n - x \in U
      BY <3>2
    <3>4. U # {}
      BY <3>3
    <3>5. U \subseteq Nat
      OBVIOUS
    <3> HIDE DEF U
    <3>6. QED
      BY <3>4, <3>5, Least
  <2>2. PICK x \in s : y = n - x
    OBVIOUS
  <2>3. ASSUME NEW z \in s PROVE x >= z
    <3>1. n - z \in U /\ x \in 1..n /\ z \in 1..n
      OBVIOUS
    <3>2. n - x <= n - z
      BY <2>1, <2>2, <3>1
    <3>3. QED
      BY <3>1, <3>2
  <2>4. QED
    BY <2>3 DEF Max
<1>2. ASSUME NEW i \in 1..n PROVE Max(1..i) = i
  <2>1. i \in 1..i /\ \A y \in 1..i : i >= y
    OBVIOUS
  <2>2. Max(1..i) \in 1..i /\ \A y \in 1..i : Max(1..i) >= y
    BY <2>1 DEF Max
  <2>3. QED
    BY <2>1, <2>2
<1>3. QED
  BY <1>1, <1>2 DEF Chooses

\* The value after i elements is the step applied to the value before.
TakesLast(it, n, V, base, h) ==
  /\ it[{}] = base
  /\ \A s \in SUBSET (1..n) : s # {} /\ it[s \ {Max(s)}] \in V
                                => it[s] = h[<<Max(s), it[s \ {Max(s)}]>>]

Traces(it, n, V, base, h) ==
  /\ it[1..0] = base
  /\ \A i \in 0..n : it[1..i] \in V
  /\ \A i \in 1..n : it[1..i] = h[<<i, it[1..(i - 1)]>>]

LEMMA FoldTrace ==
  ASSUME NEW n \in Nat, NEW V, NEW base \in V, NEW h \in [(1..n) \X V -> V],
         NEW it, TakesLast(it, n, V, base, h)
  PROVE  Traces(it, n, V, base, h)
<1>1. 1..0 = {}
  OBVIOUS
<1>2. ASSUME NEW i \in 1..n
      PROVE  /\ 1..i \in SUBSET (1..n) /\ 1..i # {} /\ Max(1..i) = i
             /\ (1..i) \ {Max(1..i)} = 1..(i - 1)
  <2>1. \A j \in 1..i : j \in 1..n
    OBVIOUS
  <2>2. i \in 1..i
    OBVIOUS
  <2>3. Max(1..i) = i
    BY LastOf
  <2>4. (1..i) \ {i} = 1..(i - 1)
    OBVIOUS
  <2>5. QED
    BY <2>1, <2>2, <2>3, <2>4
<1> DEFINE Q == {i \in 0..n : it[1..i] \in V}
<1>3. ASSUME NEW i \in 1..n, it[1..(i - 1)] \in V
      PROVE  it[1..i] = h[<<i, it[1..(i - 1)]>>] /\ it[1..i] \in V
  <2>1. it[1..i] = h[<<i, it[1..(i - 1)]>>]
    BY <1>2, <1>3 DEF TakesLast
  <2>2. QED
    BY <1>3, <2>1
<1>4. 0 \in Q
  BY <1>1 DEF TakesLast
<1>5. ASSUME NEW i \in 1..n, i - 1 \in Q PROVE i \in Q
  <2>1. it[1..(i - 1)] \in V
    BY <1>5
  <2>2. it[1..i] \in V
    BY <1>3, <2>1
  <2>3. i \in 0..n
    OBVIOUS
  <2>4. QED
    BY <2>2, <2>3
<1> HIDE DEF Q
<1>6. \A i \in 0..n : i \in Q
  BY <1>4, <1>5, UpTo
<1>7. \A i \in 1..n : it[1..(i - 1)] \in V
  BY <1>6 DEF Q
<1>8. QED
  BY <1>1, <1>3, <1>6, <1>7 DEF Q, Traces, TakesLast

TrimAccs == [out : SUBSET Torrents, zero : SUBSET Torrents, victims : SUBSET Torrents,
             used : Nat, cap : Int]
TrimBase(cap) == [out |-> {}, zero |-> {}, victims |-> {}, used |-> 0, cap |-> cap]

LEMMA TrimTrace ==
  ASSUME NEW n \in Nat, NEW seq \in [1..n -> Torrents], NEW scored, NEW free, NEW ema,
         NEW cap \in Int,
         \A acc \in TrimAccs, t \in Torrents : TrimStep(acc, t, scored, free, ema) \in TrimAccs
  PROVE  \E a : /\ a[0] = TrimBase(cap) /\ a[n] = Trim(seq, scored, free, cap, ema)
                /\ \A i \in 0..n : a[i] \in TrimAccs
                /\ \A i \in 1..n : a[i] = TrimStep(a[i - 1], seq[i], scored, free, ema)
<1> DEFINE base == TrimBase(cap)
           Solves(g) == g = [s \in SUBSET DOMAIN seq |->
                              IF s = {} THEN base
                              ELSE TrimStep(g[s \ {Max(s)}], seq[Max(s)], scored, free, ema)]
           ch == [s \in SUBSET (1..n) |-> Max(s)]
           h == [p \in (1..n) \X TrimAccs |-> TrimStep(p[2], seq[p[1]], scored, free, ema)]
<1>0. DOMAIN seq = 1..n
  OBVIOUS
<1>1. base \in TrimAccs
  BY DEF TrimBase, TrimAccs
<1>2. h \in [(1..n) \X TrimAccs -> TrimAccs]
  OBVIOUS
<1>3. Chooses(ch, 1..n)
  BY LastOf
<1>4. PICK g \in [SUBSET (1..n) -> TrimAccs] : Folds(g, 1..n, base, ch, h)
  <2>1. IsFiniteSet(1..n)
    BY FS_Interval
  <2> HIDE DEF ch, h, base
  <2>2. QED
    BY <1>1, <1>2, <1>3, <2>1, FoldExists
<1>5. Solves(g)
  <2>1. ASSUME NEW s \in SUBSET (1..n), s # {}
        PROVE  g[s] = TrimStep(g[s \ {Max(s)}], seq[Max(s)], scored, free, ema)
    <3>1. Max(s) \in 1..n /\ s \ {Max(s)} \in SUBSET (1..n) /\ ch[s] = Max(s)
      BY <1>3, <2>1 DEF Chooses
    <3>2. g[s] = h[<<Max(s), g[s \ {Max(s)}]>>] /\ g[s \ {Max(s)}] \in TrimAccs
      BY <1>4, <2>1, <3>1 DEF Folds
    <3>3. QED
      BY <3>1, <3>2
  <2>2. g[{}] = base
    BY <1>4 DEF Folds
  <2> HIDE DEF base
  <2>3. QED
    BY <1>0, <2>1, <2>2
<1> DEFINE it == CHOOSE r : Solves(r)
<1>6. Solves(it)
  BY <1>5
<1>7. Trim(seq, scored, free, cap, ema) = it[DOMAIN seq]
  BY DEF Trim, FoldLeft, MapThenFoldSet, TrimBase
<1>8. it[{}] = base
  BY <1>6
<1>9. ASSUME NEW s \in SUBSET (1..n), s # {}
      PROVE  it[s] = TrimStep(it[s \ {Max(s)}], seq[Max(s)], scored, free, ema)
  BY <1>0, <1>6, <1>9
<1> HIDE DEF it, base
<1>10. ASSUME NEW s \in SUBSET (1..n), s # {}, it[s \ {Max(s)}] \in TrimAccs
       PROVE  it[s] = h[<<Max(s), it[s \ {Max(s)}]>>]
  <2>1. Max(s) \in 1..n
    BY <1>3, <1>10 DEF Chooses
  <2>2. QED
    BY <1>9, <1>10, <2>1
<1>b. TakesLast(it, n, TrimAccs, base, h)
  BY <1>8, <1>10 DEF TakesLast
<1> HIDE DEF h
<1>11. Traces(it, n, TrimAccs, base, h)
  BY <1>1, <1>2, <1>b, FoldTrace
<1> DEFINE a == [i \in 0..n |-> it[1..i]]
<1>12. a[0] = base /\ \A i \in 0..n : a[i] \in TrimAccs
  BY <1>11 DEF Traces
<1>13. a[n] = Trim(seq, scored, free, cap, ema)
  BY <1>0, <1>7
<1>14. ASSUME NEW i \in 1..n PROVE a[i] = TrimStep(a[i - 1], seq[i], scored, free, ema)
  <2>1. i - 1 \in 0..n /\ i \in 0..n /\ it[1..(i - 1)] \in TrimAccs
    BY <1>11 DEF Traces
  <2>2. a[i] = h[<<i, it[1..(i - 1)]>>] /\ a[i - 1] = it[1..(i - 1)]
    BY <1>11, <2>1 DEF Traces
  <2>3. QED
    BY <2>1, <2>2 DEF h
<1>15. QED
  BY <1>12, <1>13, <1>14 DEF base

-----------------------------------------------------------------------------
(* The soak queue's trim. *)

LEMMA SizesAreNat ==
  /\ Left \in [Torrents -> Nat] /\ Exposure \in [Torrents -> Nat]
  /\ \A t \in Torrents : Exposure[t] > 0 /\ Left[t] > 0
  BY SlotAssumption

LEMMA ExposureTyped == \A S \in SUBSET Torrents : ExposureOf(S) \in Nat /\ LeftOf(S) \in Nat
<1> SUFFICES ASSUME NEW S \in SUBSET Torrents PROVE ExposureOf(S) \in Nat /\ LeftOf(S) \in Nat
  OBVIOUS
<1>1. IsFiniteSet(S)
  BY SlotAssumption, FS_Subset
<1>2. \A x \in S : Exposure[x] \in Nat /\ Left[x] \in Nat
  BY SizesAreNat
<1>3. QED
  BY <1>1, <1>2, SumIsNat DEF ExposureOf, LeftOf

LEMMA ExposureOneMore ==
  ASSUME NEW S \in SUBSET Torrents, NEW t \in Torrents, t \notin S
  PROVE  ExposureOf(S \union {t}) = Exposure[t] + ExposureOf(S)
<1>1. IsFiniteSet(S)
  BY SlotAssumption, FS_Subset
<1>2. \A x \in S \union {t} : Exposure[x] \in Nat
  BY SizesAreNat
<1>3. QED
  BY <1>1, <1>2, SumOneMore DEF ExposureOf

\* The torrents the soak queue may preempt: running, or left bare by a delta.
Preemptible == {t \in Torrents : snap[t] \in {"run", "bare"}}

LEMMA VictimsAreScored ==
  ASSUME NEW n \in Nat, NEW scored \in [1..n -> Preemptible], NEW t, NEW taken, NEW needed
  PROVE  Victims(scored, t, taken, needed) \subseteq Preemptible
  BY DEF Victims

\* The steps of _trim_to_budget, by what they do.
Keeps(acc, t, next) == next = [acc EXCEPT !.out = @ \union {t}, !.used = @ + Exposure[t]]
                       /\ acc.used + Exposure[t] <= acc.cap
Preserves(acc, t, next) == /\ next = [acc EXCEPT !.out = @ \union {t}, !.zero = @ \union {t}]
                           /\ snap[t] = "run"
Preempts(acc, t, next) ==
  \E fallen \in SUBSET Preemptible :
    /\ fallen # {}
    /\ next = [acc EXCEPT !.out = @ \union {t}, !.used = @ + Exposure[t],
                          !.victims = @ \union fallen, !.cap = @ + LeftOf(fallen)]

LEMMA TrimSteps ==
  ASSUME NEW n \in Nat, NEW scored \in [1..n -> Preemptible], NEW acc \in TrimAccs,
         NEW t \in Torrents, NEW free, NEW ema, NEW next, next = TrimStep(acc, t, scored, free, ema)
  PROVE  next = acc \/ Keeps(acc, t, next) \/ Preserves(acc, t, next) \/ Preempts(acc, t, next)
<1> DEFINE over == acc.used + Exposure[t] - acc.cap
           fallen == Victims(scored, t, acc.victims, over)
           keep == [acc EXCEPT !.out = @ \union {t}, !.used = @ + Exposure[t]]
           preempt == [keep EXCEPT !.victims = @ \union fallen, !.cap = @ + LeftOf(fallen)]
<1>1. \/ /\ next = [acc EXCEPT !.out = @ \union {t}, !.zero = @ \union {t}]
         /\ snap[t] = "run"
      \/ next = keep /\ over <= 0
      \/ next = preempt /\ fallen # {}
      \/ next = acc
  BY DEF TrimStep
<1>2. acc.used \in Nat /\ acc.cap \in Int /\ Exposure[t] \in Nat
  BY SizesAreNat DEF TrimAccs
<1>3. over <= 0 => acc.used + Exposure[t] <= acc.cap
  BY <1>2
<1>4. preempt = [acc EXCEPT !.out = @ \union {t}, !.used = @ + Exposure[t],
                            !.victims = @ \union fallen, !.cap = @ + LeftOf(fallen)]
  BY DEF TrimAccs
<1>5. fallen \in SUBSET Preemptible
  BY VictimsAreScored
<1> HIDE DEF over, fallen, preempt
<1>6. CASE next = preempt /\ fallen # {}
  BY <1>4, <1>5, <1>6 DEF Preempts
<1>7. CASE next = keep /\ over <= 0
  BY <1>3, <1>7 DEF Keeps
<1>8. QED
  BY <1>1, <1>6, <1>7 DEF Preserves

-----------------------------------------------------------------------------
(* Lists without repetitions: what SetToSeqs enumerates. *)

Listing(seq, n, S) == /\ n \in Nat /\ seq \in [1..n -> S]
                      /\ \A i, j \in 1..n : i # j => seq[i] # seq[j]

LEMMA SetsAreListed ==
  ASSUME NEW S, IsFiniteSet(S), NEW seq \in SetToSeqs(S)
  PROVE  Listing(seq, Cardinality(S), S)
  BY FS_CardinalityType DEF SetToSeqs, Listing

LEMMA ListsAreSeqs ==
  ASSUME NEW S, NEW n, NEW s, Listing(s, n, S)
  PROVE  s \in Seq(S) /\ Len(s) = n
<1>1. n \in Nat /\ s \in [1..n -> S]
  BY DEF Listing
<1>2. QED
  BY <1>1

LEMMA Joined ==
  ASSUME NEW S, NEW T, S \cap T = {}, NEW n, NEW m, NEW s, NEW u,
         Listing(s, n, S), Listing(u, m, T)
  PROVE  Listing(s \o u, n + m, S \union T)
<1>0. n \in Nat /\ m \in Nat /\ s \in [1..n -> S] /\ u \in [1..m -> T]
  BY DEF Listing
<1>1. s \in Seq(S \union T) /\ u \in Seq(S \union T) /\ Len(s) = n /\ Len(u) = m
  <2>1. s \in [1..n -> S \union T] /\ u \in [1..m -> S \union T]
    BY <1>0
  <2>2. QED
    BY <1>0, <2>1
<1> DEFINE q == s \o u
<1>2. /\ q \in Seq(S \union T) /\ Len(q) = n + m
      /\ \A i \in 1..(n + m) : q[i] = IF i <= n THEN s[i] ELSE u[i - n]
  <2>1. /\ q \in Seq(S \union T) /\ Len(q) = Len(s) + Len(u)
        /\ \A i \in 1..(Len(s) + Len(u)) : q[i] = IF i <= Len(s) THEN s[i] ELSE u[i - Len(s)]
    BY <1>1, ConcatProperties
  <2> HIDE DEF q
  <2>2. QED
    BY <1>1, <2>1
<1> HIDE DEF q
<1>3. q \in [1..(n + m) -> S \union T]
  <2>1. q \in [1..Len(q) -> S \union T]
    BY <1>2, LenProperties
  <2>2. QED
    BY <1>2, <2>1
<1>4. ASSUME NEW i \in 1..(n + m), NEW j \in 1..(n + m), i # j PROVE q[i] # q[j]
  <2>1. CASE i <= n /\ j <= n
    <3>1. i \in 1..n /\ j \in 1..n
      BY <1>0, <2>1
    <3>2. QED
      BY <1>2, <1>4, <2>1, <3>1 DEF Listing
  <2>2. CASE i <= n /\ ~ (j <= n)
    <3>1. i \in 1..n /\ j - n \in 1..m
      BY <1>0, <2>2
    <3>2. q[i] \in S /\ q[j] \in T
      BY <1>0, <1>2, <2>2, <3>1
    <3>3. QED
      BY <3>2
  <2>3. CASE ~ (i <= n) /\ j <= n
    <3>1. j \in 1..n /\ i - n \in 1..m
      BY <1>0, <2>3
    <3>2. q[j] \in S /\ q[i] \in T
      BY <1>0, <1>2, <2>3, <3>1
    <3>3. QED
      BY <3>2
  <2>4. CASE ~ (i <= n) /\ ~ (j <= n)
    <3>1. i - n \in 1..m /\ j - n \in 1..m /\ i - n # j - n
      BY <1>0, <1>4, <2>4
    <3>2. q[i] = u[i - n] /\ q[j] = u[j - n]
      BY <1>2, <2>4
    <3>3. QED
      BY <3>1, <3>2 DEF Listing
  <2>5. QED
    BY <2>1, <2>2, <2>3, <2>4
<1>5. QED
  BY <1>0, <1>3, <1>4 DEF Listing, q

LEMMA Prefix ==
  ASSUME NEW S, NEW n, NEW s, Listing(s, n, S), NEW m \in 0..n
  PROVE  Listing(SubSeq(s, 1, m), m, S)
<1>0. n \in Nat /\ m \in Nat /\ m <= n /\ s \in [1..n -> S]
  BY DEF Listing
<1> DEFINE q == SubSeq(s, 1, m)
<1>1. \A i \in 1..m : i \in 1..n /\ s[i] \in S
  BY <1>0
<1>2. /\ q \in Seq(S) /\ Len(q) = (IF 1 <= m THEN m - 1 + 1 ELSE 0)
      /\ \A i \in 1..(m - 1 + 1) : q[i] = s[1 + i - 1]
  BY <1>0, <1>1, SubSeqProperties
<1>3. Len(q) = m
  BY <1>0, <1>2
<1> HIDE DEF q
<1>4. q \in [1..m -> S]
  <2>1. q \in [1..Len(q) -> S]
    BY <1>2, LenProperties
  <2>2. QED
    BY <1>3, <2>1
<1>5. ASSUME NEW i \in 1..m PROVE q[i] = s[i]
  <2>1. m - 1 + 1 = m /\ 1 + i - 1 = i
    BY <1>0
  <2>2. QED
    BY <1>2, <2>1
<1>6. QED
  BY <1>0, <1>1, <1>4, <1>5 DEF Listing, q

LEMMA StartSlotsNat == ASSUME NEW n \in Nat PROVE StartSlots(n) \in Nat
<1>1. IsFiniteSet(Running)
  BY SlotAssumption, FS_Subset DEF Running
<1>2. Cardinality(Running) \in Nat
  BY <1>1, FS_CardinalityType
<1> DEFINE a == ResidentSlots - n
           b == MaxActiveLike - Cardinality(Running)
<1>3. a \in Int /\ b \in Int
  BY <1>2, SlotAssumption
<1> HIDE DEF a, b
<1>4. Min({a, b}) \in Int
  BY <1>3, Smaller
<1>5. Max({0, Min({a, b})}) \in Nat
  BY <1>4, Larger
<1>6. QED
  BY <1>5 DEF StartSlots, a, b

LEMMA ChosenListed ==
  ASSUME NEW existing \in SetToSeqs(Existing), NEW waiting \in SetToSeqs(Waiting)
  PROVE  \E n \in Nat : Listing(Chosen(existing, waiting), n, Existing \union Waiting)
<1>1. Existing \in SUBSET Torrents /\ Waiting \in SUBSET Torrents /\ Existing \cap Waiting = {}
  BY DEF Existing, Waiting, Running, Resident
<1>2. IsFiniteSet(Existing) /\ IsFiniteSet(Waiting)
  BY <1>1, SlotAssumption, FS_Subset
<1>3. PICK n \in Nat : Listing(existing, n, Existing)
  BY <1>2, FS_CardinalityType, SetsAreListed
<1>4. PICK k \in Nat : Listing(waiting, k, Waiting)
  BY <1>2, FS_CardinalityType, SetsAreListed
<1>5. Len(existing) = n /\ Len(waiting) = k
  BY <1>3, <1>4, ListsAreSeqs
<1> DEFINE m == Min({StartSlots(n), k})
<1>6. m \in 0..k
  BY Smaller, StartSlotsNat
<1> HIDE DEF m
<1>7. Listing(SubSeq(waiting, 1, m), m, Waiting)
  BY <1>4, <1>6, Prefix
<1>8. Listing(existing \o SubSeq(waiting, 1, m), n + m, Existing \union Waiting)
  BY <1>1, <1>3, <1>7, Joined
<1>9. QED
  BY <1>5, <1>6, <1>8 DEF Chosen, m

LEMMA TrimStepTyped ==
  ASSUME NEW n \in Nat, NEW scored \in [1..n -> Preemptible], NEW acc \in TrimAccs,
         NEW t \in Torrents, NEW free, NEW ema
  PROVE  TrimStep(acc, t, scored, free, ema) \in TrimAccs
<1> DEFINE next == TrimStep(acc, t, scored, free, ema)
<1>1. next = acc \/ Keeps(acc, t, next) \/ Preserves(acc, t, next) \/ Preempts(acc, t, next)
  BY TrimSteps
<1> SUFFICES next \in TrimAccs
  OBVIOUS
<1> HIDE DEF next
<1>2. /\ acc.used + Exposure[t] \in Nat /\ acc.out \union {t} \in SUBSET Torrents
      /\ acc.zero \union {t} \in SUBSET Torrents
  <2>1. acc.used \in Nat /\ Exposure[t] \in Nat
    BY SizesAreNat DEF TrimAccs
  <2>2. QED
    BY <2>1 DEF TrimAccs
<1>3. CASE Preempts(acc, t, next)
  <2>1. PICK fallen \in SUBSET Preemptible :
          next = [acc EXCEPT !.out = @ \union {t}, !.used = @ + Exposure[t],
                             !.victims = @ \union fallen, !.cap = @ + LeftOf(fallen)]
    BY <1>3 DEF Preempts
  <2>2. acc.victims \union fallen \in SUBSET Torrents /\ acc.cap + LeftOf(fallen) \in Int
    <3>1. fallen \in SUBSET Torrents
      BY DEF Preemptible
    <3>2. LeftOf(fallen) \in Nat
      BY <3>1, ExposureTyped
    <3>3. QED
      BY <3>1, <3>2 DEF TrimAccs
  <2>3. QED
    BY <1>2, <2>1, <2>2 DEF TrimAccs
<1>4. CASE Keeps(acc, t, next)
  BY <1>2, <1>4 DEF Keeps, TrimAccs
<1>5. CASE Preserves(acc, t, next)
  BY <1>5 DEF Preserves, TrimAccs
<1>6. QED
  BY <1>1, <1>3, <1>4, <1>5

\* What holds after the first i torrents of the list: the used bytes are those
\* of the torrents kept for more than nothing, and as long as nothing is
\* preempted they are within the cap the trim began with.
TrimGood(acc, cap, seq, i) ==
  /\ acc \in TrimAccs
  /\ acc.zero \subseteq acc.out \cap Running
  /\ \A t \in acc.out : \E j \in 1..i : t = seq[j]
  /\ acc.used = ExposureOf(acc.out \ acc.zero)
  /\ acc.victims \subseteq Preemptible
  /\ acc.victims = {} => acc.cap = cap /\ acc.used <= cap

LEMMA TrimStepGood ==
  ASSUME NEW n \in Nat, NEW scored \in [1..n -> Preemptible], NEW acc, NEW t \in Torrents,
         NEW free, NEW ema, NEW cap \in Nat, NEW seq, NEW i \in Nat,
         TrimGood(acc, cap, seq, i), t = seq[i + 1], t \notin acc.out
  PROVE  TrimGood(TrimStep(acc, t, scored, free, ema), cap, seq, i + 1)
<1> DEFINE next == TrimStep(acc, t, scored, free, ema)
           Within(S) == \A x \in S : \E j \in 1..(i + 1) : x = seq[j]
<1>0. acc \in TrimAccs /\ next \in TrimAccs
  BY TrimStepTyped DEF TrimGood
<1>1. next = acc \/ Keeps(acc, t, next) \/ Preserves(acc, t, next) \/ Preempts(acc, t, next)
  BY <1>0, TrimSteps
<1> HIDE DEF next
<1>2. Within(acc.out) /\ Within(acc.out \union {t})
  <2>1. \A j \in 1..i : j \in 1..(i + 1)
    OBVIOUS
  <2>2. i + 1 \in 1..(i + 1)
    OBVIOUS
  <2>3. QED
    BY <2>1, <2>2 DEF TrimGood
<1> HIDE DEF Within
<1>3. Exposure[t] \in Nat /\ acc.used \in Nat /\ acc.cap \in Int
  BY <1>0, SizesAreNat DEF TrimAccs
<1>4. /\ acc.out \in SUBSET Torrents /\ acc.zero \in SUBSET Torrents
      /\ acc.victims \in SUBSET Torrents
      /\ acc.zero \subseteq acc.out \cap Running /\ acc.used = ExposureOf(acc.out \ acc.zero)
      /\ acc.victims \subseteq Preemptible /\ (acc.victims = {} => acc.cap = cap /\ acc.used <= cap)
  BY <1>0 DEF TrimGood, TrimAccs
<1>5. ExposureOf((acc.out \union {t}) \ acc.zero) = acc.used + Exposure[t]
  <2>1. (acc.out \union {t}) \ acc.zero = (acc.out \ acc.zero) \union {t}
    BY <1>4
  <2>2. t \notin acc.out \ acc.zero /\ acc.out \ acc.zero \in SUBSET Torrents
    BY <1>4
  <2>3. ExposureOf((acc.out \ acc.zero) \union {t}) = Exposure[t] + ExposureOf(acc.out \ acc.zero)
    BY <2>2, ExposureOneMore
  <2>4. ExposureOf((acc.out \union {t}) \ acc.zero) = Exposure[t] + ExposureOf(acc.out \ acc.zero)
    BY <2>1, <2>3, Zenon
  <2>5. Exposure[t] + ExposureOf(acc.out \ acc.zero) = acc.used + Exposure[t]
    BY <1>3, <1>4
  <2>6. QED
    BY <2>4, <2>5, Zenon
<1>6. CASE next = acc
  BY <1>2, <1>6 DEF TrimGood, Within, next
<1>7. CASE Keeps(acc, t, next)
  <2>1. /\ next.out = acc.out \union {t} /\ next.zero = acc.zero /\ next.victims = acc.victims
        /\ next.used = acc.used + Exposure[t] /\ next.cap = acc.cap
        /\ acc.used + Exposure[t] <= acc.cap
    BY <1>0, <1>7 DEF Keeps, TrimAccs
  <2>2. /\ next.zero \subseteq next.out \cap Running /\ Within(next.out)
        /\ next.used = ExposureOf(next.out \ next.zero)
    BY <1>2, <1>4, <1>5, <2>1
  <2>3. next.victims \subseteq Preemptible /\ (next.victims = {} => next.cap = cap /\ next.used <= cap)
    BY <1>3, <1>4, <2>1
  <2>4. QED
    BY <1>0, <2>2, <2>3 DEF TrimGood, Within, next
<1>8. CASE Preserves(acc, t, next)
  <2>1. /\ next.out = acc.out \union {t} /\ next.zero = acc.zero \union {t}
        /\ next.victims = acc.victims /\ next.used = acc.used /\ next.cap = acc.cap
        /\ t \in Running
    BY <1>0, <1>8 DEF Preserves, TrimAccs, Running
  <2>2. next.out \ next.zero = acc.out \ acc.zero
    BY <2>1
  <2>3. /\ next.zero \subseteq next.out \cap Running /\ Within(next.out)
        /\ next.used = ExposureOf(next.out \ next.zero)
    BY <1>2, <1>4, <2>1, <2>2
  <2>4. next.victims \subseteq Preemptible /\ (next.victims = {} => next.cap = cap /\ next.used <= cap)
    BY <1>4, <2>1
  <2>5. QED
    BY <1>0, <2>3, <2>4 DEF TrimGood, Within, next
<1>9. CASE Preempts(acc, t, next)
  <2>1. PICK fallen \in SUBSET Preemptible :
          /\ fallen # {}
          /\ next = [acc EXCEPT !.out = @ \union {t}, !.used = @ + Exposure[t],
                                !.victims = @ \union fallen, !.cap = @ + LeftOf(fallen)]
    BY <1>9 DEF Preempts
  <2>2. /\ next.out = acc.out \union {t} /\ next.zero = acc.zero
        /\ next.victims = acc.victims \union fallen /\ next.used = acc.used + Exposure[t]
    BY <1>0, <2>1 DEF TrimAccs
  <2>3. /\ next.zero \subseteq next.out \cap Running /\ Within(next.out)
        /\ next.used = ExposureOf(next.out \ next.zero)
    BY <1>2, <1>4, <1>5, <2>2
  <2>4. next.victims \subseteq Preemptible /\ next.victims # {}
    BY <1>4, <2>1, <2>2
  <2>5. QED
    BY <1>0, <2>3, <2>4 DEF TrimGood, Within, next
<1>10. QED
  BY <1>1, <1>6, <1>7, <1>8, <1>9

LEMMA TrimResult ==
  ASSUME NEW m \in Nat, NEW scored \in [1..m -> Preemptible], NEW S \in SUBSET Torrents,
         NEW n \in Nat, NEW seq, Listing(seq, n, S), NEW free, NEW ema, NEW cap \in Nat
  PROVE  TrimGood(Trim(seq, scored, free, cap, ema), cap, seq, n)
<1>1. seq \in [1..n -> S] /\ \A i, j \in 1..n : i # j => seq[i] # seq[j]
  BY DEF Listing
<1>2. seq \in [1..n -> Torrents]
  BY <1>1
<1>3. PICK a : /\ a[0] = TrimBase(cap) /\ a[n] = Trim(seq, scored, free, cap, ema)
               /\ \A i \in 0..n : a[i] \in TrimAccs
               /\ \A i \in 1..n : a[i] = TrimStep(a[i - 1], seq[i], scored, free, ema)
  <2>1. \A acc \in TrimAccs, t \in Torrents : TrimStep(acc, t, scored, free, ema) \in TrimAccs
    BY TrimStepTyped
  <2>2. cap \in Int
    OBVIOUS
  <2>3. QED
    BY <1>2, <2>1, <2>2, TrimTrace
<1> DEFINE Q == {i \in 0..n : TrimGood(a[i], cap, seq, i)}
<1>4. 0 \in Q
  <2>1. ExposureOf({}) = 0
    <3>1. IsFiniteSet({}) /\ \A x \in {} : Exposure[x] \in Nat
      BY FS_EmptySet
    <3>2. QED
      BY <3>1, SumIsNat DEF ExposureOf
  <2>2. TrimGood(TrimBase(cap), cap, seq, 0)
    BY <2>1 DEF TrimGood, TrimBase, TrimAccs
  <2>3. QED
    BY <1>3, <2>2
<1>5. ASSUME NEW i \in 1..n, i - 1 \in Q PROVE i \in Q
  <2> DEFINE acc == a[i - 1]
             t == seq[i]
  <2>1. TrimGood(acc, cap, seq, i - 1) /\ t \in Torrents /\ i - 1 \in Nat /\ i - 1 + 1 = i
    BY <1>2, <1>5
  <2>2. t \notin acc.out
    <3>1. \A j \in 1..(i - 1) : j \in 1..n /\ j # i
      OBVIOUS
    <3>2. \A j \in 1..(i - 1) : seq[j] # seq[i]
      BY <1>1, <3>1
    <3>3. QED
      BY <2>1, <3>2 DEF TrimGood
  <2> HIDE DEF acc
  <2>3. TrimGood(TrimStep(acc, t, scored, free, ema), cap, seq, i - 1 + 1)
    BY <2>1, <2>2, TrimStepGood
  <2>4. a[i] = TrimStep(acc, t, scored, free, ema)
    BY <1>3 DEF acc
  <2>5. QED
    BY <2>1, <2>3, <2>4
<1> HIDE DEF Q
<1>6. n \in Q
  <2>1. \A i \in 0..n : i \in Q
    BY <1>4, <1>5, UpTo
  <2>2. QED
    BY <2>1
<1>7. QED
  BY <1>3, <1>6 DEF Q

-----------------------------------------------------------------------------
(* The planner's selection. *)

LEMMA BytesAreNat ==
  ASSUME NEW t \in Torrents
  PROVE  /\ ActiveBytes(t) \in Nat /\ BatchBytes(t) \in Nat /\ ProbeBytes(t) \in Nat
         /\ NonSoakBytes(t) = (IF ActiveBytes(t) >= BatchBytes(t)
                                  THEN ActiveBytes(t) ELSE BatchBytes(t))
         /\ NonSoakBytes(t) \in Nat /\ Budgeted(t) \in Nat
<1>1. Left[t] \in Nat /\ Claim[t] \in Nat /\ Exposure[t] \in Nat
  BY SlotAssumption
<1>2. ActiveBytes(t) \in Nat /\ BatchBytes(t) \in Nat /\ ProbeBytes(t) \in Nat
  BY <1>1 DEF ActiveBytes, BatchBytes, ProbeBytes
<1> DEFINE a == ActiveBytes(t)
           b == BatchBytes(t)
<1>3. a \in Int /\ b \in Int
  BY <1>2
<1> HIDE DEF a, b
<1>4. Max({a, b}) = (IF a >= b THEN a ELSE b)
  BY <1>3, Larger
<1>5. NonSoakBytes(t) = (IF a >= b THEN a ELSE b)
  BY <1>4 DEF NonSoakBytes, a, b
<1>6. NonSoakBytes(t) \in Nat
  BY <1>2, <1>5 DEF a, b
<1> DEFINE rest == IF External > 0 THEN 0 ELSE ProbeBytes(t)
<1>7. rest \in Nat
  BY <1>2
<1> HIDE DEF rest
<1>8. NonSoakBytes(t) + rest \in Nat
  BY <1>6, <1>7
<1>9. QED
  BY <1>2, <1>5, <1>6, <1>8 DEF a, b, Budgeted, rest

LEMMA TotalsAreNat ==
  /\ NonSoak \in Nat /\ SoakBytes \in Nat
  /\ SumFunctionOnSet([t \in Torrents |-> Budgeted(t)], Torrents) \in Nat
<1>1. IsFiniteSet(Torrents)
  BY SlotAssumption
<1> DEFINE f == [t \in Torrents |-> NonSoakBytes(t)]
           g == [t \in Torrents |-> ProbeBytes(t)]
           h == [t \in Torrents |-> Budgeted(t)]
<1>2. \A t \in Torrents : f[t] \in Nat /\ g[t] \in Nat /\ h[t] \in Nat
  BY BytesAreNat
<1> HIDE DEF f, g, h
<1>3. SumFunctionOnSet(f, Torrents) \in Nat /\ SumFunctionOnSet(g, Torrents) \in Nat
      /\ SumFunctionOnSet(h, Torrents) \in Nat
  BY <1>1, <1>2, SumIsNat
<1>4. QED
  BY <1>3 DEF NonSoak, SoakBytes, f, g, h

\* What a torrent needs beyond what is reserved for it.
More(t) == Max({0, Left[t] - Budgeted(t)})
MoreOf == [t \in Torrents |-> More(t)]

LEMMA MoreIsNat ==
  ASSUME NEW t \in Torrents
  PROVE  More(t) \in Nat /\ Left[t] <= Budgeted(t) + More(t)
<1> DEFINE d == Left[t] - Budgeted(t)
<1>1. Left[t] \in Nat /\ Budgeted(t) \in Nat
  BY BytesAreNat, SizesAreNat
<1>2. d \in Int /\ 0 \in Int
  BY <1>1
<1> HIDE DEF d
<1>3. Max({0, d}) = (IF 0 >= d THEN 0 ELSE d)
  BY <1>2, Larger
<1>4. Max({0, d}) \in Nat /\ d <= Max({0, d})
  BY <1>2, <1>3
<1>5. More(t) = Max({0, d})
  BY DEF More, d
<1>6. More(t) \in Nat /\ d <= More(t)
  BY <1>4, <1>5
<1>7. QED
  BY <1>1, <1>6 DEF d

PickAccs == [pick : SUBSET Torrents, used : Nat]
PickBase == [pick |-> {}, used |-> 0]

\* The steps of the selection, by what they do.
Picks(acc, t, budget, next) == /\ next = [pick |-> acc.pick \union {t}, used |-> acc.used + More(t)]
                               /\ acc.used + More(t) <= budget

LEMMA PickSteps ==
  ASSUME NEW acc \in PickAccs, NEW t \in Torrents, NEW budget \in Nat,
         NEW next, next = PickStep(acc, t, budget)
  PROVE  next = acc \/ Picks(acc, t, budget, next)
<1>1. acc.used \in Nat /\ More(t) \in Nat
  BY MoreIsNat DEF PickAccs
<1>2. \/ next = acc
      \/ /\ ~ (acc.used + More(t) > budget)
         /\ next = [pick |-> acc.pick \union {t}, used |-> acc.used + More(t)]
  BY DEF PickStep, More
<1>3. ~ (acc.used + More(t) > budget) => acc.used + More(t) <= budget
  BY <1>1
<1>4. QED
  BY <1>2, <1>3 DEF Picks

LEMMA PickStepTyped ==
  ASSUME NEW acc \in PickAccs, NEW t \in Torrents, NEW budget \in Nat
  PROVE  PickStep(acc, t, budget) \in PickAccs
<1> DEFINE next == PickStep(acc, t, budget)
<1>1. next = acc \/ Picks(acc, t, budget, next)
  BY PickSteps
<1> SUFFICES next \in PickAccs
  OBVIOUS
<1> HIDE DEF next
<1>2. acc.pick \union {t} \in SUBSET Torrents /\ acc.used \in Nat /\ More(t) \in Nat
  BY MoreIsNat DEF PickAccs
<1>3. acc.used + More(t) \in Nat
  BY <1>2
<1>4. QED
  BY <1>1, <1>2, <1>3 DEF Picks, PickAccs

LEMMA PickTrace ==
  ASSUME NEW n \in Nat, NEW seq \in [1..n -> Torrents], NEW budget \in Nat
  PROVE  \E a : /\ a[0] = PickBase /\ a[n] = Pick(seq, budget)
                /\ \A i \in 0..n : a[i] \in PickAccs
                /\ \A i \in 1..n : a[i] = PickStep(a[i - 1], seq[i], budget)
<1> DEFINE Solves(g) == g = [s \in SUBSET DOMAIN seq |->
                              IF s = {} THEN PickBase
                              ELSE PickStep(g[s \ {Max(s)}], seq[Max(s)], budget)]
           ch == [s \in SUBSET (1..n) |-> Max(s)]
           h == [p \in (1..n) \X PickAccs |-> PickStep(p[2], seq[p[1]], budget)]
<1>0. DOMAIN seq = 1..n
  OBVIOUS
<1>1. PickBase \in PickAccs
  BY DEF PickBase, PickAccs
<1>2. h \in [(1..n) \X PickAccs -> PickAccs]
  BY PickStepTyped
<1>3. Chooses(ch, 1..n)
  BY LastOf
<1>4. PICK g \in [SUBSET (1..n) -> PickAccs] : Folds(g, 1..n, PickBase, ch, h)
  <2>1. IsFiniteSet(1..n)
    BY FS_Interval
  <2> HIDE DEF ch, h
  <2>2. QED
    BY <1>1, <1>2, <1>3, <2>1, FoldExists
<1>5. Solves(g)
  <2>1. ASSUME NEW s \in SUBSET (1..n), s # {}
        PROVE  g[s] = PickStep(g[s \ {Max(s)}], seq[Max(s)], budget)
    <3>1. Max(s) \in 1..n /\ s \ {Max(s)} \in SUBSET (1..n) /\ ch[s] = Max(s)
      BY <1>3, <2>1 DEF Chooses
    <3>2. g[s] = h[<<Max(s), g[s \ {Max(s)}]>>] /\ g[s \ {Max(s)}] \in PickAccs
      BY <1>4, <2>1, <3>1 DEF Folds
    <3>3. QED
      BY <3>1, <3>2
  <2>2. g[{}] = PickBase
    BY <1>4 DEF Folds
  <2>3. QED
    BY <1>0, <2>1, <2>2
<1> DEFINE it == CHOOSE r : Solves(r)
<1>6. Solves(it)
  BY <1>5
<1>7. Pick(seq, budget) = it[DOMAIN seq]
  BY DEF Pick, FoldLeft, MapThenFoldSet, PickBase
<1>8. it[{}] = PickBase
  BY <1>6
<1>9. ASSUME NEW s \in SUBSET (1..n), s # {}
      PROVE  it[s] = PickStep(it[s \ {Max(s)}], seq[Max(s)], budget)
  BY <1>0, <1>6, <1>9
<1> HIDE DEF it
<1>10. ASSUME NEW s \in SUBSET (1..n), s # {}, it[s \ {Max(s)}] \in PickAccs
       PROVE  it[s] = h[<<Max(s), it[s \ {Max(s)}]>>]
  <2>1. Max(s) \in 1..n
    BY <1>3, <1>10 DEF Chooses
  <2>2. QED
    BY <1>9, <1>10, <2>1
<1>11. TakesLast(it, n, PickAccs, PickBase, h)
  BY <1>8, <1>10 DEF TakesLast
<1> HIDE DEF h
<1>12. Traces(it, n, PickAccs, PickBase, h)
  BY <1>1, <1>2, <1>11, FoldTrace
<1> DEFINE a == [i \in 0..n |-> it[1..i]]
<1>13. a[0] = PickBase /\ \A i \in 0..n : a[i] \in PickAccs
  BY <1>12 DEF Traces
<1>14. a[n] = Pick(seq, budget)
  BY <1>0, <1>7
<1>15. ASSUME NEW i \in 1..n PROVE a[i] = PickStep(a[i - 1], seq[i], budget)
  <2>1. i - 1 \in 0..n /\ i \in 0..n /\ it[1..(i - 1)] \in PickAccs
    BY <1>12 DEF Traces
  <2>2. a[i] = h[<<i, it[1..(i - 1)]>>] /\ a[i - 1] = it[1..(i - 1)]
    BY <1>12, <2>1 DEF Traces
  <2>3. QED
    BY <2>1, <2>2 DEF h
<1>16. QED
  BY <1>13, <1>14, <1>15

\* What holds after the first i candidates of the list.
PickGood(acc, budget, seq, i) ==
  /\ acc \in PickAccs
  /\ \A t \in acc.pick : \E j \in 1..i : t = seq[j]
  /\ acc.used = SumFunctionOnSet(MoreOf, acc.pick)
  /\ acc.used <= budget

LEMMA PickStepGood ==
  ASSUME NEW acc, NEW t \in Torrents, NEW budget \in Nat, NEW seq, NEW i \in Nat,
         PickGood(acc, budget, seq, i), t = seq[i + 1], t \notin acc.pick
  PROVE  PickGood(PickStep(acc, t, budget), budget, seq, i + 1)
<1> DEFINE next == PickStep(acc, t, budget)
           Within(S) == \A x \in S : \E j \in 1..(i + 1) : x = seq[j]
<1>0. acc \in PickAccs /\ next \in PickAccs
  BY PickStepTyped DEF PickGood
<1>1. next = acc \/ Picks(acc, t, budget, next)
  BY <1>0, PickSteps
<1> SUFFICES PickGood(next, budget, seq, i + 1)
  OBVIOUS
<1> HIDE DEF next
<1>2. Within(acc.pick) /\ Within(acc.pick \union {t})
  <2>1. \A j \in 1..i : j \in 1..(i + 1)
    OBVIOUS
  <2>2. i + 1 \in 1..(i + 1)
    OBVIOUS
  <2>3. QED
    BY <2>1, <2>2 DEF PickGood
<1> HIDE DEF Within
<1>3. CASE next = acc
  BY <1>2, <1>3 DEF PickGood, Within
<1>4. CASE Picks(acc, t, budget, next)
  <2>1. /\ next.pick = acc.pick \union {t} /\ next.used = acc.used + More(t)
        /\ acc.used + More(t) <= budget
    BY <1>4 DEF Picks
  <2>2. SumFunctionOnSet(MoreOf, acc.pick \union {t}) = MoreOf[t] + SumFunctionOnSet(MoreOf, acc.pick)
    <3>1. IsFiniteSet(acc.pick) /\ \A y \in acc.pick \union {t} : y \in Torrents
      BY <1>0, SlotAssumption, FS_Subset DEF PickAccs
    <3>2. \A y \in Torrents : MoreOf[y] \in Nat
      BY MoreIsNat DEF MoreOf
    <3>3. QED
      BY <3>1, <3>2, SumOneMore
  <2>3. MoreOf[t] = More(t) /\ More(t) \in Nat /\ acc.used \in Nat
    BY <1>0, MoreIsNat DEF MoreOf, PickAccs
  <2>4. acc.used = SumFunctionOnSet(MoreOf, acc.pick)
    BY DEF PickGood
  <2>5. MoreOf[t] + SumFunctionOnSet(MoreOf, acc.pick) = acc.used + More(t)
    BY <2>3, <2>4
  <2>6. SumFunctionOnSet(MoreOf, next.pick) = next.used
    BY <2>1, <2>2, <2>5, Zenon
  <2>7. QED
    BY <1>0, <1>2, <2>1, <2>6 DEF PickGood, Within
<1>5. QED
  BY <1>1, <1>3, <1>4

LEMMA PickResult ==
  ASSUME NEW S \in SUBSET Torrents, NEW n \in Nat, NEW seq, Listing(seq, n, S), NEW budget \in Nat
  PROVE  PickGood(Pick(seq, budget), budget, seq, n)
<1>1. seq \in [1..n -> S] /\ \A i, j \in 1..n : i # j => seq[i] # seq[j]
  BY DEF Listing
<1>2. seq \in [1..n -> Torrents]
  BY <1>1
<1>3. PICK a : /\ a[0] = PickBase /\ a[n] = Pick(seq, budget)
               /\ \A i \in 0..n : a[i] \in PickAccs
               /\ \A i \in 1..n : a[i] = PickStep(a[i - 1], seq[i], budget)
  BY <1>2, PickTrace
<1> DEFINE Q == {i \in 0..n : PickGood(a[i], budget, seq, i)}
<1>4. 0 \in Q
  <2>1. SumFunctionOnSet(MoreOf, {}) = 0
    <3>1. IsFiniteSet({}) /\ \A x \in {} : MoreOf[x] \in Nat
      BY FS_EmptySet
    <3>2. QED
      BY <3>1, SumIsNat
  <2>2. PickGood(PickBase, budget, seq, 0)
    BY <2>1 DEF PickGood, PickBase, PickAccs
  <2>3. QED
    BY <1>3, <2>2
<1>5. ASSUME NEW i \in 1..n, i - 1 \in Q PROVE i \in Q
  <2> DEFINE acc == a[i - 1]
             t == seq[i]
  <2>1. PickGood(acc, budget, seq, i - 1) /\ t \in Torrents /\ i - 1 \in Nat /\ i - 1 + 1 = i
    BY <1>2, <1>5
  <2>2. t \notin acc.pick
    <3>1. \A j \in 1..(i - 1) : j \in 1..n /\ j # i
      OBVIOUS
    <3>2. \A j \in 1..(i - 1) : seq[j] # seq[i]
      BY <1>1, <3>1
    <3>3. QED
      BY <2>1, <3>2 DEF PickGood
  <2> HIDE DEF acc
  <2>3. PickGood(PickStep(acc, t, budget), budget, seq, i - 1 + 1)
    BY <2>1, <2>2, PickStepGood
  <2>4. a[i] = PickStep(acc, t, budget)
    BY <1>3 DEF acc
  <2>5. QED
    BY <2>1, <2>3, <2>4
<1> HIDE DEF Q
<1>6. n \in Q
  <2>1. \A i \in 0..n : i \in Q
    BY <1>4, <1>5, UpTo
  <2>2. QED
    BY <2>1
<1>7. QED
  BY <1>3, <1>6 DEF Q

LEMMA CapBounds ==
  ASSUME NEW free \in Nat
  PROVE  Cap(free) \in Nat /\ (Cap(free) > 0 => Cap(free) <= free - DiskFloor - NonSoak)
<1> DEFINE room == free - DiskFloor - NonSoak
           most == Max({0, room})
<1>1. room \in Int /\ MaxExposure \in Nat
  BY TotalsAreNat, SlotAssumption
<1> HIDE DEF room
<1>2. most = (IF 0 >= room THEN 0 ELSE room)
  BY <1>1, Larger
<1> HIDE DEF most
<1>3. most \in Nat /\ (most > 0 => most <= room)
  BY <1>1, <1>2
<1>4. Min({MaxExposure, most}) = (IF MaxExposure <= most THEN MaxExposure ELSE most)
  BY <1>1, <1>3, Smaller
<1>5. Cap(free) = (IF MaxExposure <= most THEN MaxExposure ELSE most)
  BY <1>4 DEF Cap, most, room
<1>6. QED
  BY <1>1, <1>3, <1>5 DEF room

\* What the soak queue selects when nothing is preempted fits its cap.
Selects(out, cap) ==
  /\ out.out \subseteq Existing \union Waiting
  /\ out.zero \subseteq out.out \cap Running /\ out.victims \subseteq Preemptible
  /\ out.victims = {} => ExposureOf(out.out \ out.zero) <= cap

LEMMA ScoredIsList ==
  ASSUME NEW spare \in Spares, NEW scored \in SetToSeqs(spare)
  PROVE  \E m \in Nat : scored \in [1..m -> Preemptible]
<1>1. spare \in SUBSET Preemptible
  <2>1. \/ spare = {}
        \/ spare \in SUBSET {t \in Torrents : alloc[t] = "active" /\ snap[t] \in {"run", "bare"}}
    BY DEF Spares
  <2>2. QED
    BY <2>1 DEF Preemptible
<1>2. spare \in SUBSET Torrents /\ IsFiniteSet(spare)
  <2>1. spare \in SUBSET Torrents
    BY <1>1 DEF Preemptible
  <2>2. QED
    BY <2>1, SlotAssumption, FS_Subset
<1>3. Listing(scored, Cardinality(spare), spare)
  BY <1>2, SetsAreListed
<1>4. Cardinality(spare) \in Nat /\ scored \in [1..Cardinality(spare) -> spare]
  BY <1>3 DEF Listing
<1>5. scored \in [1..Cardinality(spare) -> Preemptible]
  BY <1>1, <1>4
<1>6. QED
  BY <1>4, <1>5

LEMMA TrimSelects ==
  ASSUME NEW free \in Nat, NEW existing \in SetToSeqs(Existing), NEW waiting \in SetToSeqs(Waiting),
         NEW spare \in Spares, NEW scored \in SetToSeqs(spare), NEW ema
  PROVE  Selects(Trim(Chosen(existing, waiting), scored, free, Cap(free), ema), Cap(free))
<1> DEFINE S == Existing \union Waiting
           seq == Chosen(existing, waiting)
           cap == Cap(free)
           out == Trim(seq, scored, free, cap, ema)
<1>1. S \in SUBSET Torrents
  BY DEF Existing, Waiting, Running
<1>2. PICK n \in Nat : Listing(seq, n, S)
  BY ChosenListed
<1>3. PICK m \in Nat : scored \in [1..m -> Preemptible]
  BY ScoredIsList
<1>4. cap \in Nat
  BY CapBounds
<1> HIDE DEF S, seq, cap
<1>5. TrimGood(out, cap, seq, n)
  BY <1>1, <1>2, <1>3, <1>4, TrimResult
<1> HIDE DEF out
<1>6. out.out \subseteq S
  BY <1>2, <1>5 DEF TrimGood, Listing
<1>7. Selects(out, cap)
  BY <1>5, <1>6 DEF TrimGood, Selects, S
<1>8. QED
  BY <1>7 DEF out, seq, cap

LEMMA SoakSelects ==
  SoakBegin => \E free \in Nat : \E out, hot, since :
                 tick' = Decided(free, out, hot, since) /\ Selects(out, Cap(free))
<1> SUFFICES ASSUME SoakBegin
             PROVE  \E free \in Nat : \E out, hot, since :
                      tick' = Decided(free, out, hot, since) /\ Selects(out, Cap(free))
  OBVIOUS
<1> DEFINE HotNow(out, ema) == {t \in out.out : ema[t] = "hot"}
           Confirmed(out, ema) == {t \in HotNow(out, ema) : hotSince[t] = "confirmed"}
           Warm(out, ema) == {t \in out.out : ema[t] = "mid" /\ hotSince[t] # "none"}
<1>1. PICK free \in FreeLevels, existing \in SetToSeqs(Existing), waiting \in SetToSeqs(Waiting),
           scored \in UNION {SetToSeqs(spare) : spare \in Spares}, ema \in Emas :
        \E out \in {Trim(Chosen(existing, waiting), scored, free, Cap(free), ema)} :
          tick' = Decided(free, out, Confirmed(out, ema), HotNow(out, ema) \union Warm(out, ema))
  BY DEF SoakBegin, Decided
<1>2. PICK spare \in Spares : scored \in SetToSeqs(spare)
  OBVIOUS
<1>3. free \in Nat
  BY SlotAssumption
<1> DEFINE out == Trim(Chosen(existing, waiting), scored, free, Cap(free), ema)
<1>4. tick' = Decided(free, out, Confirmed(out, ema), HotNow(out, ema) \union Warm(out, ema))
  BY <1>1
<1>5. Selects(out, Cap(free))
  BY <1>2, <1>3, TrimSelects
<1> HIDE DEF out
<1>6. QED
  BY <1>3, <1>4, <1>5

SoakPart == {"preempt", "preempted", "residents", "pause", "paused", "release", "reserve", "start"}
PlanPart == {"reconcile", "plan"}
PickPart == {"active", "launch"}
Reserved == {"start"} \union PlanPart \union PickPart
RestPart == {"idle", "carStop", "carPick", "carStart", "park", "done"}

\* What the soak queue has decided stays as it is until the planner starts torrents.
Recalls == /\ tick'.free = tick.free /\ tick'.sel = tick.sel /\ tick'.zero = tick.zero
           /\ tick'.start = tick.start /\ tick'.victims = tick.victims /\ tick'.cool = tick.cool
           /\ tick'.stale \in {tick.stale, {}}
Onward == /\ tick'.pc \in SoakPart => tick.pc \in SoakPart
          /\ tick'.pc \in PlanPart => tick.pc \in SoakPart \union PlanPart
          /\ tick'.pc \in PickPart => \/ Plan
                                      \/ tick.pc \in PickPart /\ tick'.pick = tick.pick
                                           /\ tick'.grew = tick.grew
          /\ tick'.pc = "reserve" => ReleaseStale \/ tick.pc = "reserve"
          /\ tick'.pc \in Reserved => SyncReservations \/ tick.pc \in Reserved
          /\ tick'.pc = "active" => Plan \/ tick.pc = "active"
          /\ tick'.pc = "launch" => SyncActive \/ tick.pc = "launch"
Resting == /\ tick'.pc \in RestPart /\ tick'.free \in {tick.free, 0}
           /\ tick'.sel \in {tick.sel, {}} /\ tick'.zero \in {tick.zero, {}}

LEMMA Memory ==
  ASSUME TypeInv, [Next]_vars
  PROVE  SoakBegin \/ Resting \/ (Recalls /\ Onward)
<1>0. TickShape
  BY DEF TypeInv
<1> DEFINE Whole == Recalls /\ Onward
<1>1. CASE tick' = Idle
  BY <1>1 DEF Idle, Resting, RestPart
<1>2. CASE tick' = tick
  <2>1. CASE tick.pc \in RestPart
    BY <1>2, <2>1 DEF Resting
  <2>2. CASE tick.pc \notin RestPart
    BY <1>2, <2>2 DEF Recalls, Onward
  <2>3. QED
    BY <2>1, <2>2
<1>3. CASE Preempt \/ PreemptRows \/ Pause \/ ReleaseStale \/ SyncReservations
  <2>1. PICK next \in SoakPart :
          /\ Go(next) /\ tick.pc \in SoakPart
          /\ next = "reserve" => ReleaseStale
          /\ next = "start" => SyncReservations
    BY <1>3 DEF Preempt, PreemptRows, Pause, ReleaseStale, SyncReservations, At, Go, SoakPart
  <2>2. tick'.pc = next /\ Recalls
    BY <1>0, <2>1 DEF Go, TickShape, Idle, Recalls
  <2>3. QED
    BY <2>1, <2>2 DEF Onward, SoakPart, PlanPart, PickPart, Reserved
<1>4. CASE SoakStart
  <2>1. tick'.pc = "reconcile" /\ tick.pc = "start" /\ Recalls
    BY <1>0, <1>4 DEF SoakStart, At, SoakPart, Go, TickShape, Idle, Recalls
  <2>2. QED
    BY <2>1 DEF Onward, SoakPart, PlanPart, PickPart, Reserved
<1>5. CASE Residents
  <2>1. tick'.pc = "pause" /\ tick.pc \in SoakPart /\ Recalls
    BY <1>0, <1>5 DEF Residents, At, SoakPart, TickShape, Idle, Recalls
  <2>2. QED
    BY <2>1 DEF Onward, SoakPart, PlanPart, PickPart, Reserved
<1>6. CASE PauseRows
  <2>1. tick'.pc = "release" /\ tick.pc \in SoakPart /\ Recalls
    BY <1>0, <1>6 DEF PauseRows, At, SoakPart, TickShape, Idle, Recalls
  <2>2. QED
    BY <2>1 DEF Onward, SoakPart, PlanPart, PickPart, Reserved
<1>7. CASE Reconcile
  <2>1. tick'.pc = "plan" /\ tick.pc \in PlanPart /\ Recalls
    BY <1>0, <1>7 DEF Reconcile, At, PlanPart, TickShape, Idle, Recalls
  <2>2. QED
    BY <2>1 DEF Onward, SoakPart, PlanPart, PickPart, Reserved
<1>8. CASE Plan
  <2>1. tick'.pc = "active" /\ tick.pc = "plan" /\ Recalls
    BY <1>0, <1>8 DEF Plan, At, PlanRows, TickShape, Idle, Recalls
  <2>2. QED
    BY <1>8, <2>1 DEF Onward, SoakPart, PlanPart, PickPart, Reserved
<1>9. CASE SyncActive
  <2>1. /\ tick'.pc = "launch" /\ tick.pc = "active" /\ Recalls
        /\ tick'.pick = tick.pick /\ tick'.grew = tick.grew
    BY <1>0, <1>9 DEF SyncActive, At, Go, PickPart, TickShape, Idle, Recalls
  <2>2. QED
    BY <1>9, <2>1 DEF Onward, SoakPart, PlanPart, PickPart, Reserved
<1>10. CASE PlanStart \/ PlanStop
  BY <1>0, <1>10 DEF PlanStart, PlanStop, Go, TickShape, Idle, Resting, RestPart
<1>11. CASE CarouselReconcile
  <2>1. PICK over : tick' = [Idle EXCEPT !.pc = "carStop", !.stale = over]
    BY <1>11 DEF CarouselReconcile
  <2>2. QED
    BY <2>1 DEF Idle, Resting, RestPart
<1>12. CASE CarouselStop
  BY <1>0, <1>12 DEF CarouselStop, Go, TickShape, Idle, Resting, RestPart
<1>13. CASE CarouselPick
  <2>1. PICK probes : tick' = [tick EXCEPT !.pc = "carStart", !.start = probes]
    BY <1>13 DEF CarouselPick
  <2>2. QED
    BY <1>0, <2>1 DEF TickShape, Idle, Resting, RestPart
<1>14. Finish \/ Cut \/ CarouselPickCut \/ CarouselStart => tick' = Idle
  BY DEF Finish, Cut, CarouselPickCut, CarouselStart
<1>15. Sync \/ Lapse \/ UNCHANGED vars
         \/ (\E t \in Torrents : Change(t) \/ BatchBegin(t) \/ BatchEnd(t) \/ Elapse(t))
         => tick' = tick
  BY DEF Sync, Lapse, Change, BatchBegin, BatchEnd, Elapse, vars
<1>16. QED
  BY <1>1, <1>2, <1>3, <1>4, <1>5, <1>6, <1>7, <1>8, <1>9, <1>10, <1>11, <1>12, <1>13, <1>14,
     <1>15, Steps
  DEF Calls, Rows, Others

\* The sizes and sets of the tick are ones.
Remembers == tick.free \in Nat /\ tick.sel \in SUBSET Torrents /\ tick.zero \in SUBSET Torrents

LEMMA RemembersStep == ASSUME TypeInv, Remembers, [Next]_vars PROVE Remembers'
<1>1. CASE SoakBegin
  <2>1. PICK free \in Nat : \E out, hot, since :
          tick' = Decided(free, out, hot, since) /\ Selects(out, Cap(free))
    BY <1>1, SoakSelects
  <2>2. PICK out, hot, since : tick' = Decided(free, out, hot, since) /\ Selects(out, Cap(free))
    BY <2>1
  <2>3. tick'.free = free /\ tick'.sel = out.out /\ tick'.zero = out.zero
    BY <2>2 DEF Decided, Idle
  <2>4. QED
    BY <2>2, <2>3 DEF Selects, Remembers, Existing, Waiting, Running
<1>2. CASE Resting \/ Recalls
  BY <1>2 DEF Resting, Recalls, Remembers
<1>3. QED
  BY <1>1, <1>2, Memory

-----------------------------------------------------------------------------
(* A cooldown is honoured. *)

LEMMA SnapStays == ASSUME [Next]_vars, tick'.pc # "idle" PROVE snap' = snap
<1>1. ~ Sync
  <2>1. ASSUME Sync PROVE tick'.pc = "idle"
    BY <2>1 DEF Sync, At
  <2>2. QED
    BY <2>1
<1>2. QED
  BY <1>1, Steps, Frames DEF Others, SoakBegin, Finish, Cut, vars

\* What puts a torrent into its cooldown.
LEMMA Coolers ==
  ASSUME TypeInv, [Next]_vars, NEW t \in Torrents, soak'[t] = "cooling"
  PROVE  \/ soak[t] = "cooling"
         \/ PreemptRows /\ t \in tick.victims
         \/ PauseRows /\ t \in tick.stale
         \/ Plan
<1>0. RowsTyped
  BY DEF TypeInv
<1>1. CASE PreemptRows \/ PauseRows
  BY <1>0, <1>1 DEF PreemptRows, PauseRows, Cool, Write, RowsTyped
<1>2. CASE Residents
  BY <1>0, <1>2 DEF Residents, Write, RowsTyped
<1>3. CASE Reconcile
  BY <1>0, <1>3 DEF Reconcile, Write, RowsTyped
<1>4. ASSUME NEW x \in Torrents, Elapse(x) PROVE soak[t] = "cooling"
  BY <1>0, <1>4 DEF Elapse, RowsTyped
<1>5. CASE soak' = soak
  BY <1>5
<1>6. Calls \/ Others \/ UNCHANGED vars => soak' = soak
  BY Frames DEF tables, vars
<1>7. QED
  BY <1>1, <1>2, <1>3, <1>4, <1>5, <1>6, Steps
  DEF Rows, ReleaseStale, SyncReservations, SyncActive, CarouselReconcile, CarouselPick,
      CarouselPickCut, Probe, Lapse, BatchBegin, BatchEnd

\* What the planner picks for a download is managed, neither slow nor in its
\* cooldown, and fits its budget.
PlanPicks(slow, plan) ==
  /\ plan.pick \subseteq Managed \ (tick.cool \union slow)
  /\ plan.used = SumFunctionOnSet(MoreOf, plan.pick) /\ plan.used <= Budget

LEMMA FloorIsNat == PlannerFloor \in Nat
  BY SlotAssumption DEF PlannerFloor, Mode

LEMMA BudgetBounds ==
  ASSUME Remembers
  PROVE  /\ Budget \in Nat /\ External \in Nat
         /\ Budget > 0 => Budget = tick.free - PlannerFloor - External
                              - SumFunctionOnSet([t \in Torrents |-> Budgeted(t)], Torrents)
<1> DEFINE total == SumFunctionOnSet([t \in Torrents |-> Budgeted(t)], Torrents)
           left == tick.free - PlannerFloor - total - External
<1>1. External \in Nat
  BY ExposureTyped DEF Remembers, External
<1>2. total \in Nat /\ PlannerFloor \in Nat /\ tick.free \in Nat
  BY TotalsAreNat, FloorIsNat DEF Remembers
<1> HIDE DEF total
<1>3. left \in Int /\ left = tick.free - PlannerFloor - External - total
  BY <1>1, <1>2
<1> HIDE DEF left
<1>4. Max({0, left}) = (IF 0 >= left THEN 0 ELSE left)
  BY <1>3, Larger
<1>5. Budget = (IF 0 >= left THEN 0 ELSE left)
  BY <1>4 DEF Budget, left, total
<1>6. QED
  BY <1>1, <1>3, <1>5 DEF total

LEMMA PlanSelects ==
  ASSUME Remembers, Plan
  PROVE  \E expired, slow, plan : PlanRows(expired, slow, plan) /\ PlanPicks(slow, plan)
<1>1. PICK expired \in SUBSET {t \in Unfinished : alloc[t] \in {"soak", "dead"}},
           slow \in SUBSET {t \in Managed : alloc[t] = "active"} :
        \E forced \in SetToSeqs(Candidates(expired, slow) \cap tick.hot),
           regular \in SetToSeqs(Candidates(expired, slow) \ tick.hot) :
          \E plan \in {Pick(forced \o regular, Budget)} : PlanRows(expired, slow, plan)
  BY DEF Plan
<1> DEFINE C == Candidates(expired, slow)
           H == C \cap tick.hot
           R == C \ tick.hot
<1>2. PICK forced \in SetToSeqs(H), regular \in SetToSeqs(R) :
        \E plan \in {Pick(forced \o regular, Budget)} : PlanRows(expired, slow, plan)
  BY <1>1
<1>3. C \subseteq Managed \ (tick.cool \union slow)
  BY DEF Unfinished, Candidates, Open, Cold
<1> HIDE DEF C
<1>4. C \in SUBSET Torrents /\ H \union R = C /\ H \cap R = {}
  BY <1>3 DEF Managed
<1>5. IsFiniteSet(H) /\ IsFiniteSet(R)
  <2>1. H \in SUBSET Torrents /\ R \in SUBSET Torrents
    BY <1>4
  <2>2. QED
    BY <2>1, SlotAssumption, FS_Subset
<1> HIDE DEF H, R
<1>6. PICK n \in Nat, m \in Nat : Listing(forced, n, H) /\ Listing(regular, m, R)
  BY <1>5, SetsAreListed, FS_CardinalityType
<1> DEFINE list == forced \o regular
           plan == Pick(list, Budget)
<1>7. Listing(list, n + m, C)
  <2>1. Listing(forced \o regular, n + m, H \union R)
    BY <1>4, <1>6, Joined
  <2>2. QED
    BY <1>4, <2>1
<1>8. PlanRows(expired, slow, plan)
  BY <1>2
<1> HIDE DEF list
<1>9. PickGood(plan, Budget, list, n + m)
  <2>1. n + m \in Nat /\ Budget \in Nat
    BY BudgetBounds
  <2>2. QED
    BY <1>4, <1>7, <2>1, PickResult
<1> HIDE DEF plan
<1>10. plan.pick \subseteq C
  BY <1>7, <1>9 DEF PickGood, Listing
<1>11. PlanPicks(slow, plan)
  BY <1>3, <1>9, <1>10 DEF PlanPicks, PickGood
<1>12. QED
  BY <1>8, <1>11

\* The tick knows every torrent in its cooldown that it may start.
CoolSeen == tick.pc \in SoakPart \union PlanPart =>
  \A t \in Torrents : soak[t] = "cooling" => t \in tick.cool \/ snap[t] = "run"
\* What the soak queue has decided to start and to stop.
StartsAreCool == tick.pc \in SoakPart =>
  /\ tick.victims \subseteq tick.cool
  /\ \A t \in Torrents : t \in tick.start => t \notin tick.cool /\ snap[t] = "stop"
  /\ \A t \in Torrents : t \in tick.stale => snap[t] = "run"
\* What the planner has picked.
PicksAreCool == tick.pc \in PickPart =>
  \A t \in Torrents : t \in tick.pick =>
    t \notin tick.cool /\ (soak[t] = "cooling" => snap[t] = "run")

CoolInv == CoolSeen /\ StartsAreCool /\ PicksAreCool

LEMMA CoolBegin == ASSUME TypeInv, SoakBegin PROVE CoolInv'
<1>1. PICK free \in Nat : \E out, hot, since :
        tick' = Decided(free, out, hot, since) /\ Selects(out, Cap(free))
  BY SoakSelects
<1>2. PICK out, hot, since : tick' = Decided(free, out, hot, since) /\ Selects(out, Cap(free))
  BY <1>1
<1>3. /\ tick'.pc = "preempt" /\ tick'.victims = out.victims
      /\ tick'.start = {t \in out.out : snap[t] = "stop"} /\ tick'.stale = Existing \ out.out
      /\ tick'.cool = Cooling \union out.victims
  BY <1>2 DEF Decided, Idle
<1>4. snap' = snap /\ soak' = soak
  BY DEF SoakBegin, tables
<1>5. CoolSeen'
  BY <1>3, <1>4 DEF CoolSeen, Cooling
<1>6. StartsAreCool'
  <2>1. ASSUME NEW t \in Torrents, t \in tick'.start PROVE t \notin tick'.cool /\ snap[t] = "stop"
    BY <1>2, <1>3, <2>1 DEF Selects, Existing, Waiting, Running, Preemptible
  <2>2. ASSUME NEW t \in Torrents, t \in tick'.stale PROVE snap[t] = "run"
    BY <1>3, <2>2 DEF Existing, Running
  <2>3. QED
    BY <1>3, <1>4, <2>1, <2>2 DEF StartsAreCool
<1>7. PicksAreCool'
  BY <1>3 DEF PicksAreCool, PickPart
<1>8. QED
  BY <1>5, <1>6, <1>7 DEF CoolInv

LEMMA CoolPlan == ASSUME TypeInv, Remembers, CoolInv, Plan PROVE CoolInv'
<1>1. PICK expired, slow, plan : PlanRows(expired, slow, plan) /\ PlanPicks(slow, plan)
  BY PlanSelects
<1>2. tick'.pc = "active" /\ tick'.pick = plan.pick /\ tick'.cool = tick.cool
  BY <1>1 DEF PlanRows, TypeInv, TickShape, Idle
<1>3. snap' = snap /\ tick.pc \in PlanPart
  BY DEF Plan, At, PlanPart
<1>4. ASSUME NEW t \in Torrents, t \in plan.pick
      PROVE  t \notin tick.cool /\ (soak'[t] = "cooling" => snap[t] = "run")
  <2>1. t \notin tick.cool /\ t \notin slow
    BY <1>1, <1>4 DEF PlanPicks
  <2>2. Kept(slow) \subseteq slow
    BY DEF Kept
  <2>3. soak' = SlowRows(Kept(slow), slow)
    BY <1>1 DEF PlanRows
  <2>4. soak'[t] = soak[t]
    BY <2>1, <2>2, <2>3 DEF SlowRows, Write, TypeInv, RowsTyped
  <2>5. soak[t] = "cooling" => snap[t] = "run"
    BY <1>3, <2>1 DEF CoolInv, CoolSeen
  <2>6. QED
    BY <2>1, <2>4, <2>5
<1>5. QED
  BY <1>2, <1>3, <1>4 DEF CoolInv, CoolSeen, StartsAreCool, PicksAreCool, SoakPart,
     PlanPart, PickPart

LEMMA CoolStep == ASSUME TypeInv, Remembers, CoolInv, [Next]_vars PROVE CoolInv'
<1>1. CASE Resting
  BY <1>1 DEF Resting, RestPart, CoolInv, CoolSeen, StartsAreCool, PicksAreCool, SoakPart,
     PlanPart,
              PickPart
<1>2. CASE Recalls /\ Onward /\ tick'.pc \in SoakPart \union PlanPart \union PickPart /\ ~ Plan
  <2>1. snap' = snap
    BY <1>2, SnapStays DEF SoakPart, PlanPart, PickPart
  <2>2. CoolSeen'
    <3> SUFFICES ASSUME tick'.pc \in SoakPart \union PlanPart, NEW t \in Torrents, soak'[t] = "cooling"
                 PROVE  t \in tick.cool \/ snap[t] = "run"
      BY <1>2, <2>1 DEF CoolSeen, Recalls
    <3>1. tick.pc \in SoakPart \union PlanPart
      BY <1>2 DEF Onward
    <3>2. PreemptRows \/ PauseRows => tick.pc \in SoakPart
      BY DEF PreemptRows, PauseRows, At, SoakPart
    <3>3. QED
      BY <1>2, <3>1, <3>2, Coolers DEF CoolInv, CoolSeen, StartsAreCool
  <2>3. StartsAreCool'
    BY <1>2, <2>1 DEF CoolInv, StartsAreCool, Recalls, Onward
  <2>4. PicksAreCool'
    <3> SUFFICES ASSUME tick'.pc \in PickPart, NEW t \in Torrents, t \in tick.pick
                 PROVE  t \notin tick.cool /\ (soak'[t] = "cooling" => snap[t] = "run")
      BY <1>2, <2>1 DEF PicksAreCool, Recalls, Onward
    <3>1. tick.pc \in PickPart
      BY <1>2 DEF Onward
    <3>2. ~ PreemptRows /\ ~ PauseRows
      BY <3>1 DEF PreemptRows, PauseRows, At, PickPart
    <3>3. QED
      BY <1>2, <3>1, <3>2, Coolers DEF CoolInv, PicksAreCool
  <2>5. QED
    BY <2>2, <2>3, <2>4 DEF CoolInv
<1>3. CASE Recalls /\ Onward /\ tick'.pc \notin SoakPart \union PlanPart \union PickPart
  BY <1>3 DEF CoolInv, CoolSeen, StartsAreCool, PicksAreCool
<1>4. QED
  BY <1>1, <1>2, <1>3, CoolBegin, CoolPlan, Memory

\* The stopped torrents a step starts in the two halves of the tick.
LEMMA CoolStarts ==
  ASSUME TypeInv, CoolInv, [Next]_vars, tick.pc \in {"start", "launch"},
         NEW t \in Torrents, world[t] = "stop", world'[t] = "run"
  PROVE  t \notin tick.cool /\ soak[t] # "cooling"
<1>1. SoakStart \/ PlanStart
  <2>1. Calls
    <3>1. ~ UNCHANGED world
      OBVIOUS
    <3>2. QED
      BY <3>1, Steps, Frames DEF vars
  <2>2. ASSUME NEW S, Halt(S) PROVE FALSE
    BY <2>2 DEF Halt
  <2>3. QED
    BY <2>1, <2>2 DEF Calls, Preempt, Pause, PlanStop, CarouselStop, CarouselStart, Change, At
<1>2. CASE SoakStart
  <2>1. tick.pc = "start" /\ t \in tick.start
    BY <1>2 DEF SoakStart, At, Resume
  <2>2. t \notin tick.cool /\ snap[t] = "stop"
    BY <2>1 DEF CoolInv, StartsAreCool, SoakPart
  <2>3. QED
    BY <2>1, <2>2 DEF CoolInv, CoolSeen, SoakPart
<1>3. CASE PlanStart
  <2>1. tick.pc = "launch" /\ t \in tick.pick /\ snap[t] = "stop"
    BY <1>3 DEF PlanStart, At, Resume, Launched
  <2>2. QED
    BY <2>1 DEF CoolInv, PicksAreCool, PickPart
<1>4. QED
  BY <1>1, <1>2, <1>3

LEMMA DecidedWell == Spec => [](TypeInv /\ Remembers /\ CoolInv)
<1>1. Init => TypeInv /\ Remembers /\ CoolInv
  <2>1. ASSUME Init PROVE tick = Idle
    BY <2>1 DEF Init
  <2>2. QED
    BY <2>1, TypeInit DEF Idle, Remembers, CoolInv, CoolSeen, StartsAreCool, PicksAreCool,
                          SoakPart, PlanPart, PickPart
<1>2. TypeInv /\ Remembers /\ CoolInv /\ [Next]_vars => (TypeInv /\ Remembers /\ CoolInv)'
  BY TypeStep, RemembersStep, CoolStep
<1>3. QED
  BY <1>1, <1>2, PTL DEF Spec

\* Neither half of a tick starts a torrent that was in its cooldown when the
\* tick began, or that the tick itself sent there.
THEOREM CooldownsAreHonoured == Spec => CooldownHonoured
<1>1. TypeInv /\ CoolInv /\ [Next]_vars =>
        [\A t \in Torrents : /\ tick.pc \in {"start", "launch"}
                             /\ world[t] = "stop" /\ world'[t] = "run"
                             => t \notin tick.cool /\ soak[t] # "cooling"]_vars
  BY CoolStarts
<1>2. QED
  BY <1>1, DecidedWell, PTL DEF Spec, CooldownHonoured

-----------------------------------------------------------------------------
(* The calls match the reservations.                                       *)
(*                                                                         *)
(* Who is wanted is decided three times in a tick, each time from rows and *)
(* snapshots of that moment: the soak queue's selection, the planner's     *)
(* protected set, its picks.  Each covers the one before, and no step      *)
(* between a decision and its call takes back or adds a reservation.       *)

HeldPart == {"start", "reconcile", "plan", "active", "launch", "park"}
GuardedPart == {"plan", "active", "launch", "park"}

\* What the soak queue starts it has selected, for more than nothing,
StartsSelected == tick.pc \in SoakPart => tick.zero \subseteq tick.sel
                                          /\ tick.start \subseteq tick.sel \ tick.zero
\* and reserved when the call goes out.
StartsReserved == tick.pc = "start" => \A t \in Torrents : t \in tick.start => prb[t] = "live"
\* Who holds a soak reservation is selected.
HoldersSelected ==
  /\ tick.pc = "reserve" => \A t \in Torrents : prb[t] # "none" => t \in tick.sel
  /\ tick.pc \in HeldPart => \A t \in Torrents : prb[t] \in {"live", "zero"} => t \in tick.sel
\* The planner protects the selected, and every batch with its reservation.
HoldersGuarded == tick.pc \in GuardedPart =>
  tick.sel \subseteq tick.prot /\ \A t \in Torrents : batch[t] = "live" => t \in tick.prot
\* The picks, and of the managed torrents only they, hold the planner's reservations.
PicksReserved == tick.pc \in {"launch", "park"} =>
  \A t \in Torrents : /\ t \in tick.pick => act[t] = "live"
                      /\ t \in Managed \ tick.pick => act[t] # "live"

CallInv == StartsSelected /\ StartsReserved /\ HoldersSelected /\ HoldersGuarded /\ PicksReserved

\* Steps that keep what the tick has decided.
SameMemory == /\ tick'.start = tick.start /\ tick'.sel = tick.sel /\ tick'.zero = tick.zero
              /\ tick'.prot = tick.prot /\ tick'.pick = tick.pick

LEMMA CallStep == ASSUME TypeInv, CallInv, [Next]_vars PROVE CallInv'
<1>0. TickShape /\ ClaimsTyped
  BY DEF TypeInv
<1> USE DEF CallInv
<1>1. ASSUME tick'.pc \in RestPart \ {"park"} PROVE CallInv'
  BY <1>1 DEF RestPart, SoakPart, HeldPart, GuardedPart, StartsSelected, StartsReserved,
     HoldersSelected, HoldersGuarded, PicksReserved
<1>2. CASE SoakBegin
  <2>1. PICK free \in Nat : \E out, hot, since :
          tick' = Decided(free, out, hot, since) /\ Selects(out, Cap(free))
    BY <1>2, SoakSelects
  <2>2. PICK out, hot, since : tick' = Decided(free, out, hot, since) /\ Selects(out, Cap(free))
    BY <2>1
  <2>3. /\ tick'.pc = "preempt" /\ tick'.sel = out.out /\ tick'.zero = out.zero
        /\ tick'.start = {t \in out.out : snap[t] = "stop"}
    BY <2>2 DEF Decided, Idle
  <2>4. tick'.zero \subseteq tick'.sel /\ tick'.start \subseteq tick'.sel \ tick'.zero
    BY <2>2, <2>3 DEF Selects, Running
  <2>5. QED
    BY <2>3, <2>4 DEF HeldPart, GuardedPart, StartsSelected, StartsReserved, HoldersSelected,
       HoldersGuarded, PicksReserved
<1>3. CASE Preempt \/ PreemptRows \/ Residents \/ Pause \/ PauseRows
  <2>1. /\ tick'.pc \in SoakPart \ {"reserve", "start"} /\ tick.pc \in SoakPart /\ SameMemory
    <3>1. CASE Residents \/ PauseRows
      BY <1>0, <3>1 DEF Idle, Residents, PauseRows, At, TickShape, SameMemory, SoakPart
    <3>2. CASE Preempt \/ PreemptRows \/ Pause
      BY <1>0, <3>2 DEF Preempt, PreemptRows, Pause, At, Go, Idle, TickShape, SameMemory, SoakPart
    <3>3. QED
      BY <1>3, <3>1, <3>2
  <2>2. QED
    BY <2>1 DEF SameMemory, SoakPart, HeldPart, GuardedPart, StartsSelected, StartsReserved,
       HoldersSelected, HoldersGuarded, PicksReserved
<1>4. CASE ReleaseStale
  <2>1. tick.pc = "release" /\ tick'.pc = "reserve" /\ SameMemory
    BY <1>0, <1>4 DEF ReleaseStale, At, Go, Idle, TickShape, SameMemory
  <2>2. \A t \in Torrents : prb'[t] # "none" => t \in tick.sel
    BY <1>0, <1>4 DEF ReleaseStale, Write, ClaimsTyped
  <2>3. QED
    BY <2>1, <2>2 DEF SameMemory, SoakPart, HeldPart, GuardedPart, StartsSelected, StartsReserved,
       HoldersSelected, HoldersGuarded, PicksReserved
<1>5. CASE SyncReservations
  <2>1. tick.pc = "reserve" /\ tick'.pc = "start" /\ SameMemory
    BY <1>0, <1>5 DEF SyncReservations, At, Go, Idle, TickShape, SameMemory
  <2>2. prb' = Write(Write(prb, tick.sel, "live"), tick.zero, "zero")
    BY <1>5 DEF SyncReservations
  <2>3. StartsSelected'
    BY <2>1 DEF SameMemory, SoakPart, StartsSelected
  <2>4. StartsReserved'
    BY <1>0, <2>1, <2>2 DEF SameMemory, SoakPart, StartsSelected, StartsReserved, Write, ClaimsTyped
  <2>5. HoldersSelected'
    BY <1>0, <2>1, <2>2 DEF SameMemory, SoakPart, StartsSelected, HoldersSelected, Write,
       ClaimsTyped
  <2>6. QED
    BY <2>1, <2>3, <2>4, <2>5 DEF GuardedPart, HoldersGuarded, PicksReserved
<1>6. CASE SoakStart
  <2>1. tick.pc = "start" /\ tick'.pc = "reconcile" /\ SameMemory /\ prb' = prb
    BY <1>0, <1>6 DEF SoakStart, At, Go, Idle, TickShape, SameMemory, tables
  <2>2. QED
    BY <2>1 DEF SameMemory, SoakPart, HeldPart, GuardedPart, StartsSelected, StartsReserved,
       HoldersSelected, HoldersGuarded, PicksReserved
<1>7. CASE Reconcile
  <2>1. /\ tick.pc = "reconcile" /\ tick'.pc = "plan" /\ tick'.sel = tick.sel
        /\ tick'.prot = tick.sel \union {t \in Torrents : batch[t] = "live"}
    BY <1>0, <1>7 DEF Reconcile, At, Idle, TickShape
  <2>2. ASSUME NEW t \in Torrents
        PROVE  /\ prb'[t] \in {"live", "zero"} => prb'[t] = prb[t]
               /\ batch'[t] = "live" => batch[t] = "live"
    BY <1>0, <1>7 DEF Reconcile, Write, ClaimsTyped
  <2>3. HoldersSelected'
    BY <2>1, <2>2 DEF HeldPart, HoldersSelected
  <2>4. HoldersGuarded'
    BY <2>1, <2>2 DEF HoldersGuarded
  <2>5. QED
    BY <2>1, <2>3, <2>4 DEF SoakPart, StartsSelected, StartsReserved, PicksReserved
<1>8. CASE Plan
  <2>1. /\ tick.pc = "plan" /\ tick'.pc = "active" /\ tick'.sel = tick.sel
        /\ tick'.prot = tick.prot /\ prb' = prb /\ batch' = batch
    BY <1>0, <1>8 DEF Plan, PlanRows, At, Idle, TickShape
  <2>2. QED
    BY <2>1 DEF SoakPart, HeldPart, GuardedPart, StartsSelected, StartsReserved, HoldersSelected,
       HoldersGuarded, PicksReserved
<1>9. CASE SyncActive
  <2>1. /\ tick.pc = "active" /\ tick'.pc = "launch" /\ SameMemory
        /\ prb' = prb /\ batch' = batch /\ snap' = snap
    BY <1>0, <1>9 DEF SyncActive, At, Go, Idle, TickShape, SameMemory
  <2>2. act' = Write(Write(act, Managed \ tick.pick, "none"), tick.pick, "live")
    BY <1>9 DEF SyncActive
  <2>3. PicksReserved'
    BY <1>0, <2>1, <2>2 DEF SameMemory, PicksReserved, Managed, Write, ClaimsTyped
  <2>4. QED
    BY <2>1, <2>3 DEF SameMemory, SoakPart, HeldPart, GuardedPart, StartsSelected, StartsReserved,
       HoldersSelected, HoldersGuarded
<1>10. CASE PlanStart
  <2>1. /\ tick.pc = "launch" /\ tick'.pc = "park" /\ tick'.sel = tick.sel
        /\ tick'.prot = tick.prot /\ tick'.pick = tick.pick
        /\ prb' = prb /\ batch' = batch /\ act' = act /\ snap' = snap
    BY <1>0, <1>10 DEF PlanStart, At, Idle, TickShape, tables
  <2>2. QED
    BY <2>1 DEF SoakPart, HeldPart, GuardedPart, StartsSelected, StartsReserved, HoldersSelected,
       HoldersGuarded, PicksReserved, Managed
<1>11. CASE Finish \/ Cut \/ CarouselPickCut \/ CarouselStart
  <2>1. tick'.pc = "idle"
    BY <1>11 DEF Finish, Cut, CarouselPickCut, CarouselStart, Idle
  <2>2. QED
    BY <1>1, <2>1 DEF RestPart
<1>12. CASE PlanStop \/ CarouselReconcile \/ CarouselStop \/ CarouselPick
  <2>1. PlanStop => tick'.pc = "done"
    BY <1>0 DEF PlanStop, Go, Idle, TickShape
  <2>2. CarouselReconcile => tick'.pc = "carStop"
    BY DEF CarouselReconcile, Idle
  <2>3. CarouselStop => tick'.pc = "carPick"
    BY <1>0 DEF CarouselStop, Go, Idle, TickShape
  <2>4. CarouselPick => tick'.pc = "carStart"
    BY <1>0 DEF CarouselPick, Idle, TickShape
  <2>5. QED
    BY <1>1, <1>12, <2>1, <2>2, <2>3, <2>4 DEF RestPart
<1>13. CASE Sync \/ Lapse \/ \E t \in Torrents : Change(t) \/ BatchBegin(t) \/ Elapse(t)
  <2>1. tick.pc = "idle" /\ tick' = tick
    BY <1>13 DEF Sync, Lapse, Change, BatchBegin, Elapse, At
  <2>2. QED
    BY <1>1, <2>1 DEF RestPart
<1>14. CASE UNCHANGED vars \/ \E t \in Torrents : BatchEnd(t)
  <2>1. /\ UNCHANGED <<tick, snap, act, prb>>
        /\ \A t \in Torrents : batch'[t] = "live" => batch[t] = "live"
    BY <1>0, <1>14 DEF BatchEnd, vars, tables, ClaimsTyped
  <2>2. QED
    BY <2>1 DEF StartsSelected, StartsReserved, HoldersSelected, HoldersGuarded, PicksReserved,
       Managed
<1>15. QED
  BY <1>2, <1>3, <1>4, <1>5, <1>6, <1>7, <1>8, <1>9, <1>10, <1>11, <1>12, <1>13, <1>14, Steps
  DEF Calls, Rows, Others

\* The torrents a call starts or stops, and what they hold.
LEMMA CallsAgree ==
  ASSUME TypeInv, CallInv, [Next]_vars, NEW t \in Torrents
  PROVE  /\ world[t] = "stop" /\ world'[t] = "run"
              => (At("start") => prb[t] = "live") /\ (At("launch") => act[t] = "live")
         /\ At("park") /\ world[t] = "run" /\ world'[t] = "stop"
              => act[t] # "live" /\ prb[t] \notin {"live", "zero"} /\ batch[t] # "live"
<1>1. ASSUME At("start"), world[t] = "stop", world'[t] = "run" PROVE prb[t] = "live"
  <2>1. Calls
    BY <1>1, Steps, Frames DEF vars
  <2>2. SoakStart
    BY <1>1, <2>1 DEF Calls, Preempt, Pause, PlanStart, PlanStop, CarouselStop, CarouselStart,
       Change, At
  <2>3. t \in tick.start
    BY <1>1, <2>2 DEF SoakStart, Resume
  <2>4. QED
    BY <1>1, <2>3 DEF At, CallInv, StartsReserved
<1>2. ASSUME At("launch"), world[t] = "stop", world'[t] = "run" PROVE act[t] = "live"
  <2>1. Calls
    BY <1>2, Steps, Frames DEF vars
  <2>2. PlanStart
    BY <1>2, <2>1 DEF Calls, Preempt, Pause, SoakStart, PlanStop, CarouselStop, CarouselStart,
       Change, At
  <2>3. t \in tick.pick
    BY <1>2, <2>2 DEF PlanStart, Resume, Launched
  <2>4. QED
    BY <1>2, <2>3 DEF At, CallInv, PicksReserved
<1>3. ASSUME At("park"), world[t] = "run", world'[t] = "stop"
      PROVE  act[t] # "live" /\ prb[t] \notin {"live", "zero"} /\ batch[t] # "live"
  <2>1. Calls
    BY <1>3, Steps, Frames DEF vars
  <2>2. PlanStop
    BY <1>3, <2>1 DEF Calls, Preempt, Pause, SoakStart, PlanStart, CarouselStop, CarouselStart,
       Change, At
  <2>3. t \in Parked
    BY <1>3, <2>2 DEF PlanStop, Halt
  <2>4. t \in Managed \ tick.pick /\ t \notin tick.prot
    BY <2>3 DEF Parked, Running, Managed
  <2>5. t \notin tick.sel /\ batch[t] # "live"
    BY <1>3, <2>4 DEF At, CallInv, HoldersGuarded, GuardedPart
  <2>6. prb[t] \notin {"live", "zero"}
    BY <1>3, <2>5 DEF At, CallInv, HoldersSelected, HeldPart
  <2>7. act[t] # "live"
    BY <1>3, <2>4 DEF At, CallInv, PicksReserved
  <2>8. QED
    BY <2>5, <2>6, <2>7
<1>4. QED
  BY <1>1, <1>2, <1>3

\* The soak queue and the planner start only what holds a live reservation of
\* theirs, and the planner stops nothing that holds one of anybody's.
THEOREM CallsAreReserved == Spec => CallsMatchReservations
<1>1. Init => TypeInv /\ CallInv
  <2>1. ASSUME Init PROVE tick.pc = "idle"
    BY <2>1 DEF Init, Idle
  <2>2. QED
    BY <2>1, TypeInit DEF CallInv, StartsSelected, StartsReserved, HoldersSelected,
       HoldersGuarded, PicksReserved, SoakPart, HeldPart, GuardedPart
<1>2. TypeInv /\ CallInv /\ [Next]_vars => (TypeInv /\ CallInv)'
  BY TypeStep, CallStep
<1>3. TypeInv /\ CallInv /\ [Next]_vars =>
        [\A t \in Torrents :
           /\ world[t] = "stop" /\ world'[t] = "run"
                => (At("start") => prb[t] = "live") /\ (At("launch") => act[t] = "live")
           /\ At("park") /\ world[t] = "run" /\ world'[t] = "stop"
                => act[t] # "live" /\ prb[t] \notin {"live", "zero"} /\ batch[t] # "live"]_vars
  BY CallsAgree
<1>4. QED
  BY <1>1, <1>2, <1>3, PTL DEF Spec, CallsMatchReservations

-----------------------------------------------------------------------------
(* What is started fits the space.                                         *)

\* What a torrent will have reserved when the picks have their reservations.
PlannedBytes(t) == IF t \in tick.pick THEN Max({Left[t], BatchBytes(t)}) ELSE NonSoakBytes(t)
Planned == SumFunctionOnSet([t \in Torrents |-> PlannedBytes(t)], Torrents)

\* The soak queue's selection fits until it is started,
StartRoom == tick.pc \in SoakPart /\ tick.start # {} /\ tick.victims = {}
               => NonSoak + External <= tick.free - DiskFloor
\* its reservations are those of the selection,
SelectionReserved ==
  /\ tick.pc = "reserve" => \A t \in Torrents : prb[t] # "none" => t \in tick.sel
  /\ tick.pc \in {"start"} \union PlanPart \union PickPart
       => \A t \in Torrents : prb[t] = "live" => t \in tick.sel \ tick.zero
\* and the planner's picks fit beside them, before and after they are reserved.
PickRoom ==
  /\ tick.pc = "active" /\ tick.grew => Planned + External <= tick.free - PlannerFloor
  /\ tick.pc = "launch" /\ tick.grew => NonSoak + External <= tick.free - PlannerFloor

FitInv == StartRoom /\ SelectionReserved /\ PickRoom

LEMMA LargerOf ==
  ASSUME NEW a \in Nat, NEW b \in Nat
  PROVE  Max({a, b}) \in Nat /\ a <= Max({a, b}) /\ b <= Max({a, b}) /\ Max({a, b}) \in {a, b}
<1>1. Max({a, b}) = IF a >= b THEN a ELSE b
  BY Larger
<1>2. QED
  BY <1>1

LEMMA PlannedIsNat ==
  /\ \A t \in Torrents : PlannedBytes(t) \in Nat
  /\ Planned \in Nat
<1>1. ASSUME NEW t \in Torrents PROVE PlannedBytes(t) \in Nat
  <2>1. Left[t] \in Nat /\ BatchBytes(t) \in Nat /\ NonSoakBytes(t) \in Nat
    BY BytesAreNat, SizesAreNat
  <2>2. Max({Left[t], BatchBytes(t)}) \in Nat
    BY <2>1, LargerOf
  <2>3. QED
    BY <2>1, <2>2 DEF PlannedBytes
<1> DEFINE f == [t \in Torrents |-> PlannedBytes(t)]
<1>2. IsFiniteSet(Torrents) /\ \A t \in Torrents : f[t] \in Nat
  BY <1>1, SlotAssumption
<1> HIDE DEF f
<1>3. SumFunctionOnSet(f, Torrents) \in Nat
  BY <1>2, SumIsNat
<1>4. QED
  BY <1>1, <1>3 DEF Planned, f

\* The live reservations of the soak queue are within its exposure.
LEMMA SoakWithin ==
  ASSUME Remembers, \A t \in Torrents : prb[t] = "live" => t \in tick.sel \ tick.zero
  PROVE  SoakBytes <= External /\ External \in Nat
<1> DEFINE P == tick.sel \ tick.zero
           f == [t \in Torrents |-> ProbeBytes(t)]
           g == [t \in Torrents |-> IF t \in P THEN Exposure[t] ELSE 0]
<1>1. IsFiniteSet(Torrents) /\ P \in SUBSET Torrents
  BY SlotAssumption DEF Remembers
<1>2. \A t \in Torrents : Exposure[t] \in Nat /\ g[t] = IF t \in P THEN Exposure[t] ELSE 0
  BY SizesAreNat
<1>3. \A t \in Torrents : f[t] \in Nat /\ g[t] \in Nat /\ f[t] <= g[t]
  BY SizesAreNat DEF ProbeBytes
<1> HIDE DEF f, g, P
<1>4. SumFunctionOnSet(f, Torrents) <= SumFunctionOnSet(g, Torrents)
  BY <1>1, <1>3, SumMonotone
<1>5. SumFunctionOnSet(g, Torrents) = SumFunctionOnSet(Exposure, P)
  BY <1>1, <1>2, SumOverPart
<1>6. External = SumFunctionOnSet(Exposure, P) /\ SoakBytes = SumFunctionOnSet(f, Torrents)
  BY DEF External, ExposureOf, SoakBytes, P, f
<1>7. External \in Nat
  BY <1>1, ExposureTyped DEF External, P
<1>8. QED
  BY <1>4, <1>5, <1>6, <1>7

\* The planned bytes are at most what is reserved and what is needed more.
LEMMA PlannedWithin ==
  ASSUME Remembers, NEW pick \in SUBSET Torrents, tick'.pick = pick,
         act' = act, batch' = batch
  PROVE  /\ Planned' \in Nat
         /\ Planned' <= SumFunctionOnSet([t \in Torrents |-> Budgeted(t)], Torrents)
                          + SumFunctionOnSet(MoreOf, pick)
<1> DEFINE f == [t \in Torrents |->
                   IF t \in pick THEN Max({Left[t], BatchBytes(t)}) ELSE NonSoakBytes(t)]
           b == [t \in Torrents |-> Budgeted(t)]
           m == [t \in Torrents |-> IF t \in pick THEN More(t) ELSE 0]
           s == [t \in Torrents |-> b[t] + m[t]]
<1>1. Planned' = SumFunctionOnSet(f, Torrents)
  BY DEF Planned, PlannedBytes, NonSoakBytes, ActiveBytes, BatchBytes
<1>2. ASSUME NEW t \in Torrents
      PROVE  b[t] \in Nat /\ m[t] \in Nat /\ f[t] \in Nat /\ s[t] = b[t] + m[t] /\ f[t] <= s[t]
  <2>1. /\ Left[t] \in Nat /\ BatchBytes(t) \in Nat /\ NonSoakBytes(t) \in Nat /\ Budgeted(t) \in Nat
        /\ More(t) \in Nat /\ Left[t] <= Budgeted(t) + More(t)
    BY BytesAreNat, MoreIsNat, SizesAreNat
  <2>2. BatchBytes(t) <= NonSoakBytes(t)
    BY BytesAreNat
  <2>3. NonSoakBytes(t) <= Budgeted(t)
    <3>1. Budgeted(t) = NonSoakBytes(t) + (IF External > 0 THEN 0 ELSE ProbeBytes(t))
      BY DEF Budgeted
    <3>2. (IF External > 0 THEN 0 ELSE ProbeBytes(t)) \in Nat
      BY BytesAreNat
    <3>3. QED
      BY <2>1, <3>1, <3>2
  <2>4. /\ Max({Left[t], BatchBytes(t)}) \in Nat
        /\ Max({Left[t], BatchBytes(t)}) \in {Left[t], BatchBytes(t)}
    BY <2>1, LargerOf
  <2>5. Max({Left[t], BatchBytes(t)}) <= Budgeted(t) + More(t)
    BY <2>1, <2>2, <2>3, <2>4
  <2>6. b[t] = Budgeted(t) /\ m[t] = (IF t \in pick THEN More(t) ELSE 0) /\ s[t] = b[t] + m[t]
    OBVIOUS
  <2>7. f[t] = IF t \in pick THEN Max({Left[t], BatchBytes(t)}) ELSE NonSoakBytes(t)
    OBVIOUS
  <2> HIDE DEF f, b, m, s
  <2>8. CASE t \in pick
    BY <2>1, <2>4, <2>5, <2>6, <2>7, <2>8
  <2>9. CASE t \notin pick
    BY <2>1, <2>3, <2>6, <2>7, <2>9
  <2>10. QED
    BY <2>8, <2>9
<1>3. \A t \in Torrents : MoreOf[t] \in Nat /\ m[t] = IF t \in pick THEN MoreOf[t] ELSE 0
  BY MoreIsNat DEF MoreOf
<1>4. IsFiniteSet(Torrents)
  BY SlotAssumption
<1> HIDE DEF f, b, m, s
<1>5. SumFunctionOnSet(f, Torrents) <= SumFunctionOnSet(s, Torrents)
  <2>1. \A t \in Torrents : f[t] \in Nat /\ s[t] \in Nat /\ f[t] <= s[t]
    BY <1>2
  <2>2. QED
    BY <1>4, <2>1, SumMonotone
<1>6. SumFunctionOnSet(s, Torrents) = SumFunctionOnSet(b, Torrents) + SumFunctionOnSet(m, Torrents)
  BY <1>2, <1>4, SumOfSums
<1>7. SumFunctionOnSet(m, Torrents) = SumFunctionOnSet(MoreOf, pick)
  BY <1>3, <1>4, SumOverPart
<1>8. Planned' <= SumFunctionOnSet(b, Torrents) + SumFunctionOnSet(MoreOf, pick)
  BY <1>1, <1>5, <1>6, <1>7
<1>9. Planned' \in Nat
  <2>1. \A t \in Torrents : f[t] \in Nat
    BY <1>2
  <2>2. QED
    BY <1>1, <1>4, <2>1, SumIsNat
<1>10. QED
  BY <1>8, <1>9 DEF b

\* No reservation of the planner or of a batch comes to life.
NoNewClaims == \A t \in Torrents : /\ act'[t] = "live" => act[t] = "live"
                                   /\ batch'[t] = "live" => batch[t] = "live"

LEMMA BytesFall ==
  ASSUME NoNewClaims, NEW t \in Torrents
  PROVE  /\ NonSoakBytes(t)' \in Nat /\ NonSoakBytes(t)' <= NonSoakBytes(t)
         /\ BatchBytes(t)' \in Nat /\ BatchBytes(t)' <= BatchBytes(t)
<1> DEFINE a == ActiveBytes(t)
           b == BatchBytes(t)
           c == ActiveBytes(t)'
           d == BatchBytes(t)'
<1>1. /\ a \in Nat /\ b \in Nat /\ NonSoakBytes(t) = (IF a >= b THEN a ELSE b)
  BY BytesAreNat
<1>2. Left[t] \in Nat /\ Claim[t] \in Nat
  BY SlotAssumption
<1>3. c \in Nat /\ c <= a
  BY <1>2 DEF NoNewClaims, ActiveBytes
<1>4. d \in Nat /\ d <= b
  BY <1>2 DEF NoNewClaims, BatchBytes
<1>5. NonSoakBytes(t)' = Max({c, d})
  BY DEF NonSoakBytes
<1> HIDE DEF a, b, c, d
<1>6. Max({c, d}) \in Nat /\ Max({c, d}) \in {c, d}
  BY <1>3, <1>4, LargerOf
<1>7. QED
  BY <1>1, <1>3, <1>4, <1>5, <1>6 DEF b, d

LEMMA NonSoakFalls ==
  ASSUME NoNewClaims
  PROVE  NonSoak' \in Nat /\ NonSoak' <= NonSoak
<1> DEFINE f == [t \in Torrents |-> NonSoakBytes(t)']
           g == [t \in Torrents |-> NonSoakBytes(t)]
<1>1. NonSoak' = SumFunctionOnSet(f, Torrents) /\ NonSoak = SumFunctionOnSet(g, Torrents)
  BY DEF NonSoak
<1>2. \A t \in Torrents : f[t] \in Nat /\ g[t] \in Nat /\ f[t] <= g[t]
  BY BytesFall, BytesAreNat
<1>3. IsFiniteSet(Torrents)
  BY SlotAssumption
<1> HIDE DEF f, g
<1>4. SumFunctionOnSet(f, Torrents) <= SumFunctionOnSet(g, Torrents)
      /\ SumFunctionOnSet(f, Torrents) \in Nat
  BY <1>2, <1>3, SumMonotone, SumIsNat
<1>5. QED
  BY <1>1, <1>4

LEMMA PlannedFalls ==
  ASSUME NoNewClaims, tick'.pick = tick.pick
  PROVE  Planned' \in Nat /\ Planned' <= Planned
<1> DEFINE f == [t \in Torrents |-> PlannedBytes(t)']
           g == [t \in Torrents |-> PlannedBytes(t)]
<1>1. Planned' = SumFunctionOnSet(f, Torrents) /\ Planned = SumFunctionOnSet(g, Torrents)
  BY DEF Planned
<1>2. ASSUME NEW t \in Torrents PROVE f[t] \in Nat /\ g[t] \in Nat /\ f[t] <= g[t]
  <2>1. /\ NonSoakBytes(t)' \in Nat /\ NonSoakBytes(t)' <= NonSoakBytes(t)
        /\ BatchBytes(t)' \in Nat /\ BatchBytes(t)' <= BatchBytes(t)
        /\ Left[t] \in Nat /\ BatchBytes(t) \in Nat /\ NonSoakBytes(t) \in Nat
    BY BytesFall, BytesAreNat, SizesAreNat
  <2>2. PlannedBytes(t) = IF t \in tick.pick THEN Max({Left[t], BatchBytes(t)}) ELSE NonSoakBytes(t)
    BY DEF PlannedBytes
  <2>3. PlannedBytes(t)' = IF t \in tick.pick THEN Max({Left[t], BatchBytes(t)'}) ELSE NonSoakBytes(t)'
    BY DEF PlannedBytes
  <2>4. f[t] = PlannedBytes(t)' /\ g[t] = PlannedBytes(t)
    OBVIOUS
  <2> DEFINE l == Left[t]
             c == BatchBytes(t)
             d == BatchBytes(t)'
  <2>5. l \in Nat /\ c \in Nat /\ d \in Nat /\ d <= c
    BY <2>1
  <2> HIDE DEF f, g, l, c, d
  <2>6. Max({l, c}) = (IF l >= c THEN l ELSE c) /\ Max({l, d}) = (IF l >= d THEN l ELSE d)
    BY <2>5, Larger
  <2>7. Max({l, c}) \in Nat /\ Max({l, d}) \in Nat /\ Max({l, d}) <= Max({l, c})
    BY <2>5, <2>6
  <2>8. QED
    BY <2>1, <2>2, <2>3, <2>4, <2>7 DEF l, c, d
<1>3. IsFiniteSet(Torrents)
  BY SlotAssumption
<1> HIDE DEF f, g
<1>4. SumFunctionOnSet(f, Torrents) <= SumFunctionOnSet(g, Torrents)
      /\ SumFunctionOnSet(f, Torrents) \in Nat
  BY <1>2, <1>3, SumMonotone, SumIsNat
<1>5. QED
  BY <1>1, <1>4

\* Writing the planner's reservations realises the plan.
LEMMA PlanRealised ==
  ASSUME TypeInv, SyncActive
  PROVE  NonSoak' \in Nat /\ NonSoak' <= Planned
<1> DEFINE f == [t \in Torrents |-> NonSoakBytes(t)']
           g == [t \in Torrents |-> PlannedBytes(t)]
<1>1. NonSoak' = SumFunctionOnSet(f, Torrents) /\ Planned = SumFunctionOnSet(g, Torrents)
  BY DEF NonSoak, Planned
<1>2. ASSUME NEW t \in Torrents PROVE f[t] \in Nat /\ g[t] \in Nat /\ f[t] <= g[t]
  <2> DEFINE a == ActiveBytes(t)
             c == ActiveBytes(t)'
             b == BatchBytes(t)
             l == Left[t]
  <2>1. /\ a \in Nat /\ b \in Nat /\ l \in Nat /\ NonSoakBytes(t) = (IF a >= b THEN a ELSE b)
        /\ PlannedBytes(t) \in Nat
    BY BytesAreNat, SizesAreNat, PlannedIsNat
  <2>2. act' = Write(Write(act, Managed \ tick.pick, "none"), tick.pick, "live") /\ batch' = batch
    BY DEF SyncActive
  <2>3. BatchBytes(t)' = b
    BY <2>2 DEF BatchBytes
  <2>4. c \in Nat /\ (IF t \in tick.pick THEN c = l ELSE c <= a)
    BY <2>1, <2>2 DEF ActiveBytes, Write, TypeInv, ClaimsTyped
  <2>5. PlannedBytes(t) = IF t \in tick.pick THEN Max({l, b}) ELSE NonSoakBytes(t)
    BY DEF PlannedBytes
  <2>6. NonSoakBytes(t)' = Max({c, b})
    BY <2>3 DEF NonSoakBytes
  <2>7. f[t] = NonSoakBytes(t)' /\ g[t] = PlannedBytes(t)
    OBVIOUS
  <2> HIDE DEF f, g, a, b, c, l
  <2>8. Max({c, b}) = (IF c >= b THEN c ELSE b) /\ Max({l, b}) = (IF l >= b THEN l ELSE b)
    BY <2>1, <2>4, Larger
  <2>9. CASE t \in tick.pick
    BY <2>1, <2>4, <2>5, <2>6, <2>7, <2>8, <2>9
  <2>10. CASE t \notin tick.pick
    BY <2>1, <2>4, <2>5, <2>6, <2>7, <2>8, <2>10
  <2>11. QED
    BY <2>9, <2>10
<1>3. IsFiniteSet(Torrents)
  BY SlotAssumption
<1> HIDE DEF f, g
<1>4. SumFunctionOnSet(f, Torrents) <= SumFunctionOnSet(g, Torrents)
      /\ SumFunctionOnSet(f, Torrents) \in Nat
  BY <1>2, <1>3, SumMonotone, SumIsNat
<1>5. QED
  BY <1>1, <1>4

LEMMA ClaimsFall ==
  ASSUME TypeInv, [Next]_vars, tick'.pc # "idle", ~ SyncActive
  PROVE  NoNewClaims
<1>0. ClaimsTyped
  BY DEF TypeInv
<1>1. CASE PreemptRows
  BY <1>0, <1>1 DEF PreemptRows, Write, NoNewClaims, ClaimsTyped
<1>2. CASE Reconcile
  <2>1. PICK absent :
          /\ act' = Write(act, absent, "none")
          /\ batch' = [t \in Torrents |->
               IF t \in absent /\ batch[t] = "live" THEN "bare" ELSE batch[t]]
    BY <1>2 DEF Reconcile
  <2>2. QED
    BY <1>0, <2>1 DEF Write, NoNewClaims, ClaimsTyped
<1>3. ASSUME NEW t \in Torrents, BatchEnd(t) PROVE NoNewClaims
  BY <1>0, <1>3 DEF BatchEnd, NoNewClaims, ClaimsTyped
<1>4. CASE UNCHANGED <<act, batch>>
  BY <1>4 DEF NoNewClaims
<1>5. ~ Lapse /\ \A t \in Torrents : ~ BatchBegin(t) /\ ~ Elapse(t)
  BY DEF Lapse, BatchBegin, Elapse, At
<1>6. Calls \/ Others \/ UNCHANGED vars => UNCHANGED <<act, batch>>
  BY Frames DEF tables, vars
<1>7. QED
  BY <1>1, <1>2, <1>3, <1>4, <1>5, <1>6, Steps
  DEF Rows, Residents, PauseRows, ReleaseStale, SyncReservations, Plan, CarouselReconcile,
      CarouselPick, CarouselPickCut, Probe

LEMMA ProbesFall ==
  ASSUME TypeInv, [Next]_vars, tick'.pc # "idle", ~ SyncReservations,
         NEW t \in Torrents, prb'[t] # "none"
  PROVE  prb'[t] = prb[t]
<1>0. ClaimsTyped
  BY DEF TypeInv
<1>1. CASE ReleaseStale
  BY <1>0, <1>1 DEF ReleaseStale, Write, ClaimsTyped
<1>2. CASE Reconcile
  <2>1. PICK absent : prb' = Write(prb, absent, "none")
    BY <1>2 DEF Reconcile
  <2>2. QED
    BY <1>0, <2>1 DEF Write, ClaimsTyped
<1>3. CASE UNCHANGED prb
  BY <1>3
<1>4. ~ Lapse
  BY DEF Lapse, At
<1>5. Calls \/ Others \/ UNCHANGED vars => UNCHANGED prb
  BY Frames DEF tables, vars
<1>6. QED
  BY <1>1, <1>2, <1>3, <1>4, <1>5, Steps
  DEF Rows, PreemptRows, Residents, PauseRows, SyncActive, Plan, CarouselReconcile, CarouselPick,
      CarouselPickCut, Probe, BatchBegin, BatchEnd, Elapse

LEMMA FitBegin == ASSUME TypeInv, SoakBegin PROVE FitInv'
<1>1. PICK free \in Nat : \E out, hot, since :
        tick' = Decided(free, out, hot, since) /\ Selects(out, Cap(free))
  BY SoakSelects
<1>2. PICK out, hot, since : tick' = Decided(free, out, hot, since) /\ Selects(out, Cap(free))
  BY <1>1
<1>3. /\ tick'.pc = "preempt" /\ tick'.victims = out.victims /\ tick'.free = free
      /\ tick'.start = {t \in out.out : snap[t] = "stop"}
      /\ tick'.sel = out.out /\ tick'.zero = out.zero
  BY <1>2 DEF Decided, Idle
<1>4. StartRoom'
  <2> DEFINE S == out.out \ out.zero
  <2> SUFFICES ASSUME tick'.start # {}, out.victims = {}
               PROVE  NonSoak + ExposureOf(S) <= free - DiskFloor
    <3>1. NonSoak' = NonSoak /\ External' = ExposureOf(S)
      BY <1>3 DEF SoakBegin, tables, NonSoak, NonSoakBytes, ActiveBytes, BatchBytes,
                    External, ExposureOf
    <3>2. QED
      BY <1>3, <3>1 DEF StartRoom
  <2>1. ExposureOf(S) <= Cap(free) /\ S \in SUBSET Torrents
    BY <1>2 DEF Selects, Existing, Waiting, Running
  <2>2. PICK t \in S : t \in Torrents
    BY <1>2, <1>3 DEF Selects, Existing, Waiting, Running
  <2> HIDE DEF S
  <2>3. ExposureOf(S) > 0
    <3>1. t \notin S \ {t} /\ S \ {t} \in SUBSET Torrents /\ (S \ {t}) \union {t} = S
      BY <2>1, <2>2
    <3>2. ExposureOf((S \ {t}) \union {t}) = Exposure[t] + ExposureOf(S \ {t})
      BY <2>2, <3>1, ExposureOneMore
    <3>3. Exposure[t] \in Nat /\ Exposure[t] > 0 /\ ExposureOf(S \ {t}) \in Nat
      BY <2>2, <3>1, SizesAreNat, ExposureTyped
    <3>4. ExposureOf(S) = Exposure[t] + ExposureOf(S \ {t})
      BY <3>1, <3>2
    <3>5. QED
      BY <3>3, <3>4
  <2>4. /\ Cap(free) \in Nat /\ (Cap(free) > 0 => Cap(free) <= free - DiskFloor - NonSoak)
        /\ ExposureOf(S) \in Nat /\ NonSoak \in Nat /\ DiskFloor \in Nat
    BY <2>1, CapBounds, ExposureTyped, TotalsAreNat, SlotAssumption
  <2>5. QED
    BY <2>1, <2>3, <2>4
<1>5. SelectionReserved' /\ PickRoom'
  BY <1>3 DEF SelectionReserved, PickRoom, PlanPart, PickPart
<1>6. QED
  BY <1>4, <1>5 DEF FitInv

LEMMA FitPlan ==
  ASSUME TypeInv, Remembers, FitInv, Plan
  PROVE  tick'.grew => (Planned + External <= tick.free - PlannerFloor)'
<1>1. PICK expired, slow, plan : PlanRows(expired, slow, plan) /\ PlanPicks(slow, plan)
  BY PlanSelects
<1>2. /\ tick'.pick = plan.pick /\ tick'.free = tick.free /\ tick'.sel = tick.sel
      /\ tick'.zero = tick.zero /\ (tick'.grew <=> plan.used > 0)
  BY <1>1 DEF PlanRows, TypeInv, TickShape, Idle
<1>3. External' = External /\ PlannerFloor' = PlannerFloor
  BY <1>2 DEF External, ExposureOf, PlannerFloor, Mode
<1> SUFFICES ASSUME plan.used > 0 PROVE Planned' + External <= tick.free - PlannerFloor
  BY <1>2, <1>3
<1> DEFINE total == SumFunctionOnSet([t \in Torrents |-> Budgeted(t)], Torrents)
           more == SumFunctionOnSet(MoreOf, plan.pick)
<1>4. plan.pick \in SUBSET Torrents /\ plan.used = more /\ plan.used <= Budget
  BY <1>1 DEF PlanPicks, Managed
<1>5. Planned' \in Nat /\ Planned' <= total + more
  <2>1. act' = act /\ batch' = batch
    BY DEF Plan
  <2>2. QED
    BY <1>2, <1>4, <2>1, PlannedWithin
<1>6. total \in Nat /\ more \in Nat /\ Budget \in Nat /\ External \in Nat
  <2>1. more \in Nat
    <3>1. IsFiniteSet(plan.pick) /\ \A t \in plan.pick : MoreOf[t] \in Nat
      BY <1>4, MoreIsNat, SlotAssumption, FS_Subset DEF MoreOf
    <3>2. QED
      BY <3>1, SumIsNat
  <2>2. QED
    BY <2>1, BudgetBounds, TotalsAreNat
<1>7. Budget > 0 => Budget = tick.free - PlannerFloor - External - total
  BY BudgetBounds
<1>8. tick.free \in Nat /\ PlannerFloor \in Nat
  BY FloorIsNat DEF Remembers
<1> HIDE DEF total, more
<1>9. QED
  BY <1>4, <1>5, <1>6, <1>7, <1>8

LEMMA FitStep == ASSUME TypeInv, Remembers, FitInv, [Next]_vars PROVE FitInv'
<1>1. CASE Resting
  BY <1>1 DEF Resting, RestPart, FitInv, StartRoom, SelectionReserved, PickRoom, SoakPart,
     PlanPart,
              PickPart
<1>2. CASE Recalls /\ Onward /\ tick'.pc \notin SoakPart \union PlanPart \union PickPart
  BY <1>2 DEF FitInv, StartRoom, SelectionReserved, PickRoom, SoakPart, PlanPart, PickPart
<1>3. CASE Recalls /\ Onward /\ tick'.pc \in SoakPart \union PlanPart \union PickPart
  <2>0. tick'.pc # "idle"
    BY <1>3 DEF SoakPart, PlanPart, PickPart
  <2>1. /\ External' = External /\ tick'.free = tick.free /\ PlannerFloor' = PlannerFloor
        /\ tick'.start = tick.start /\ tick'.victims = tick.victims
        /\ tick'.sel = tick.sel /\ tick'.zero = tick.zero
    BY <1>3 DEF Recalls, External, ExposureOf, PlannerFloor, Mode
  <2>2. /\ External \in Nat /\ tick.free \in Nat /\ PlannerFloor \in Nat /\ DiskFloor \in Nat
        /\ NonSoak \in Nat /\ Planned \in Nat
    BY BudgetBounds, FloorIsNat, SlotAssumption, TotalsAreNat, PlannedIsNat DEF Remembers
  <2>3. StartRoom'
    <3> SUFFICES ASSUME tick'.pc \in SoakPart, tick.start # {}, tick.victims = {}
                 PROVE  NonSoak' + External <= tick.free - DiskFloor
      BY <2>1 DEF StartRoom
    <3>1. tick.pc \in SoakPart
      BY <1>3 DEF Onward
    <3>2. ~ SyncActive
      BY <3>1 DEF SyncActive, At, SoakPart
    <3>3. NonSoak' \in Nat /\ NonSoak' <= NonSoak
      BY <2>0, <3>2, ClaimsFall, NonSoakFalls
    <3>4. NonSoak + External <= tick.free - DiskFloor
      BY <3>1 DEF FitInv, StartRoom
    <3>5. QED
      BY <2>2, <3>3, <3>4
  <2>4. SelectionReserved'
    <3>1. ASSUME tick'.pc = "reserve", NEW t \in Torrents, prb'[t] # "none" PROVE t \in tick.sel
      <4>1. CASE ReleaseStale
        BY <3>1, <4>1 DEF ReleaseStale, Write, TypeInv, ClaimsTyped
      <4>2. CASE tick.pc = "reserve"
        <5>1. ~ SyncReservations
          BY <3>1, <4>2 DEF SyncReservations, Go, TypeInv, TickShape, Idle
        <5>2. prb'[t] = prb[t]
          BY <2>0, <3>1, <5>1, ProbesFall
        <5>3. QED
          BY <3>1, <4>2, <5>2 DEF FitInv, SelectionReserved
      <4>3. QED
        BY <1>3, <3>1, <4>1, <4>2 DEF Onward
    <3>2. ASSUME tick'.pc \in Reserved, NEW t \in Torrents, prb'[t] = "live"
          PROVE  t \in tick.sel \ tick.zero
      <4>1. CASE SyncReservations
        <5>1. tick.pc = "reserve" /\ prb' = Write(Write(prb, tick.sel, "live"), tick.zero, "zero")
          BY <4>1 DEF SyncReservations, At
        <5>2. prb[t] # "none" => t \in tick.sel
          BY <5>1 DEF FitInv, SelectionReserved
        <5>3. QED
          BY <3>2, <5>1, <5>2 DEF Write, TypeInv, ClaimsTyped
      <4>2. CASE tick.pc \in Reserved /\ ~ SyncReservations
        <5>1. prb'[t] = prb[t]
          BY <2>0, <3>2, <4>2, ProbesFall
        <5>2. QED
          BY <3>2, <4>2, <5>1 DEF FitInv, SelectionReserved, Reserved
      <4>3. QED
        BY <1>3, <3>2, <4>1, <4>2 DEF Onward
    <3>3. QED
      BY <2>1, <3>1, <3>2 DEF SelectionReserved, Reserved
  <2>5. PickRoom'
    <3>1. ASSUME tick'.pc = "active", tick'.grew PROVE Planned' + External <= tick.free - PlannerFloor
      <4>1. CASE Plan
        BY <2>1, <3>1, <4>1, FitPlan
      <4>2. CASE tick.pc = "active" /\ ~ Plan
        <5>1. tick'.pick = tick.pick /\ tick'.grew = tick.grew
          BY <1>3, <3>1, <4>2 DEF Onward, PickPart
        <5>2. ~ SyncActive
          BY <3>1 DEF SyncActive, Go, TypeInv, TickShape, Idle
        <5>3. Planned' \in Nat /\ Planned' <= Planned
          BY <2>0, <5>1, <5>2, ClaimsFall, PlannedFalls
        <5>4. Planned + External <= tick.free - PlannerFloor
          BY <3>1, <4>2, <5>1 DEF FitInv, PickRoom
        <5>5. QED
          BY <2>2, <5>3, <5>4
      <4>3. QED
        BY <1>3, <3>1, <4>1, <4>2 DEF Onward
    <3>2. ASSUME tick'.pc = "launch", tick'.grew PROVE NonSoak' + External <= tick.free - PlannerFloor
      <4>0. ~ Plan
        <5>1. ASSUME Plan PROVE tick'.pc = "active"
          <6>1. PICK expired, slow, plan : PlanRows(expired, slow, plan)
            BY <5>1 DEF Plan
          <6>2. QED
            BY <6>1 DEF PlanRows, TypeInv, TickShape, Idle
        <5>2. QED
          BY <3>2, <5>1
      <4>1. tick'.grew = tick.grew
        BY <1>3, <3>2, <4>0 DEF Onward, PickPart
      <4>2. CASE SyncActive
        <5>1. NonSoak' \in Nat /\ NonSoak' <= Planned
          BY <4>2, PlanRealised
        <5>2. Planned + External <= tick.free - PlannerFloor
          BY <3>2, <4>1, <4>2 DEF SyncActive, At, FitInv, PickRoom
        <5>3. QED
          BY <2>2, <5>1, <5>2
      <4>3. CASE tick.pc = "launch" /\ ~ SyncActive
        <5>1. NonSoak' \in Nat /\ NonSoak' <= NonSoak
          BY <2>0, <4>3, ClaimsFall, NonSoakFalls
        <5>2. NonSoak + External <= tick.free - PlannerFloor
          BY <3>2, <4>1, <4>3 DEF FitInv, PickRoom
        <5>3. QED
          BY <2>2, <5>1, <5>2
      <4>4. QED
        BY <1>3, <3>2, <4>2, <4>3 DEF Onward
    <3>3. QED
      BY <2>1, <3>1, <3>2 DEF PickRoom
  <2>6. QED
    BY <2>3, <2>4, <2>5 DEF FitInv
<1>4. QED
  BY <1>1, <1>2, <1>3, FitBegin, Memory

LEMMA FitSuffices == ASSUME Remembers, FitInv PROVE StartsFit
<1>1. /\ External \in Nat /\ tick.free \in Nat /\ PlannerFloor \in Nat /\ DiskFloor \in Nat
      /\ NonSoak \in Nat /\ SoakBytes \in Nat
  BY BudgetBounds, FloorIsNat, SlotAssumption, TotalsAreNat DEF Remembers
<1>2. tick.pc \in {"start", "launch"} => SoakBytes <= External
  <2>1. tick.pc \in {"start", "launch"}
          => \A t \in Torrents : prb[t] = "live" => t \in tick.sel \ tick.zero
    BY DEF FitInv, SelectionReserved, PickPart
  <2>2. QED
    BY <2>1, SoakWithin
<1>3. ASSUME tick.pc = "start", tick.start # {}, tick.victims = {}
      PROVE  NonSoak + SoakBytes <= tick.free - DiskFloor
  <2>1. NonSoak + External <= tick.free - DiskFloor
    BY <1>3 DEF FitInv, StartRoom, SoakPart
  <2>2. QED
    BY <1>1, <1>2, <1>3, <2>1
<1>4. ASSUME tick.pc = "launch", tick.grew PROVE NonSoak + SoakBytes <= tick.free - PlannerFloor
  <2>1. NonSoak + External <= tick.free - PlannerFloor
    BY <1>4 DEF FitInv, PickRoom
  <2>2. QED
    BY <1>1, <1>2, <1>4, <2>1
<1>5. QED
  BY <1>3, <1>4 DEF StartsFit

\* What either half of a tick starts fits, with everything reserved at that
\* moment, between the free space it read and the floor that holds.
THEOREM StartsFitTheSpace == Spec => []StartsFit
<1>1. Init => TypeInv /\ Remembers /\ FitInv
  <2>1. ASSUME Init PROVE tick = Idle
    BY <2>1 DEF Init
  <2>2. QED
    BY <2>1, TypeInit DEF Idle, Remembers, FitInv, StartRoom, SelectionReserved, PickRoom,
       SoakPart,
                          PlanPart, PickPart
<1>2. TypeInv /\ Remembers /\ FitInv /\ [Next]_vars => (TypeInv /\ Remembers /\ FitInv)'
  BY TypeStep, RemembersStep, FitStep
<1>3. TypeInv /\ Remembers /\ FitInv => StartsFit
  BY FitSuffices
<1>4. QED
  BY <1>1, <1>2, <1>3, PTL DEF Spec
=============================================================================

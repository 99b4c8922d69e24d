---------------------------- MODULE StateWriter ----------------------------
(***************************************************************************)
(* The writer of the state database: _SyncWriteActor, the registry that    *)
(* finds the actor of a path, and stop_write_actors, which runs when the   *)
(* interpreter exits while the daemon's threads may still be calling       *)
(* write_transaction.                                                      *)
(*                                                                         *)
(* One path, so at most one actor is registered; an actor that was stopped *)
(* stays in the hands of the callers that had found it.  A region under a  *)
(* lock is one step.  SQLite is external: one connection holds the write   *)
(* lock, another waits for it or gives up after its busy timeout.  A call  *)
(* made inside a transaction runs on the open connection and is part of    *)
(* its payload.                                                            *)
(***************************************************************************)
EXTENDS Integers, Sequences, FiniteSets

CONSTANTS Callers,      \* threads that write
          MaxCalls,     \* bound: calls of each
          MaxStops,     \* bound: runs of stop_write_actors
          MaxThreads    \* bound: writer threads ever started

VARIABLES
  registry,   \* _WRITE_ACTORS: the actor of the path, 0 if there is none
  queue,      \* _queue of each actor
  thread,     \* _thread of each actor, 0 for None
  writer,     \* the writer threads: actor, step, request in hand, answer
  spawned,    \* writer threads started so far
  lock,       \* SQLite: the thread whose connection holds the write lock
  log,        \* callers of the transactions in the database, in order
  caller,     \* each caller: step, actor found, reply
  result,     \* how its last call ended
  calls,      \* how many it made
  stopper,    \* stop_write_actors: step and actor
  stops

actors == <<registry, queue, thread, writer, spawned>>
database == <<lock, log>>
clients == <<caller, result, calls>>
stopping == <<stopper, stops>>
vars == <<actors, database, clients, stopping>>

ASSUME WriterAssumption ==
  /\ IsFiniteSet(Callers) /\ MaxCalls \in Nat /\ MaxStops \in Nat /\ MaxThreads \in Nat \ {0}
  /\ "stop" \notin Callers

Actors  == 1..(MaxStops + 1)
Threads == 1..MaxThreads

NoWriter == [actor |-> 0, pc |-> "none", op |-> "stop", answer |-> "none"]
NoCall   == [pc |-> "idle", actor |-> 0, reply |-> "none"]

Init ==
  /\ registry = 0 /\ queue = [a \in Actors |-> <<>>] /\ thread = [a \in Actors |-> 0]
  /\ writer = [w \in Threads |-> NoWriter] /\ spawned = 0
  /\ lock = 0 /\ log = <<>>
  /\ caller = [c \in Callers |-> NoCall] /\ result = [c \in Callers |-> "none"]
  /\ calls = [c \in Callers |-> 0]
  /\ stopper = [pc |-> "idle", actor |-> 0] /\ stops = 0

Alive == {w \in Threads : writer[w].pc \notin {"none", "dead"}}

----------------------------------------------------------------------------
(* A caller.                                                               *)

\* mutant: a registry that was cleared finds nothing
CallNoActor(c) ==
  /\ caller[c].pc = "idle" /\ calls[c] < MaxCalls
  /\ registry' = (IF stops = 0 THEN 1 ELSE registry) /\ calls' = [calls EXCEPT ![c] = @ + 1]
  /\ caller' = [caller EXCEPT ![c] = [pc |-> "start", actor |-> registry', reply |-> "none"]]
  /\ UNCHANGED <<queue, thread, writer, spawned, database, result, stopping>>

\* _actor_for: a cleared registry gets a new actor.
Call(c) ==
  LET a == IF registry = 0 THEN stops + 1 ELSE registry
  IN /\ caller[c].pc = "idle" /\ calls[c] < MaxCalls
     /\ registry' = a /\ calls' = [calls EXCEPT ![c] = @ + 1]
     /\ caller' = [caller EXCEPT ![c] = [pc |-> "start", actor |-> a, reply |-> "none"]]
     /\ UNCHANGED <<queue, thread, writer, spawned, database, result, stopping>>

\* mutant: a thread is started for every call
StartAlways(c) ==
  LET a == caller[c].actor
  IN /\ caller[c].pc = "start" /\ caller' = [caller EXCEPT ![c].pc = "put"]
     /\ spawned < MaxThreads /\ spawned' = spawned + 1
     /\ thread' = [thread EXCEPT ![a] = spawned + 1]
     /\ writer' = [writer EXCEPT ![spawned + 1] = [NoWriter EXCEPT !.actor = a, !.pc = "get"]]
     /\ UNCHANGED <<registry, queue, database, result, calls, stopping>>

\* start: a thread, unless the one the actor remembers is alive
Start(c) ==
  LET a == caller[c].actor
  IN /\ caller[c].pc = "start" /\ caller' = [caller EXCEPT ![c].pc = "put"]
     /\ \/ thread[a] \in Alive /\ UNCHANGED <<thread, writer, spawned>>
        \/ /\ thread[a] \notin Alive /\ spawned < MaxThreads
           /\ spawned' = spawned + 1 /\ thread' = [thread EXCEPT ![a] = spawned + 1]
           /\ writer' = [writer EXCEPT ![spawned + 1] = [NoWriter EXCEPT !.actor = a, !.pc = "get"]]
     /\ UNCHANGED <<registry, queue, database, result, calls, stopping>>

Put(c) ==
  /\ caller[c].pc = "put" /\ caller' = [caller EXCEPT ![c].pc = "wait"]
  /\ queue' = [queue EXCEPT ![caller[c].actor] = Append(@, c)]
  /\ UNCHANGED <<registry, thread, writer, spawned, database, result, calls, stopping>>

Return(c) ==
  /\ caller[c].pc = "wait" /\ caller[c].reply # "none"
  /\ result' = [result EXCEPT ![c] = caller[c].reply]
  /\ caller' = [caller EXCEPT ![c] = NoCall]
  /\ UNCHANGED <<actors, database, calls, stopping>>

----------------------------------------------------------------------------
(* A writer thread (_run).                                                 *)

Take(w) ==
  LET a == writer[w].actor
      op == Head(queue[a])
  IN /\ writer[w].pc = "get" /\ queue[a] # <<>>
     /\ queue' = [queue EXCEPT ![a] = Tail(@)]
     /\ IF op = "stop"
        THEN /\ writer' = [writer EXCEPT ![w].pc = "exit"]
             /\ stopper' = [stopper EXCEPT !.pc = "join"]
        ELSE /\ writer' = [writer EXCEPT ![w].pc = "open", ![w].op = op]
             /\ UNCHANGED stopper
     /\ UNCHANGED <<registry, thread, spawned, database, clients, stops>>

\* The payload writes as soon as SQLite gives its connection the lock.
Write(w) ==
  /\ writer[w].pc = "open" /\ lock = 0 /\ lock' = w
  /\ writer' = [writer EXCEPT ![w].pc = "written"]
  /\ UNCHANGED <<registry, queue, thread, spawned, log, clients, stopping>>

Commit(w) ==
  /\ writer[w].pc = "written" /\ lock' = 0 /\ log' = Append(log, writer[w].op)
  /\ writer' = [writer EXCEPT ![w].pc = "answer", ![w].answer = "ok"]
  /\ UNCHANGED <<registry, queue, thread, spawned, clients, stopping>>

Unlock(w) == lock' = IF lock = w THEN 0 ELSE lock

\* mutant: what the payload wrote is not rolled back
RaiseKeeps(w) ==
  /\ writer[w].pc \in {"open", "written"} /\ Unlock(w)
  /\ log' = IF lock = w THEN Append(log, writer[w].op) ELSE log
  /\ writer' = [writer EXCEPT ![w].pc = "answer", ![w].answer = "error"]
  /\ UNCHANGED <<registry, queue, thread, spawned, clients, stopping>>

\* mutant: the exception ends the thread
RaiseEnds(w) ==
  /\ writer[w].pc \in {"open", "written"} /\ Unlock(w) /\ UNCHANGED log
  /\ writer' = [writer EXCEPT ![w].pc = "exit"]
  /\ UNCHANGED <<registry, queue, thread, spawned, clients, stopping>>

\* The payload, the commit or the wait for the lock raises: rollback.
Raise(w) ==
  /\ writer[w].pc \in {"open", "written"} /\ Unlock(w) /\ UNCHANGED log
  /\ writer' = [writer EXCEPT ![w].pc = "answer", ![w].answer = "error"]
  /\ UNCHANGED <<registry, queue, thread, spawned, clients, stopping>>

Answer(w) ==
  /\ writer[w].pc = "answer"
  /\ caller' = [caller EXCEPT ![writer[w].op].reply = writer[w].answer]
  /\ writer' = [writer EXCEPT ![w] = [NoWriter EXCEPT !.actor = writer[w].actor, !.pc = "get"]]
  /\ UNCHANGED <<registry, queue, thread, spawned, database, result, calls, stopping>>

Die(w) ==
  /\ writer[w].pc = "exit" /\ writer' = [writer EXCEPT ![w] = [NoWriter EXCEPT !.pc = "dead"]]
  /\ UNCHANGED <<registry, queue, thread, spawned, database, clients, stopping>>

----------------------------------------------------------------------------
(* stop_write_actors: the registry is cleared, then its actor is stopped.  *)

Clear ==
  /\ stopper.pc = "idle" /\ registry # 0 /\ stops < MaxStops /\ stops' = stops + 1
  /\ registry' = 0 /\ stopper' = [pc |-> "stop", actor |-> registry]
  /\ UNCHANGED <<queue, thread, writer, spawned, database, clients>>

\* stop, its first region
Stop ==
  LET a == stopper.actor
  IN /\ stopper.pc = "stop"
     /\ \/ /\ thread[a] \in Alive /\ queue' = [queue EXCEPT ![a] = Append(@, "stop")]
           /\ stopper' = [stopper EXCEPT !.pc = "wait"] /\ UNCHANGED thread
        \/ /\ thread[a] \notin Alive /\ thread' = [thread EXCEPT ![a] = 0]
           /\ stopper' = [stopper EXCEPT !.pc = "idle"] /\ UNCHANGED queue
     /\ UNCHANGED <<registry, writer, spawned, database, clients, stops>>

\* its last region, after the join or its timeout
Forget ==
  /\ stopper.pc = "join" /\ thread' = [thread EXCEPT ![stopper.actor] = 0]
  /\ stopper' = [stopper EXCEPT !.pc = "idle"]
  /\ UNCHANGED <<registry, queue, writer, spawned, database, clients, stops>>

----------------------------------------------------------------------------

CallerStep(c) == Start(c) \/ Put(c) \/ Return(c)
WriterStep(w) == Take(w) \/ Write(w) \/ Commit(w) \/ Raise(w) \/ Answer(w) \/ Die(w)

Next ==
  \/ \E c \in Callers : Call(c) \/ CallerStep(c)
  \/ \E w \in Threads : WriterStep(w)
  \/ Clear \/ Stop \/ Forget

Spec == Init /\ [][Next]_vars

\* Threads that can go on do; nobody has to call or to stop the actors.
FairSpec ==
  /\ Spec
  /\ \A c \in Callers : WF_vars(CallerStep(c))
  /\ \A w \in Threads : WF_vars(WriterStep(w))

----------------------------------------------------------------------------
(* Properties.                                                             *)

TypeOK ==
  /\ registry \in {0} \union Actors
  /\ queue \in [Actors -> Seq(Callers \union {"stop"})]
  /\ thread \in [Actors -> {0} \union Threads]
  /\ writer \in [Threads -> [actor : {0} \union Actors,
                             pc : {"none", "get", "open", "written", "answer", "exit", "dead"},
                             op : Callers \union {"stop"}, answer : {"none", "ok", "error"}]]
  /\ spawned \in 0..MaxThreads /\ lock \in {0} \union Threads /\ log \in Seq(Callers)
  /\ caller \in [Callers -> {NoCall} \union [pc : {"start", "put", "wait"}, actor : Actors,
                                            reply : {"none", "ok", "error"}]]
  /\ result \in [Callers -> {"none", "ok", "error"}] /\ calls \in [Callers -> 0..MaxCalls]
  /\ stopper \in [pc : {"idle", "stop", "wait", "join"}, actor : {0} \union Actors]
  /\ stops \in 0..MaxStops

\* Until stop_write_actors runs there is one writer thread, the one its actor
\* remembers, and only its connection writes.  (After that there may be two,
\* even of one actor: see Forget.)
OneWriter ==
  stops = 0 => /\ Alive \subseteq {thread[1]}
               /\ lock \in {0} \union Alive

\* Callers see atomic writes with true results, also while actors are stopped
\* under them and two writers share the file.
Phase(c) ==
  IF caller[c].pc = "idle" THEN "idle"
  ELSE IF caller[c].reply # "none" THEN caller[c].reply
  ELSE IF \E w \in Threads : writer[w].pc = "answer" /\ writer[w].op = c
  THEN writer[CHOOSE w \in Threads : writer[w].pc = "answer" /\ writer[w].op = c].answer
  ELSE "called"

Promise == INSTANCE AtomicWrites WITH phase <- [c \in Callers |-> Phase(c)]
WritesAreAtomic == Promise!Spec

\* A call on an actor that stays registered returns.  (One that found its
\* actor before the registry was cleared may wait for ever.)
CallsReturn ==
  \A c \in Callers :
    caller[c].pc # "idle" ~> caller[c].pc = "idle" \/ registry # caller[c].actor
=============================================================================

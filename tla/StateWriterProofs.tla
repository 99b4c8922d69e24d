-------------------------- MODULE StateWriterProofs --------------------------
(***************************************************************************)
(* What StateWriter keeps for any number of callers, calls, stops and      *)
(* writer threads: types, one writer until the first stop, and the promise *)
(* of AtomicWrites, also while actors are stopped under their callers.     *)
(***************************************************************************)
EXTENDS StateWriter, SequenceTheorems, TLAPS

WriterRow == [actor : {0} \union Actors,
              pc : {"none", "get", "open", "written", "answer", "exit", "dead"},
              op : Callers \union {"stop"}, answer : {"none", "ok", "error"}]
Asked == [pc : {"start", "put", "wait"}, actor : Actors, reply : {"none", "ok", "error"}]

\* A request is in one place: in a queue, or in the hands of one thread, while
\* its caller waits for the reply.
Waiting(c) == caller[c].pc = "wait" /\ caller[c].reply = "none"
Busy(w)    == writer[w].pc \in {"open", "written", "answer"}

QueueOK == \A a \in Actors : \A i \in DOMAIN queue[a] :
             queue[a][i] # "stop" => Waiting(queue[a][i])
OnceQueued == \A a, b \in Actors : \A i \in DOMAIN queue[a], j \in DOMAIN queue[b] :
                queue[a][i] # "stop" /\ queue[a][i] = queue[b][j] => a = b /\ i = j
BusyOK == \A w \in Threads : Busy(w) =>
            /\ writer[w].op \in Callers /\ Waiting(writer[w].op)
            /\ \A a \in Actors : \A i \in DOMAIN queue[a] : queue[a][i] # writer[w].op
OnceServed == \A w, v \in Threads :
                Busy(w) /\ Busy(v) /\ writer[w].op = writer[v].op => w = v

\* A thread that runs knows its actor and its answer; the ones not started yet
\* are blank; the lock is with the thread that has written.
ThreadsOK ==
  \A w \in Threads :
    /\ writer[w].pc \notin {"none", "dead"} => writer[w].actor \in Actors
    /\ writer[w].pc = "answer" => writer[w].answer \in {"ok", "error"}
    /\ w > spawned => writer[w].pc = "none"
    /\ writer[w].pc = "written" <=> lock = w

FreshOK == \A c \in Callers : caller[c].pc \in {"start", "put"} => caller[c].reply = "none"

Requests == FreshOK /\ QueueOK /\ OnceQueued /\ BusyOK /\ OnceServed
WriterInv == TypeOK /\ Requests /\ ThreadsOK

LEMMA ConstantFacts ==
  /\ "stop" \notin Callers /\ Actors \subseteq Nat \ {0} /\ Threads \subseteq Nat \ {0}
  /\ 1 \in Actors /\ MaxStops \in Nat /\ MaxThreads \in Nat /\ MaxCalls \in Nat
BY WriterAssumption DEF Actors, Threads

LEMMA Rows ==
  ASSUME WriterInv
  PROVE  writer \in [Threads -> WriterRow] /\ caller \in [Callers -> {NoCall} \union Asked]
BY DEF WriterInv, TypeOK, WriterRow, Asked

LEMMA Queues == ASSUME WriterInv PROVE queue \in [Actors -> Seq(Callers \union {"stop"})]
BY DEF WriterInv, TypeOK

LEMMA InvInit == Init => WriterInv
<1> SUFFICES ASSUME Init PROVE WriterInv
  OBVIOUS
<1>1. NoWriter \in WriterRow
  BY DEF NoWriter, WriterRow
<1>2. TypeOK
  BY <1>1, ConstantFacts DEF Init, TypeOK, WriterRow
<1>3. Requests
  BY DEF Init, NoCall, Requests, FreshOK, QueueOK, OnceQueued, BusyOK, OnceServed, Busy, NoWriter
<1>4. ThreadsOK
  BY ConstantFacts DEF Init, ThreadsOK, NoWriter
<1>5. QED
  BY <1>2, <1>3, <1>4 DEF WriterInv

-----------------------------------------------------------------------------
(* Queues.                                                                 *)

LEMMA Appended ==
  ASSUME NEW S, NEW q \in Seq(S), NEW x \in S
  PROVE  /\ Append(q, x) \in Seq(S)
         /\ \A i \in DOMAIN Append(q, x) :
              \/ i \in DOMAIN q /\ Append(q, x)[i] = q[i]
              \/ i = Len(q) + 1 /\ i \notin DOMAIN q /\ Append(q, x)[i] = x
BY AppendProperties

LEMMA Taken ==
  ASSUME NEW S, NEW q \in Seq(S), q # <<>>
  PROVE  /\ Tail(q) \in Seq(S) /\ 1 \in DOMAIN q /\ Head(q) = q[1] /\ Head(q) \in S
         /\ \A i \in DOMAIN Tail(q) :
              i \in Nat /\ i + 1 \in DOMAIN q /\ i + 1 # 1 /\ Tail(q)[i] = q[i + 1]
BY HeadTailProperties

-----------------------------------------------------------------------------
(* Callers.                                                                *)

LEMMA CallStep == ASSUME WriterInv, NEW c \in Callers, Call(c) PROVE WriterInv'
<1> DEFINE a == IF registry = 0 THEN stops + 1 ELSE registry
<1>1. /\ caller[c].pc = "idle" /\ registry' = a /\ calls' = [calls EXCEPT ![c] = @ + 1]
      /\ caller' = [caller EXCEPT ![c] = [pc |-> "start", actor |-> a, reply |-> "none"]]
      /\ calls[c] < MaxCalls
      /\ UNCHANGED <<queue, thread, writer, spawned, database, result, stopping>>
  BY DEF Call
<1>2. a \in Actors
  BY ConstantFacts DEF WriterInv, TypeOK, Actors
<1>3. [pc |-> "start", actor |-> a, reply |-> "none"] \in Asked
  BY <1>2 DEF Asked
<1>4. TypeOK'
  <2>1. registry' \in {0} \union Actors
    BY <1>1, <1>2
  <2>2. caller' \in [Callers -> {NoCall} \union Asked]
    BY <1>1, <1>3 DEF WriterInv, TypeOK, Asked
  <2>3. calls' \in [Callers -> 0..MaxCalls]
    BY <1>1, ConstantFacts DEF WriterInv, TypeOK
  <2>4. QED
    BY <1>1, <2>1, <2>2, <2>3 DEF WriterInv, TypeOK, Asked, database, stopping
<1>5. \A d \in Callers : Waiting(d) => d # c /\ Waiting(d)'
  BY <1>1 DEF WriterInv, TypeOK, Waiting
<1>6. Requests'
  BY <1>1, <1>5, ConstantFacts
  DEF WriterInv, TypeOK, Requests, FreshOK, QueueOK, OnceQueued, BusyOK, OnceServed, Busy
<1>7. ThreadsOK'
  BY <1>1 DEF WriterInv, ThreadsOK, database
<1>8. QED
  BY <1>4, <1>6, <1>7 DEF WriterInv

\* The step of a caller that is not waiting, and stays so.
LEMMA CallerMoves ==
  ASSUME WriterInv, NEW c \in Callers, NEW r \in Asked, ~Waiting(c),
         caller' = [caller EXCEPT ![c] = r]
  PROVE  /\ caller' \in [Callers -> {NoCall} \union Asked]
         /\ \A d \in Callers : Waiting(d) => d # c /\ Waiting(d)'
BY DEF WriterInv, TypeOK, Waiting, Asked

LEMMA StartStep == ASSUME WriterInv, NEW c \in Callers, Start(c) PROVE WriterInv'
<1> DEFINE a == caller[c].actor
           r == [caller[c] EXCEPT !.pc = "put"]
<1>1. /\ caller[c].pc = "start" /\ caller' = [caller EXCEPT ![c] = r]
      /\ UNCHANGED <<registry, queue, database, result, calls, stopping>>
  BY DEF Start
<1>2. caller[c] \in Asked /\ r \in Asked /\ a \in Actors
  <2>1. caller[c] \in Asked
    BY <1>1 DEF WriterInv, TypeOK, NoCall, Asked
  <2>2. QED
    BY <2>1 DEF Asked
<1>3. /\ caller' \in [Callers -> {NoCall} \union Asked]
      /\ \A d \in Callers : Waiting(d) => d # c /\ Waiting(d)'
  BY <1>1, <1>2, CallerMoves DEF Waiting
<1>4. CASE UNCHANGED <<thread, writer, spawned>>
  <2>1. TypeOK'
    BY <1>1, <1>3, <1>4 DEF WriterInv, TypeOK, Asked, database, stopping
  <2>2. Requests'
    BY <1>1, <1>3, <1>4, ConstantFacts
    DEF WriterInv, TypeOK, Requests, FreshOK, QueueOK, OnceQueued, BusyOK, OnceServed, Busy
  <2>3. ThreadsOK'
    BY <1>1, <1>4 DEF WriterInv, ThreadsOK, database
  <2>4. QED
    BY <2>1, <2>2, <2>3 DEF WriterInv
<1>5. CASE /\ spawned < MaxThreads /\ spawned' = spawned + 1
           /\ thread' = [thread EXCEPT ![a] = spawned + 1]
           /\ writer' = [writer EXCEPT ![spawned + 1] = [NoWriter EXCEPT !.actor = a, !.pc = "get"]]
  <2>1. PICK w \in Threads : w = spawned + 1
    BY <1>5, ConstantFacts DEF WriterInv, TypeOK, Threads
  <2> DEFINE new == [NoWriter EXCEPT !.actor = a, !.pc = "get"]
  <2>2. new \in WriterRow /\ new.pc = "get" /\ new.actor = a
    BY <1>2 DEF NoWriter, WriterRow
  <2>3. /\ writer[w].pc = "none" /\ writer' = [writer EXCEPT ![w] = new]
        /\ writer \in [Threads -> WriterRow] /\ writer' \in [Threads -> WriterRow]
    BY <1>5, <2>1, <2>2, ConstantFacts DEF WriterInv, TypeOK, ThreadsOK, WriterRow
  <2>4. thread' \in [Actors -> {0} \union Threads] /\ spawned' \in 0..MaxThreads
    <3>1. thread' = [thread EXCEPT ![a] = w]
      BY <1>5, <2>1
    <3>2. thread' \in [Actors -> {0} \union Threads]
      BY <1>2, <3>1 DEF WriterInv, TypeOK
    <3>3. QED
      BY <1>5, <3>2, ConstantFacts DEF WriterInv, TypeOK
  <2>5. TypeOK'
    BY <1>1, <1>3, <2>3, <2>4 DEF WriterInv, TypeOK, Asked, database, stopping, WriterRow
  <2>6. \A v \in Threads : Busy(v)' => Busy(v) /\ writer'[v] = writer[v]
    BY <2>2, <2>3 DEF Busy
  <2>7. Requests'
    BY <1>1, <1>3, <2>6, ConstantFacts
    DEF WriterInv, TypeOK, Requests, FreshOK, QueueOK, OnceQueued, BusyOK, OnceServed
  <2>8. ThreadsOK'
    BY <1>1, <1>2, <1>5, <2>1, <2>2, <2>3, ConstantFacts DEF WriterInv, TypeOK, ThreadsOK, database
  <2>9. QED
    BY <2>5, <2>7, <2>8 DEF WriterInv
<1>6. QED
  BY <1>4, <1>5 DEF Start

LEMMA PutStep == ASSUME WriterInv, NEW c \in Callers, Put(c) PROVE WriterInv'
<1> DEFINE r == [caller[c] EXCEPT !.pc = "wait"]
<1>1. /\ caller[c].pc = "put" /\ caller' = [caller EXCEPT ![c] = r]
      /\ UNCHANGED <<registry, thread, writer, spawned, database, result, calls, stopping>>
  BY DEF Put
<1>2. caller[c] \in Asked /\ r \in Asked
  <2>1. caller[c] \in Asked
    BY <1>1 DEF WriterInv, TypeOK, NoCall, Asked
  <2>2. QED
    BY <2>1 DEF Asked
<1>3. PICK a \in Actors : caller[c].actor = a
  BY <1>2 DEF Asked
<1>4. queue[a] \in Seq(Callers \union {"stop"}) /\ queue' = [queue EXCEPT ![a] = Append(queue[a], c)]
  BY <1>3 DEF Put, WriterInv, TypeOK
<1>5. /\ caller' \in [Callers -> {NoCall} \union Asked]
      /\ \A d \in Callers : Waiting(d) => d # c /\ Waiting(d)'
  BY <1>1, <1>2, CallerMoves DEF Waiting
<1>6. TypeOK'
  <2>1. queue' \in [Actors -> Seq(Callers \union {"stop"})]
    BY <1>4, Appended DEF WriterInv, TypeOK
  <2>2. QED
    BY <1>1, <1>5, <2>1 DEF WriterInv, TypeOK, Asked, database, stopping
<1>7. /\ \A i \in DOMAIN queue'[a] :
           \/ i \in DOMAIN queue[a] /\ queue'[a][i] = queue[a][i]
           \/ i = Len(queue[a]) + 1 /\ queue'[a][i] = c
      /\ \A b \in Actors : b # a => queue'[b] = queue[b]
  BY <1>4, Appended DEF WriterInv, TypeOK
<1>8. \A b \in Actors : \A i \in DOMAIN queue[b] : queue[b][i] # c
  BY <1>1, ConstantFacts DEF WriterInv, Requests, QueueOK, Waiting
<1>9. QueueOK'
  <2>1. Waiting(c)'
    <3>1. caller[c].reply = "none"
      BY <1>1 DEF WriterInv, Requests, FreshOK
    <3>2. r.pc = "wait" /\ r.reply = "none" /\ caller'[c] = r
      BY <1>1, <1>2, <3>1 DEF WriterInv, TypeOK, Asked
    <3>3. QED
      BY <3>2 DEF Waiting
  <2>2. ASSUME NEW b \in Actors, NEW i \in DOMAIN queue'[b], queue'[b][i] # "stop"
        PROVE  caller'[queue'[b][i]].pc = "wait" /\ caller'[queue'[b][i]].reply = "none"
    <3>1. CASE i \in DOMAIN queue[b] /\ queue'[b][i] = queue[b][i]
      <4>1. queue[b][i] \in Callers
        BY <2>2, <3>1 DEF WriterInv, TypeOK
      <4>2. Waiting(queue[b][i])
        BY <2>2, <3>1 DEF WriterInv, Requests, QueueOK
      <4>3. QED
        BY <1>5, <3>1, <4>1, <4>2 DEF Waiting
    <3>2. CASE queue'[b][i] = c
      BY <2>1, <3>2 DEF Waiting
    <3>3. QED
      BY <1>7, <3>1, <3>2
  <2>3. QED
    BY <2>2 DEF QueueOK, Waiting
<1>10. OnceQueued'
  BY <1>7, <1>8 DEF WriterInv, Requests, OnceQueued
<1>11. BusyOK' /\ OnceServed'
  <2>1. \A w \in Threads : Busy(w) => writer[w].op # c
    BY <1>1 DEF WriterInv, Requests, BusyOK, Waiting
  <2>2. QED
    BY <1>1, <1>5, <1>7, <2>1 DEF WriterInv, Requests, BusyOK, OnceServed, Busy
<1>12. ThreadsOK'
  BY <1>1 DEF WriterInv, ThreadsOK, database
<1>13. FreshOK'
  BY <1>1, <1>2 DEF WriterInv, TypeOK, Requests, FreshOK, Asked
<1>14. QED
  BY <1>6, <1>9, <1>10, <1>11, <1>12, <1>13 DEF WriterInv, Requests

LEMMA ReturnStep == ASSUME WriterInv, NEW c \in Callers, Return(c) PROVE WriterInv'
<1>1. /\ caller[c].pc = "wait" /\ caller[c].reply # "none"
      /\ result' = [result EXCEPT ![c] = caller[c].reply]
      /\ caller' = [caller EXCEPT ![c] = NoCall]
      /\ UNCHANGED <<actors, database, calls, stopping>>
  BY DEF Return
<1>2. caller[c] \in Asked
  BY <1>1 DEF WriterInv, TypeOK, NoCall, Asked
<1>3. TypeOK'
  <2>1. result' \in [Callers -> {"none", "ok", "error"}]
    BY <1>1, <1>2 DEF WriterInv, TypeOK, Asked
  <2>2. caller' \in [Callers -> {NoCall} \union Asked]
    BY <1>1 DEF WriterInv, TypeOK, Asked
  <2>3. QED
    BY <1>1, <2>1, <2>2 DEF WriterInv, TypeOK, Asked, actors, database, stopping
<1>4. \A d \in Callers : Waiting(d) => d # c /\ Waiting(d)'
  BY <1>1 DEF WriterInv, TypeOK, Waiting
<1>5. Requests'
  BY <1>1, <1>4, ConstantFacts
  DEF WriterInv, TypeOK, Requests, FreshOK, QueueOK, OnceQueued, BusyOK, OnceServed, Busy, actors, NoCall
<1>6. ThreadsOK'
  BY <1>1 DEF WriterInv, ThreadsOK, actors, database
<1>7. QED
  BY <1>3, <1>5, <1>6 DEF WriterInv

-----------------------------------------------------------------------------
(* Writer threads.                                                         *)

LEMMA TakeStep == ASSUME WriterInv, NEW w \in Threads, Take(w) PROVE WriterInv'
<1>1. PICK a \in Actors : writer[w].actor = a
  BY DEF Take, WriterInv, ThreadsOK
<1>2. PICK op \in Callers \union {"stop"} : op = Head(queue[a])
  BY <1>1, Taken DEF Take, WriterInv, TypeOK
<1>3. /\ writer[w].pc = "get" /\ queue[a] # <<>>
      /\ queue' = [queue EXCEPT ![a] = Tail(queue[a])]
      /\ \/ /\ op = "stop" /\ writer' = [writer EXCEPT ![w].pc = "exit"]
            /\ stopper' = [stopper EXCEPT !.pc = "join"]
         \/ /\ op # "stop" /\ writer' = [writer EXCEPT ![w].pc = "open", ![w].op = op]
            /\ UNCHANGED stopper
      /\ UNCHANGED <<registry, thread, spawned, database, clients, stops>>
  BY <1>1, <1>2 DEF Take
<1>4. /\ Tail(queue[a]) \in Seq(Callers \union {"stop"})
      /\ 1 \in DOMAIN queue[a] /\ op = queue[a][1]
      /\ \A i \in DOMAIN Tail(queue[a]) :
           i \in Nat /\ i + 1 \in DOMAIN queue[a] /\ i + 1 # 1 /\ Tail(queue[a])[i] = queue[a][i + 1]
  BY <1>2, <1>3, Taken DEF WriterInv, TypeOK
<1>5. /\ queue'[a] = Tail(queue[a]) /\ \A b \in Actors : b # a => queue'[b] = queue[b]
      /\ queue' \in [Actors -> Seq(Callers \union {"stop"})]
  BY <1>3, <1>4 DEF WriterInv, TypeOK
<1> DEFINE At(b, i) == IF b = a THEN i + 1 ELSE i
<1>17. ASSUME NEW b \in Actors, NEW i \in DOMAIN queue'[b]
       PROVE  /\ i \in Nat /\ At(b, i) \in DOMAIN queue[b] /\ queue'[b][i] = queue[b][At(b, i)]
              /\ ~ (b = a /\ At(b, i) = 1)
  <2>1. CASE b = a
    BY <1>4, <1>5, <1>17, <2>1
  <2>2. CASE b # a
    BY <1>5, <1>17, <2>2 DEF WriterInv, TypeOK
  <2>3. QED
    BY <2>1, <2>2
<1>6. \A v \in Threads : v # w => writer'[v] = writer[v]
  BY <1>3 DEF WriterInv, TypeOK
<1>7. /\ writer'[w].actor = a /\ writer'[w].pc = IF op = "stop" THEN "exit" ELSE "open"
      /\ op # "stop" => writer'[w].op = op
      /\ writer' \in [Threads -> WriterRow]
  <2>1. writer \in [Threads -> WriterRow]
    BY DEF WriterInv, TypeOK, WriterRow
  <2>2. CASE op = "stop"
    BY <1>1, <1>3, <2>1, <2>2 DEF WriterRow
  <2>3. CASE op # "stop"
    <3>1. writer' = [writer EXCEPT ![w] = [writer[w] EXCEPT !.pc = "open", !.op = op]]
      BY <1>3, <2>1, <2>3
    <3>2. QED
      <4>1. writer'[w] = [writer[w] EXCEPT !.pc = "open", !.op = op]
        BY <2>1, <3>1
      <4>2. writer[w] \in WriterRow
        BY <2>1
      <4>3. /\ writer'[w] \in WriterRow /\ writer'[w].op = op /\ writer'[w].pc = "open"
            /\ writer'[w].actor = writer[w].actor
        BY <4>1, <4>2 DEF WriterRow
      <4>4. QED
        BY <1>1, <2>1, <2>3, <3>1, <4>3
  <2>4. QED
    BY <2>2, <2>3
<1>8. TypeOK'
  <2>1. stopper' \in [pc : {"idle", "stop", "wait", "join"}, actor : {0} \union Actors]
    BY <1>3 DEF WriterInv, TypeOK
  <2>2. QED
    BY <1>3, <1>5, <1>7, <2>1 DEF WriterInv, TypeOK, database, clients, WriterRow
<1>9. \A d \in Callers : Waiting(d) => Waiting(d)'
  BY <1>3 DEF Waiting, clients
<1>10. QueueOK'
  <2>1. ASSUME NEW b \in Actors, NEW i \in DOMAIN queue'[b], queue'[b][i] # "stop"
        PROVE  Waiting(queue'[b][i])
    BY <1>17, <2>1 DEF WriterInv, Requests, QueueOK
  <2>2. QED
    BY <1>3, <2>1 DEF QueueOK, Waiting, clients
<1>11. OnceQueued'
  <2>1. ASSUME NEW b \in Actors, NEW d \in Actors, NEW i \in DOMAIN queue'[b],
               NEW j \in DOMAIN queue'[d], queue'[b][i] # "stop", queue'[b][i] = queue'[d][j]
        PROVE  b = d /\ i = j
    <3>1. b = d /\ At(b, i) = At(d, j)
      BY <1>17, <2>1 DEF WriterInv, Requests, OnceQueued
    <3>2. QED
      BY <1>17, <3>1
  <2>2. QED
    BY <2>1 DEF OnceQueued
<1>12. ASSUME NEW b \in Actors, NEW i \in DOMAIN queue'[b], op # "stop" PROVE queue'[b][i] # op
  BY <1>4, <1>12, <1>17 DEF WriterInv, Requests, OnceQueued
<1>13. BusyOK'
  <2>1. ASSUME NEW v \in Threads, Busy(v)', v # w
        PROVE  /\ writer'[v].op \in Callers /\ Waiting(writer[v].op)
               /\ \A b \in Actors : \A i \in DOMAIN queue'[b] : queue'[b][i] # writer'[v].op
    <3>1. Busy(v) /\ writer'[v] = writer[v]
      BY <1>6, <2>1 DEF Busy
    <3>2. QED
      BY <1>17, <3>1 DEF WriterInv, Requests, BusyOK
  <2>2. ASSUME Busy(w)'
        PROVE  /\ writer'[w].op \in Callers /\ Waiting(writer'[w].op)
               /\ \A b \in Actors : \A i \in DOMAIN queue'[b] : queue'[b][i] # writer'[w].op
    BY <1>4, <1>7, <1>12, <2>2 DEF WriterInv, Requests, QueueOK, Busy
  <2>3. QED
    BY <1>3, <1>6, <2>1, <2>2 DEF BusyOK, Waiting, clients
<1>14. OnceServed'
  <2>1. \A v \in Threads : Busy(v) => writer[v].op # op
    BY <1>4 DEF WriterInv, Requests, BusyOK
  <2>2. QED
    BY <1>6, <1>7, <2>1 DEF WriterInv, Requests, OnceServed, Busy
<1>15. ThreadsOK'
  BY <1>1, <1>3, <1>6, <1>7 DEF WriterInv, ThreadsOK, database
<1>16. QED
  BY <1>3, <1>8, <1>10, <1>11, <1>13, <1>14, <1>15 DEF WriterInv, Requests, FreshOK, clients

\* A thread that goes on with the request in hand.
LEMMA Serves ==
  ASSUME WriterInv, NEW w \in Threads, NEW row \in WriterRow, Busy(w),
         row.pc \in {"open", "written", "answer"}, row.op = writer[w].op,
         writer' = [writer EXCEPT ![w] = row], UNCHANGED <<queue, caller>>
  PROVE  /\ Requests' /\ writer' \in [Threads -> WriterRow]
         /\ writer'[w] = row /\ \A v \in Threads : v # w => writer'[v] = writer[v]
<1>1. /\ writer' \in [Threads -> WriterRow] /\ writer'[w] = row
      /\ \A v \in Threads : v # w => writer'[v] = writer[v]
  BY DEF WriterInv, TypeOK, WriterRow
<1>2. \A v \in Threads : writer'[v].op = writer[v].op /\ (Busy(v)' => Busy(v))
  BY <1>1 DEF Busy
<1>3. FreshOK' /\ QueueOK' /\ OnceQueued'
  BY DEF WriterInv, Requests, FreshOK, QueueOK, OnceQueued, Waiting
<1>4. BusyOK' /\ OnceServed'
  BY <1>2 DEF WriterInv, Requests, BusyOK, OnceServed, Waiting
<1>5. QED
  BY <1>1, <1>3, <1>4 DEF Requests

LEMMA WriteStep == ASSUME WriterInv, NEW w \in Threads, Write(w) PROVE WriterInv'
<1> DEFINE row == [writer[w] EXCEPT !.pc = "written"]
<1>1. /\ writer[w].pc = "open" /\ lock = 0 /\ lock' = w /\ writer' = [writer EXCEPT ![w] = row]
      /\ UNCHANGED <<registry, queue, thread, spawned, log, clients, stopping>>
  BY DEF Write
<1>2. row \in WriterRow /\ row.pc = "written" /\ row.op = writer[w].op /\ row.actor = writer[w].actor
  BY Rows DEF WriterRow
<1>3. /\ Requests' /\ writer' \in [Threads -> WriterRow]
      /\ writer'[w] = row /\ \A v \in Threads : v # w => writer'[v] = writer[v]
  BY <1>1, <1>2, Serves DEF Busy, clients
<1>4. TypeOK'
  BY <1>1, <1>3 DEF WriterInv, TypeOK, WriterRow, clients, stopping
<1>5. ThreadsOK'
  BY <1>1, <1>2, <1>3, ConstantFacts DEF WriterInv, ThreadsOK
<1>6. QED
  BY <1>3, <1>4, <1>5 DEF WriterInv

LEMMA CommitStep == ASSUME WriterInv, NEW w \in Threads, Commit(w) PROVE WriterInv'
<1> DEFINE row == [writer[w] EXCEPT !.pc = "answer", !.answer = "ok"]
<1>1. /\ writer[w].pc = "written" /\ lock' = 0 /\ log' = Append(log, writer[w].op)
      /\ writer' = [writer EXCEPT ![w] = row]
      /\ UNCHANGED <<registry, queue, thread, spawned, clients, stopping>>
  BY DEF Commit, WriterInv, TypeOK
<1>2. /\ row \in WriterRow /\ row.pc = "answer" /\ row.op = writer[w].op
      /\ row.actor = writer[w].actor /\ row.answer = "ok"
  BY Rows DEF WriterRow
<1>3. /\ Requests' /\ writer' \in [Threads -> WriterRow]
      /\ writer'[w] = row /\ \A v \in Threads : v # w => writer'[v] = writer[v]
  BY <1>1, <1>2, Serves DEF Busy, clients
<1>4. log' \in Seq(Callers)
  <2>1. writer[w].op \in Callers /\ log \in Seq(Callers)
    BY <1>1 DEF WriterInv, TypeOK, Requests, BusyOK, Busy
  <2>2. QED
    BY <1>1, <2>1, Appended
<1>5. TypeOK'
  BY <1>1, <1>3, <1>4 DEF WriterInv, TypeOK, WriterRow, clients, stopping
<1>6. ThreadsOK'
  BY <1>1, <1>2, <1>3, ConstantFacts DEF WriterInv, ThreadsOK
<1>7. QED
  BY <1>3, <1>5, <1>6 DEF WriterInv

LEMMA RaiseStep == ASSUME WriterInv, NEW w \in Threads, Raise(w) PROVE WriterInv'
<1> DEFINE row == [writer[w] EXCEPT !.pc = "answer", !.answer = "error"]
<1>1. /\ writer[w].pc \in {"open", "written"} /\ lock' = IF lock = w THEN 0 ELSE lock
      /\ writer' = [writer EXCEPT ![w] = row]
      /\ UNCHANGED <<registry, queue, thread, spawned, log, clients, stopping>>
  BY DEF Raise, Unlock, WriterInv, TypeOK
<1>2. /\ row \in WriterRow /\ row.pc = "answer" /\ row.op = writer[w].op
      /\ row.actor = writer[w].actor /\ row.answer = "error"
  BY Rows DEF WriterRow
<1>3. /\ Requests' /\ writer' \in [Threads -> WriterRow]
      /\ writer'[w] = row /\ \A v \in Threads : v # w => writer'[v] = writer[v]
  BY <1>1, <1>2, Serves DEF Busy, clients
<1>4. TypeOK'
  BY <1>1, <1>3 DEF WriterInv, TypeOK, WriterRow, clients, stopping
<1>5. ThreadsOK'
  BY <1>1, <1>2, <1>3, ConstantFacts DEF WriterInv, ThreadsOK
<1>6. QED
  BY <1>3, <1>4, <1>5 DEF WriterInv

\* A thread that has nothing in hand any more.
LEMMA Lets ==
  ASSUME WriterInv, NEW w \in Threads, NEW row \in WriterRow,
         row.pc \notin {"open", "written", "answer"},
         writer' = [writer EXCEPT ![w] = row], UNCHANGED queue,
         \A d \in Callers : Waiting(d) => Waiting(d)' \/ (Busy(w) /\ d = writer[w].op),
         FreshOK'
  PROVE  /\ Requests' /\ writer' \in [Threads -> WriterRow]
         /\ writer'[w] = row /\ \A v \in Threads : v # w => writer'[v] = writer[v]
<1>1. /\ writer' \in [Threads -> WriterRow] /\ writer'[w] = row
      /\ \A v \in Threads : v # w => writer'[v] = writer[v]
  BY DEF WriterInv, TypeOK, WriterRow
<1>2. \A v \in Threads : Busy(v)' => v # w /\ Busy(v) /\ writer'[v].op = writer[v].op
  BY <1>1 DEF Busy
<1>3. QueueOK'
  <2>1. ASSUME NEW a \in Actors, NEW i \in DOMAIN queue[a], queue[a][i] # "stop"
        PROVE  caller'[queue[a][i]].pc = "wait" /\ caller'[queue[a][i]].reply = "none"
    <3>1. queue[a][i] \in Callers /\ Waiting(queue[a][i])
      BY <2>1 DEF WriterInv, TypeOK, Requests, QueueOK
    <3>2. ~ (Busy(w) /\ queue[a][i] = writer[w].op)
      BY DEF WriterInv, Requests, BusyOK
    <3>3. QED
      BY <3>1, <3>2 DEF Waiting
  <2>2. QED
    BY <2>1 DEF QueueOK, Waiting
<1>4. OnceQueued'
  BY DEF WriterInv, Requests, OnceQueued
<1>5. BusyOK'
  <2>1. ASSUME NEW v \in Threads, Busy(v)'
        PROVE  /\ writer'[v].op \in Callers
               /\ caller'[writer'[v].op].pc = "wait" /\ caller'[writer'[v].op].reply = "none"
               /\ \A a \in Actors : \A i \in DOMAIN queue[a] : queue[a][i] # writer'[v].op
    <3>1. v # w /\ Busy(v) /\ writer'[v].op = writer[v].op
      BY <1>2, <2>1
    <3>2. writer[v].op \in Callers /\ Waiting(writer[v].op)
      BY <3>1 DEF WriterInv, Requests, BusyOK
    <3>3. ~ (Busy(w) /\ writer[v].op = writer[w].op)
      BY <3>1 DEF WriterInv, Requests, OnceServed
    <3>4. caller'[writer[v].op].pc = "wait" /\ caller'[writer[v].op].reply = "none"
      BY <3>2, <3>3 DEF Waiting
    <3>5. QED
      BY <3>1, <3>2, <3>4 DEF WriterInv, Requests, BusyOK
  <2>2. QED
    BY <2>1 DEF BusyOK, Waiting
<1>6. OnceServed'
  BY <1>2 DEF WriterInv, Requests, OnceServed
<1>7. QED
  BY <1>1, <1>3, <1>4, <1>5, <1>6 DEF Requests

LEMMA AnswerStep == ASSUME WriterInv, NEW w \in Threads, Answer(w) PROVE WriterInv'
<1> DEFINE row == [NoWriter EXCEPT !.actor = writer[w].actor, !.pc = "get"]
<1>1. PICK c \in Callers : c = writer[w].op /\ Waiting(c)
  BY DEF Answer, WriterInv, Requests, BusyOK, Busy
<1>2. /\ writer[w].pc = "answer"
      /\ caller' = [caller EXCEPT ![c] = [caller[c] EXCEPT !.reply = writer[w].answer]]
      /\ writer' = [writer EXCEPT ![w] = row]
      /\ UNCHANGED <<registry, queue, thread, spawned, database, result, calls, stopping>>
  BY <1>1 DEF Answer
<1>3. row \in WriterRow /\ row.pc = "get" /\ row.actor = writer[w].actor
  BY <1>2 DEF WriterInv, TypeOK, ThreadsOK, NoWriter, WriterRow
<1>4. caller[c] \in Asked /\ caller[c].pc = "wait" /\ writer[w].answer \in {"ok", "error"}
  BY <1>1, <1>2 DEF WriterInv, TypeOK, ThreadsOK, Waiting, NoCall, Asked
<1>5. [caller[c] EXCEPT !.reply = writer[w].answer] \in Asked
  BY <1>4 DEF Asked
<1>6. /\ caller' \in [Callers -> {NoCall} \union Asked]
      /\ caller'[c].pc = "wait" /\ \A d \in Callers : d # c => caller'[d] = caller[d]
  BY <1>2, <1>4, <1>5 DEF WriterInv, TypeOK, Asked
<1>7. FreshOK' /\ \A d \in Callers : Waiting(d) => Waiting(d)' \/ (Busy(w) /\ d = writer[w].op)
  BY <1>1, <1>2, <1>6 DEF WriterInv, Requests, FreshOK, Waiting, Busy
<1>8. /\ Requests' /\ writer' \in [Threads -> WriterRow]
      /\ writer'[w] = row /\ \A v \in Threads : v # w => writer'[v] = writer[v]
  BY <1>2, <1>3, <1>7, Lets
<1>9. TypeOK'
  BY <1>2, <1>6, <1>8 DEF WriterInv, TypeOK, WriterRow, Asked, database, stopping
<1>10. ThreadsOK'
  BY <1>2, <1>3, <1>8 DEF WriterInv, ThreadsOK, database
<1>11. QED
  BY <1>8, <1>9, <1>10 DEF WriterInv

LEMMA DieStep == ASSUME WriterInv, NEW w \in Threads, Die(w) PROVE WriterInv'
<1> DEFINE row == [NoWriter EXCEPT !.pc = "dead"]
<1>1. /\ writer[w].pc = "exit" /\ writer' = [writer EXCEPT ![w] = row]
      /\ UNCHANGED <<registry, queue, thread, spawned, database, clients, stopping>>
  BY DEF Die
<1>2. row \in WriterRow /\ row.pc = "dead"
  BY DEF NoWriter, WriterRow
<1>3. FreshOK' /\ \A d \in Callers : Waiting(d) => Waiting(d)'
  BY <1>1 DEF WriterInv, Requests, FreshOK, Waiting, clients
<1>4. /\ Requests' /\ writer' \in [Threads -> WriterRow]
      /\ writer'[w] = row /\ \A v \in Threads : v # w => writer'[v] = writer[v]
  BY <1>1, <1>2, <1>3, Lets
<1>5. TypeOK'
  BY <1>1, <1>4 DEF WriterInv, TypeOK, WriterRow, database, clients, stopping
<1>6. ThreadsOK'
  BY <1>1, <1>2, <1>4 DEF WriterInv, ThreadsOK, database
<1>7. QED
  BY <1>4, <1>5, <1>6 DEF WriterInv

-----------------------------------------------------------------------------
(* stop_write_actors.                                                      *)

LEMMA ClearStep == ASSUME WriterInv, Clear PROVE WriterInv'
<1>1. TypeOK'
  BY ConstantFacts DEF Clear, WriterInv, TypeOK, database, clients
<1>2. Requests' /\ ThreadsOK'
  BY DEF Clear, WriterInv, Requests, FreshOK, QueueOK, OnceQueued, BusyOK, OnceServed, Busy,
     Waiting, ThreadsOK, database, clients
<1>3. QED
  BY <1>1, <1>2 DEF WriterInv

LEMMA ForgetStep == ASSUME WriterInv, Forget PROVE WriterInv'
<1>1. TypeOK'
  BY DEF Forget, WriterInv, TypeOK, database, clients
<1>2. Requests' /\ ThreadsOK'
  BY DEF Forget, WriterInv, Requests, FreshOK, QueueOK, OnceQueued, BusyOK, OnceServed, Busy,
     Waiting, ThreadsOK, database, clients
<1>3. QED
  BY <1>1, <1>2 DEF WriterInv

LEMMA StopStep == ASSUME WriterInv, Stop PROVE WriterInv'
<1> DEFINE a == stopper.actor
<1>1. UNCHANGED <<registry, writer, spawned, database, clients, stops>>
  BY DEF Stop
<1>2. stopper' \in [pc : {"idle", "stop", "wait", "join"}, actor : {0} \union Actors]
  BY DEF Stop, WriterInv, TypeOK
<1>3. thread' \in [Actors -> {0} \union Threads]
  BY DEF Stop, WriterInv, TypeOK
<1>4. /\ queue' \in [Actors -> Seq(Callers \union {"stop"})]
      /\ \A b \in Actors : \A i \in DOMAIN queue'[b] :
           (i \in DOMAIN queue[b] /\ queue'[b][i] = queue[b][i]) \/ queue'[b][i] = "stop"
  <2>1. CASE UNCHANGED queue
    BY <2>1 DEF WriterInv, TypeOK
  <2>2. CASE queue' = [queue EXCEPT ![a] = Append(@, "stop")] /\ a \in Actors
    <3> HIDE DEF a
    <3>1. queue[a] \in Seq(Callers \union {"stop"})
      BY <2>2, Queues
    <3>2. /\ Append(queue[a], "stop") \in Seq(Callers \union {"stop"})
          /\ \A i \in DOMAIN Append(queue[a], "stop") :
               \/ i \in DOMAIN queue[a] /\ Append(queue[a], "stop")[i] = queue[a][i]
               \/ Append(queue[a], "stop")[i] = "stop"
      BY <3>1, Appended
    <3>3. queue'[a] = Append(queue[a], "stop") /\ \A b \in Actors : b # a => queue'[b] = queue[b]
      BY <2>2, Queues
    <3>4. queue' \in [Actors -> Seq(Callers \union {"stop"})]
      BY <2>2, <3>2, Queues
    <3>5. QED
      BY <3>2, <3>3, <3>4
  <2>3. CASE queue' = [queue EXCEPT ![a] = Append(@, "stop")] /\ a \notin Actors
    <3>1. queue' = queue
      BY <2>3, Queues
    <3>2. QED
      BY <3>1, Queues
  <2>4. QED
    BY <2>1, <2>2, <2>3 DEF Stop
<1>5. TypeOK'
  BY <1>1, <1>2, <1>3, <1>4 DEF WriterInv, TypeOK, database, clients
<1>6. FreshOK' /\ QueueOK'
  BY <1>1, <1>4 DEF WriterInv, Requests, FreshOK, QueueOK, Waiting, clients
<1>7. OnceQueued'
  <2>1. ASSUME NEW b \in Actors, NEW d \in Actors, NEW i \in DOMAIN queue'[b],
               NEW j \in DOMAIN queue'[d], queue'[b][i] # "stop", queue'[b][i] = queue'[d][j]
        PROVE  b = d /\ i = j
    <3>1. i \in DOMAIN queue[b] /\ queue'[b][i] = queue[b][i]
      BY <1>4, <2>1
    <3>2. j \in DOMAIN queue[d] /\ queue'[d][j] = queue[d][j]
      BY <1>4, <2>1
    <3>3. queue[b][i] # "stop" /\ queue[b][i] = queue[d][j]
      <4>1. queue'[d][j] # "stop"
        BY <2>1
      <4>2. queue'[d][j] = queue[d][j] /\ j \in DOMAIN queue[d]
        BY <1>4, <4>1
      <4>3. QED
        BY <2>1, <3>1, <4>2
    <3>4. QED
      BY <3>1, <3>2, <3>3 DEF WriterInv, Requests, OnceQueued
  <2>2. QED
    BY <2>1 DEF OnceQueued
<1>8. BusyOK' /\ OnceServed'
  BY <1>1, <1>4, ConstantFacts DEF WriterInv, Requests, BusyOK, OnceServed, Busy, Waiting, clients
<1>9. ThreadsOK'
  BY <1>1 DEF WriterInv, ThreadsOK, database
<1>10. QED
  BY <1>5, <1>6, <1>7, <1>8, <1>9 DEF WriterInv, Requests

LEMMA InvStep == ASSUME WriterInv, [Next]_vars PROVE WriterInv'
<1>1. CASE UNCHANGED vars
  <2>1. TypeOK'
    BY <1>1 DEF WriterInv, TypeOK, vars, actors, database, clients, stopping
  <2>2. Requests' /\ ThreadsOK'
    BY <1>1 DEF WriterInv, Requests, FreshOK, QueueOK, OnceQueued, BusyOK, OnceServed, Busy, Waiting,
       ThreadsOK, vars, actors, database, clients
  <2>3. QED
    BY <2>1, <2>2 DEF WriterInv
<1>2. QED
  BY <1>1, CallStep, StartStep, PutStep, ReturnStep, TakeStep, WriteStep, CommitStep, RaiseStep,
     AnswerStep, DieStep, ClearStep, StopStep, ForgetStep
  DEF Next, CallerStep, WriterStep

\* Every step keeps the actors, their threads and their callers within what
\* they can hold.
THEOREM TypeCorrect == Spec => []TypeOK
<1>1. WriterInv => TypeOK
  BY DEF WriterInv
<1>2. QED
  BY <1>1, InvInit, InvStep, PTL DEF Spec

-----------------------------------------------------------------------------
(* One writer.                                                             *)

\* Before the first stop there is one actor, no request to stop, and no thread
\* but the one that actor remembers.
Early ==
  stops = 0 =>
    /\ stopper.pc = "idle" /\ registry \in {0, 1}
    /\ \A i \in DOMAIN queue[1] : queue[1][i] # "stop"
    /\ \A c \in Callers : caller[c].pc # "idle" => caller[c].actor = 1
    /\ \A w \in Threads : writer[w].pc # "none" =>
         writer[w].pc \notin {"exit", "dead"} /\ writer[w].actor = 1 /\ w = thread[1]

LEMMA EarlyInit == Init => Early
BY ConstantFacts DEF Init, Early, NoWriter, NoCall

LEMMA EarlyStart ==
  ASSUME WriterInv, Early, NEW c \in Callers, Start(c), stops = 0 PROVE Early'
<1>1. /\ caller[c].pc = "start" /\ caller[c].actor = 1
      /\ caller' = [caller EXCEPT ![c].pc = "put"]
      /\ UNCHANGED <<registry, queue, stopper, stops>>
  BY DEF Start, Early, stopping
<1>2. \A d \in Callers : caller'[d].pc # "idle" => caller'[d].actor = 1
  <2>1. \A d \in Callers : d # c => caller'[d] = caller[d]
    BY <1>1 DEF WriterInv, TypeOK
  <2>2. caller'[c].actor = 1
    <3>1. caller[c] \in Asked
      BY <1>1 DEF WriterInv, TypeOK, NoCall, Asked
    <3>2. caller'[c] = [caller[c] EXCEPT !.pc = "put"]
      BY <1>1 DEF WriterInv, TypeOK
    <3>3. QED
      BY <1>1, <3>1, <3>2 DEF Asked
  <2>3. QED
    BY <2>1, <2>2 DEF Early
<1>3. CASE UNCHANGED <<thread, writer, spawned>>
  BY <1>1, <1>2, <1>3 DEF Early
<1>4. CASE /\ thread[1] \notin Alive /\ spawned < MaxThreads
           /\ thread' = [thread EXCEPT ![1] = spawned + 1]
           /\ writer' = [writer EXCEPT ![spawned + 1] = [NoWriter EXCEPT !.actor = 1, !.pc = "get"]]
  <2>1. \A w \in Threads : writer[w].pc = "none"
    BY <1>4 DEF Early, Alive
  <2>2. PICK w \in Threads : w = spawned + 1
    BY <1>4, ConstantFacts DEF WriterInv, TypeOK, Threads
  <2>3. thread'[1] = w /\ \A v \in Threads : v # w => writer'[v] = writer[v]
    BY <1>4, <2>2, ConstantFacts DEF WriterInv, TypeOK
  <2>4. writer'[w].actor = 1 /\ writer'[w].pc = "get"
    BY <1>4, <2>2 DEF WriterInv, TypeOK, NoWriter
  <2>5. QED
    BY <1>1, <1>2, <2>1, <2>3, <2>4 DEF Early
<1>5. QED
  BY <1>1, <1>3, <1>4 DEF Start

\* A thread at work changes its step and nothing that Early speaks of besides.
LEMMA EarlyWork ==
  ASSUME WriterInv, Early, NEW w \in Threads, writer[w].pc # "none",
         NEW row \in WriterRow, row.actor = writer[w].actor, row.pc \notin {"exit", "dead"},
         writer' = [writer EXCEPT ![w] = row],
         \A i \in DOMAIN queue'[1] : \E j \in DOMAIN queue[1] : queue'[1][i] = queue[1][j],
         \A c \in Callers : caller'[c].pc = caller[c].pc /\ caller'[c].actor = caller[c].actor,
         UNCHANGED <<registry, thread, stopper, stops>>
  PROVE  Early'
<1>1. \A v \in Threads : v # w => writer'[v] = writer[v]
  BY DEF WriterInv, TypeOK
<1>2. writer'[w] = row
  BY DEF WriterInv, TypeOK
<1>3. QED
  BY <1>1, <1>2 DEF Early

LEMMA EarlyTake ==
  ASSUME WriterInv, Early, NEW w \in Threads, Take(w), stops = 0 PROVE Early'
<1>1. writer[w].actor = 1 /\ writer[w].pc = "get" /\ queue[1] # <<>>
  BY DEF Take, Early
<1>2. queue[1] \in Seq(Callers \union {"stop"})
  BY ConstantFacts DEF WriterInv, TypeOK
<1>3. PICK op \in Callers : op = Head(queue[1])
  <2>1. Head(queue[1]) = queue[1][1] /\ 1 \in DOMAIN queue[1] /\ Head(queue[1]) \in Callers \union {"stop"}
    BY <1>1, <1>2, Taken
  <2>2. QED
    BY <2>1 DEF Early
<1>4. /\ queue' = [queue EXCEPT ![1] = Tail(queue[1])]
      /\ writer' = [writer EXCEPT ![w].pc = "open", ![w].op = op]
      /\ UNCHANGED <<registry, thread, caller, stopper, stops>>
  BY <1>1, <1>3, ConstantFacts DEF Take, clients
<1> DEFINE row == [writer[w] EXCEPT !.pc = "open", !.op = op]
<1>5. writer' = [writer EXCEPT ![w] = row]
  BY <1>4, Rows
<1>6. row \in WriterRow /\ row.pc = "open" /\ row.actor = writer[w].actor
  BY Rows DEF WriterRow
<1>7. \A i \in DOMAIN queue'[1] : \E j \in DOMAIN queue[1] : queue'[1][i] = queue[1][j]
  <2>1. queue'[1] = Tail(queue[1])
    BY <1>4, ConstantFacts DEF WriterInv, TypeOK
  <2>2. QED
    BY <1>1, <1>2, <2>1, Taken
<1>8. QED
  BY <1>1, <1>4, <1>5, <1>6, <1>7, EarlyWork

LEMMA EarlyAnswer ==
  ASSUME WriterInv, Early, NEW w \in Threads, Answer(w), stops = 0 PROVE Early'
<1> DEFINE row == [NoWriter EXCEPT !.actor = writer[w].actor, !.pc = "get"]
<1>1. /\ writer[w].pc = "answer" /\ writer' = [writer EXCEPT ![w] = row]
      /\ caller' = [caller EXCEPT ![writer[w].op].reply = writer[w].answer]
      /\ UNCHANGED <<registry, queue, thread, stopper, stops>>
  BY DEF Answer, stopping
<1>2. row \in WriterRow /\ row.pc = "get" /\ row.actor = writer[w].actor
  BY DEF WriterInv, TypeOK, NoWriter, WriterRow
<1>3. PICK c \in Callers : c = writer[w].op /\ Waiting(c)
  BY <1>1 DEF WriterInv, Requests, BusyOK, Busy
<1>4. \A d \in Callers : caller'[d].pc = caller[d].pc /\ caller'[d].actor = caller[d].actor
  <2>1. \A d \in Callers : d # c => caller'[d] = caller[d]
    BY <1>1, <1>3 DEF WriterInv, TypeOK
  <2>2. caller'[c] = [caller[c] EXCEPT !.reply = writer[w].answer]
    BY <1>1, <1>3 DEF WriterInv, TypeOK
  <2>3. caller[c] \in Asked
    BY <1>3 DEF WriterInv, TypeOK, Waiting, NoCall, Asked
  <2>4. QED
    BY <2>1, <2>2, <2>3 DEF Asked
<1>5. QED
  BY <1>1, <1>2, <1>4, EarlyWork

LEMMA EarlyServe ==
  ASSUME WriterInv, Early, NEW w \in Threads, Write(w) \/ Commit(w) \/ Raise(w), stops = 0
  PROVE  Early'
<1>1. PICK row \in WriterRow :
        /\ writer' = [writer EXCEPT ![w] = row] /\ row.actor = writer[w].actor
        /\ row.pc \in {"written", "answer"}
  <2>1. CASE Write(w)
    <3> DEFINE row == [writer[w] EXCEPT !.pc = "written"]
    <3>1. row \in WriterRow /\ row.actor = writer[w].actor /\ row.pc = "written"
      BY Rows DEF WriterRow
    <3>2. writer' = [writer EXCEPT ![w] = row]
      BY <2>1 DEF Write, WriterInv, TypeOK
    <3>3. QED
      BY <3>1, <3>2
  <2>2. CASE Commit(w)
    <3> DEFINE row == [writer[w] EXCEPT !.pc = "answer", !.answer = "ok"]
    <3>1. row \in WriterRow /\ row.actor = writer[w].actor /\ row.pc = "answer"
      BY Rows DEF WriterRow
    <3>2. writer' = [writer EXCEPT ![w] = row]
      BY <2>2 DEF Commit, WriterInv, TypeOK
    <3>3. QED
      BY <3>1, <3>2
  <2>3. CASE Raise(w)
    <3> DEFINE row == [writer[w] EXCEPT !.pc = "answer", !.answer = "error"]
    <3>1. row \in WriterRow /\ row.actor = writer[w].actor /\ row.pc = "answer"
      BY Rows DEF WriterRow
    <3>2. writer' = [writer EXCEPT ![w] = row]
      BY <2>3 DEF Raise, WriterInv, TypeOK
    <3>3. QED
      BY <3>1, <3>2
  <2>4. QED
    BY <2>1, <2>2, <2>3
<1>2. writer[w].pc # "none" /\ UNCHANGED <<registry, queue, thread, caller, stopper, stops>>
  BY DEF Write, Commit, Raise, clients, stopping
<1>3. QED
  BY <1>1, <1>2, EarlyWork

LEMMA EarlyStep == ASSUME WriterInv, Early, [Next]_vars PROVE Early'
<1>1. CASE stops # 0
  <2>1. stops' = stops \/ stops' = stops + 1
    BY DEF Next, CallerStep, WriterStep, Call, Start, Put, Return, Take, Write, Commit, Raise, Answer,
       Die, Clear, Stop, Forget, stopping, vars
  <2>2. stops \in Nat
    BY ConstantFacts DEF WriterInv, TypeOK
  <2>3. QED
    BY <1>1, <2>1, <2>2 DEF Early
<1>2. CASE stops = 0
  <2>1. CASE UNCHANGED vars
    BY <2>1 DEF Early, vars, actors, database, clients, stopping
  <2>2. ASSUME NEW c \in Callers, Call(c) PROVE Early'
    <3>1. registry' = 1 /\ caller' = [caller EXCEPT ![c] = [pc |-> "start", actor |-> 1, reply |-> "none"]]
      <4>1. registry = 0 => stops + 1 = 1
        BY <1>2
      <4>2. registry \in {0, 1}
        BY <1>2 DEF Early
      <4>3. registry' = 1
        BY <2>2, <4>1, <4>2 DEF Call
      <4>4. QED
        BY <2>2, <4>1, <4>2, <4>3 DEF Call
    <3>2. \A d \in Callers : caller'[d].pc # "idle" => caller'[d].actor = 1
      BY <1>2, <3>1 DEF WriterInv, TypeOK, Early
    <3>3. QED
      BY <1>2, <2>2, <3>1, <3>2 DEF Call, Early, stopping
  <2>3. ASSUME NEW c \in Callers, Start(c) PROVE Early'
    BY <1>2, <2>3, EarlyStart
  <2>4. ASSUME NEW c \in Callers, Put(c) PROVE Early'
    <3>1. /\ caller[c].pc = "put" /\ caller' = [caller EXCEPT ![c].pc = "wait"]
          /\ queue' = [queue EXCEPT ![caller[c].actor] = Append(@, c)] /\ caller[c].actor = 1
          /\ UNCHANGED <<registry, thread, writer, stopper, stops>>
      BY <1>2, <2>4 DEF Put, Early, stopping
    <3>2. \A i \in DOMAIN queue'[1] : queue'[1][i] # "stop"
      <4>1. queue[1] \in Seq(Callers \union {"stop"}) /\ queue'[1] = Append(queue[1], c)
        BY <3>1, ConstantFacts DEF WriterInv, TypeOK
      <4>2. QED
        BY <1>2, <4>1, Appended, ConstantFacts DEF Early
    <3>3. \A d \in Callers : caller'[d].pc # "idle" => caller'[d].actor = 1
      <4>1. \A d \in Callers : d # c => caller'[d] = caller[d]
        BY <3>1 DEF WriterInv, TypeOK
      <4>2. caller[c] \in Asked /\ caller'[c] = [caller[c] EXCEPT !.pc = "wait"]
        BY <3>1 DEF WriterInv, TypeOK, NoCall, Asked
      <4>3. caller'[c].actor = 1
        BY <3>1, <4>2 DEF Asked
      <4>4. QED
        BY <1>2, <4>1, <4>3 DEF Early
    <3>4. QED
      BY <1>2, <3>1, <3>2, <3>3 DEF Early
  <2>5. ASSUME NEW c \in Callers, Return(c) PROVE Early'
    <3>1. \A d \in Callers : caller'[d] = NoCall \/ caller'[d] = caller[d]
      BY <2>5 DEF Return, WriterInv, TypeOK
    <3>2. QED
      BY <1>2, <2>5, <3>1 DEF Return, Early, NoCall, actors, stopping
  <2>6. ASSUME NEW w \in Threads, Take(w) PROVE Early'
    BY <1>2, <2>6, EarlyTake
  <2>7. ASSUME NEW w \in Threads, Write(w) \/ Commit(w) \/ Raise(w) PROVE Early'
    BY <1>2, <2>7, EarlyServe
  <2>8. ASSUME NEW w \in Threads, Answer(w) PROVE Early'
    BY <1>2, <2>8, EarlyAnswer
  <2>9. ASSUME NEW w \in Threads, Die(w) PROVE Early'
    BY <1>2, <2>9 DEF Die, Early
  <2>10. CASE Clear \/ Stop \/ Forget
    BY <1>2, <2>10 DEF Clear, Stop, Forget, Early
  <2>11. QED
    BY <2>1, <2>2, <2>3, <2>4, <2>5, <2>6, <2>7, <2>8, <2>9, <2>10 DEF Next, CallerStep, WriterStep
<1>3. QED
  BY <1>1, <1>2

\* Until stop_write_actors runs one thread writes, the one its actor remembers,
\* and no other connection ever holds the lock of the database.
THEOREM OneWriterUntilStop == Spec => []OneWriter
<1>1. WriterInv /\ Early => OneWriter
  <2>1. WriterInv /\ lock # 0 => lock \in Alive
    BY DEF WriterInv, TypeOK, ThreadsOK, Alive
  <2>2. QED
    BY <2>1 DEF Early, OneWriter, Alive
<1>2. QED
  BY <1>1, InvInit, InvStep, EarlyInit, EarlyStep, PTL DEF Spec

-----------------------------------------------------------------------------
(* The promise.                                                            *)

Answers(wr, w, c) == wr[w].pc = "answer" /\ wr[w].op = c

PhaseOf(cl, wr, c) ==
  IF cl[c].pc = "idle" THEN "idle"
  ELSE IF cl[c].reply # "none" THEN cl[c].reply
  ELSE IF \E w \in Threads : Answers(wr, w, c)
  THEN wr[CHOOSE w \in Threads : Answers(wr, w, c)].answer
  ELSE "called"

LEMMA PhaseAnswer ==
  ASSUME NEW cl, NEW wr, NEW c, NEW w \in Threads, Answers(wr, w, c),
         \A u, v \in Threads : Answers(wr, u, c) /\ Answers(wr, v, c) => u = v,
         cl[c].pc # "idle", cl[c].reply = "none"
  PROVE  PhaseOf(cl, wr, c) = wr[w].answer
<1> DEFINE v == CHOOSE v \in Threads : Answers(wr, v, c)
<1>1. v \in Threads /\ Answers(wr, v, c)
  OBVIOUS
<1>2. v = w
  BY <1>1
<1>3. QED
  BY <1>2 DEF PhaseOf

LEMMA PhaseCases ==
  ASSUME NEW cl, NEW wr, NEW c,
         \A w, v \in Threads : Answers(wr, w, c) /\ Answers(wr, v, c) => w = v
  PROVE  /\ cl[c].pc = "idle" => PhaseOf(cl, wr, c) = "idle"
         /\ cl[c].pc # "idle" /\ cl[c].reply # "none" => PhaseOf(cl, wr, c) = cl[c].reply
         /\ cl[c].pc # "idle" /\ cl[c].reply = "none" =>
              /\ (\A w \in Threads : ~Answers(wr, w, c)) => PhaseOf(cl, wr, c) = "called"
              /\ \A w \in Threads : Answers(wr, w, c) => PhaseOf(cl, wr, c) = wr[w].answer
BY PhaseAnswer DEF PhaseOf

LEMMA PhaseNow ==
  ASSUME WriterInv, WriterInv', NEW c \in Callers
  PROVE  /\ Phase(c) = PhaseOf(caller, writer, c)
         /\ Phase(c)' = PhaseOf(caller', writer', c)
         /\ \A w, v \in Threads : Answers(writer, w, c) /\ Answers(writer, v, c) => w = v
         /\ \A w, v \in Threads : Answers(writer', w, c) /\ Answers(writer', v, c) => w = v
<1>1. Phase(c) = PhaseOf(caller, writer, c) /\ Phase(c)' = PhaseOf(caller', writer', c)
  BY DEF Phase, PhaseOf, Answers
<1>2. \A w, v \in Threads : Answers(writer, w, c) /\ Answers(writer, v, c) => w = v
  BY DEF WriterInv, Requests, OnceServed, Busy, Answers
<1>3. \A w, v \in Threads : Answers(writer', w, c) /\ Answers(writer', v, c) => w = v
  BY DEF WriterInv, Requests, OnceServed, Busy, Answers
<1>4. QED
  BY <1>1, <1>2, <1>3

LEMMA AnsweredNext ==
  ASSUME WriterInv, WriterInv', NEW c \in Callers, NEW w \in Threads, Answers(writer', w, c),
         caller'[c].pc # "idle", caller'[c].reply = "none"
  PROVE  Phase(c)' = writer'[w].answer
<1> DEFINE cl == caller'
           wr == writer'
<1>1. \A u, v \in Threads : Answers(wr, u, c) /\ Answers(wr, v, c) => u = v
  BY PhaseNow
<1>2. Answers(wr, w, c) /\ cl[c].pc # "idle" /\ cl[c].reply = "none"
  OBVIOUS
<1>3. Phase(c)' = PhaseOf(cl, wr, c)
  BY PhaseNow
<1> HIDE DEF cl, wr
<1>4. PhaseOf(cl, wr, c) = wr[w].answer
  BY <1>1, <1>2, PhaseAnswer
<1>5. QED
  BY <1>3, <1>4 DEF wr

\* A call that a step does not concern stays in its phase.
LEMMA Unmoved ==
  ASSUME WriterInv, WriterInv', NEW c \in Callers,
         caller'[c].pc = "idle" <=> caller[c].pc = "idle", caller'[c].reply = caller[c].reply,
         \A w \in Threads : Answers(writer', w, c) <=> Answers(writer, w, c),
         \A w \in Threads : Answers(writer, w, c) => writer'[w].answer = writer[w].answer
  PROVE  Phase(c)' = Phase(c)
<1>1. CASE caller[c].pc = "idle" \/ caller[c].reply # "none"
  BY <1>1, PhaseNow, PhaseCases
<1>2. CASE caller[c].pc # "idle" /\ caller[c].reply = "none"
  <2>1. CASE \A w \in Threads : ~Answers(writer, w, c)
    BY <1>2, <2>1, PhaseNow, PhaseCases
  <2>2. CASE \E w \in Threads : Answers(writer, w, c)
    BY <1>2, <2>2, PhaseNow, PhaseCases
  <2>3. QED
    BY <2>1, <2>2
<1>3. QED
  BY <1>1, <1>2

Stays   == (\A d \in Callers : Phase(d)' = Phase(d)) /\ UNCHANGED <<result, log>>
Keeps   == Promise!Next \/ Stays

LEMMA OnePhase ==
  ASSUME NEW c \in Callers, NEW p, Phase(c)' = p,
         \A d \in Callers : d # c => Phase(d)' = Phase(d)
  PROVE  [d \in Callers |-> Phase(d)]' = [[d \in Callers |-> Phase(d)] EXCEPT ![c] = p]
OBVIOUS

LEMMA ClientSteps ==
  ASSUME WriterInv, WriterInv', NEW c \in Callers, Call(c) \/ Start(c) \/ Put(c) \/ Return(c)
  PROVE  Keeps
<1>1. \A w \in Threads : Answers(writer, w, c) => Waiting(c)
  BY DEF WriterInv, Requests, BusyOK, Busy, Answers
<1>2. CASE Call(c)
  <2>1. /\ caller[c].pc = "idle" /\ UNCHANGED <<writer, result, log>>
        /\ caller'[c].pc = "start" /\ caller'[c].reply = "none"
        /\ \A d \in Callers : d # c => caller'[d] = caller[d]
    BY <1>2 DEF Call, database, WriterInv, TypeOK
  <2>2. Phase(c) = "idle"
    BY <2>1, PhaseNow, PhaseCases
  <2>3. \A w \in Threads : ~Answers(writer', w, c)
    BY <1>1, <2>1 DEF Waiting
  <2>4. Phase(c)' = "called"
    BY <2>1, <2>3, PhaseNow, PhaseCases
  <2>5. \A d \in Callers : d # c => Phase(d)' = Phase(d)
    BY <2>1, Unmoved
  <2>6. Promise!Call(c)
    BY <2>1, <2>2, <2>4, <2>5, OnePhase DEF Promise!Call
  <2>7. QED
    BY <2>6 DEF Keeps, Promise!Next
<1>3. CASE Start(c)
  <2>1. /\ UNCHANGED <<result, log>> /\ caller[c].pc = "start"
        /\ caller' = [caller EXCEPT ![c].pc = "put"]
    BY <1>3 DEF Start, database
  <2>2. \A w \in Threads : writer'[w] = writer[w] \/ (writer[w].pc = "none" /\ writer'[w].pc = "get")
    <3>1. CASE UNCHANGED writer
      BY <3>1
    <3>2. CASE /\ spawned < MaxThreads
               /\ writer' = [writer EXCEPT ![spawned + 1] =
                               [NoWriter EXCEPT !.actor = caller[c].actor, !.pc = "get"]]
      <4>1. PICK v \in Threads : v = spawned + 1
        BY <3>2, ConstantFacts DEF WriterInv, TypeOK, Threads
      <4>2. v > spawned
        BY <4>1, ConstantFacts DEF WriterInv, TypeOK
      <4>3. writer[v].pc = "none"
        BY <4>2 DEF WriterInv, ThreadsOK
      <4>4. \A w \in Threads : w # v => writer'[w] = writer[w]
        BY <3>2, <4>1 DEF WriterInv, TypeOK
      <4>5. writer'[v].pc = "get"
        BY <3>2, <4>1 DEF WriterInv, TypeOK, NoWriter
      <4>6. QED
        BY <4>3, <4>4, <4>5
    <3>3. QED
      BY <1>3, <3>1, <3>2 DEF Start
  <2>3. \A d \in Callers : /\ caller'[d].pc = "idle" <=> caller[d].pc = "idle"
                           /\ caller'[d].reply = caller[d].reply
    <3>1. caller[c] \in Asked /\ caller'[c] = [caller[c] EXCEPT !.pc = "put"]
      BY <2>1 DEF WriterInv, TypeOK, NoCall, Asked
    <3>2. caller'[c].reply = caller[c].reply /\ caller'[c].pc = "put"
      BY <3>1 DEF Asked
    <3>3. \A d \in Callers : d # c => caller'[d] = caller[d]
      BY <2>1 DEF WriterInv, TypeOK
    <3>4. QED
      BY <2>1, <3>2, <3>3
  <2>4. \A d \in Callers : Phase(d)' = Phase(d)
    BY <2>2, <2>3, Unmoved DEF Answers
  <2>5. QED
    BY <2>1, <2>4 DEF Keeps, Stays
<1>4. CASE Put(c)
  <2>1. /\ UNCHANGED <<writer, result, log>> /\ caller[c].pc = "put"
        /\ caller' = [caller EXCEPT ![c].pc = "wait"]
    BY <1>4 DEF Put, database
  <2>2. \A d \in Callers : /\ caller'[d].pc = "idle" <=> caller[d].pc = "idle"
                           /\ caller'[d].reply = caller[d].reply
    <3>1. caller[c] \in Asked /\ caller'[c] = [caller[c] EXCEPT !.pc = "wait"]
      BY <2>1 DEF WriterInv, TypeOK, NoCall, Asked
    <3>2. caller'[c].reply = caller[c].reply /\ caller'[c].pc = "wait"
      BY <3>1 DEF Asked
    <3>3. \A d \in Callers : d # c => caller'[d] = caller[d]
      BY <2>1 DEF WriterInv, TypeOK
    <3>4. QED
      BY <2>1, <3>2, <3>3
  <2>3. \A d \in Callers : Phase(d)' = Phase(d)
    BY <2>1, <2>2, Unmoved
  <2>4. QED
    BY <2>1, <2>3 DEF Keeps, Stays
<1>5. CASE Return(c)
  <2>1. /\ caller[c].pc = "wait" /\ caller[c].reply # "none"
        /\ result' = [result EXCEPT ![c] = caller[c].reply] /\ UNCHANGED <<writer, log>>
        /\ caller'[c].pc = "idle" /\ \A d \in Callers : d # c => caller'[d] = caller[d]
    BY <1>5 DEF Return, actors, database, WriterInv, TypeOK, NoCall
  <2>2. caller[c].reply \in {"ok", "error"}
    BY <2>1 DEF WriterInv, TypeOK, NoCall
  <2>3. Phase(c) = caller[c].reply /\ Phase(c)' = "idle"
    BY <2>1, PhaseNow, PhaseCases
  <2>4. \A d \in Callers : d # c => Phase(d)' = Phase(d)
    BY <2>1, Unmoved
  <2>5. Promise!Return(c)
    BY <2>1, <2>2, <2>3, <2>4, OnePhase DEF Promise!Return
  <2>6. QED
    BY <2>5 DEF Keeps, Promise!Next
<1>6. QED
  BY <1>2, <1>3, <1>4, <1>5

\* A step of a thread that neither had an answer nor has one now.
LEMMA Unanswered ==
  ASSUME WriterInv, WriterInv', NEW w \in Threads, NEW row, writer' = [writer EXCEPT ![w] = row],
         writer[w].pc # "answer", row.pc # "answer", UNCHANGED <<caller, result, log>>
  PROVE  Keeps
<1>1. \A v \in Threads : v # w => writer'[v] = writer[v]
  BY DEF WriterInv, TypeOK
<1>2. writer'[w] = row
  BY DEF WriterInv, TypeOK
<1>3. \A d \in Callers : Phase(d)' = Phase(d)
  BY <1>1, <1>2, Unmoved DEF Answers
<1>4. QED
  BY <1>3 DEF Keeps, Stays

\* A commit or a rollback settles the call in hand and no other.
LEMMA Settles ==
  ASSUME WriterInv, WriterInv', NEW w \in Threads, writer[w].pc \in {"open", "written"},
         NEW row \in WriterRow, row.pc = "answer", row.op = writer[w].op,
         writer' = [writer EXCEPT ![w] = row], UNCHANGED caller
  PROVE  \E c \in Callers : /\ c = writer[w].op /\ Phase(c) = "called" /\ Phase(c)' = row.answer
                            /\ \A d \in Callers : d # c => Phase(d)' = Phase(d)
<1>1. PICK c \in Callers : c = writer[w].op /\ Waiting(c)
  BY DEF WriterInv, Requests, BusyOK, Busy
<1>2. writer'[w] = row /\ \A v \in Threads : v # w => writer'[v] = writer[v]
  BY DEF WriterInv, TypeOK
<1>3. \A v \in Threads : ~Answers(writer, v, c)
  BY <1>1 DEF WriterInv, Requests, OnceServed, Busy, Answers
<1>4. Phase(c) = "called"
  BY <1>1, <1>3, PhaseNow, PhaseCases DEF Waiting
<1>5. Answers(writer', w, c)
  BY <1>1, <1>2 DEF Answers
<1>6. Phase(c)' = row.answer
  <2>1. caller'[c].pc # "idle" /\ caller'[c].reply = "none"
    BY <1>1 DEF Waiting
  <2>2. QED
    BY <1>2, <1>5, <2>1, AnsweredNext
<1>7. \A d \in Callers : d # c => Phase(d)' = Phase(d)
  BY <1>1, <1>2, Unmoved DEF Answers
<1>8. QED
  BY <1>1, <1>4, <1>6, <1>7

LEMMA ThreadSteps ==
  ASSUME WriterInv, WriterInv', NEW w \in Threads, WriterStep(w)
  PROVE  Keeps
<1>1. CASE Take(w)
  <2>1. writer[w].pc = "get" /\ UNCHANGED <<caller, result, log>>
    BY <1>1 DEF Take, clients, database
  <2>2. CASE writer' = [writer EXCEPT ![w].pc = "exit"]
    <3> DEFINE row == [writer[w] EXCEPT !.pc = "exit"]
    <3>1. writer' = [writer EXCEPT ![w] = row] /\ row.pc = "exit"
      BY <2>2 DEF WriterInv, TypeOK
    <3>2. QED
      BY <2>1, <3>1, Unanswered
  <2>3. CASE writer' = [writer EXCEPT ![w].pc = "open", ![w].op = Head(queue[writer[w].actor])]
    <3> DEFINE row == [writer[w] EXCEPT !.pc = "open", !.op = Head(queue[writer[w].actor])]
    <3>1. writer' = [writer EXCEPT ![w] = row] /\ row.pc = "open"
      BY <2>3, Rows DEF WriterRow
    <3>2. QED
      BY <2>1, <3>1, Unanswered
  <2>4. QED
    BY <1>1, <2>2, <2>3 DEF Take
<1>2. CASE Write(w)
  <2> DEFINE row == [writer[w] EXCEPT !.pc = "written"]
  <2>1. /\ writer[w].pc = "open" /\ UNCHANGED <<caller, result, log>>
        /\ writer' = [writer EXCEPT ![w] = row]
    BY <1>2 DEF Write, clients, WriterInv, TypeOK
  <2>2. row.pc = "written"
    BY DEF WriterInv, TypeOK
  <2>3. QED
    BY <2>1, <2>2, Unanswered
<1>3. CASE Commit(w)
  <2> DEFINE row == [writer[w] EXCEPT !.pc = "answer", !.answer = "ok"]
  <2>1. /\ writer[w].pc = "written" /\ log' = Append(log, writer[w].op) /\ UNCHANGED <<caller, result>>
        /\ writer' = [writer EXCEPT ![w] = row]
    BY <1>3, Rows DEF Commit, clients
  <2>2. row \in WriterRow /\ row.pc = "answer" /\ row.op = writer[w].op /\ row.answer = "ok"
    BY Rows DEF WriterRow
  <2> HIDE DEF row
  <2>3. PICK c \in Callers : /\ c = writer[w].op /\ Phase(c) = "called" /\ Phase(c)' = "ok"
                             /\ \A d \in Callers : d # c => Phase(d)' = Phase(d)
    <3>1. writer[w].pc \in {"open", "written"} /\ UNCHANGED caller
      BY <2>1
    <3>2. QED
      BY <2>1, <2>2, <3>1, Settles
  <2>4. Promise!Commit(c)
    BY <2>1, <2>3, OnePhase DEF Promise!Commit
  <2>5. QED
    BY <2>4 DEF Keeps, Promise!Next
<1>4. CASE Raise(w)
  <2> DEFINE row == [writer[w] EXCEPT !.pc = "answer", !.answer = "error"]
  <2>1. /\ writer[w].pc \in {"open", "written"} /\ UNCHANGED <<caller, result, log>>
        /\ writer' = [writer EXCEPT ![w] = row]
    BY <1>4, Rows DEF Raise, clients
  <2>2. row \in WriterRow /\ row.pc = "answer" /\ row.op = writer[w].op /\ row.answer = "error"
    BY Rows DEF WriterRow
  <2> HIDE DEF row
  <2>3. PICK c \in Callers : /\ Phase(c) = "called" /\ Phase(c)' = "error"
                             /\ \A d \in Callers : d # c => Phase(d)' = Phase(d)
    <3>1. writer[w].pc \in {"open", "written"} /\ UNCHANGED caller
      BY <2>1
    <3>2. QED
      BY <2>1, <2>2, <3>1, Settles
  <2>4. Promise!Fail(c)
    BY <2>1, <2>3, OnePhase DEF Promise!Fail
  <2>5. QED
    BY <2>4 DEF Keeps, Promise!Next
<1>5. CASE Answer(w)
  <2>1. PICK c \in Callers : c = writer[w].op /\ Waiting(c)
    BY <1>5 DEF Answer, WriterInv, Requests, BusyOK, Busy
  <2>2. /\ writer[w].pc = "answer" /\ caller' = [caller EXCEPT ![c].reply = writer[w].answer]
        /\ UNCHANGED <<result, log>>
        /\ writer' = [writer EXCEPT ![w] = [NoWriter EXCEPT !.actor = writer[w].actor, !.pc = "get"]]
    BY <1>5, <2>1 DEF Answer, database
  <2>3. /\ writer'[w].pc = "get" /\ \A v \in Threads : v # w => writer'[v] = writer[v]
        /\ \A d \in Callers : d # c => caller'[d] = caller[d]
    BY <2>2 DEF WriterInv, TypeOK, NoWriter
  <2>4. /\ writer[w].answer \in {"ok", "error"} /\ caller'[c].pc = "wait"
        /\ caller'[c].reply = writer[w].answer
    <3>1. caller[c] \in Asked /\ caller'[c] = [caller[c] EXCEPT !.reply = writer[w].answer]
      BY <2>1, <2>2, Rows DEF Waiting, NoCall
    <3>2. QED
      BY <2>1, <2>2, <3>1 DEF WriterInv, ThreadsOK, Waiting, Asked
  <2>5. Phase(c) = writer[w].answer
    BY <2>1, <2>2, PhaseNow, PhaseCases DEF Waiting, Answers
  <2>6. Phase(c)' = writer[w].answer
    BY <2>4, PhaseNow, PhaseCases
  <2>7. \A d \in Callers : d # c => Phase(d)' = Phase(d)
    BY <2>1, <2>3, Unmoved DEF Answers
  <2>8. QED
    BY <2>2, <2>5, <2>6, <2>7 DEF Keeps, Stays
<1>6. CASE Die(w)
  <2>1. /\ writer[w].pc = "exit" /\ UNCHANGED <<caller, result, log>>
        /\ writer' = [writer EXCEPT ![w] = [NoWriter EXCEPT !.pc = "dead"]]
    BY <1>6 DEF Die, clients, database
  <2>2. [NoWriter EXCEPT !.pc = "dead"].pc = "dead"
    BY DEF NoWriter
  <2>3. QED
    BY <2>1, <2>2, Unanswered
<1>7. QED
  BY <1>1, <1>2, <1>3, <1>4, <1>5, <1>6 DEF WriterStep

\* Callers see atomic writes with true results, whatever is stopped under them:
\* the writer implements AtomicWrites.
THEOREM PromiseKept == Spec => WritesAreAtomic
<1>1. Init => Promise!Init
  BY DEF Init, Promise!Init, Phase, NoCall
<1>2. WriterInv /\ WriterInv' /\ [Next]_vars => Keeps
  <2>1. SUFFICES ASSUME WriterInv, WriterInv', [Next]_vars PROVE Keeps
    OBVIOUS
  <2>2. CASE UNCHANGED <<writer, caller, result, log>>
    BY <2>1, <2>2, Unmoved DEF Keeps, Stays
  <2>3. QED
    BY <2>1, <2>2, ClientSteps, ThreadSteps
    DEF Next, CallerStep, Clear, Stop, Forget, vars, actors, clients, database
<1>3. Keeps => [Promise!Next]_<<[c \in Callers |-> Phase(c)], result, log>>
  BY DEF Keeps, Stays
<1>4. QED
  BY <1>1, <1>2, <1>3, InvInit, InvStep, PTL DEF Spec, WritesAreAtomic, Promise!Spec

=============================================================================

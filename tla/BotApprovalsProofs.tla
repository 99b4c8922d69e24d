------------------------- MODULE BotApprovalsProofs -------------------------
(***************************************************************************)
(* What BotApprovals keeps for any number of updates, users and faults:    *)
(* types, agreement of the command and approval rows, and the promise of   *)
(* ApprovedCommands.                                                       *)
(***************************************************************************)
EXTENDS BotApprovals, FiniteSetTheorems, TLAPS

Entry == {NoLog} \cup [type : {"message", "click"}, user : Users, word : Admin,
                       of : Updates \cup {NoUpdate}]

\* The smallest update of a set is one of them.
LEMMA MinIsIn ==
  ASSUME NEW S, S \subseteq Updates, S # {} PROVE Min(S) \in S
<1> DEFINE Upto(n) == 0..n
           T == {Upto(n) : n \in S}
           All == 0..MaxUpdates
<1>1. S \subseteq Nat /\ \A n \in S : n <= MaxUpdates
  BY BotAssumption DEF Updates
<1>2. T # {} /\ T \subseteq FiniteSubsetsOf(All)
  <2>1. ASSUME NEW n \in S PROVE Upto(n) \in FiniteSubsetsOf(All)
    <3>1. IsFiniteSet(Upto(n))
      BY <1>1, FS_Interval
    <3>2. Upto(n) \subseteq All
      BY <1>1, BotAssumption
    <3>3. QED
      BY <3>1, <3>2 DEF FiniteSubsetsOf
  <2>2. QED
    BY <2>1
<1>3. PICK X \in T : \A Y \in T : ~ (<<Y, X>> \in StrictSubsetOrdering(All))
  <2>1. IsWellFoundedOn(StrictSubsetOrdering(All), FiniteSubsetsOf(All))
    BY FS_StrictSubsetOrderingWellFounded
  <2> HIDE DEF T, All
  <2>2. QED
    BY <1>2, <2>1, WFMin
<1>4. PICK n \in S : X = Upto(n)
  OBVIOUS
<1>5. ASSUME NEW i \in S PROVE n <= i
  <2>1. Upto(i) \in SUBSET All /\ X \in SUBSET All /\ Upto(i) \in T
    BY <1>2, <1>4 DEF FiniteSubsetsOf
  <2>2. ~ (Upto(i) \subseteq X /\ Upto(i) # X)
    BY <1>3, <2>1 DEF StrictSubsetOrdering
  <2>3. SUFFICES ASSUME i < n PROVE FALSE
    BY <1>1
  <2>4. Upto(i) \subseteq X
    BY <1>1, <1>4, <2>3
  <2>5. n \in X /\ n \notin Upto(i)
    BY <1>1, <1>4, <2>3
  <2>6. QED
    BY <2>2, <2>4, <2>5
<1>6. QED
  BY <1>5 DEF Min

\* The words of a click are approve and deny, and it names a command.
LEMMA ClickTyped ==
  ASSUME NEW u \in Users, NEW d \in {"approve", "deny"}, NEW c \in Updates
  PROVE  Click(u, d, c) \in Entry
BY DEF Click, Entry, Admin

LEMMA MessageTyped ==
  ASSUME NEW u \in Users, NEW word \in Commands
  PROVE  Message(u, word) \in Entry
BY BotAssumption DEF Message, Entry

-----------------------------------------------------------------------------
(* Which step writes what.                                                 *)

UserSends == \E n \in Updates : GiveCommand(n) \/ ClickButton(n)

Untouched == <<commands, approvals, notes, shown, main, runs>>

LEMMA Steps ==
  ASSUME [Next]_vars
  PROVE  \/ UserSends \/ (\E n \in Updates : Lapse(n)) \/ Fetch \/ Handle \/ HandleFails
         \/ ClaimCommand \/ CreateApproval \/ Notify \/ RequireApproval \/ RunCommand
         \/ FinishCommand \/ MainFails \/ Crash \/ UNCHANGED vars
         \/ (\E n \in Updates : ClaimNote(n)) \/ SendMessage \/ MarkSent \/ SendFails
BY DEF Next, UserSends, Polling, MainThread, Sending

LEMMA SendShape ==
  ASSUME UserSends, TypeOK
  PROVE  \E n \in Updates, e \in Entry :
           /\ log[n].type = "none" /\ log' = [log EXCEPT ![n] = e]
           /\ e.type # "none" /\ (e.type = "click" => e.word \in {"approve", "deny"} /\ e.of \in Updates)
           /\ server' = server \cup {n}
           /\ UNCHANGED <<commands, approvals, late, notes, shown, poller, main, sender, runs, lost, faults>>
<1>1. CASE \E n \in Updates : GiveCommand(n)
  <2>1. PICK n \in Updates, u \in Users, word \in Commands : Send(n, Message(u, word))
    BY <1>1 DEF GiveCommand
  <2>2. Message(u, word).type = "message"
    BY DEF Message
  <2>3. QED
    BY <2>1, <2>2, MessageTyped DEF Send
<1>2. CASE \E n \in Updates : ClickButton(n)
  <2>1. PICK n \in Updates, u \in Users, d \in {"approve", "deny"}, c \in shown :
          Send(n, Click(u, d, c))
    BY <1>2 DEF ClickButton
  <2>2. c \in Updates
    BY DEF TypeOK
  <2>3. Click(u, d, c).type = "click" /\ Click(u, d, c).word = d /\ Click(u, d, c).of = c
    BY DEF Click
  <2>4. QED
    BY <2>1, <2>2, <2>3, ClickTyped DEF Send
<1>3. QED
  BY <1>1, <1>2 DEF UserSends

\* A handled update: nothing, a new command, or a decision on a pending approval.
LEMMA HandleShape ==
  ASSUME Handle, TypeOK
  PROVE  LET n == Min(batch) IN
         /\ n \in batch
         /\ \/ UNCHANGED <<commands, approvals>>
            \/ /\ log[n].type = "message" /\ UNCHANGED approvals
               /\ commands' = InsertCommand(n)
            \/ /\ log[n].type = "click" /\ Allowed(log[n].user, log[n].word)
               /\ CanDecide(log[n].of) /\ Decided(log[n].of, log[n].word)
         /\ UNCHANGED <<log, server, late, notes, shown, main, sender, runs, lost, faults>>
<1>1. Min(batch) \in batch
  BY MinIsIn DEF Handle, TypeOK
<1>2. QED
  BY <1>1 DEF Handle

-----------------------------------------------------------------------------
(* Types.                                                                  *)

LEMMA TypeInit == Init => TypeOK
BY BotAssumption
DEF Init, TypeOK, CommandStates, ApprovalStates, NoteStates, MainSteps, MainIdle, SenderIdle,
    NoUpdate

\* Every click names a command, and only what was sent is handed out.
LogOK ==
  /\ \A n \in Updates : log[n].type = "click" => log[n].word \in {"approve", "deny"}
                                                 /\ log[n].of \in Updates
  /\ server \cup batch \subseteq {n \in Updates : log[n].type # "none"}

\* What a thread has in hand is a row.
HandsOK ==
  /\ main.pc # "idle" => main.command \in Updates
  /\ sender.pc # "idle" => sender.note \in Updates

TypeInv == TypeOK /\ LogOK /\ HandsOK

LEMMA TypeInvInit == Init => TypeInv
BY TypeInit DEF Init, TypeInv, LogOK, HandsOK, NoLog, MainIdle, SenderIdle

LEMMA LogStep == ASSUME TypeInv, [Next]_vars PROVE LogOK'
<1>1. CASE UserSends
  <2>1. TypeOK
    BY DEF TypeInv
  <2>2. PICK n \in Updates, e \in Entry :
          /\ log[n].type = "none" /\ log' = [log EXCEPT ![n] = e]
          /\ e.type # "none" /\ (e.type = "click" => e.word \in {"approve", "deny"} /\ e.of \in Updates)
          /\ server' = server \cup {n} /\ UNCHANGED poller
    BY <1>1, <2>1, SendShape
  <2>3. ASSUME NEW m \in Updates PROVE log'[m] = IF m = n THEN e ELSE log[m]
    BY <2>1, <2>2 DEF TypeOK
  <2>4. QED
    BY <2>2, <2>3 DEF TypeInv, LogOK, poller
<1>2. CASE UNCHANGED log /\ server' \subseteq server /\ batch' \subseteq server \cup batch
  BY <1>2 DEF TypeInv, LogOK
<1>3. Fetch \/ Handle \/ HandleFails \/ Crash
        => UNCHANGED log /\ server' \subseteq server /\ batch' \subseteq server \cup batch
  BY DEF Fetch, Handle, HandleFails, Crash
<1>4. ASSUME ~UserSends, ~Fetch, ~Handle, ~HandleFails, ~Crash PROVE UNCHANGED <<log, server, batch>>
  BY <1>4, Steps
  DEF Lapse, ClaimCommand, CreateApproval, Notify, RequireApproval, RunCommand, FinishCommand,
      SetState, MainFails, ClaimNote, SendMessage, MarkSent, SendFails, vars, poller
<1>5. QED
  BY <1>1, <1>2, <1>3, <1>4

LEMMA ReadyMin ==
  ASSUME TypeOK, ClaimCommand
  PROVE  \E n \in Updates :
           /\ commands[n] \in Claimable /\ main.pc = "idle"
           /\ commands' = [commands EXCEPT ![n] = "running"]
           /\ main' = [command |-> n,
                       pc |-> IF log[n].word \in Dangerous /\ commands[n] # "approved" THEN "create"
                              ELSE IF log[n].word \in Viewer THEN "reply"
                              ELSE "run"]
           /\ UNCHANGED <<log, server, approvals, late, notes, shown, poller, sender, runs, lost, faults>>
<1> DEFINE ready == {n \in Updates : commands[n] \in Claimable}
<1>1. ready # {} /\ ready \subseteq Updates
  BY DEF ClaimCommand
<1>2. Min(ready) \in ready
  BY <1>1, MinIsIn
<1>3. QED
  BY <1>2 DEF ClaimCommand

LEMMA HandsStep == ASSUME TypeInv, [Next]_vars PROVE HandsOK'
<1>1. CASE ClaimCommand
  <2>1. PICK n \in Updates : main'.command = n /\ UNCHANGED sender
    BY <1>1, ReadyMin DEF TypeInv
  <2>2. QED
    BY <2>1 DEF TypeInv, HandsOK
<1>2. CASE \E n \in Updates : ClaimNote(n)
  BY <1>2 DEF ClaimNote, TypeInv, HandsOK
<1>3. CASE main' = MainIdle \/ (main.pc # "idle" /\ main'.command = main.command) \/ UNCHANGED main
  <2>1. CASE sender' = SenderIdle \/ (sender.pc # "idle" /\ sender'.note = sender.note) \/ UNCHANGED sender
    BY <1>3, <2>1 DEF TypeInv, HandsOK, MainIdle, SenderIdle
  <2>2. QED
    BY <1>2, <2>1, Steps, SendShape DEF TypeInv, TypeOK,
       Lapse, Fetch, Handle, HandleFails, ClaimCommand, CreateApproval, Notify, RequireApproval,
       RunCommand, FinishCommand, SetState, MainFails, SendMessage, MarkSent, SendFails, Crash, vars
<1>4. QED
  BY <1>1, <1>2, <1>3, Steps, SendShape DEF TypeInv, TypeOK,
     Lapse, Fetch, Handle, HandleFails, CreateApproval, Notify, RequireApproval,
     RunCommand, FinishCommand, SetState, MainFails, SendMessage, MarkSent, SendFails, Crash, vars
LEMMA TypeHandle == ASSUME TypeInv, Handle PROVE TypeOK'
<1>1. TypeOK
  BY DEF TypeInv
<1>2. PICK n \in batch : n = Min(batch)
  BY <1>1, HandleShape
<1>3. n \in Updates /\ log[n] \in Entry
  BY <1>1, <1>2 DEF TypeOK, Entry, LogOK, TypeInv
<1>4. offset' \in 0..(MaxUpdates + 1) /\ batch' \subseteq Updates
  <2>1. offset' = NextOffset(n) /\ batch' \subseteq batch
    BY <1>2 DEF Handle
  <2>2. QED
    BY <1>1, <1>3, <2>1, BotAssumption DEF TypeOK, NextOffset, Updates
<1>5. commands' \in [Updates -> CommandStates] /\ approvals' \in [Updates -> ApprovalStates]
  <2>1. CASE UNCHANGED <<commands, approvals>>
    BY <1>1, <2>1 DEF TypeOK
  <2>2. CASE commands' = InsertCommand(n) /\ UNCHANGED approvals
    BY <1>1, <2>2 DEF TypeOK, InsertCommand, CommandStates
  <2>3. CASE log[n].type = "click" /\ Decided(log[n].of, log[n].word)
    <3>1. log[n].of \in Updates
      BY <1>3, <2>3 DEF TypeInv, LogOK
    <3>2. QED
      BY <1>1, <2>3, <3>1 DEF TypeOK, Decided, CommandStates, ApprovalStates
  <2>4. QED
    BY <1>1, <1>2, <2>1, <2>2, <2>3, HandleShape
<1>6. UNCHANGED <<log, server, late, notes, shown, main, sender, runs, lost, faults>>
  BY <1>1, HandleShape
<1>7. QED
  BY <1>1, <1>4, <1>5, <1>6 DEF TypeOK

\* The faults, which may happen anywhere.
LEMMA TypeFaults ==
  ASSUME TypeInv, HandleFails \/ MainFails \/ SendFails \/ Crash PROVE TypeOK'
<1> USE DEF TypeInv, TypeOK, HandsOK
<1>1. CASE HandleFails
  <2>1. Min(batch) \in Updates
    BY <1>1, MinIsIn DEF HandleFails
  <2>2. offset' \in 0..(MaxUpdates + 1) /\ faults' \in 0..MaxFaults
    BY <1>1, <2>1, BotAssumption DEF HandleFails, NextOffset, Updates
  <2>3. QED
    BY <1>1, <2>1, <2>2 DEF HandleFails
<1>2. CASE MainFails
  BY <1>2, BotAssumption
  DEF MainFails, AfterError, MainIdle, MainSteps, CommandStates, poller
<1>3. CASE SendFails
  BY <1>3, BotAssumption DEF SendFails, SenderIdle, NoteStates, poller
<1>4. CASE Crash
  BY <1>4, BotAssumption DEF Crash, SenderIdle, MainIdle, MainSteps
<1>5. QED
  BY <1>1, <1>2, <1>3, <1>4

LEMMA TypeMain ==
  ASSUME TypeInv, MainThread PROVE TypeOK'
<1> USE DEF TypeInv, TypeOK, HandsOK, MainSteps
<1>1. CASE ClaimCommand
  BY <1>1, ReadyMin DEF CommandStates, poller
<1>2. CASE CreateApproval
  BY <1>2 DEF CreateApproval, ApprovalStates, poller
<1>3. CASE Notify
  BY <1>3 DEF Notify, NoteStates, poller
<1>4. CASE RequireApproval
  BY <1>4 DEF RequireApproval, SetState, CommandStates, MainIdle, poller
<1>5. CASE RunCommand
  BY <1>5 DEF RunCommand, poller
<1>6. CASE FinishCommand
  BY <1>6 DEF FinishCommand, SetState, CommandStates, MainIdle, poller
<1>7. QED
  BY <1>1, <1>2, <1>3, <1>4, <1>5, <1>6 DEF MainThread

LEMMA TypeStep == ASSUME TypeInv, [Next]_vars PROVE TypeInv'
<1>1. TypeOK
  BY DEF TypeInv
<1>2. CASE UserSends
  <2>1. PICK n \in Updates, e \in Entry :
          /\ log' = [log EXCEPT ![n] = e] /\ server' = server \cup {n}
          /\ UNCHANGED <<commands, approvals, late, notes, shown, poller, main, sender, runs, lost, faults>>
    BY <1>1, <1>2, SendShape
  <2>2. log' \in [Updates -> Entry]
    BY <1>1, <2>1 DEF TypeOK, Entry
  <2>3. QED
    BY <1>1, <2>1, <2>2, LogStep, HandsStep DEF TypeOK, TypeInv, Entry, poller
<1>3. CASE Fetch \/ \E n \in Updates : Lapse(n)
  <2>1. TypeOK'
    BY <1>1, <1>3 DEF Fetch, Lapse, TypeOK, poller
  <2>2. QED
    BY <2>1, LogStep, HandsStep DEF TypeInv
<1>4. CASE Sending
  <2>1. TypeOK'
    BY <1>1, <1>4
    DEF Sending, ClaimNote, SendMessage, MarkSent, TypeOK, TypeInv, HandsOK, SenderIdle, NoteStates,
        poller
  <2>2. QED
    BY <2>1, LogStep, HandsStep DEF TypeInv
<1>5. CASE UNCHANGED vars
  BY <1>1, <1>5, LogStep, HandsStep DEF vars, poller, TypeOK, TypeInv
<1>6. QED
  BY <1>2, <1>3, <1>4, <1>5, TypeHandle, TypeFaults, TypeMain, LogStep, HandsStep, Steps
  DEF TypeInv, MainThread, Sending

\* Every step keeps the tables and the threads within what they can hold.
THEOREM TypeCorrect == Spec => []TypeOK
<1>1. TypeInv => TypeOK
  BY DEF TypeInv
<1>2. QED
  BY <1>1, TypeInvInit, TypeStep, PTL DEF Spec

-----------------------------------------------------------------------------
(* Commands, approvals and what the main thread has in hand.               *)

GivenOK    == \A n \in Updates : commands[n] # "absent" => log[n].type = "message"
ApprovalOK == \A n \in Updates :
                approvals[n] # "absent" => commands[n] # "absent" /\ log[n].word \in Dangerous

\* A command has run at most once, and not while it can still be claimed.
RunsOK == \A n \in Updates :
            /\ runs[n] \in {0, 1}
            /\ commands[n] \notin {"running", "done", "ignored"} => runs[n] = 0

\* The main thread is alone with a running command; what it is about to ask for
\* is asked for, what it is about to run is approved.
InHandOK(n) ==
  /\ commands[n] = "running"
  /\ main.pc \in {"create", "notify", "require"} => log[n].word \in Dangerous
  /\ main.pc \in {"create", "notify", "require", "run"} => runs[n] = 0
  /\ main.pc \in {"notify", "require"} => approvals[n] # "absent"
  /\ main.pc = "require" => notes[n] # "absent"
  /\ main.pc = "run" /\ log[n].word \in Dangerous => approvals[n] = "approved"
MainOK == \A n \in Updates : main.pc # "idle" /\ main.command = n => InHandOK(n)

RowsInv == TypeInv /\ GivenOK /\ ApprovalOK /\ RunsOK /\ MainOK /\ RowsAgree

LEMMA RowsInit == Init => RowsInv
BY TypeInvInit
DEF Init, RowsInv, GivenOK, ApprovalOK, RunsOK, MainOK, RowsAgree, MainIdle

\* Steps that neither decide nor run anything.
Quiet == /\ UNCHANGED <<log, commands, approvals, runs>>
         /\ UNCHANGED main \/ main' = MainIdle
         /\ \A n \in Updates : notes[n] # "absent" => notes'[n] # "absent"

LEMMA QuietSteps ==
  ASSUME TypeInv,
         Fetch \/ HandleFails \/ Sending \/ SendFails \/ Crash \/ UNCHANGED vars
         \/ \E n \in Updates : Lapse(n)
  PROVE  Quiet
<1>1. CASE Sending \/ SendFails
  <2>1. UNCHANGED <<log, commands, approvals, runs, main>>
    BY <1>1 DEF Sending, ClaimNote, SendMessage, MarkSent, SendFails
  <2>2. ASSUME NEW n \in Updates, notes[n] # "absent" PROVE notes'[n] # "absent"
    BY <1>1, <2>2
    DEF Sending, ClaimNote, SendMessage, MarkSent, SendFails, TypeInv, TypeOK
  <2>3. QED
    BY <2>1, <2>2 DEF Quiet
<1>2. CASE Fetch \/ HandleFails \/ Crash \/ UNCHANGED vars \/ \E n \in Updates : Lapse(n)
  BY <1>2 DEF Fetch, HandleFails, Crash, vars, Lapse, Quiet
<1>3. QED
  BY <1>1, <1>2

LEMMA QuietKeeps ==
  ASSUME RowsInv, Quiet PROVE GivenOK' /\ ApprovalOK' /\ RunsOK' /\ MainOK' /\ RowsAgree'
<1>1. GivenOK' /\ ApprovalOK' /\ RunsOK'
  BY DEF Quiet, RowsInv, GivenOK, ApprovalOK, RunsOK
<1>2. MainOK'
  BY DEF Quiet, RowsInv, MainOK, InHandOK, MainIdle
<1>3. RowsAgree'
  BY DEF Quiet, RowsInv, RowsAgree
<1>4. QED
  BY <1>1, <1>2, <1>3

LEMMA SendKeeps ==
  ASSUME RowsInv, UserSends PROVE GivenOK' /\ ApprovalOK' /\ RunsOK' /\ MainOK' /\ RowsAgree'
<1>1. TypeOK
  BY DEF RowsInv, TypeInv
<1>2. PICK n \in Updates, e \in Entry :
        /\ log[n].type = "none" /\ log' = [log EXCEPT ![n] = e]
        /\ UNCHANGED <<commands, approvals, notes, main, runs>>
  BY <1>1, SendShape
<1>3. ASSUME NEW m \in Updates, commands[m] # "absent" PROVE log'[m] = log[m]
  BY <1>1, <1>2, <1>3 DEF RowsInv, GivenOK, TypeOK
<1>4. GivenOK' /\ ApprovalOK' /\ RunsOK'
  BY <1>2, <1>3 DEF RowsInv, GivenOK, ApprovalOK, RunsOK
<1>5. MainOK'
  BY <1>2, <1>3 DEF RowsInv, MainOK, InHandOK
<1>6. RowsAgree'
  BY <1>2 DEF RowsInv, RowsAgree
<1>7. QED
  BY <1>4, <1>5, <1>6

LEMMA InsertKeeps ==
  ASSUME RowsInv, NEW n \in Updates, log[n].type = "message", commands' = InsertCommand(n),
         UNCHANGED <<log, approvals, notes, main, runs>>
  PROVE  GivenOK' /\ ApprovalOK' /\ RunsOK' /\ MainOK' /\ RowsAgree'
<1>1. commands' = [commands EXCEPT ![n] = IF @ = "absent" THEN "queued" ELSE @]
  BY DEF InsertCommand
<1>2. commands \in [Updates -> CommandStates]
  BY DEF RowsInv, TypeInv, TypeOK
<1>3. GivenOK' /\ ApprovalOK' /\ RunsOK'
  BY <1>1, <1>2 DEF RowsInv, GivenOK, ApprovalOK, RunsOK
<1>4. MainOK'
  BY <1>1, <1>2 DEF RowsInv, MainOK, InHandOK
<1>5. RowsAgree'
  BY <1>1, <1>2 DEF RowsInv, RowsAgree
<1>6. QED
  BY <1>3, <1>4, <1>5

\* The first decision is for good: it meets a pending approval, and the command
\* takes it over if it is waiting.
LEMMA DecideKeeps ==
  ASSUME RowsInv, NEW c \in Updates, NEW d \in {"approve", "deny"},
         CanDecide(c), Decided(c, d), UNCHANGED <<log, notes, main, runs>>
  PROVE  GivenOK' /\ ApprovalOK' /\ RunsOK' /\ MainOK' /\ RowsAgree'
<1>1. PICK s \in {"expired", "approved", "denied"} :
        /\ approvals' = [approvals EXCEPT ![c] = s]
        /\ commands' = [commands EXCEPT ![c] = IF @ = "approval_required" THEN s ELSE @]
  BY DEF Decided
<1>2. commands \in [Updates -> CommandStates] /\ approvals \in [Updates -> ApprovalStates]
  BY DEF RowsInv, TypeInv, TypeOK
<1>3. approvals[c] = "pending"
  BY DEF CanDecide
<1>4. GivenOK' /\ ApprovalOK' /\ RunsOK'
  BY <1>1, <1>2, <1>3 DEF RowsInv, GivenOK, ApprovalOK, RunsOK
<1>5. MainOK'
  BY <1>1, <1>2, <1>3 DEF RowsInv, MainOK, InHandOK
<1>6. RowsAgree'
  BY <1>1, <1>2, <1>3 DEF RowsInv, RowsAgree
<1>7. QED
  BY <1>4, <1>5, <1>6

LEMMA HandleKeeps ==
  ASSUME RowsInv, Handle PROVE GivenOK' /\ ApprovalOK' /\ RunsOK' /\ MainOK' /\ RowsAgree'
<1>1. TypeOK
  BY DEF RowsInv, TypeInv
<1>2. PICK n \in batch : n = Min(batch)
  BY <1>1, HandleShape
<1>3. n \in Updates
  BY <1>1 DEF TypeOK
<1>4. UNCHANGED <<log, notes, main, runs>>
  BY <1>1, HandleShape
<1>5. CASE UNCHANGED <<commands, approvals>>
  BY <1>4, <1>5, QuietKeeps DEF Quiet
<1>6. CASE log[n].type = "message" /\ UNCHANGED approvals /\ commands' = InsertCommand(n)
  BY <1>3, <1>4, <1>6, InsertKeeps
<1>7. CASE log[n].type = "click" /\ CanDecide(log[n].of) /\ Decided(log[n].of, log[n].word)
  <2>1. log[n].of \in Updates /\ log[n].word \in {"approve", "deny"}
    BY <1>3, <1>7 DEF RowsInv, TypeInv, LogOK
  <2>2. QED
    BY <1>4, <1>7, <2>1, DecideKeeps
<1>8. QED
  BY <1>1, <1>2, <1>5, <1>6, <1>7, HandleShape

LEMMA ClaimKeeps ==
  ASSUME RowsInv, ClaimCommand PROVE GivenOK' /\ ApprovalOK' /\ RunsOK' /\ MainOK' /\ RowsAgree'
<1>1. TypeOK
  BY DEF RowsInv, TypeInv
<1>2. PICK n \in Updates :
        /\ commands[n] \in {"queued", "approved"}
        /\ commands' = [commands EXCEPT ![n] = "running"]
        /\ main'.command = n
        /\ main'.pc \in {"create", "reply", "run"}
        /\ main'.pc = "create" => log[n].word \in Dangerous
        /\ main'.pc = "run" /\ log[n].word \in Dangerous => commands[n] = "approved"
        /\ UNCHANGED <<log, approvals, notes, runs>>
  BY <1>1, ReadyMin DEF Claimable
<1>3. commands \in [Updates -> CommandStates]
  BY <1>1 DEF TypeOK
<1>4. GivenOK' /\ ApprovalOK' /\ RunsOK'
  BY <1>2, <1>3 DEF RowsInv, GivenOK, ApprovalOK, RunsOK
<1>5. InHandOK(n)'
  BY <1>2, <1>3 DEF RowsInv, InHandOK, RunsOK, RowsAgree
<1>6. RowsAgree'
  BY <1>2, <1>3 DEF RowsInv, RowsAgree
<1>7. QED
  BY <1>2, <1>4, <1>5, <1>6 DEF MainOK

\* The steps of the main thread that only add an approval or a notification.
LEMMA AskKeeps ==
  ASSUME RowsInv, CreateApproval \/ Notify
  PROVE  GivenOK' /\ ApprovalOK' /\ RunsOK' /\ MainOK' /\ RowsAgree'
<1>1. TypeOK
  BY DEF RowsInv, TypeInv
<1>2. PICK n \in Updates : n = main.command
  BY DEF RowsInv, TypeInv, HandsOK, CreateApproval, Notify
<1>3. InHandOK(n) /\ main.pc # "idle"
  BY <1>2 DEF RowsInv, MainOK, CreateApproval, Notify
<1>4. UNCHANGED <<log, commands, runs>> /\ main'.command = n
  BY <1>1, <1>2 DEF CreateApproval, Notify, TypeOK
<1>5. CASE CreateApproval
  <2>1. /\ main.pc = "create" /\ main'.pc = "notify" /\ UNCHANGED notes
        /\ approvals' = [approvals EXCEPT ![n] = IF @ = "absent" THEN "pending" ELSE @]
    BY <1>1, <1>2, <1>5 DEF CreateApproval, TypeOK
  <2>2. approvals \in [Updates -> ApprovalStates]
    BY <1>1 DEF TypeOK
  <2>3. GivenOK' /\ RunsOK'
    BY <1>4 DEF RowsInv, GivenOK, RunsOK
  <2>4. ApprovalOK'
    BY <1>3, <1>4, <2>1, <2>2 DEF RowsInv, ApprovalOK, InHandOK
  <2>5. MainOK'
    BY <1>3, <1>4, <2>1, <2>2 DEF MainOK, InHandOK
  <2>6. RowsAgree'
    BY <1>3, <1>4, <2>1, <2>2 DEF RowsInv, RowsAgree, InHandOK
  <2>7. QED
    BY <2>3, <2>4, <2>5, <2>6
<1>6. CASE Notify
  <2>1. /\ UNCHANGED approvals
        /\ notes' = [notes EXCEPT ![n] = IF @ = "absent" THEN "queued" ELSE @]
        /\ main.pc \in {"notify", "reply"}
        /\ main'.pc = IF main.pc = "notify" THEN "require" ELSE "done"
    <3>1. /\ main.pc \in {"notify", "reply"}
          /\ main' = [main EXCEPT !.pc = IF main.pc = "notify" THEN "require" ELSE "done"]
      BY <1>6 DEF Notify
    <3>2. main \in [pc : MainSteps, command : Updates \cup {NoUpdate}]
      BY <1>1 DEF TypeOK
    <3>3. main'.pc = IF main.pc = "notify" THEN "require" ELSE "done"
      BY <3>1, <3>2
    <3>4. QED
      BY <1>2, <1>6, <3>1, <3>3 DEF Notify
  <2>2. notes \in [Updates -> NoteStates]
    BY <1>1 DEF TypeOK
  <2>3. GivenOK' /\ RunsOK' /\ ApprovalOK'
    BY <1>4, <2>1 DEF RowsInv, GivenOK, RunsOK, ApprovalOK
  <2>4. MainOK'
    BY <1>3, <1>4, <2>1, <2>2 DEF MainOK, InHandOK
  <2>5. RowsAgree'
    BY <1>4, <2>1, <2>2 DEF RowsInv, RowsAgree
  <2>6. QED
    BY <2>3, <2>4, <2>5
<1>7. QED
  BY <1>5, <1>6

\* The steps that leave the command: it waits, is done, or stays running.
LEMMA LeaveKeeps ==
  ASSUME RowsInv, RequireApproval \/ FinishCommand \/ MainFails
  PROVE  GivenOK' /\ ApprovalOK' /\ RunsOK' /\ MainOK' /\ RowsAgree'
<1>1. PICK n \in Updates : n = main.command
  BY DEF RowsInv, TypeInv, HandsOK, RequireApproval, FinishCommand, MainFails
<1>2. InHandOK(n)
  BY <1>1 DEF RowsInv, MainOK, RequireApproval, FinishCommand, MainFails
<1>3. PICK s \in {"approval_required", "done", "ignored", "running"} :
        /\ commands' = [commands EXCEPT ![n] = s] /\ main' = MainIdle
        /\ s = "approval_required" => main.pc = "require"
        /\ UNCHANGED <<log, approvals, notes, runs>>
  BY <1>1 DEF RequireApproval, FinishCommand, MainFails, SetState, AfterError
<1>4. commands \in [Updates -> CommandStates]
  BY DEF RowsInv, TypeInv, TypeOK
<1>5. GivenOK' /\ ApprovalOK' /\ RunsOK'
  BY <1>2, <1>3, <1>4 DEF RowsInv, GivenOK, ApprovalOK, RunsOK, InHandOK
<1>6. MainOK'
  BY <1>3 DEF MainOK, MainIdle
<1>7. RowsAgree'
  BY <1>2, <1>3, <1>4 DEF RowsInv, RowsAgree, InHandOK
<1>8. QED
  BY <1>5, <1>6, <1>7

LEMMA RunKeeps ==
  ASSUME RowsInv, RunCommand PROVE GivenOK' /\ ApprovalOK' /\ RunsOK' /\ MainOK' /\ RowsAgree'
<1>1. PICK n \in Updates : n = main.command
  BY DEF RowsInv, TypeInv, HandsOK, RunCommand
<1>2. InHandOK(n) /\ main.pc = "run"
  BY <1>1 DEF RowsInv, MainOK, RunCommand
<1>3. /\ runs' = [runs EXCEPT ![n] = IF log[n].word \in NoHandler THEN @ ELSE @ + 1]
      /\ main'.pc = "done" /\ main'.command = n
      /\ UNCHANGED <<log, commands, approvals, notes>>
  BY <1>1 DEF RunCommand, RowsInv, TypeInv, TypeOK
<1>4. runs \in [Updates -> Nat]
  BY DEF RowsInv, TypeInv, TypeOK
<1>5. RunsOK'
  BY <1>2, <1>3, <1>4 DEF RowsInv, RunsOK, InHandOK
<1>6. GivenOK' /\ ApprovalOK' /\ MainOK' /\ RowsAgree'
  BY <1>2, <1>3 DEF RowsInv, GivenOK, ApprovalOK, MainOK, RowsAgree, InHandOK
<1>7. QED
  BY <1>5, <1>6

LEMMA RowsStep == ASSUME RowsInv, [Next]_vars PROVE RowsInv'
<1>1. TypeInv
  BY DEF RowsInv
<1>2. TypeInv'
  BY <1>1, TypeStep
<1>3. QED
  BY <1>1, <1>2, Steps, QuietSteps, QuietKeeps, SendKeeps, HandleKeeps, ClaimKeeps, AskKeeps,
     LeaveKeeps, RunKeeps
  DEF RowsInv, Sending

\* Whatever the handler, the clicks, errors and crashes do to each other, a
\* decision that a command row shows is the one its approval row shows.
THEOREM RowsAlwaysAgree == Spec => []RowsAgree
<1>1. RowsInv => RowsAgree
  BY DEF RowsInv
<1>2. QED
  BY <1>1, RowsInit, RowsStep, PTL DEF Spec

-----------------------------------------------------------------------------
(* Who decides.                                                            *)

DecisionInv == TypeInv /\ DecidedByAdmin

LEMMA DecisionStep == ASSUME DecisionInv, [Next]_vars PROVE DecisionInv'
<1>1. TypeInv /\ TypeOK /\ TypeInv'
  BY TypeStep DEF DecisionInv, TypeInv
<1>2. CASE UserSends
  <2>1. PICK n \in Updates, e \in Entry :
          log[n].type = "none" /\ log' = [log EXCEPT ![n] = e] /\ UNCHANGED approvals
    BY <1>1, <1>2, SendShape
  <2>2. ASSUME NEW m \in Updates, approvals[m] \in {"approved", "denied"}
        PROVE  \E i \in Updates : log'[i].of = m /\ RoleOf[log'[i].user] = "admin"
    <3>1. PICK i \in Updates : log[i].of = m /\ RoleOf[log[i].user] = "admin"
      BY <2>2 DEF DecisionInv, DecidedByAdmin
    <3>2. log[n] = NoLog
      BY <1>1, <2>1 DEF TypeOK
    <3>3. i # n
      BY <3>1, <3>2 DEF NoLog, NoUpdate, Updates
    <3>4. log'[i] = log[i]
      BY <1>1, <2>1, <3>3 DEF TypeOK
    <3>5. QED
      BY <3>1, <3>4
  <2>3. QED
    BY <1>1, <2>1, <2>2 DEF DecisionInv, DecidedByAdmin
<1>3. CASE Handle
  <2>1. PICK n \in batch : n = Min(batch)
    BY <1>1, <1>3, HandleShape
  <2>2. n \in Updates /\ UNCHANGED log
    BY <1>1, <1>3, HandleShape DEF TypeOK
  <2>3. CASE UNCHANGED approvals
    BY <1>1, <2>2, <2>3 DEF DecisionInv, DecidedByAdmin
  <2>4. CASE /\ log[n].type = "click" /\ Allowed(log[n].user, log[n].word)
             /\ Decided(log[n].of, log[n].word)
    <3>1. log[n].word \in {"approve", "deny"} /\ log[n].of \in Updates
      BY <1>1, <2>2, <2>4 DEF TypeInv, LogOK
    <3>2. RoleOf[log[n].user] = "admin"
      BY <2>4, <3>1 DEF Allowed, Operator, Viewer
    <3>3. ASSUME NEW m \in Updates, m # log[n].of PROVE approvals'[m] = approvals[m]
      BY <1>1, <2>4, <3>1, <3>3 DEF Decided, TypeOK
    <3>4. QED
      BY <1>1, <2>2, <3>1, <3>2, <3>3 DEF DecisionInv, DecidedByAdmin
  <2>5. QED
    BY <1>1, <1>3, <2>1, <2>3, <2>4, HandleShape
<1>4. CASE CreateApproval
  <2>1. UNCHANGED log /\ \A m \in Updates : approvals'[m] = approvals[m] \/ approvals'[m] = "pending"
    BY <1>1, <1>4 DEF CreateApproval, TypeOK
  <2>2. QED
    BY <1>1, <2>1 DEF DecisionInv, DecidedByAdmin
<1>5. CASE UNCHANGED <<log, approvals>>
  BY <1>1, <1>5 DEF DecisionInv, DecidedByAdmin
<1>6. QED
  BY <1>2, <1>3, <1>4, <1>5, Steps
  DEF Fetch, HandleFails, Lapse, ClaimCommand, Notify, RequireApproval, RunCommand, FinishCommand,
      SetState, MainFails, Crash, vars, ClaimNote, SendMessage, MarkSent, SendFails

\* Only a click of a user who may approve decides an approval.
THEOREM DecisionsByAdmin == Spec => []DecidedByAdmin
<1>1. Init => DecisionInv
  BY TypeInvInit DEF Init, DecisionInv, DecidedByAdmin
<1>2. DecisionInv => DecidedByAdmin
  BY DEF DecisionInv
<1>3. QED
  BY <1>1, <1>2, DecisionStep, PTL DEF Spec

-----------------------------------------------------------------------------
(* The promise.                                                            *)

Permitted == {n \in Updates : approvals[n] = "approved"}
Refused   == {n \in Updates : approvals[n] \in {"denied", "expired"}}

LEMMA PromiseInit == Init => Promise!Init
BY DEF Init, Promise!Init, Given, GivenDangerous

LEMMA SameGiven ==
  ASSUME RowsInv,
         \A n \in Updates : commands[n] = "absent" <=> commands'[n] = "absent",
         \A n \in Updates : commands[n] # "absent" => log'[n] = log[n]
  PROVE  UNCHANGED <<Given, GivenDangerous>>
<1>1. Given' = Given
  BY DEF Given
<1>2. GivenDangerous' = GivenDangerous
  BY <1>1 DEF GivenDangerous, Given
<1>3. QED
  BY <1>1, <1>2

\* Whatever neither inserts a command nor decides or runs one is a stutter.
LEMMA StutterStep ==
  ASSUME RowsInv,
         \A n \in Updates : commands[n] = "absent" <=> commands'[n] = "absent",
         \A n \in Updates : commands[n] # "absent" => log'[n] = log[n],
         \A n \in Updates : approvals'[n] = approvals[n]
                            \/ {approvals[n], approvals'[n]} \subseteq {"absent", "pending"},
         UNCHANGED runs
  PROVE  UNCHANGED Promise!pvars
<1>1. UNCHANGED <<Given, GivenDangerous>>
  BY SameGiven
<1>2. UNCHANGED <<Permitted, Refused>>
  BY DEF Permitted, Refused
<1>3. QED
  BY <1>1, <1>2 DEF Promise!pvars, Permitted, Refused

LEMMA GiveStep ==
  ASSUME RowsInv, NEW n \in Updates, commands[n] = "absent",
         commands' = [commands EXCEPT ![n] = "queued"], UNCHANGED <<log, approvals, runs>>
  PROVE  Promise!Give(n)
<1>1. commands \in [Updates -> CommandStates]
  BY DEF RowsInv, TypeInv, TypeOK
<1>2. n \notin Given /\ Given' = Given \cup {n}
  BY <1>1 DEF Given
<1>3. GivenDangerous' \in {GivenDangerous, GivenDangerous \cup {n}}
  <2>1. CASE log[n].word \in Dangerous
    BY <1>2, <2>1 DEF GivenDangerous
  <2>2. CASE log[n].word \notin Dangerous
    BY <1>2, <2>2 DEF GivenDangerous
  <2>3. QED
    BY <2>1, <2>2
<1>4. QED
  BY <1>2, <1>3 DEF Promise!Give

LEMMA DecideStep ==
  ASSUME RowsInv, NEW c \in Updates, NEW d \in {"approve", "deny"},
         CanDecide(c), Decided(c, d), UNCHANGED <<log, runs>>
  PROVE  Promise!Permit(c) \/ Promise!Refuse(c)
<1>1. PICK s \in {"expired", "approved", "denied"} :
        /\ approvals' = [approvals EXCEPT ![c] = s]
        /\ commands' = [commands EXCEPT ![c] = IF @ = "approval_required" THEN s ELSE @]
  BY DEF Decided
<1>2. commands \in [Updates -> CommandStates] /\ approvals \in [Updates -> ApprovalStates]
  BY DEF RowsInv, TypeInv, TypeOK
<1>3. UNCHANGED <<Given, GivenDangerous>>
  BY <1>1, <1>2, SameGiven
<1>4. c \in GivenDangerous /\ c \notin Permitted \cup Refused
  BY DEF CanDecide, RowsInv, ApprovalOK, GivenDangerous, Given, Permitted, Refused
<1>5. \/ Permitted' = Permitted \cup {c} /\ Refused' = Refused
      \/ Refused' = Refused \cup {c} /\ Permitted' = Permitted
  <2>1. CASE s = "approved"
    BY <1>1, <1>2, <2>1 DEF Permitted, Refused, CanDecide
  <2>2. CASE s # "approved"
    BY <1>1, <1>2, <2>2 DEF Permitted, Refused, CanDecide
  <2>3. QED
    BY <2>1, <2>2
<1>6. QED
  BY <1>3, <1>4, <1>5 DEF Promise!Permit, Promise!Refuse, Permitted, Refused

LEMMA RunStep ==
  ASSUME RowsInv, RunCommand PROVE [Promise!Next]_(Promise!pvars)
<1>1. PICK n \in Updates : n = main.command
  BY DEF RowsInv, TypeInv, HandsOK, RunCommand
<1>2. InHandOK(n) /\ main.pc = "run"
  BY <1>1 DEF RowsInv, MainOK, RunCommand
<1>3. /\ runs' = [runs EXCEPT ![n] = IF log[n].word \in NoHandler THEN @ ELSE @ + 1]
      /\ UNCHANGED <<log, commands, approvals>>
  BY <1>1 DEF RunCommand
<1>4. runs \in [Updates -> Nat]
  BY DEF RowsInv, TypeInv, TypeOK
<1>5. UNCHANGED <<Given, GivenDangerous>>
  BY <1>3, SameGiven
<1>6. UNCHANGED <<Permitted, Refused>>
  BY <1>3 DEF Permitted, Refused
<1>7. CASE log[n].word \in NoHandler
  <2>1. runs' = runs
    BY <1>3, <1>4, <1>7
  <2>2. QED
    BY <1>5, <1>6, <2>1 DEF Promise!pvars, Permitted, Refused
<1>8. CASE log[n].word \notin NoHandler
  <2>1. runs[n] = 0 /\ runs' = [runs EXCEPT ![n] = 1]
    BY <1>2, <1>3, <1>4, <1>8 DEF InHandOK
  <2>2. n \in Given /\ (n \in GivenDangerous => n \in Permitted)
    BY <1>2 DEF Given, GivenDangerous, Permitted, InHandOK
  <2>3. Promise!Run(n)
    BY <1>5, <1>6, <2>1, <2>2 DEF Promise!Run, Permitted, Refused
  <2>4. QED
    BY <2>3 DEF Promise!Next
<1>9. QED
  BY <1>7, <1>8

LEMMA PromiseStep == ASSUME RowsInv, [Next]_vars PROVE [Promise!Next]_(Promise!pvars)
<1>1. TypeInv /\ TypeOK
  BY DEF RowsInv, TypeInv
<1>2. commands \in [Updates -> CommandStates] /\ approvals \in [Updates -> ApprovalStates]
  BY <1>1 DEF TypeOK
<1>3. CASE UserSends
  <2>1. PICK n \in Updates, e \in Entry :
          /\ log[n].type = "none" /\ log' = [log EXCEPT ![n] = e]
          /\ UNCHANGED <<commands, approvals, runs>>
    BY <1>1, <1>3, SendShape
  <2>2. ASSUME NEW m \in Updates, commands[m] # "absent" PROVE log'[m] = log[m]
    BY <1>1, <2>1, <2>2 DEF RowsInv, GivenOK, TypeOK
  <2>3. QED
    BY <2>1, <2>2, StutterStep
<1>4. CASE Handle
  <2>1. PICK n \in batch : n = Min(batch)
    BY <1>1, <1>4, HandleShape
  <2>2. n \in Updates /\ UNCHANGED <<log, runs>>
    BY <1>1, <1>4, HandleShape DEF TypeOK
  <2>3. CASE UNCHANGED <<commands, approvals>>
    BY <2>2, <2>3, StutterStep
  <2>4. CASE UNCHANGED approvals /\ commands' = InsertCommand(n)
    <3>1. CASE commands[n] = "absent"
      BY <2>2, <2>4, <3>1, GiveStep DEF InsertCommand, Promise!Next
    <3>2. CASE commands[n] # "absent"
      BY <1>2, <2>2, <2>4, <3>2, StutterStep DEF InsertCommand
    <3>3. QED
      BY <3>1, <3>2
  <2>5. CASE log[n].type = "click" /\ CanDecide(log[n].of) /\ Decided(log[n].of, log[n].word)
    <3>1. log[n].of \in Updates /\ log[n].word \in {"approve", "deny"}
      BY <1>1, <2>2, <2>5 DEF TypeInv, LogOK
    <3>2. QED
      BY <2>2, <2>5, <3>1, DecideStep DEF Promise!Next
  <2>6. QED
    BY <1>1, <1>4, <2>1, <2>3, <2>4, <2>5, HandleShape
<1>5. CASE ClaimCommand
  BY <1>1, <1>2, <1>5, ReadyMin, StutterStep DEF Claimable
<1>6. CASE CreateApproval
  BY <1>2, <1>6, StutterStep DEF CreateApproval
<1>7. CASE Notify
  BY <1>7, StutterStep DEF Notify
<1>8. CASE RequireApproval \/ FinishCommand \/ MainFails
  <2>1. PICK n \in Updates : n = main.command
    BY <1>1, <1>8 DEF TypeInv, HandsOK, RequireApproval, FinishCommand, MainFails
  <2>2. commands[n] = "running"
    BY <1>8, <2>1 DEF RowsInv, MainOK, InHandOK, RequireApproval, FinishCommand, MainFails
  <2>3. \A m \in Updates : commands[m] = "absent" <=> commands'[m] = "absent"
    BY <1>2, <1>8, <2>1, <2>2 DEF RequireApproval, FinishCommand, MainFails, SetState, AfterError
  <2>4. UNCHANGED <<log, approvals, runs>>
    BY <1>8 DEF RequireApproval, FinishCommand, MainFails, SetState
  <2>5. QED
    BY <2>3, <2>4, StutterStep
<1>9. CASE Quiet
  BY <1>9, StutterStep DEF Quiet
<1>10. QED
  BY <1>1, <1>3, <1>4, <1>5, <1>6, <1>7, <1>8, <1>9, RunStep, QuietSteps, Steps DEF Sending

\* Across repeated deliveries and clicks, errors and crashes, a command runs at
\* most once, a dangerous one only after its approval, a refused one never.
THEOREM PromiseKept == Spec => KeepsPromise
BY RowsInit, RowsStep, PromiseInit, PromiseStep, PTL DEF Spec, KeepsPromise, Promise!Spec
=============================================================================

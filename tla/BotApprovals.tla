---------------------------- MODULE BotApprovals ----------------------------
(***************************************************************************)
(* Telegram commands and approvals: TelegramPollingService with            *)
(* TelegramAuthorizer (polling thread), BotCommandRepository and           *)
(* CommandProcessor (main thread), BotNotificationRepository and           *)
(* TelegramNotificationSender (telegram thread), daemon crashes.           *)
(*                                                                         *)
(* An update is a number, in the order Telegram assigns; update n is a     *)
(* message with a command, whose id is then n as well (tg-<update_id>), or *)
(* the click on a button of an approval message.  An approval belongs to   *)
(* one command (approval-<command_id>) and so does a notification          *)
(* (approval-request:<approval id>, command-result:<command id>).          *)
(***************************************************************************)
EXTENDS Integers, FiniteSets

CONSTANTS Users, RoleOf,   \* the chat users and their role
          Commands,        \* the command words they try
          MaxUpdates,      \* bound: updates
          MaxMessages,     \* bound: those of them that are messages
          MaxFaults        \* bound: errors and crashes

VARIABLES
  log,        \* the updates sent so far
  server,     \* those Telegram has not seen confirmed
  commands,   \* bot_commands: state of each
  approvals,  \* bot_approvals: state of the approval of each command
  late,       \* commands whose approval is past its expires_at
  notes,      \* bot_notifications: state of the one of each command
  shown,      \* commands whose notification has arrived in the chat
  offset, batch,  \* polling thread: next_offset, the updates in hand
  main,       \* main thread: the command in hand
  sender,     \* telegram thread: the notification in hand
  runs,       \* observer: how often a command's effect took place
  lost,       \* observer: updates passed over because handling them raised
  faults      \* counter of the bound

poller == <<offset, batch>>
vars == <<log, server, commands, approvals, late, notes, shown, poller, main, sender,
          runs, lost, faults>>

Updates == 1..MaxUpdates
NoUpdate == 0

Viewer   == {"status", "trace", "perf"}
Operator == Viewer \cup {"pause", "resume", "queue"}
Admin    == Operator \cup {"force_upload", "cleanup", "preempt", "config", "approve", "deny"}
Dangerous == {"cleanup", "force_upload", "preempt", "config"}
Roles == {"viewer", "operator", "admin", "none"}

ASSUME BotAssumption ==
  /\ RoleOf \in [Users -> Roles] /\ Commands \subseteq Admin
  /\ MaxUpdates \in Nat /\ MaxMessages \in Nat /\ MaxFaults \in Nat

\* Fault: an operator's role grants the admin's words.
AllowedLoosely(u, word) == \/ RoleOf[u] \in {"admin", "operator"} /\ word \in Admin
                           \/ RoleOf[u] = "viewer" /\ word \in Viewer

\* TelegramAuthorizer.allowed.
Allowed(u, word) == \/ RoleOf[u] = "admin" /\ word \in Admin
                    \/ RoleOf[u] = "operator" /\ word \in Operator
                    \/ RoleOf[u] = "viewer" /\ word \in Viewer

CommandStates  == {"absent", "queued", "running", "approval_required", "approved",
                   "denied", "expired", "done", "ignored"}
ApprovalStates == {"absent", "pending", "approved", "denied", "expired"}
NoteStates     == {"absent", "queued", "running", "retry_wait", "sent"}
MainSteps == {"idle", "create", "notify", "require", "reply", "run", "done"}

Message(u, word)   == [type |-> "message", user |-> u, word |-> word, of |-> NoUpdate]
Click(u, d, c)     == [type |-> "click", user |-> u, word |-> d, of |-> c]
NoLog              == [type |-> "none", user |-> "none", word |-> "none", of |-> NoUpdate]
MainIdle           == [pc |-> "idle", command |-> NoUpdate]
SenderIdle         == [pc |-> "idle", note |-> NoUpdate]

Init ==
  /\ log = [n \in Updates |-> NoLog] /\ server = {}
  /\ commands = [n \in Updates |-> "absent"]
  /\ approvals = [n \in Updates |-> "absent"]
  /\ late = {}
  /\ notes = [n \in Updates |-> "absent"] /\ shown = {}
  /\ offset = 0 /\ batch = {}
  /\ main = MainIdle /\ sender = SenderIdle
  /\ runs = [n \in Updates |-> 0] /\ lost = {} /\ faults = 0

-----------------------------------------------------------------------------
(* Telegram and its users. *)

Send(n, update) ==
  /\ log[n].type = "none" /\ \A i \in 1..(n - 1) : log[i].type # "none"
  /\ log' = [log EXCEPT ![n] = update]
  /\ server' = server \cup {n}
  /\ UNCHANGED <<commands, approvals, late, notes, shown, poller, main, sender,
                 runs, lost, faults>>

GiveCommand(n) ==
  /\ Cardinality({i \in Updates : log[i].type = "message"}) < MaxMessages
  /\ \E u \in Users, word \in Commands : Send(n, Message(u, word))

\* Approve and Deny are buttons of the approval message.  They stay there, and
\* anybody in the chat may click them, again and again.
ClickButton(n) == \E u \in Users, d \in {"approve", "deny"}, c \in shown :
                    log[c].word \in Dangerous /\ Send(n, Click(u, d, c))

-----------------------------------------------------------------------------
(* TelegramPollingService. *)

\* getUpdates with next_offset: what is before it is confirmed and forgotten,
\* the rest is handed out.
Fetch ==
  /\ batch = {}
  /\ LET rest == {n \in server : n >= offset} IN
       /\ server' = rest /\ batch' = rest
       /\ rest # {} \/ rest # server
  /\ UNCHANGED <<log, commands, approvals, late, notes, shown, offset, main, sender,
                 runs, lost, faults>>

\* Fault: a repeated update is a new command.
InsertAgain(n) == [commands EXCEPT ![n] = "queued"]

\* insert_command: insert or ignore.
InsertCommand(n) == [commands EXCEPT ![n] = IF @ = "absent" THEN "queued" ELSE @]

\* _decide_once on a pending approval: the approval is decided for good, and
\* the command if it is waiting.
Decided(c, d) ==
  LET s == IF c \in late THEN "expired" ELSE IF d = "approve" THEN "approved" ELSE "denied" IN
  /\ approvals' = [approvals EXCEPT ![c] = s]
  /\ commands' = [commands EXCEPT ![c] = IF @ = "approval_required" THEN s ELSE @]

\* Fault: a decision can be taken back.
CanDecideAgain(c) == approvals[c] # "absent"

CanDecide(c) == approvals[c] = "pending"

Min(S) == CHOOSE n \in S : \A i \in S : n <= i

\* Fault: the offset is moved past the whole answer at once.
NextOffsetOfBatch(n) == CHOOSE m \in 1..(MaxUpdates + 1) : m - 1 \in batch /\ \A i \in batch : i < m

NextOffset(n) == IF n + 1 > offset THEN n + 1 ELSE offset

\* _handle_update.  The offset moves first; an answer to the chat that cannot
\* be sent raises after the effect and ends the batch.
Handle ==
  LET n == Min(batch)
      update == log[n]
      allowed == Allowed(update.user, update.word)
  IN
  /\ batch # {}
  /\ offset' = NextOffset(n)
  /\ \/ /\ allowed /\ update.type = "message"
        /\ commands' = InsertCommand(n)
        /\ batch' = batch \ {n}
        /\ UNCHANGED approvals
     \/ /\ allowed /\ update.type = "click"
        /\ IF CanDecide(update.of) THEN Decided(update.of, update.word)
                                   ELSE UNCHANGED <<commands, approvals>>
        /\ batch' \in {batch \ {n}, {}}
     \/ /\ ~allowed
        /\ batch' \in {batch \ {n}, {}}
        /\ UNCHANGED <<commands, approvals>>
  /\ UNCHANGED <<log, server, late, notes, shown, main, sender, runs, lost, faults>>

\* The database raises before the effect: the update has been passed over.
HandleFails ==
  /\ batch # {} /\ faults < MaxFaults
  /\ faults' = faults + 1
  /\ offset' = NextOffset(Min(batch))
  /\ batch' = {}
  /\ lost' = lost \cup {Min(batch)}
  /\ UNCHANGED <<log, server, commands, approvals, late, notes, shown, main, sender, runs>>

\* The clock passes expires_at.
Lapse(c) ==
  /\ approvals[c] = "pending" /\ c \notin late
  /\ late' = late \cup {c}
  /\ UNCHANGED <<log, server, commands, approvals, notes, shown, poller, main, sender,
                 runs, lost, faults>>

-----------------------------------------------------------------------------
(* CommandProcessor.run_next. *)

Claimable == {"queued", "approved"}

ClaimCommand ==
  LET ready == {n \in Updates : commands[n] \in Claimable}
      n == Min(ready)
  IN
  /\ main.pc = "idle" /\ ready # {}
  /\ commands' = [commands EXCEPT ![n] = "running"]
  /\ main' = [command |-> n,
              pc |-> IF log[n].word \in Dangerous /\ commands[n] # "approved" THEN "create"
                     ELSE IF log[n].word \in Viewer THEN "reply"
                     ELSE "run"]
  /\ UNCHANGED <<log, server, approvals, late, notes, shown, poller, sender, runs, lost, faults>>

\* create_approval: insert or ignore.
CreateApproval ==
  /\ main.pc = "create"
  /\ approvals' = [approvals EXCEPT ![main.command] = IF @ = "absent" THEN "pending" ELSE @]
  /\ main' = [main EXCEPT !.pc = "notify"]
  /\ UNCHANGED <<log, server, commands, late, notes, shown, poller, sender, runs, lost, faults>>

\* BotNotificationRepository.enqueue with a dedupe key, insert or ignore: the
\* approval request of a dangerous command, the answer to status.
Notify ==
  /\ main.pc \in {"notify", "reply"}
  /\ notes' = [notes EXCEPT ![main.command] = IF @ = "absent" THEN "queued" ELSE @]
  /\ main' = [main EXCEPT !.pc = IF @ = "notify" THEN "require" ELSE "done"]
  /\ UNCHANGED <<log, server, commands, approvals, late, shown, poller, sender, runs, lost, faults>>

SetState(s) ==
  /\ commands' = [commands EXCEPT ![main.command] = s]
  /\ main' = MainIdle
  /\ UNCHANGED <<log, server, approvals, late, notes, shown, poller, sender, runs, lost, faults>>

RequireApproval == main.pc = "require" /\ SetState("approval_required")

\* A typed approve or deny is let through by the authorizer and has no handler.
NoHandler == {"approve", "deny"}

\* The effect: a qBittorrent call, a job row, a line of the action log.
RunCommand ==
  /\ main.pc = "run"
  /\ runs' = [runs EXCEPT ![main.command] = IF log[main.command].word \in NoHandler THEN @ ELSE @ + 1]
  /\ main' = [main EXCEPT !.pc = "done"]
  /\ UNCHANGED <<log, server, commands, approvals, late, notes, shown, poller, sender, lost, faults>>

FinishCommand == /\ main.pc = "done"
                 /\ SetState(IF log[main.command].word \in NoHandler THEN "ignored" ELSE "done")

\* Fault: a state no query looks for.
AfterErrorFailed == "failed"
AfterError == "running"

\* An exception in the handler is logged; nobody touches the row again.
MainFails ==
  /\ main.pc # "idle" /\ faults < MaxFaults
  /\ faults' = faults + 1
  /\ commands' = [commands EXCEPT ![main.command] = AfterError]
  /\ main' = MainIdle
  /\ UNCHANGED <<log, server, approvals, late, notes, shown, poller, sender, runs, lost>>

-----------------------------------------------------------------------------
(* TelegramNotificationSender. *)

ClaimNote(n) ==
  /\ sender.pc = "idle" /\ notes[n] \in {"queued", "retry_wait"}
  /\ notes' = [notes EXCEPT ![n] = "running"]
  /\ sender' = [pc |-> "send", note |-> n]
  /\ UNCHANGED <<log, server, commands, approvals, late, shown, poller, main, runs, lost, faults>>

SendMessage ==
  /\ sender.pc = "send"
  /\ shown' = shown \cup {sender.note}
  /\ sender' = [sender EXCEPT !.pc = "mark"]
  /\ UNCHANGED <<log, server, commands, approvals, late, notes, poller, main, runs, lost, faults>>

MarkSent ==
  /\ sender.pc = "mark"
  /\ notes' = [notes EXCEPT ![sender.note] = "sent"]
  /\ sender' = SenderIdle
  /\ UNCHANGED <<log, server, commands, approvals, late, shown, poller, main, runs, lost, faults>>

\* The call raised, with or without the message getting through.
SendFails ==
  /\ sender.pc = "send" /\ faults < MaxFaults
  /\ faults' = faults + 1
  /\ shown' \in {shown, shown \cup {sender.note}}
  /\ notes' = [notes EXCEPT ![sender.note] = "retry_wait"]
  /\ sender' = SenderIdle
  /\ UNCHANGED <<log, server, commands, approvals, late, poller, main, runs, lost>>

\* The daemon dies and comes back: next_offset is None, rows that were running
\* stay running.
Crash ==
  /\ faults < MaxFaults
  /\ faults' = faults + 1
  /\ offset' = 0 /\ batch' = {}
  /\ main' = MainIdle /\ sender' = SenderIdle
  /\ UNCHANGED <<log, server, commands, approvals, late, notes, shown, runs, lost>>

-----------------------------------------------------------------------------
Polling == Fetch \/ Handle
MainThread == \/ ClaimCommand \/ CreateApproval \/ Notify \/ RequireApproval
              \/ RunCommand \/ FinishCommand
Sending == (\E n \in Updates : ClaimNote(n)) \/ SendMessage \/ MarkSent

Next ==
  \/ \E n \in Updates : GiveCommand(n) \/ ClickButton(n) \/ Lapse(n)
  \/ Polling \/ HandleFails
  \/ MainThread \/ MainFails
  \/ Sending \/ SendFails
  \/ Crash

Spec == Init /\ [][Next]_vars
\* The loops of the three threads go on.
FairSpec == Spec /\ WF_vars(Polling) /\ WF_vars(MainThread) /\ WF_vars(Sending)

-----------------------------------------------------------------------------
(* Properties. *)

\* The variables hold what the tables and the threads can hold.
TypeOK ==
  /\ log \in [Updates -> {NoLog} \cup [type : {"message", "click"}, user : Users, word : Admin,
                                      of : Updates \cup {NoUpdate}]]
  /\ server \subseteq Updates /\ batch \subseteq Updates /\ offset \in 0..(MaxUpdates + 1)
  /\ commands \in [Updates -> CommandStates]
  /\ approvals \in [Updates -> ApprovalStates]
  /\ notes \in [Updates -> NoteStates]
  /\ late \subseteq Updates /\ shown \subseteq Updates /\ lost \subseteq Updates
  /\ main \in [pc : MainSteps, command : Updates \cup {NoUpdate}]
  /\ sender \in [pc : {"idle", "send", "mark"}, note : Updates \cup {NoUpdate}]
  /\ runs \in [Updates -> Nat] /\ faults \in 0..MaxFaults

Given == {n \in Updates : commands[n] # "absent"}
GivenDangerous == {n \in Given : log[n].word \in Dangerous}

\* Across repeated deliveries, repeated clicks, errors and crashes: a command
\* runs at most once, a dangerous one only after its approval, and what was
\* denied or has expired never runs.
Promise == INSTANCE ApprovedCommands WITH
  Commands <- Updates, given <- Given, dangerous <- GivenDangerous,
  permitted <- {n \in Updates : approvals[n] = "approved"},
  refused <- {n \in Updates : approvals[n] \in {"denied", "expired"}},
  runs <- runs
KeepsPromise == Promise!Spec

\* Whatever the handler and the clicks do to each other, a decision that a
\* command row shows is the decision its approval row shows.
RowsAgree ==
  \A n \in Updates :
    /\ commands[n] \in {"approved", "denied", "expired"} => approvals[n] = commands[n]
    /\ commands[n] = "approval_required" => approvals[n] # "absent" /\ notes[n] # "absent"

\* Only a click of a user who may approve decides an approval.
DecidedByAdmin ==
  \A n \in Updates : approvals[n] \in {"approved", "denied"} =>
    \E i \in Updates : log[i].of = n /\ RoleOf[log[i].user] = "admin"

\* No command is lost on the way: what an authorized user sends becomes a
\* command row, even if the daemon dies before or after it took the update.
\* One case is let out, lost: when the handling of an update raises, the poll
\* loop has counted it already and passes it over for good.
CommandArrives ==
  \A n \in Updates :
    (log[n].type = "message" /\ Allowed(log[n].user, log[n].word))
      ~> (commands[n] # "absent" \/ n \in lost)
=============================================================================

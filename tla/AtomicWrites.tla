---------------------------- MODULE AtomicWrites ----------------------------
(***************************************************************************)
(* What write_transaction promises its callers: a call takes effect once,  *)
(* whole, between the call and its return, and the return says whether it  *)
(* did.  (It does not promise that a call returns: see StateWriter.)       *)
(***************************************************************************)
EXTENDS Sequences

CONSTANT Callers

VARIABLES phase,    \* of the call each caller is in
          result,   \* of the last call of each caller that returned
          log       \* callers of the transactions in the database, in order

Init ==
  /\ phase = [c \in Callers |-> "idle"]
  /\ result = [c \in Callers |-> "none"]
  /\ log = <<>>

Call(c) ==
  /\ phase[c] = "idle" /\ phase' = [phase EXCEPT ![c] = "called"]
  /\ UNCHANGED <<result, log>>

Commit(c) ==
  /\ phase[c] = "called" /\ phase' = [phase EXCEPT ![c] = "ok"]
  /\ log' = Append(log, c) /\ UNCHANGED result

Fail(c) ==
  /\ phase[c] = "called" /\ phase' = [phase EXCEPT ![c] = "error"]
  /\ UNCHANGED <<result, log>>

Return(c) ==
  /\ phase[c] \in {"ok", "error"} /\ phase' = [phase EXCEPT ![c] = "idle"]
  /\ result' = [result EXCEPT ![c] = phase[c]] /\ UNCHANGED log

Next == \E c \in Callers : Call(c) \/ Commit(c) \/ Fail(c) \/ Return(c)

Spec == Init /\ [][Next]_<<phase, result, log>>
=============================================================================

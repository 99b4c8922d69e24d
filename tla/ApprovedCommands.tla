-------------------------- MODULE ApprovedCommands --------------------------
(***************************************************************************)
(* What the bot promises its operators: a command runs at most once, only  *)
(* if a user who may give it has given it, and a dangerous one only after  *)
(* an admin has approved it; what was refused never runs.                  *)
(***************************************************************************)
EXTENDS Integers

CONSTANT Commands

VARIABLES given,      \* commands that an authorized user has given
          dangerous,  \* those of them that need an approval
          permitted, refused,
          runs        \* how often each has run

pvars == <<given, dangerous, permitted, refused, runs>>

Init == /\ given = {} /\ dangerous = {} /\ permitted = {} /\ refused = {}
        /\ runs = [c \in Commands |-> 0]

Give(c) == /\ c \notin given
           /\ given' = given \cup {c}
           /\ dangerous' \in {dangerous, dangerous \cup {c}}
           /\ UNCHANGED <<permitted, refused, runs>>

Permit(c) == /\ c \in dangerous \ (permitted \cup refused)
             /\ permitted' = permitted \cup {c}
             /\ UNCHANGED <<given, dangerous, refused, runs>>

Refuse(c) == /\ c \in dangerous \ (permitted \cup refused)
             /\ refused' = refused \cup {c}
             /\ UNCHANGED <<given, dangerous, permitted, runs>>

Run(c) == /\ c \in given /\ runs[c] = 0
          /\ c \in dangerous => c \in permitted
          /\ runs' = [runs EXCEPT ![c] = 1]
          /\ UNCHANGED <<given, dangerous, permitted, refused>>

Next == \E c \in Commands : Give(c) \/ Permit(c) \/ Refuse(c) \/ Run(c)

Spec == Init /\ [][Next]_pvars
=============================================================================

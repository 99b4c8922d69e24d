----------------------------- MODULE TorrentJobs -----------------------------
(***************************************************************************)
(* The durable job table torrent_jobs and the operations of                *)
(* runtime.TorrentJobRepository and runtime.reconcile_jobs on its rows.    *)
(*                                                                         *)
(* The table is a function from row ids to rows; ids are handed out in     *)
(* increasing order (autoincrement) and a row is never deleted.  A row has *)
(* at least the fields kind (job_type), prio, state and attempts; a module *)
(* that uses the table adds the fields of its payload.  The clock is left  *)
(* out: whether next_run_at has come, or lease_until has passed, is a free *)
(* choice of the moment the code looks at it.                              *)
(***************************************************************************)
EXTENDS Integers

CONSTANTS MaxJobs,      \* bound: rows the table can hold
          MaxAttempts   \* torrent_jobs.max_attempts (6 in the schema)

ASSUME JobTableAssumption == MaxJobs \in Nat \ {0} /\ MaxAttempts \in Nat \ {0}

JobIds == 1..MaxJobs

\* "unused" is an id that no insert has handed out yet.
JobStates == {"unused", "queued", "running", "retry_wait", "verify_pending",
              "done", "cleanup_deferred", "blocked", "failed"}

\* enqueue: the insert takes the next id.
IsNextId(jobs, j) == /\ jobs[j].state = "unused"
                     /\ \A i \in 1..(j - 1) : jobs[i].state # "unused"

Before(jobs, j, i) == \/ jobs[j].prio < jobs[i].prio
                      \/ jobs[j].prio = jobs[i].prio /\ j < i

\* The row with id j is one of those with state in ready, or in waiting and its
\* time has come, and no ready row is before it by (priority, id).
IsFirst(jobs, kinds, ready, waiting, j) ==
  LET In(states) == {i \in JobIds : jobs[i].kind \in kinds /\ jobs[i].state \in states}
  IN  /\ j \in In(ready) \cup In(waiting)
      /\ \A i \in In(ready) \ {j} : Before(jobs, j, i)

\* Faults: settled rows are claimed again; rows that wait for a retry never.
IsNextToClaimSettled(jobs, kinds, j) ==
  IsFirst(jobs, kinds, {"queued", "verify_pending", "cleanup_deferred"}, {"retry_wait"}, j)
IsNextToClaimReady(jobs, kinds, j) ==
  IsFirst(jobs, kinds, {"queued", "verify_pending"}, {}, j)

\* claim_next, claim_next_any.
IsNextToClaim(jobs, kinds, j) ==
  IsFirst(jobs, kinds, {"queued", "verify_pending"}, {"retry_wait"}, j)

\* attempts saturates at MaxAttempts: it is only ever compared with it.
Claimed(row) == [row EXCEPT !.state = "running",
                            !.attempts = IF @ < MaxAttempts THEN @ + 1 ELSE @]

AttemptsExhausted(row) == row.attempts >= MaxAttempts

\* update_state, schedule_retry: the state is written whatever it was.
WithState(row, s) == [row EXCEPT !.state = s]

\* The two selects of reconcile_jobs (of the running rows, those whose lease
\* has run out) and the transaction that follows them.
Running(jobs) == {j \in JobIds : jobs[j].state = "running"}
ExhaustedRetries(jobs) ==
  {j \in JobIds : jobs[j].state = "retry_wait" /\ AttemptsExhausted(jobs[j])}

Reconciled(jobs, expired, exhausted) ==
  [j \in JobIds |-> IF j \in exhausted THEN WithState(jobs[j], "failed")
                    ELSE IF j \in expired THEN WithState(jobs[j], "retry_wait")
                    ELSE jobs[j]]

\* _existing_upload_job, _existing_batch_upload_job: state not in
\* ('cancelled', 'failed'); nothing writes 'cancelled'.
Live(row) == row.state \notin {"unused", "failed"}
=============================================================================

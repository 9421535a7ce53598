------------------------------ MODULE JobRules ------------------------------
(* The status vocabulary of a post job and the decisions the code takes on   *)
(* it: which statuses each request accepts, what a retry resets, and how the *)
(* executor folds the results of the accounts into the status of the job.    *)
EXTENDS Naturals, FiniteSets

\* A job is created "pending" or "scheduled"; the other values are written by
\* the executor, the worker and the control requests.
JobStatus == {"pending", "scheduled", "running", "paused", "stopped",
              "completed", "failed", "partial"}

ResultStatus == {"pending", "uploading", "success", "failed", "skipped"}

\* JobState.terminal_states
Terminal == {"stopped", "completed", "failed", "partial"}

Runnable  == {"pending", "scheduled"}
Stoppable == {"running", "paused", "pending", "scheduled"}
Retryable == {"failed", "stopped", "partial"}
Active    == {"pending", "scheduled", "running", "paused"}

\* The results an outer deadline leaves alone.
Settled == {"success", "failed", "skipped"}

\* The results a retry puts back to "pending".
ResetByRetry == {"failed", "pending", "skipped"}

\* How many accounts of S have the result s in res.
Count(res, S, s) == Cardinality({a \in S : res[a] = s})

Tally(res, S) == [success |-> Count(res, S, "success"),
                  failed  |-> Count(res, S, "failed"),
                  skipped |-> Count(res, S, "skipped")]

FinalStatus(t) ==
  IF t.skipped > 0 /\ t.success = 0 /\ t.failed = 0 THEN "stopped"
  ELSE IF t.skipped > 0 THEN "partial"
  ELSE IF t.failed = 0 THEN "completed"
  ELSE IF t.success = 0 THEN "failed"
  ELSE "partial"
=============================================================================

--------------------------- MODULE IngestionRuns ---------------------------
(***************************************************************************)
(* The statements of IngestionRunRepository and of ingest_schoology.py     *)
(* that write a row of the table ingestion_runs, as operators on the row   *)
(* (one row per run id).  Each is one SQL statement in one transaction, so *)
(* the modules that own the table apply one of them per step.              *)
(*                                                                         *)
(* A row keeps the columns the queue decides on:                           *)
(*   status    the status column; "absent" before the INSERT               *)
(*   worker    worker_id, NoWorker for NULL                                *)
(*   beat      heartbeat_at: "null", "fresh" (within the lease) or "stale" *)
(*   attempts  attempt_count                                               *)
(*   applied   transforms_applied = true                                   *)
(* claimed_at, finished_at and error_details are written by the same       *)
(* statements and read by none of them.                                    *)
(***************************************************************************)
EXTENDS Naturals

CONSTANTS Worker,        \* ids of the worker processes
          NoWorker,      \* worker_id IS NULL
          MaxAttempts    \* INGESTION_MAX_ATTEMPTS

ASSUME RunsAssumption == /\ NoWorker \notin Worker
                         /\ MaxAttempts \in Nat \ {0}

Status == {"absent", "pending", "running", "landed", "succeeded", "failed"}
Terminal == {"succeeded", "failed"}
Row == [status : Status, worker : Worker \cup {NoWorker},
        beat : {"null", "fresh", "stale"}, attempts : Nat,
        applied : BOOLEAN]

NoRow == [status |-> "absent", worker |-> NoWorker, beat |-> "null",
          attempts |-> 0, applied |-> FALSE]

\* create_pending: the row of a fresh request.
CreatePending == [NoRow EXCEPT !.status = "pending"]

\* claim_next: the row the UPDATE returns; attempt_count is bumped in the same
\* statement.
Claimed(row, w) ==
    [row EXCEPT !.status = "running", !.worker = w, !.beat = "fresh",
                !.attempts = @ + 1]

\* heartbeat: scoped to the owner and to a run that is still being worked on.
Beaten(row, w) ==
    IF row.worker = w /\ row.status = "running"
    THEN [row EXCEPT !.beat = "fresh"] ELSE row

\* Mutants: only the never-beaten rows; every running row; one attempt too many.
ExpiredNeverBeaten(row) == row.status = "running" /\ row.beat = "null"
ExpiredUnchecked(row) == row.status = "running"
ReapedOffByOne(row) ==
    [row EXCEPT !.status = IF row.attempts <= MaxAttempts THEN "pending" ELSE "failed",
                !.worker = NoWorker, !.beat = "null"]

\* The WHERE clause of requeue_expired.
Expired(row) == row.status = "running" /\ row.beat \in {"null", "stale"}

\* The SET clause of requeue_expired.
Reaped(row) ==
    [row EXCEPT !.status = IF row.attempts < MaxAttempts THEN "pending" ELSE "failed",
                !.worker = NoWorker, !.beat = "null"]

\* requeue_expired over the whole table.
RequeueExpired(table) ==
    [r \in DOMAIN table |-> IF Expired(table[r]) THEN Reaped(table[r]) ELSE table[r]]

\* mark: not scoped to the worker, whatever the status was.
Marked(row, status) == [row EXCEPT !.status = status]

\* _finalize_succeeded: mark plus the transforms_applied column, in one transaction.
Finalized(row, ta) == [row EXCEPT !.status = "succeeded", !.applied = ta]

\* _adopt_run (phase 1 of run_ingestion), not scoped either; started_at is kept by
\* the owner of the table.
Adopted(row) == [row EXCEPT !.status = "running"]

\* _finish_run (phase 3 of run_ingestion): landed_status or 'failed'.
Finished(row, status) == [row EXCEPT !.status = status]

\* SET started_at = now() for r: r becomes the youngest.  Only the order of the
\* start times matters (ORDER BY started_at), so they are kept as ranks.
StartedNow(rank, r, youngest) ==
    [x \in DOMAIN rank |->
        IF x = r THEN youngest
        ELSE IF rank[x] > rank[r] THEN rank[x] - 1 ELSE rank[x]]

\* The subselect of claim_next: pending, ORDER BY started_at LIMIT 1.
OldestPending(table, rank) ==
    {r \in DOMAIN table :
        /\ table[r].status = "pending"
        /\ \A x \in DOMAIN table :
              table[x].status = "pending" => rank[r] <= rank[x]}

\* Mutant: the sweep forgets that a run may already have its verdict.
LandedOrSucceeded(table) == {r \in DOMAIN table : table[r].status \in {"landed", "succeeded"}}

\* The sweep of _scope_run_ids: SELECT run_id ... WHERE status = 'landed'.
Landed(table) == {r \in DOMAIN table : table[r].status = "landed"}
=============================================================================

---------------------------- MODULE RunLifecycle ----------------------------
(***************************************************************************)
(* What the durable queue promises about one ingestion run, whoever works  *)
(* on it: it is started at most MaxAttempts times, it leaves the running   *)
(* state, and once settled it stays settled.  IngestionWorker implements   *)
(* this specification when one worker process is up at a time.             *)
(***************************************************************************)
EXTENDS Naturals

CONSTANTS Run, MaxAttempts

VARIABLES phase,   \* phase[r]: the status of run r
          tries    \* tries[r]: how often r was started

vars == <<phase, tries>>

Phase == {"absent", "pending", "running", "landed", "succeeded", "failed"}

Init == /\ phase = [r \in Run |-> "absent"]
        /\ tries = [r \in Run |-> 0]

Goto(r, from, to) == /\ phase[r] \in from
                     /\ phase' = [phase EXCEPT ![r] = to]

Submit(r) == Goto(r, {"absent"}, "pending") /\ UNCHANGED tries

Start(r) == /\ tries[r] < MaxAttempts
            /\ Goto(r, {"pending"}, "running")
            /\ tries' = [tries EXCEPT ![r] = @ + 1]

\* The worker died with attempts left, or with none left.
Retry(r) == tries[r] < MaxAttempts /\ Goto(r, {"running"}, "pending") /\ UNCHANGED tries
Refuse(r) == Goto(r, {"running"}, "failed") /\ UNCHANGED tries

Land(r) == Goto(r, {"running"}, "landed") /\ UNCHANGED tries

\* The transform pass gives its verdict.  A run whose school was deactivated while
\* it was being claimed is settled straight from running.
Settle(r) == /\ \E verdict \in {"succeeded", "failed"} :
                   Goto(r, {"running", "landed"}, verdict)
             /\ UNCHANGED tries

\* Leases are reaped by whoever polls next, so several runs move in one step.
Reconcile ==
    \E dead \in SUBSET {r \in Run : phase[r] = "running"} :
        /\ phase' = [r \in Run |-> IF r \notin dead THEN phase[r]
                                   ELSE IF tries[r] < MaxAttempts THEN "pending"
                                   ELSE "failed"]
        /\ UNCHANGED tries

Leave(r) == Retry(r) \/ Refuse(r) \/ Land(r) \/ Settle(r)

Next == \/ Reconcile
        \/ \E r \in Run : Submit(r) \/ Start(r) \/ Leave(r)

\* No promise that a landed run is settled: see LandedRowsAreJudged in IngestionWorker.
StopRunning(r) == phase[r] = "running" /\ Leave(r)

Safety == Init /\ [][Next]_vars
Spec == Safety /\ \A r \in Run : WF_vars(Start(r)) /\ WF_vars(StopRunning(r))
=============================================================================

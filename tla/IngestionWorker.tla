-------------------------- MODULE IngestionWorker --------------------------
(***************************************************************************)
(* The in-process ingestion worker (app/services/ingestion_worker.py): it  *)
(* polls ingestion_runs, lands every pending run, then applies ONE         *)
(* transform pass to the batch and gives each run its verdict.  The        *)
(* database survives a crash, the worker's locals do not.                  *)
(*                                                                         *)
(* Raw rows are tracked per source file: raw[f] is the ingestion_run_id    *)
(* its rows carry, ingested is the content the hash index knows, built is  *)
(* the files whose rows some committed transform folded into fact / dims.  *)
(* A file belongs to one school and one assessment (subject); a            *)
(* "submission" file carries student rows, a "question" file only the      *)
(* question data of its assessment.                                        *)
(***************************************************************************)
EXTENDS IngestionRuns, FiniteSets

CONSTANTS Run, School, File,
          NoRun,            \* no run: raw rows absent, token NULL, nothing claimed
          SchoolOf,         \* school_id of each run
          FileSchool, FileSubject, FileKind,
          Modes,            \* values INGESTION_TRANSFORMS_ENABLED may start with
          LeaseCanLapse,    \* TRUE: a lease may expire under a live worker
          FaultBudget       \* bound on crashes, escaped exceptions, admin changes

ASSUME WorkerAssumption ==
    /\ NoRun \notin Run
    /\ SchoolOf \in [Run -> School]
    /\ FileSchool \in [File -> School]
    /\ FileKind \in [File -> {"submission", "question"}]
    /\ Modes \subseteq BOOLEAN /\ LeaseCanLapse \in BOOLEAN
    /\ FaultBudget \in Nat /\ IsFiniteSet(Run)

VARIABLES runs,      \* the table ingestion_runs
          started,   \* the order of its started_at column, as ranks
          dirty,     \* warehouse_state: transforms_dirty and dirty_token
          raw, ingested, built,
          school,    \* each school: "open", "inactive", or its session "locked"
          wk,        \* the locals of each worker
          faults     \* faults still to come

db == <<runs, started, dirty, raw, ingested, built>>
vars == <<db, school, wk, faults>>

PC == {"down", "reap", "claim", "resolve", "predirty", "adopt", "lock", "land",
       "finish", "rollback", "archive", "fail", "redrive", "scope", "gate", "skip",
       "build", "settle", "purge"}
Verdicts == {"none", "skip", "raised", "noop", "applied"}

Locals == [pc : PC, on : BOOLEAN, cur : Run \cup {NoRun}, beating : BOOLEAN,
           got : BOOLEAN, err : BOOLEAN,
           batch : SUBSET Run, last : Run \cup {NoRun}, rows : BOOLEAN,
           erred : SUBSET Run, force : BOOLEAN, scope : SUBSET Run,
           verdict : Verdicts, todo : SUBSET Run, bad : SUBSET Run]

Down == [pc |-> "down", on |-> FALSE, cur |-> NoRun, beating |-> FALSE,
         got |-> FALSE, err |-> FALSE, batch |-> {}, last |-> NoRun,
         rows |-> FALSE, erred |-> {}, force |-> FALSE, scope |-> {},
         verdict |-> "none", todo |-> {}, bad |-> {}]

\* A new iteration of run_forever: nothing is carried over but the settings.
Poll(on) == [Down EXCEPT !.pc = "reap", !.on = on]

Clean == [on |-> FALSE, token |-> NoRun]
DirtyBy(r) == [on |-> TRUE, token |-> r]

TypeOK ==
    /\ runs \in [Run -> Row]
    /\ started \in [Run -> Nat]
    /\ dirty \in [on : BOOLEAN, token : Run \cup {NoRun}]
    /\ raw \in [File -> Run \cup {NoRun}]
    /\ ingested \subseteq File
    /\ built \subseteq File
    /\ school \in [School -> {"open", "inactive", "locked"}]
    /\ wk \in [Worker -> Locals]
    /\ faults \in 0..FaultBudget

Init ==
    /\ runs = [r \in Run |-> NoRow]
    /\ started = [r \in Run |-> 0]
    /\ dirty = Clean
    /\ raw = [f \in File |-> NoRun]
    /\ ingested = {}
    /\ built = {}
    /\ school = [s \in School |-> "open"]
    /\ wk = [w \in Worker |-> Down]
    /\ faults = FaultBudget
-----------------------------------------------------------------------------
(* Shorthands for a worker's step. *)
At(w, pc) == wk[w].pc = pc
Become(w, locals) == wk' = [wk EXCEPT ![w] = locals]
Goto(w, pc) == Become(w, [wk[w] EXCEPT !.pc = pc])
SetRow(r, row) == runs' = [runs EXCEPT ![r] = row]
SpendFault == faults > 0 /\ faults' = faults - 1

\* End of _land_run: the heartbeat task is cancelled, back to the claim loop.
NextClaim(w) == [wk[w] EXCEPT !.pc = "claim", !.cur = NoRun, !.beating = FALSE,
                              !.got = FALSE, !.err = FALSE]

\* _land_run returned a context: it joins the batch.
JoinBatch(w) ==
    [NextClaim(w) EXCEPT
        !.batch = @ \cup {wk[w].cur}, !.last = wk[w].cur,
        !.rows = @ \/ wk[w].got,
        !.erred = IF wk[w].err THEN @ \cup {wk[w].cur} ELSE @]
-----------------------------------------------------------------------------
(* The environment: requests, the passage of time, faults, administrators. *)

\* enqueue: coalesce on the school's pending run, else INSERT.
Enqueue(r) ==
    /\ runs[r].status = "absent"
    /\ ~ \E x \in Run : runs[x].status = "pending" /\ SchoolOf[x] = SchoolOf[r]
    /\ SetRow(r, CreatePending)
    /\ started' = StartedNow(started, r, Cardinality(Run))
    /\ UNCHANGED <<dirty, raw, ingested, built, school, wk, faults>>

\* INGESTION_LEASE_SECONDS pass without a heartbeat: nobody is landing the run, or
\* (LeaseCanLapse) its heartbeat task died on a database error or was starved.
Lapse(r) ==
    /\ runs[r].status = "running" /\ runs[r].beat = "fresh"
    /\ LeaseCanLapse \/ ~ \E w \in Worker : wk[w].cur = r /\ runs[r].worker = w
    /\ SetRow(r, [runs[r] EXCEPT !.beat = "stale"])
    /\ UNCHANGED <<started, dirty, raw, ingested, built, school, wk, faults>>

\* The process dies, or is cancelled at shutdown; the open transaction is lost.
Crash(w) ==
    /\ ~ At(w, "down")
    /\ SpendFault
    /\ Become(w, Down)
    /\ UNCHANGED <<db, school>>

\* An exception outside _land_run's try (resolve, the mark of its handler, a mark
\* of the batch, a read): caught by run_forever, the batch's locals are gone.
Escape(w) ==
    /\ wk[w].pc \in {"claim", "resolve", "fail", "redrive", "scope", "settle"}
    /\ SpendFault
    /\ Become(w, Poll(wk[w].on))
    /\ UNCHANGED <<db, school>>

\* An exception inside _land_run's try: before or after phase 2 of run_ingestion, or
\* (the file-count belt) when the row already says 'landed'.
LandingRaises(w) ==
    /\ wk[w].pc \in {"predirty", "adopt", "lock", "finish", "archive"}
    /\ SpendFault
    /\ Goto(w, "fail")
    /\ UNCHANGED <<db, school>>

\* Phase 2 raises outside the SAVEPOINT of a file: the transaction rolls back.
PhaseTwoRaises(w) ==
    /\ At(w, "land")
    /\ SpendFault
    /\ Goto(w, "rollback")
    /\ UNCHANGED <<db, school>>

\* The gate raises (collapse guard, historic guard, database error): its
\* transaction is rolled back and only the clean runs of this batch are failed.
GateRaises(w) ==
    /\ wk[w].pc \in {"gate", "skip", "build"}
    /\ SpendFault
    /\ Become(w, [wk[w] EXCEPT !.pc = "settle", !.verdict = "raised",
                               !.todo = wk[w].batch \ wk[w].erred])
    /\ UNCHANGED <<db, school>>

\* An administrator (de)activates a school or locks its current session.
ChangeSchool(s) ==
    /\ SpendFault
    /\ \E state \in {"open", "inactive", "locked"} \ {school[s]} :
          school' = [school EXCEPT ![s] = state]
    /\ UNCHANGED <<db, wk>>
-----------------------------------------------------------------------------
(* The loop: reap, then claim until nothing is pending. *)

Start(w) ==
    /\ At(w, "down")
    /\ \E on \in Modes : Become(w, Poll(on))
    /\ UNCHANGED <<db, school, faults>>

Reap(w) ==
    /\ At(w, "reap")
    /\ runs' = RequeueExpired(runs)
    /\ Goto(w, "claim")
    /\ UNCHANGED <<started, dirty, raw, ingested, built, school, faults>>

Claim(w) ==
    /\ At(w, "claim")
    /\ \E r \in OldestPending(runs, started) :
          /\ SetRow(r, Claimed(runs[r], w))
          /\ Become(w, [wk[w] EXCEPT !.pc = "resolve", !.cur = r])
    /\ UNCHANGED <<started, dirty, raw, ingested, built, school, faults>>

\* claim_next returned None.
Drained(w) ==
    /\ At(w, "claim")
    /\ OldestPending(runs, started) = {}
    /\ Goto(w, IF wk[w].batch # {} THEN "scope" ELSE "redrive")
    /\ UNCHANGED <<db, school, faults>>

\* The heartbeat task of the run being landed.
Heartbeat(w) ==
    /\ wk[w].beating
    /\ SetRow(wk[w].cur, Beaten(runs[wk[w].cur], w))
    /\ UNCHANGED <<started, dirty, raw, ingested, built, school, wk, faults>>
-----------------------------------------------------------------------------
(* _land_run. *)

\* F9 and the historic lock: refused before anything is written.
RefuseRun(w) ==
    /\ At(w, "resolve")
    /\ school[SchoolOf[wk[w].cur]] # "open"
    /\ SetRow(wk[w].cur, Marked(runs[wk[w].cur], "failed"))
    /\ Become(w, NextClaim(w))
    /\ UNCHANGED <<started, dirty, raw, ingested, built, school, faults>>

BeginLanding(w) ==
    /\ At(w, "resolve")
    /\ school[SchoolOf[wk[w].cur]] = "open"
    /\ Become(w, [wk[w] EXCEPT !.pc = "predirty", !.beating = TRUE])
    /\ UNCHANGED <<db, school, faults>>

\* Mutant: the token is the school, not the run.
SetDirtyBySchool(w) ==
    /\ At(w, "predirty")
    /\ dirty' = DirtyBy(SchoolOf[wk[w].cur])
    /\ Goto(w, "adopt")
    /\ UNCHANGED <<runs, started, raw, ingested, built, school, faults>>

\* set_warehouse_dirty(token = run_id): the token is overwritten, dirty or not.
SetDirty(w) ==
    /\ At(w, "predirty")
    /\ dirty' = DirtyBy(wk[w].cur)
    /\ Goto(w, "adopt")
    /\ UNCHANGED <<runs, started, raw, ingested, built, school, faults>>

\* Phase 1 of run_ingestion.
Adopt(w) ==
    /\ At(w, "adopt")
    /\ school[SchoolOf[wk[w].cur]] # "inactive"
    /\ SetRow(wk[w].cur, Adopted(runs[wk[w].cur]))
    /\ started' = StartedNow(started, wk[w].cur, Cardinality(Run))
    /\ Goto(w, "lock")
    /\ UNCHANGED <<dirty, raw, ingested, built, school, faults>>

\* Phase 1 finds no active school any more: an empty summary, the row untouched.
NoActiveSchool(w) ==
    /\ At(w, "adopt")
    /\ school[SchoolOf[wk[w].cur]] = "inactive"
    /\ Goto(w, "archive")
    /\ UNCHANGED <<db, school, faults>>

LockHeld(s) == \E w \in Worker : At(w, "land") /\ SchoolOf[wk[w].cur] = s

\* pg_try_advisory_xact_lock: without the lock the school is skipped, as if it
\* had no file.
TryLock(w) ==
    /\ At(w, "lock")
    /\ Goto(w, IF LockHeld(SchoolOf[wk[w].cur]) THEN "finish" ELSE "land")
    /\ UNCHANGED <<db, school, faults>>

\* Commit of phase 2: some files of the school, none of them known by hash, are
\* inserted and recorded; err says that some other file failed in its SAVEPOINT.
Land(w) ==
    /\ At(w, "land")
    /\ \E new \in SUBSET {f \in File \ ingested : FileSchool[f] = SchoolOf[wk[w].cur]},
          err \in BOOLEAN :
          /\ raw' = [f \in File |-> IF f \in new THEN wk[w].cur ELSE raw[f]]
          /\ ingested' = ingested \cup new
          /\ Become(w, [wk[w] EXCEPT !.pc = "finish", !.got = (new # {}), !.err = err])
    /\ UNCHANGED <<runs, started, dirty, built, school, faults>>

\* Phase 3 after a committed phase 2.
Finish(w) ==
    /\ At(w, "finish")
    /\ SetRow(wk[w].cur, Finished(runs[wk[w].cur], "landed"))
    /\ Goto(w, "archive")
    /\ UNCHANGED <<started, dirty, raw, ingested, built, school, faults>>

\* The file-count belt holds and the archive (StorageLanding) is over: the heartbeat
\* is cancelled and the run joins the batch.
Archive(w) ==
    /\ At(w, "archive")
    /\ Become(w, JoinBatch(w))
    /\ UNCHANGED <<db, school, faults>>

\* Phase 3 after a rollback; run_ingestion then re-raises.
FinishFailed(w) ==
    /\ At(w, "rollback")
    /\ SetRow(wk[w].cur, Finished(runs[wk[w].cur], "failed"))
    /\ Goto(w, "fail")
    /\ UNCHANGED <<started, dirty, raw, ingested, built, school, faults>>

\* The handler of _land_run.
FailRun(w) ==
    /\ At(w, "fail")
    /\ SetRow(wk[w].cur, Marked(runs[wk[w].cur], "failed"))
    /\ Become(w, NextClaim(w))
    /\ UNCHANGED <<started, dirty, raw, ingested, built, school, faults>>
-----------------------------------------------------------------------------
(* _drain_batch after the claims, and the transform gate. *)

\* Nothing landed: re-drive orphaned 'landed' runs if the warehouse is dirty.
Redrive(w) ==
    /\ At(w, "redrive")
    /\ IF wk[w].on /\ dirty.on /\ Landed(runs) # {}
       THEN Become(w, [wk[w] EXCEPT !.pc = "scope", !.force = TRUE])
       ELSE Become(w, Poll(wk[w].on))
    /\ UNCHANGED <<db, school, faults>>

\* _scope_run_ids: this batch plus every run still 'landed'.
ReadScope(w) ==
    LET scope == wk[w].batch \cup Landed(runs) IN
    /\ At(w, "scope")
    /\ IF scope = {} THEN Become(w, Poll(wk[w].on))
       ELSE Become(w, [wk[w] EXCEPT !.pc = "gate", !.scope = scope])
    /\ UNCHANGED <<db, school, faults>>

\* Mutant: the 0-row test is dropped.
GateByTokenOnly(w) ==
    /\ At(w, "gate")
    /\ IF ~ wk[w].on THEN Become(w, Poll(wk[w].on))
       ELSE IF dirty.token = wk[w].last THEN Goto(w, "skip") ELSE Goto(w, "build")
    /\ UNCHANGED <<db, school, faults>>

\* The head of _run_transform_gate: kill switch, then the 0-row economics.  A batch
\* without rows that owns the token skips; any other one builds.
Gate(w) ==
    /\ At(w, "gate")
    /\ IF ~ wk[w].on THEN Become(w, Poll(wk[w].on))
       ELSE IF ~ wk[w].rows /\ ~ wk[w].force /\ dirty.token = wk[w].last
            THEN Goto(w, "skip")
            ELSE Goto(w, "build")
    /\ UNCHANGED <<db, school, faults>>

\* Mutant: skip without the clear.
SkipKeepingDirty(w) ==
    /\ At(w, "skip")
    /\ Become(w, [wk[w] EXCEPT !.pc = "settle", !.verdict = "skip",
                               !.todo = wk[w].batch \ wk[w].erred])
    /\ UNCHANGED <<db, school, faults>>

\* clear_warehouse_dirty in a transaction of its own, after the token was read.
SkipClean(w) ==
    /\ At(w, "skip")
    /\ dirty' = Clean
    /\ Become(w, [wk[w] EXCEPT !.pc = "settle", !.verdict = "skip",
                               !.todo = wk[w].batch \ wk[w].erred])
    /\ UNCHANGED <<runs, started, raw, ingested, built, school, faults>>

SubjectsOf(files) == {FileSubject[f] : f \in files}
Submissions(files) == {f \in files : FileKind[f] = "submission"}
RawOf(scope) == {f \in File : raw[f] \in scope}
RawLeft == RawOf(Run)
FactSubjects == SubjectsOf(Submissions(built))

\* run_subjects of the runner: the assessments a run is accountable for.
RunSubjects(r) == SubjectsOf(Submissions(RawOf({r})))

\* Pass A: the assessments of the scope's student rows, and those of the fact that
\* own an item of the scope's question data (the rename hop).
Touched(scope) == SubjectsOf(Submissions(RawOf(scope)))
                  \cup (SubjectsOf(RawOf(scope)) \cap FactSubjects)

\* Students of the fact that no raw row left can cover: the roster gate always
\* prunes such an assessment.
Uncovered(subjects) ==
    {s \in subjects \cap FactSubjects : s \notin SubjectsOf(Submissions(RawLeft))}

\* What the rebuild folds in: all raw of a surviving assessment, and the question
\* data of the items in scope, which a prune recomputes from the survivors.
Folded(scope, survivors, pruned) ==
    {f \in RawLeft : \/ FileSubject[f] \in survivors
                     \/ /\ pruned = {} /\ FileKind[f] = "question"
                        /\ FileSubject[f] \in SubjectsOf(RawOf(scope))}

\* The one transaction of the gate: rebuild and clear.  Which assessments the roster
\* gate or a locked session prunes depends on data that is not modelled: any set
\* that holds the uncovered ones.
Build(w) ==
    LET scope == wk[w].scope IN
    /\ At(w, "build")
    /\ \E pruned \in SUBSET Touched(scope) :
          LET survivors == Touched(scope) \ pruned IN
          /\ Uncovered(Touched(scope)) \subseteq pruned
          /\ built' = IF survivors = {} THEN built
                      ELSE built \cup Folded(scope, survivors, pruned)
          /\ Become(w, [wk[w] EXCEPT
                !.pc = "settle", !.todo = scope,
                !.verdict = IF survivors = {} THEN "noop" ELSE "applied",
                !.bad = {r \in scope : ~ RunSubjects(r) \subseteq survivors}])
    /\ dirty' = Clean
    /\ UNCHANGED <<runs, started, raw, ingested, school, faults>>

\* Mutant: an applied pass promotes the pruned runs as well.
SettledIgnoringPrune(w, r) ==
    CASE wk[w].verdict = "skip" -> Finalized(runs[r], FALSE)
      [] wk[w].verdict \in {"raised", "noop"} -> Marked(runs[r], "failed")
      [] wk[w].verdict = "applied" -> Finalized(runs[r], TRUE)

\* The row a run of the todo list is left with.
Settled(w, r) ==
    CASE wk[w].verdict = "skip" -> Finalized(runs[r], FALSE)
      [] wk[w].verdict \in {"raised", "noop"} -> Marked(runs[r], "failed")
      [] wk[w].verdict = "applied" ->
            IF r \in wk[w].bad THEN Marked(runs[r], "failed")
            ELSE Finalized(runs[r], TRUE)

\* One mark, in its own transaction.
Settle(w) ==
    /\ At(w, "settle")
    /\ \E r \in wk[w].todo :
          /\ SetRow(r, Settled(w, r))
          /\ Become(w, [wk[w] EXCEPT !.todo = @ \ {r}])
    /\ UNCHANGED <<started, dirty, raw, ingested, built, school, faults>>

AllSettled(w) ==
    /\ At(w, "settle")
    /\ wk[w].todo = {}
    /\ IF wk[w].verdict = "applied" THEN Goto(w, "purge") ELSE Become(w, Poll(wk[w].on))
    /\ UNCHANGED <<db, school, faults>>

\* _purge_transformed_raw's WHERE clause.
Purgeable(f) == /\ raw[f] \in Run
                /\ runs[raw[f]].status = "succeeded" /\ runs[raw[f]].applied

\* Off by configuration, cut short by an error, or complete: chunks of any size go.
Purge(w) ==
    /\ At(w, "purge")
    /\ \E gone \in SUBSET {f \in File : Purgeable(f)} :
          raw' = [f \in File |-> IF f \in gone THEN NoRun ELSE raw[f]]
    /\ Become(w, Poll(wk[w].on))
    /\ UNCHANGED <<runs, started, dirty, ingested, built, school, faults>>
-----------------------------------------------------------------------------
Landing(w) == \/ RefuseRun(w) \/ BeginLanding(w) \/ SetDirty(w) \/ Adopt(w)
              \/ NoActiveSchool(w) \/ TryLock(w) \/ Land(w) \/ Finish(w)
              \/ Archive(w) \/ FinishFailed(w) \/ FailRun(w)
Transforming(w) == \/ Redrive(w) \/ ReadScope(w) \/ Gate(w) \/ SkipClean(w)
                   \/ Build(w) \/ Settle(w) \/ AllSettled(w) \/ Purge(w)
WorkerStep(w) == Reap(w) \/ Claim(w) \/ Drained(w) \/ Landing(w) \/ Transforming(w)

Fault(w) == \/ Crash(w) \/ Escape(w) \/ LandingRaises(w) \/ PhaseTwoRaises(w)
            \/ GateRaises(w)

Next == \/ \E r \in Run : Enqueue(r) \/ Lapse(r)
        \/ \E w \in Worker : Start(w) \/ WorkerStep(w) \/ Heartbeat(w) \/ Fault(w)
        \/ \E s \in School : ChangeSchool(s)

Spec == Init /\ [][Next]_vars

\* The event loop keeps running the worker, the host restarts it, time passes.
FairSpec == /\ Spec
            /\ \A w \in Worker : WF_vars(WorkerStep(w)) /\ WF_vars(Start(w))
            /\ \A r \in Run : WF_vars(Lapse(r))
-----------------------------------------------------------------------------
(* Safety. *)

\* The retry budget (INGESTION_MAX_ATTEMPTS): no run is claimed more often, a queued
\* run can still be claimed, and a run nobody asked for was never claimed.
RetryBudget ==
    \A r \in Run :
        /\ runs[r].attempts <= MaxAttempts
        /\ runs[r].status = "pending" => runs[r].attempts < MaxAttempts
        /\ runs[r].status = "absent" => runs[r].attempts = 0

\* The purge only deletes student rows that a committed transform has folded in:
\* what the hash index will never let in again is in raw or in the fact.
NoSubmissionLost ==
    \A f \in ingested : FileKind[f] = "submission" /\ raw[f] = NoRun => f \in built

\* Two workers never hold the same run: the claim and the lease exclude each other.
ExclusiveLanding ==
    \A v, w \in Worker : wk[v].cur # NoRun /\ wk[v].cur = wk[w].cur => v = w
-----------------------------------------------------------------------------
(* Steps and liveness. *)

\* A verdict is final.
VerdictIsFinal ==
    [][\A r \in Run : runs[r].status \in Terminal => runs'[r].status = runs[r].status]_vars

\* No run is left running for ever by a dead worker.
NeverStuckRunning == \A r \in Run : runs[r].status = "running" ~> runs[r].status # "running"

\* A landed run that put rows into raw is eventually given a verdict, as long
\* as nothing has gone wrong.  A crash between the rebuild, which clears the
\* dirty flag, and the marks leaves it landed until another run lands.
Undisturbed == faults = FaultBudget
LandedRowsAreJudged ==
    \A r \in Run, f \in File :
        runs[r].status = "landed" /\ raw[f] = r
        ~> runs[r].status # "landed" \/ ~ Undisturbed

\* A dirty warehouse is eventually clean, as long as nothing has gone wrong.
DirtyIsCleared == dirty.on ~> ~ dirty.on \/ ~ Undisturbed

Lifecycle == INSTANCE RunLifecycle
                WITH phase <- [r \in Run |-> runs[r].status],
                     tries <- [r \in Run |-> runs[r].attempts]
ImplementsLifecycle == Lifecycle!Spec
=============================================================================

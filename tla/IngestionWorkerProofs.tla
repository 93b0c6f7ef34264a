----------------------- MODULE IngestionWorkerProofs -----------------------
(***************************************************************************)
(* What TLAPS proves of IngestionWorker for every set of runs, files,      *)
(* schools and workers, every retry budget and every number of faults; and *)
(* in the second half, from "ONE PROCESS" on, when one process runs it.    *)
(***************************************************************************)
EXTENDS IngestionWorker, FiniteSetTheorems, TLAPS

(***************************************************************************)
(* Rows: every statement of the repository keeps a row well formed and     *)
(* within its retry budget.                                                *)
(***************************************************************************)
WithinBudget(row) == /\ row.attempts <= MaxAttempts
                     /\ row.status = "pending" => row.attempts < MaxAttempts
                     /\ row.status = "absent" => row.attempts = 0
GoodRow(row) == row \in Row /\ WithinBudget(row)

\* A fresh request is a good row.
LEMMA NewRow == GoodRow(NoRow) /\ GoodRow(CreatePending)
  <1>1. MaxAttempts \in Nat /\ MaxAttempts > 0
    BY RunsAssumption
  <1>2. GoodRow(NoRow)
    BY <1>1 DEF GoodRow, WithinBudget, Row, Status, NoRow
  <1>3. GoodRow(CreatePending)
    <2>1. NoRow \in Row /\ NoRow.attempts = 0
      BY <1>2 DEF GoodRow, NoRow
    <2>2. CreatePending \in Row
      BY <2>1 DEF CreatePending, Row, Status
    <2>3. CreatePending.status = "pending" /\ CreatePending.attempts = 0
      BY <2>1 DEF CreatePending, Row
    <2> QED BY <1>1, <2>2, <2>3 DEF GoodRow, WithinBudget
  <1> QED BY <1>2, <1>3

\* Only a claim counts an attempt, and it takes a pending row, which has one left.
LEMMA ClaimedRow ==
    ASSUME NEW row, GoodRow(row), NEW w \in Worker, row.status = "pending"
    PROVE  GoodRow(Claimed(row, w))
  <1>1. row \in Row /\ row.attempts \in Nat /\ row.attempts < MaxAttempts
    BY DEF GoodRow, WithinBudget, Row
  <1>2. row.attempts + 1 \in Nat /\ row.attempts + 1 <= MaxAttempts
    BY <1>1, RunsAssumption
  <1>3. Claimed(row, w) \in Row
    BY <1>1, <1>2 DEF Row, Status, Claimed
  <1>4. /\ Claimed(row, w).status = "running"
        /\ Claimed(row, w).attempts = row.attempts + 1
    BY <1>1 DEF Row, Claimed
  <1> QED BY <1>2, <1>3, <1>4 DEF GoodRow, WithinBudget

\* The passage of time only touches heartbeat_at,
LEMMA StaleRow ==
    ASSUME NEW row, GoodRow(row)
    PROVE  GoodRow([row EXCEPT !.beat = "stale"])
  BY DEF GoodRow, WithinBudget, Row, Status

\* and so does a heartbeat.
LEMMA BeatenRow ==
    ASSUME NEW row, GoodRow(row), NEW w \in Worker
    PROVE  GoodRow(Beaten(row, w))
  <1>1. GoodRow([row EXCEPT !.beat = "fresh"])
    BY DEF GoodRow, WithinBudget, Row, Status
  <1> QED BY <1>1 DEF Beaten

\* The reaper queues a run again only while it has an attempt left.
LEMMA ReapedRow ==
    ASSUME NEW row, GoodRow(row)
    PROVE  GoodRow(Reaped(row))
  BY DEF GoodRow, WithinBudget, Row, Status, Reaped

\* Every other write gives a run a status it is not claimed from.
LEMMA JudgedRow ==
    ASSUME NEW row, GoodRow(row), NEW s \in Status \ {"pending", "absent"}
    PROVE  GoodRow(Marked(row, s)) /\ GoodRow(Finished(row, s))
  BY DEF GoodRow, WithinBudget, Row, Status, Marked, Finished

\* So does the adoption,
LEMMA AdoptedRow ==
    ASSUME NEW row, GoodRow(row)
    PROVE  GoodRow(Adopted(row))
  BY DEF GoodRow, WithinBudget, Row, Status, Adopted

\* and the verdict of a run that succeeded.
LEMMA FinalizedRow ==
    ASSUME NEW row, GoodRow(row), NEW ta \in BOOLEAN
    PROVE  GoodRow(Finalized(row, ta))
  BY DEF GoodRow, WithinBudget, Row, Status, Finalized

(***************************************************************************)
(* Locals: a worker holds a run exactly from its claim to the end of its   *)
(* landing, and reaches "settle" with a verdict.                           *)
(***************************************************************************)
HoldPCs == {"resolve", "predirty", "adopt", "lock", "land", "finish", "rollback",
           "archive", "fail"}
Sound(l) == /\ l \in Locals
            /\ l.pc \in HoldPCs <=> l.cur \in Run
            /\ l.beating => l.cur \in Run
            /\ l.pc = "settle" => l.verdict # "none"

\* A worker that is down, and one that begins a new iteration, holds nothing.
LEMMA FreshLocals ==
    /\ Sound(Down)
    /\ \A on \in BOOLEAN : Sound(Poll(on))
  <1>1. Down \in Locals
    BY DEF Locals, Down, PC, Verdicts
  <1>2. Sound(Down)
    BY <1>1, WorkerAssumption DEF Sound, HoldPCs, Down
  <1>3. ASSUME NEW on \in BOOLEAN PROVE Sound(Poll(on))
    <2>1. Poll(on) \in Locals
      BY <1>1 DEF Poll, Locals, PC
    <2>2. Poll(on).pc = "reap" /\ Poll(on).cur = NoRun /\ Poll(on).beating = FALSE
      BY <1>1 DEF Poll, Locals, Down
    <2> QED BY <2>1, <2>2, WorkerAssumption DEF Sound, HoldPCs
  <1> QED BY <1>2, <1>3

\* Moving on inside the landing, or outside of it.
LEMMA MovedLocals ==
    ASSUME NEW l, Sound(l), NEW pc \in PC \ {"settle"},
           pc \in HoldPCs <=> l.pc \in HoldPCs
    PROVE  Sound([l EXCEPT !.pc = pc])
  <1>1. [l EXCEPT !.pc = pc] \in Locals
    BY DEF Sound, Locals
  <1> QED BY <1>1 DEF Sound, Locals

\* What the gate leaves behind for the marks of the batch.
LEMMA SettlingLocals ==
    ASSUME NEW l, Sound(l), l.pc \notin HoldPCs, NEW v \in Verdicts \ {"none"},
           NEW todo \in SUBSET Run, NEW bad \in SUBSET Run
    PROVE  /\ Sound([l EXCEPT !.pc = "settle", !.verdict = v, !.todo = todo])
           /\ Sound([l EXCEPT !.pc = "settle", !.todo = todo, !.verdict = v, !.bad = bad])
  <1>1. l \in Locals /\ l.cur \notin Run /\ l.beating = FALSE
    BY DEF Sound, Locals
  <1> DEFINE m == [l EXCEPT !.pc = "settle", !.verdict = v, !.todo = todo]
             n == [l EXCEPT !.pc = "settle", !.todo = todo, !.verdict = v, !.bad = bad]
  <1>2. m \in Locals /\ n \in Locals
    BY <1>1 DEF Locals, PC
  <1>3. /\ m.pc = "settle" /\ m.verdict = v /\ m.cur = l.cur /\ m.beating = l.beating
        /\ n.pc = "settle" /\ n.verdict = v /\ n.cur = l.cur /\ n.beating = l.beating
    BY <1>1 DEF Locals
  <1> QED BY <1>1, <1>2, <1>3 DEF Sound, HoldPCs

\* The end of _land_run lets the run go, whether or not it joins the batch.
LEMMA ReleasedLocals ==
    ASSUME NEW w \in Worker, Sound(wk[w]), wk[w].cur \in Run
    PROVE  Sound(NextClaim(w)) /\ Sound(JoinBatch(w))
  <1>1. wk[w] \in Locals
    BY DEF Sound
  <1>2. NextClaim(w) \in Locals
    BY <1>1 DEF NextClaim, Locals, PC
  <1>3. /\ NextClaim(w).pc = "claim" /\ NextClaim(w).cur = NoRun
        /\ NextClaim(w).beating = FALSE
    BY <1>1 DEF NextClaim, Locals
  <1>4. JoinBatch(w) \in Locals
    BY <1>1, <1>2 DEF JoinBatch, Locals
  <1>5. /\ JoinBatch(w).pc = "claim" /\ JoinBatch(w).cur = NoRun
        /\ JoinBatch(w).beating = FALSE
    BY <1>2, <1>3 DEF JoinBatch, Locals
  <1> QED BY <1>2, <1>3, <1>4, <1>5, WorkerAssumption DEF Sound, HoldPCs

(***************************************************************************)
(* The inductive invariant behind TypeOK and RetryBudget.  TypeOK alone is *)
(* not inductive: a step that writes the row of the run a worker holds     *)
(* must know that it holds one.                                            *)
(***************************************************************************)
Holds == \A w \in Worker : Sound(wk[w])
IInv == TypeOK /\ RetryBudget /\ Holds

\* The rows of the table are good rows.
LEMMA Rows == IInv => \A r \in Run : GoodRow(runs[r])
  BY DEF IInv, TypeOK, RetryBudget, GoodRow, WithinBudget

\* A step that writes one row, with a good one, keeps the table good.
LEMMA SetRowStep ==
    ASSUME IInv, NEW r \in Run, NEW row, GoodRow(row), SetRow(r, row)
    PROVE  runs' \in [Run -> Row] /\ RetryBudget'
  <1>1. runs \in [Run -> Row] /\ row \in Row
    BY DEF IInv, TypeOK, GoodRow
  <1>2. runs' = [runs EXCEPT ![r] = row]
    BY DEF SetRow
  <1>3. ASSUME NEW x \in Run PROVE WithinBudget(runs'[x])
    BY <1>1, <1>2 DEF IInv, RetryBudget, GoodRow, WithinBudget
  <1> QED BY <1>1, <1>2, <1>3 DEF RetryBudget, WithinBudget

\* A step that gives one worker sound locals keeps all of them sound.
LEMMA BecomeStep ==
    ASSUME IInv, NEW w \in Worker, NEW l, Sound(l), Become(w, l)
    PROVE  wk' \in [Worker -> Locals] /\ Holds'
  <1>1. wk \in [Worker -> Locals] /\ l \in Locals
    BY DEF IInv, TypeOK, Sound
  <1>2. wk' = [wk EXCEPT ![w] = l]
    BY DEF Become
  <1>3. ASSUME NEW x \in Worker PROVE Sound(wk'[x])
    BY <1>1, <1>2 DEF IInv, Holds
  <1> QED BY <1>1, <1>2, <1>3 DEF Holds

\* Stamping a start time keeps the ranks natural numbers.
LEMMA StartedNowType ==
    ASSUME NEW rank \in [Run -> Nat], NEW r \in Run
    PROVE  StartedNow(rank, r, Cardinality(Run)) \in [Run -> Nat]
  <1>1. Cardinality(Run) \in Nat
    BY FS_CardinalityType, WorkerAssumption
  <1>2. ASSUME NEW x \in Run, rank[x] > rank[r] PROVE rank[x] - 1 \in Nat
    BY <1>2
  <1> QED BY <1>1, <1>2 DEF StartedNow

(***************************************************************************)
(* The environment.                                                        *)
(***************************************************************************)
\* Requests and the passage of time write one row.
LEMMA EnvironmentStep ==
    ASSUME IInv, NEW r \in Run, Enqueue(r) \/ Lapse(r)
    PROVE  IInv'
  <1>1. CASE Enqueue(r)
    <2>1. runs' \in [Run -> Row] /\ RetryBudget'
      BY <1>1, NewRow, SetRowStep DEF Enqueue
    <2>2. started' \in [Run -> Nat]
      BY <1>1, StartedNowType DEF Enqueue, IInv, TypeOK
    <2> QED BY <1>1, <2>1, <2>2 DEF Enqueue, IInv, TypeOK, Holds
  <1>2. CASE Lapse(r)
    <2>1. GoodRow([runs[r] EXCEPT !.beat = "stale"])
      BY Rows, StaleRow
    <2>2. runs' \in [Run -> Row] /\ RetryBudget'
      BY <1>2, <2>1, SetRowStep DEF Lapse
    <2> QED BY <1>2, <2>2 DEF Lapse, IInv, TypeOK, Holds
  <1> QED BY <1>1, <1>2

\* Administrators write no row and no local.
LEMMA ChangeSchoolStep ==
    ASSUME IInv, NEW s \in School, ChangeSchool(s)
    PROVE  IInv'
  <1>1. PICK state \in {"open", "inactive", "locked"} :
            school' = [school EXCEPT ![s] = state]
    BY DEF ChangeSchool
  <1>2. school' \in [School -> {"open", "inactive", "locked"}]
    BY <1>1 DEF IInv, TypeOK
  <1>3. faults' \in 0..FaultBudget
    BY WorkerAssumption DEF ChangeSchool, SpendFault, IInv, TypeOK
  <1> QED BY <1>2, <1>3 DEF ChangeSchool, db, IInv, TypeOK, RetryBudget, Holds

\* A fault of a worker writes no row; its locals start afresh, or it goes to a handler.
LEMMA FaultStep ==
    ASSUME IInv, NEW w \in Worker, Fault(w)
    PROVE  IInv'
  <1>1. wk[w] \in Locals /\ Sound(wk[w])
    BY DEF IInv, TypeOK, Holds
  <1>2. PICK l : Sound(l) /\ Become(w, l)
    <2>1. CASE Crash(w)
      BY <2>1, FreshLocals DEF Crash
    <2>2. CASE Escape(w)
      BY <1>1, <2>2, FreshLocals DEF Escape, Locals
    <2>3. CASE LandingRaises(w)
      BY <1>1, <2>3, MovedLocals DEF LandingRaises, Goto, HoldPCs, PC
    <2>4. CASE PhaseTwoRaises(w)
      BY <1>1, <2>4, MovedLocals DEF PhaseTwoRaises, Goto, At, HoldPCs, PC
    <2>5. CASE GateRaises(w)
      BY <1>1, <2>5, SettlingLocals DEF GateRaises, HoldPCs, Verdicts, Locals
    <2> QED BY <2>1, <2>2, <2>3, <2>4, <2>5 DEF Fault
  <1>3. wk' \in [Worker -> Locals] /\ Holds'
    BY <1>2, BecomeStep
  <1>4. faults' \in 0..FaultBudget
    BY WorkerAssumption DEF Fault, Crash, Escape, LandingRaises, PhaseTwoRaises,
                            GateRaises, SpendFault, IInv, TypeOK
  <1>5. UNCHANGED <<db, school>>
    BY DEF Fault, Crash, Escape, LandingRaises, PhaseTwoRaises, GateRaises
  <1> QED BY <1>3, <1>4, <1>5 DEF db, IInv, TypeOK, RetryBudget

(***************************************************************************)
(* The loop and the landing.                                               *)
(***************************************************************************)
\* A reaper pass keeps every row good.
LEMMA RequeueStep ==
    ASSUME IInv, runs' = RequeueExpired(runs)
    PROVE  runs' \in [Run -> Row] /\ RetryBudget'
  <1>1. DOMAIN runs = Run
    BY DEF IInv, TypeOK
  <1>2. ASSUME NEW r \in Run PROVE GoodRow(runs'[r])
    BY <1>1, Rows, ReapedRow DEF RequeueExpired
  <1>3. runs' = [r \in Run |-> runs'[r]]
    BY <1>1 DEF RequeueExpired
  <1> QED BY <1>2, <1>3 DEF GoodRow, RetryBudget, WithinBudget

\* Starting, polling, claiming and beating.
LEMMA LoopStep ==
    ASSUME IInv, NEW w \in Worker,
           Start(w) \/ Reap(w) \/ Claim(w) \/ Drained(w) \/ Heartbeat(w)
    PROVE  IInv'
  <1>1. wk[w] \in Locals /\ Sound(wk[w])
    BY DEF IInv, TypeOK, Holds
  <1>2. CASE Start(w)
    <2>1. wk' \in [Worker -> Locals] /\ Holds'
      BY <1>2, FreshLocals, BecomeStep, WorkerAssumption DEF Start
    <2> QED BY <1>2, <2>1 DEF Start, db, IInv, TypeOK, RetryBudget
  <1>3. CASE Reap(w)
    <2>1. runs' \in [Run -> Row] /\ RetryBudget'
      BY <1>3, RequeueStep DEF Reap
    <2>2. Sound([wk[w] EXCEPT !.pc = "claim"])
      BY <1>1, <1>3, MovedLocals DEF Reap, At, HoldPCs, PC
    <2>3. wk' \in [Worker -> Locals] /\ Holds'
      BY <1>3, <2>2, BecomeStep DEF Reap, Goto
    <2> QED BY <1>3, <2>1, <2>3 DEF Reap, IInv, TypeOK
  <1>4. CASE Claim(w)
    <2>1. PICK r \in Run :
              /\ runs[r].status = "pending"
              /\ SetRow(r, Claimed(runs[r], w))
              /\ Become(w, [wk[w] EXCEPT !.pc = "resolve", !.cur = r])
      BY <1>4 DEF Claim, OldestPending, IInv, TypeOK
    <2>2. runs' \in [Run -> Row] /\ RetryBudget'
      BY <2>1, Rows, ClaimedRow, SetRowStep
    <2>3. [wk[w] EXCEPT !.pc = "resolve", !.cur = r] \in Locals
      BY <1>1 DEF Locals, PC
    <2>4. Sound([wk[w] EXCEPT !.pc = "resolve", !.cur = r])
      BY <1>1, <2>3 DEF Sound, HoldPCs, Locals
    <2>5. wk' \in [Worker -> Locals] /\ Holds'
      BY <2>1, <2>4, BecomeStep
    <2> QED BY <1>4, <2>2, <2>5 DEF Claim, IInv, TypeOK
  <1>5. CASE Drained(w)
    <2>1. Sound([wk[w] EXCEPT !.pc = IF wk[w].batch # {} THEN "scope" ELSE "redrive"])
      BY <1>1, <1>5, MovedLocals DEF Drained, At, HoldPCs, PC
    <2>2. wk' \in [Worker -> Locals] /\ Holds'
      BY <1>5, <2>1, BecomeStep DEF Drained, Goto
    <2> QED BY <1>5, <2>2 DEF Drained, db, IInv, TypeOK, RetryBudget
  <1>6. CASE Heartbeat(w)
    <2>1. runs' \in [Run -> Row] /\ RetryBudget'
      BY <1>1, <1>6, Rows, BeatenRow, SetRowStep DEF Heartbeat, Sound
    <2> QED BY <1>6, <2>1 DEF Heartbeat, IInv, TypeOK, Holds
  <1> QED BY <1>2, <1>3, <1>4, <1>5, <1>6

\* The steps of _land_run that write the row of the run that is held.
LEMMA LandingRowStep ==
    ASSUME IInv, NEW w \in Worker,
           RefuseRun(w) \/ Adopt(w) \/ Finish(w) \/ FinishFailed(w) \/ FailRun(w)
    PROVE  IInv'
  <1>1. wk[w] \in Locals /\ Sound(wk[w])
    BY DEF IInv, TypeOK, Holds
  <1>2. wk[w].cur \in Run
    BY <1>1 DEF RefuseRun, Adopt, Finish, FinishFailed, FailRun, At, Sound, HoldPCs
  <1>3. PICK row : GoodRow(row) /\ SetRow(wk[w].cur, row)
    <2>1. GoodRow(runs[wk[w].cur])
      BY <1>2, Rows
    <2>2. \A s \in {"failed", "landed"} : /\ GoodRow(Marked(runs[wk[w].cur], s))
                                          /\ GoodRow(Finished(runs[wk[w].cur], s))
      BY <2>1, JudgedRow DEF Status
    <2>3. GoodRow(Adopted(runs[wk[w].cur]))
      BY <2>1, AdoptedRow
    <2> QED BY <2>2, <2>3 DEF RefuseRun, Adopt, Finish, FinishFailed, FailRun
  <1>4. runs' \in [Run -> Row] /\ RetryBudget'
    BY <1>2, <1>3, SetRowStep
  <1>5. PICK l : Sound(l) /\ Become(w, l)
    <2>1. CASE Adopt(w)
      BY <1>1, <2>1, MovedLocals DEF Adopt, At, Goto, HoldPCs, PC
    <2>2. CASE Finish(w) \/ FinishFailed(w)
      BY <1>1, <2>2, MovedLocals DEF Finish, FinishFailed, At, Goto, HoldPCs, PC
    <2>3. CASE RefuseRun(w) \/ FailRun(w)
      BY <1>1, <1>2, <2>3, ReleasedLocals DEF RefuseRun, FailRun
    <2> QED BY <2>1, <2>2, <2>3
  <1>6. wk' \in [Worker -> Locals] /\ Holds'
    BY <1>5, BecomeStep
  <1>7. started' \in [Run -> Nat]
    BY <1>2, StartedNowType
       DEF RefuseRun, Adopt, Finish, FinishFailed, FailRun, IInv, TypeOK
  <1>8. UNCHANGED <<dirty, raw, ingested, built, school, faults>>
    BY DEF RefuseRun, Adopt, Finish, FinishFailed, FailRun
  <1> QED BY <1>4, <1>6, <1>7, <1>8 DEF IInv, TypeOK

\* The steps of _land_run that leave the table alone.
LEMMA LandingStep ==
    ASSUME IInv, NEW w \in Worker,
           BeginLanding(w) \/ SetDirty(w) \/ NoActiveSchool(w) \/ TryLock(w) \/ Land(w)
           \/ Archive(w)
    PROVE  IInv'
  <1>1. wk[w] \in Locals /\ Sound(wk[w])
    BY DEF IInv, TypeOK, Holds
  <1>2. wk[w].cur \in Run
    BY <1>1 DEF BeginLanding, SetDirty, NoActiveSchool, TryLock, Land, Archive, At, Sound, HoldPCs
  <1>3. PICK l : Sound(l) /\ Become(w, l)
    <2>1. CASE BeginLanding(w)
      <3>1. [wk[w] EXCEPT !.pc = "predirty", !.beating = TRUE] \in Locals
        BY <1>1 DEF Locals, PC
      <3>2. Sound([wk[w] EXCEPT !.pc = "predirty", !.beating = TRUE])
        BY <1>1, <1>2, <3>1 DEF Sound, HoldPCs, Locals
      <3> QED BY <2>1, <3>2 DEF BeginLanding
    <2>2. CASE SetDirty(w) \/ NoActiveSchool(w)
      BY <1>1, <2>2, MovedLocals DEF SetDirty, NoActiveSchool, At, Goto, HoldPCs, PC
    <2>3. CASE Archive(w)
      BY <1>1, <1>2, <2>3, ReleasedLocals DEF Archive
    <2>4. CASE TryLock(w)
      <3>1. Sound([wk[w] EXCEPT !.pc = IF LockHeld(SchoolOf[wk[w].cur])
                                       THEN "finish" ELSE "land"])
        BY <1>1, <2>4, MovedLocals DEF TryLock, At, HoldPCs, PC
      <3> QED BY <2>4, <3>1 DEF TryLock, Goto
    <2>5. CASE Land(w)
      <3>1. PICK got \in BOOLEAN, err \in BOOLEAN :
                Become(w, [wk[w] EXCEPT !.pc = "finish", !.got = got, !.err = err])
        BY <2>5 DEF Land
      <3>2. [wk[w] EXCEPT !.pc = "finish", !.got = got, !.err = err] \in Locals
        BY <1>1 DEF Locals, PC
      <3>3. Sound([wk[w] EXCEPT !.pc = "finish", !.got = got, !.err = err])
        BY <1>1, <1>2, <3>2 DEF Sound, HoldPCs, Locals
      <3> QED BY <3>1, <3>3
    <2> QED BY <2>1, <2>2, <2>3, <2>4, <2>5
  <1>4. wk' \in [Worker -> Locals] /\ Holds'
    BY <1>3, BecomeStep
  <1>5. dirty' \in [on : BOOLEAN, token : Run \cup {NoRun}]
    <2>1. CASE SetDirty(w)
      BY <1>2, <2>1 DEF SetDirty, DirtyBy, IInv, TypeOK
    <2>2. CASE ~ SetDirty(w)
      BY <2>2 DEF BeginLanding, NoActiveSchool, TryLock, Land, Archive, db, IInv, TypeOK
    <2> QED BY <2>1, <2>2
  <1>6. raw' \in [File -> Run \cup {NoRun}] /\ ingested' \subseteq File
    BY <1>2 DEF BeginLanding, SetDirty, NoActiveSchool, TryLock, Land, Archive, db, IInv, TypeOK
  <1>7. UNCHANGED <<runs, started, built, school, faults>>
    BY DEF BeginLanding, SetDirty, NoActiveSchool, TryLock, Land, Archive, db
  <1> QED BY <1>4, <1>5, <1>6, <1>7 DEF IInv, TypeOK, RetryBudget

(***************************************************************************)
(* The transform pass and the marks of the batch.                          *)
(***************************************************************************)
\* Deciding what to do next writes no shared state.
LEMMA DecisionStep ==
    ASSUME IInv, NEW w \in Worker,
           Redrive(w) \/ ReadScope(w) \/ Gate(w) \/ AllSettled(w)
    PROVE  IInv'
  <1>1. wk[w] \in Locals /\ Sound(wk[w]) /\ wk[w].on \in BOOLEAN
    BY DEF IInv, TypeOK, Holds, Locals
  <1>2. Sound(Poll(wk[w].on))
    BY <1>1, FreshLocals
  <1>3. PICK l : Sound(l) /\ Become(w, l)
    <2>1. CASE Redrive(w)
      <3> DEFINE m == [wk[w] EXCEPT !.pc = "scope", !.force = TRUE]
      <3>1. m \in Locals
        BY <1>1 DEF Locals, PC
      <3>2. Sound(m)
        BY <1>1, <2>1, <3>1 DEF Redrive, At, Sound, HoldPCs, Locals
      <3> QED BY <1>2, <2>1, <3>2 DEF Redrive
    <2>2. CASE ReadScope(w)
      <3> DEFINE scope == wk[w].batch \cup Landed(runs)
                 m == [wk[w] EXCEPT !.pc = "gate", !.scope = scope]
      <3>1. scope \subseteq Run
        BY <1>1 DEF Landed, Locals, IInv, TypeOK
      <3>2. m \in Locals
        BY <1>1, <3>1 DEF Locals, PC
      <3>3. Sound(m)
        BY <1>1, <2>2, <3>2 DEF ReadScope, At, Sound, HoldPCs, Locals
      <3> QED BY <1>2, <2>2, <3>3 DEF ReadScope
    <2>3. CASE Gate(w)
      <3>1. Sound([wk[w] EXCEPT !.pc = "skip"]) /\ Sound([wk[w] EXCEPT !.pc = "build"])
        BY <1>1, <2>3, MovedLocals DEF Gate, At, HoldPCs, PC
      <3> QED BY <1>2, <2>3, <3>1 DEF Gate, Goto
    <2>4. CASE AllSettled(w)
      <3>1. Sound([wk[w] EXCEPT !.pc = "purge"])
        BY <1>1, <2>4, MovedLocals DEF AllSettled, At, HoldPCs, PC
      <3> QED BY <1>2, <2>4, <3>1 DEF AllSettled, Goto
    <2> QED BY <2>1, <2>2, <2>3, <2>4
  <1>4. wk' \in [Worker -> Locals] /\ Holds'
    BY <1>3, BecomeStep
  <1>5. UNCHANGED <<db, school, faults>>
    BY DEF Redrive, ReadScope, Gate, AllSettled
  <1> QED BY <1>4, <1>5 DEF db, IInv, TypeOK, RetryBudget

\* Skipping and rebuilding leave the table alone.
LEMMA TransformStep ==
    ASSUME IInv, NEW w \in Worker, SkipClean(w) \/ Build(w) \/ Purge(w)
    PROVE  IInv'
  <1>1. wk[w] \in Locals /\ Sound(wk[w])
    BY DEF IInv, TypeOK, Holds
  <1>2. PICK l : Sound(l) /\ Become(w, l)
    <2>1. CASE SkipClean(w)
      <3>1. wk[w].batch \ wk[w].erred \in SUBSET Run /\ wk[w].pc \notin HoldPCs
        BY <1>1, <2>1 DEF SkipClean, At, Locals, HoldPCs
      <3>2. Sound([wk[w] EXCEPT !.pc = "settle", !.verdict = "skip",
                                !.todo = wk[w].batch \ wk[w].erred])
        BY <1>1, <3>1, SettlingLocals DEF Verdicts
      <3> QED BY <2>1, <3>2 DEF SkipClean
    <2>2. CASE Build(w)
      <3>1. PICK v \in {"noop", "applied"}, bad \in SUBSET wk[w].scope :
              Become(w, [wk[w] EXCEPT !.pc = "settle", !.todo = wk[w].scope,
                                      !.verdict = v, !.bad = bad])
        <4>1. PICK pruned \in SUBSET Touched(wk[w].scope) :
                Become(w, [wk[w] EXCEPT
                  !.pc = "settle", !.todo = wk[w].scope,
                  !.verdict = IF Touched(wk[w].scope) \ pruned = {}
                              THEN "noop" ELSE "applied",
                  !.bad = {r \in wk[w].scope :
                             ~ RunSubjects(r) \subseteq Touched(wk[w].scope) \ pruned}])
          BY <2>2 DEF Build
        <4>2. CASE Touched(wk[w].scope) \ pruned = {}
          BY <4>1, <4>2
        <4>3. CASE Touched(wk[w].scope) \ pruned # {}
          BY <4>1, <4>3
        <4> QED BY <4>2, <4>3
      <3>2. wk[w].scope \in SUBSET Run /\ wk[w].pc \notin HoldPCs
        BY <1>1, <2>2 DEF Build, At, Locals, HoldPCs
      <3>3. Sound([wk[w] EXCEPT !.pc = "settle", !.todo = wk[w].scope,
                                !.verdict = v, !.bad = bad])
        BY <1>1, <3>2, SettlingLocals DEF Verdicts
      <3> QED BY <3>1, <3>3
    <2>3. CASE Purge(w)
      BY <1>1, <2>3, FreshLocals DEF Purge, Locals
    <2> QED BY <2>1, <2>2, <2>3
  <1>3. wk' \in [Worker -> Locals] /\ Holds'
    BY <1>2, BecomeStep
  <1>4. dirty' \in [on : BOOLEAN, token : Run \cup {NoRun}]
    <2>1. CASE dirty' = Clean
      BY <2>1 DEF Clean
    <2>2. CASE dirty' = dirty
      BY <2>2 DEF IInv, TypeOK
    <2> QED BY <2>1, <2>2 DEF SkipClean, Build, Purge
  <1>5. raw' \in [File -> Run \cup {NoRun}]
    BY DEF SkipClean, Build, Purge, IInv, TypeOK
  <1>6. built' \subseteq File
    <2>1. \A scope, survivors, pruned : Folded(scope, survivors, pruned) \subseteq File
      BY DEF Folded, RawLeft, RawOf
    <2>2. built \subseteq File
      BY DEF IInv, TypeOK
    <2>3. CASE Build(w)
      <3>1. PICK pruned \in SUBSET Touched(wk[w].scope) :
              LET survivors == Touched(wk[w].scope) \ pruned
              IN  built' = IF survivors = {} THEN built
                           ELSE built \cup Folded(wk[w].scope, survivors, pruned)
        BY <2>3 DEF Build
      <3> QED BY <2>1, <2>2, <3>1
    <2> QED BY <2>2, <2>3 DEF SkipClean, Purge
  <1>7. UNCHANGED <<runs, started, ingested, school, faults>>
    BY DEF SkipClean, Build, Purge
  <1> QED BY <1>3, <1>4, <1>5, <1>6, <1>7 DEF IInv, TypeOK, RetryBudget

\* The mark of one run of the batch.
LEMMA SettleStep ==
    ASSUME IInv, NEW w \in Worker, Settle(w)
    PROVE  IInv'
  <1>1. wk[w] \in Locals /\ Sound(wk[w]) /\ wk[w].pc = "settle"
    BY DEF IInv, TypeOK, Holds, Settle, At
  <1>2. PICK r \in wk[w].todo : /\ SetRow(r, Settled(w, r))
                                /\ Become(w, [wk[w] EXCEPT !.todo = @ \ {r}])
    BY DEF Settle
  <1>3. r \in Run /\ wk[w].verdict \in {"skip", "raised", "noop", "applied"}
    BY <1>1, <1>2 DEF Locals, Sound, Verdicts
  <1>4. GoodRow(Settled(w, r))
    <2>1. GoodRow(runs[r])
      BY <1>3, Rows
    <2>2. GoodRow(Marked(runs[r], "failed"))
      BY <2>1, JudgedRow DEF Status
    <2>3. GoodRow(Finalized(runs[r], TRUE)) /\ GoodRow(Finalized(runs[r], FALSE))
      BY <2>1, FinalizedRow
    <2> QED BY <1>3, <2>2, <2>3 DEF Settled
  <1>5. runs' \in [Run -> Row] /\ RetryBudget'
    BY <1>2, <1>3, <1>4, SetRowStep
  <1>6. Sound([wk[w] EXCEPT !.todo = wk[w].todo \ {r}])
    <2>1. [wk[w] EXCEPT !.todo = wk[w].todo \ {r}] \in Locals
      BY <1>1 DEF Locals
    <2> QED BY <1>1, <2>1 DEF Sound, Locals
  <1>7. wk' \in [Worker -> Locals] /\ Holds'
    BY <1>2, <1>6, BecomeStep
  <1> QED BY <1>5, <1>7 DEF Settle, IInv, TypeOK

(***************************************************************************)
(* The theorems.                                                           *)
(***************************************************************************)
\* The invariant holds of an empty table and workers that are down.
LEMMA InitIInv == Init => IInv
  <1> SUFFICES ASSUME Init PROVE IInv
    OBVIOUS
  <1>1. \A r \in Run : GoodRow(runs[r])
    BY NewRow DEF Init
  <1>2. Sound(Down)
    BY FreshLocals
  <1>3. Holds /\ wk \in [Worker -> Locals]
    BY <1>2 DEF Init, Holds, Sound
  <1>4. runs \in [Run -> Row] /\ RetryBudget
    BY <1>1, NewRow DEF Init, GoodRow, WithinBudget, RetryBudget
  <1> QED BY <1>3, <1>4, WorkerAssumption DEF Init, IInv, TypeOK, Clean

\* Every step of the environment and of every worker keeps it.
LEMMA NextIInv == IInv /\ [Next]_vars => IInv'
  <1> SUFFICES ASSUME IInv, [Next]_vars PROVE IInv'
    OBVIOUS
  <1>1. CASE \E r \in Run : Enqueue(r) \/ Lapse(r)
    BY <1>1, EnvironmentStep
  <1>2. CASE \E s \in School : ChangeSchool(s)
    BY <1>2, ChangeSchoolStep
  <1>3. ASSUME NEW w \in Worker, Start(w) \/ WorkerStep(w) \/ Heartbeat(w) \/ Fault(w)
        PROVE  IInv'
    <2>1. CASE Fault(w)
      BY <2>1, FaultStep
    <2>2. CASE Start(w) \/ Reap(w) \/ Claim(w) \/ Drained(w) \/ Heartbeat(w)
      BY <2>2, LoopStep
    <2>3. CASE Landing(w)
      BY <2>3, LandingRowStep, LandingStep DEF Landing
    <2>4. CASE Transforming(w)
      BY <2>4, DecisionStep, TransformStep, SettleStep DEF Transforming
    <2> QED BY <1>3, <2>1, <2>2, <2>3, <2>4 DEF WorkerStep
  <1>4. CASE UNCHANGED vars
    BY <1>4 DEF vars, db, IInv, TypeOK, RetryBudget, Holds
  <1> QED BY <1>1, <1>2, <1>3, <1>4 DEF Next

\* The inductive invariant is an invariant.
THEOREM InductiveInvariant == Spec => []IInv
  BY InitIInv, NextIInv, PTL DEF Spec

\* Every variable of the worker and of its tables keeps its type: in particular the
\* dirty token and the raw rows only ever name runs, and every write of a row is made
\* for a run of the table (set_warehouse_dirty, run_ingestion, mark).
THEOREM TypeCorrect == Spec => []TypeOK
  <1>1. IInv => TypeOK
    BY DEF IInv
  <1> QED BY <1>1, InductiveInvariant, PTL

\* The retry budget (claim_next, requeue_expired): a run is never claimed more than
\* INGESTION_MAX_ATTEMPTS times, however many workers crash, lose their leases and
\* write each other's rows; a queued run can always still be claimed.
THEOREM RetryBudgetHolds == Spec => []RetryBudget
  <1>1. IInv => RetryBudget
    BY DEF IInv
  <1> QED BY <1>1, InductiveInvariant, PTL

(***************************************************************************)
(* Mutual exclusion.  While no lease expires under a live worker, the row  *)
(* of a run that is held names its holder, has a fresh heartbeat and is    *)
(* not queued: neither a claim nor the reaper takes it.                    *)
(***************************************************************************)
HeldRow(row, w) == /\ row.worker = w
                   /\ row.beat = "fresh"
                   /\ row.status \notin {"pending", "absent"}
Held == \A w \in Worker : wk[w].cur \in Run => HeldRow(runs[wk[w].cur], w)

\* No statement but the claim and the reaper takes a run from its holder.
LEMMA HeldRowKept ==
    ASSUME NEW row \in Row, NEW w \in Worker, HeldRow(row, w), NEW v \in Worker,
           NEW s \in {"failed", "landed"}, NEW ta \in BOOLEAN
    PROVE  /\ HeldRow(Marked(row, s), w) /\ HeldRow(Finished(row, s), w)
           /\ HeldRow(Adopted(row), w) /\ HeldRow(Finalized(row, ta), w)
           /\ HeldRow(Beaten(row, v), w)
  <1>1. HeldRow(Marked(row, s), w) /\ HeldRow(Finished(row, s), w)
    BY DEF HeldRow, Row, Marked, Finished
  <1>2. HeldRow(Adopted(row), w) /\ HeldRow(Finalized(row, ta), w)
    BY DEF HeldRow, Row, Adopted, Finalized
  <1>3. HeldRow([row EXCEPT !.beat = "fresh"], w)
    BY DEF HeldRow, Row
  <1> QED BY <1>1, <1>2, <1>3 DEF Beaten

\* No step of a worker but the claim makes it hold another run.
LEMMA NoNewHold ==
    ASSUME IInv, NEW w \in Worker,
           Start(w) \/ Reap(w) \/ Drained(w) \/ Heartbeat(w) \/ Landing(w)
           \/ Transforming(w) \/ Fault(w)
    PROVE  \A v \in Worker : wk'[v].cur \in {wk[v].cur, NoRun}
  <1>1. wk \in [Worker -> Locals] /\ wk[w] \in Locals
    BY DEF IInv, TypeOK
  <1>2. ASSUME NEW l, Become(w, l), l.cur \in {wk[w].cur, NoRun}
        PROVE  \A v \in Worker : wk'[v].cur \in {wk[v].cur, NoRun}
    BY <1>1, <1>2 DEF Become
  <1>3. Down.cur = NoRun /\ \A on : Poll(on).cur = NoRun
    BY DEF Down, Poll
  <1>4. NextClaim(w).cur = NoRun /\ JoinBatch(w).cur = NoRun
    BY <1>1 DEF NextClaim, JoinBatch, Locals
  <1>5. CASE Start(w) \/ Reap(w) \/ Drained(w) \/ Heartbeat(w)
    <2>1. CASE Start(w)
      BY <1>2, <1>3, <2>1 DEF Start
    <2>2. CASE Reap(w)
      BY <1>1, <1>2, <2>2 DEF Reap, Goto, Locals
    <2>3. CASE Drained(w)
      BY <1>1, <1>2, <2>3 DEF Drained, Goto, Locals
    <2>4. CASE Heartbeat(w)
      BY <2>4 DEF Heartbeat
    <2> QED BY <1>5, <2>1, <2>2, <2>3, <2>4
  <1>6. CASE Landing(w)
    <2>1. CASE RefuseRun(w) \/ Archive(w) \/ FailRun(w)
      BY <1>2, <1>4, <2>1 DEF RefuseRun, Archive, FailRun
    <2>2. CASE BeginLanding(w)
      BY <1>1, <1>2, <2>2 DEF BeginLanding, Locals
    <2>3. CASE Land(w)
      <3>1. PICK got, err :
              Become(w, [wk[w] EXCEPT !.pc = "finish", !.got = got, !.err = err])
        BY <2>3 DEF Land
      <3> QED BY <1>1, <1>2, <3>1 DEF Locals
    <2>4. CASE \/ SetDirty(w) \/ Adopt(w) \/ NoActiveSchool(w) \/ TryLock(w)
               \/ Finish(w) \/ FinishFailed(w)
      <3>1. PICK pc : Goto(w, pc)
        BY <2>4 DEF SetDirty, Adopt, NoActiveSchool, TryLock, Finish, FinishFailed
      <3> QED BY <1>1, <1>2, <3>1 DEF Goto, Locals
    <2> QED BY <1>6, <2>1, <2>2, <2>3, <2>4 DEF Landing
  <1>7. CASE Transforming(w)
    <2>1. CASE Redrive(w)
      BY <1>1, <1>2, <1>3, <2>1 DEF Redrive, Locals
    <2>2. CASE ReadScope(w)
      BY <1>1, <1>2, <1>3, <2>2 DEF ReadScope, Locals
    <2>3. CASE Gate(w)
      BY <1>1, <1>2, <1>3, <2>3 DEF Gate, Goto, Locals
    <2>4. CASE SkipClean(w)
      BY <1>1, <1>2, <2>4 DEF SkipClean, Locals
    <2>5. CASE Build(w)
      <3>1. PICK v, bad :
              Become(w, [wk[w] EXCEPT !.pc = "settle", !.todo = wk[w].scope,
                                      !.verdict = v, !.bad = bad])
        BY <2>5 DEF Build
      <3> QED BY <1>1, <1>2, <3>1 DEF Locals
    <2>6. CASE Settle(w)
      BY <1>1, <1>2, <2>6 DEF Settle, Locals
    <2>7. CASE AllSettled(w)
      BY <1>1, <1>2, <1>3, <2>7 DEF AllSettled, Goto, Locals
    <2>8. CASE Purge(w)
      BY <1>2, <1>3, <2>8 DEF Purge
    <2> QED BY <1>7, <2>1, <2>2, <2>3, <2>4, <2>5, <2>6, <2>7, <2>8 DEF Transforming
  <1>8. CASE Fault(w)
    <2>1. CASE Crash(w) \/ Escape(w)
      BY <1>2, <1>3, <2>1 DEF Crash, Escape
    <2>2. CASE LandingRaises(w) \/ PhaseTwoRaises(w)
      BY <1>1, <1>2, <2>2 DEF LandingRaises, PhaseTwoRaises, Goto, Locals
    <2>3. CASE GateRaises(w)
      BY <1>1, <1>2, <2>3 DEF GateRaises, Locals
    <2> QED BY <1>8, <2>1, <2>2, <2>3 DEF Fault
  <1> QED BY <1>5, <1>6, <1>7, <1>8

\* No step but a claim takes the row of a run from the worker that holds it.
LEMMA RowKept ==
    ASSUME IInv, ~ LeaseCanLapse, Next, NEW v \in Worker, wk[v].cur \in Run,
           HeldRow(runs[wk[v].cur], v), ~ \E w \in Worker : Claim(w)
    PROVE  HeldRow(runs'[wk[v].cur], v)
  <1> DEFINE r == wk[v].cur
  <1>1. runs \in [Run -> Row] /\ runs[r] \in Row /\ wk \in [Worker -> Locals]
    BY DEF IInv, TypeOK
  <1>2. ASSUME NEW x \in Run, NEW row, SetRow(x, row), x = r => HeldRow(row, v)
        PROVE  HeldRow(runs'[r], v)
    BY <1>1, <1>2 DEF SetRow
  <1>3. CASE runs' = runs
    BY <1>3
  <1>4. CASE \E x \in Run : Enqueue(x) \/ Lapse(x)
    <2>1. ASSUME NEW x \in Run, Enqueue(x) PROVE HeldRow(runs'[r], v)
      BY <1>2, <2>1 DEF Enqueue, HeldRow
    <2>2. ASSUME NEW x \in Run, Lapse(x) PROVE HeldRow(runs'[r], v)
      BY <1>2, <2>2 DEF Lapse, HeldRow
    <2> QED BY <1>4, <2>1, <2>2
  <1>5. CASE \E s \in School : ChangeSchool(s)
    BY <1>3, <1>5 DEF ChangeSchool, db
  <1>6. ASSUME NEW w \in Worker, Start(w) \/ WorkerStep(w) \/ Heartbeat(w) \/ Fault(w)
        PROVE  HeldRow(runs'[r], v)
    <2>1. CASE Start(w) \/ Fault(w)
      BY <1>3, <2>1 DEF Start, Fault, Crash, Escape, LandingRaises, PhaseTwoRaises,
                        GateRaises, db
    <2>2. CASE Reap(w)
      BY <1>1, <2>2 DEF Reap, RequeueExpired, Expired, HeldRow
    <2>3. CASE Heartbeat(w)
      <3>1. wk[w].cur \in Run
        BY <2>3 DEF Heartbeat, IInv, Holds, Sound
      <3>2. HeldRow(Beaten(runs[r], w), v)
        BY <1>1, HeldRowKept
      <3> QED BY <1>2, <2>3, <3>1, <3>2 DEF Heartbeat
    <2>4. CASE RefuseRun(w) \/ Adopt(w) \/ Finish(w) \/ FinishFailed(w) \/ FailRun(w)
      <3>1. wk[w].cur \in Run
        BY <2>4 DEF RefuseRun, Adopt, Finish, FinishFailed, FailRun, At, IInv, Holds,
                    Sound, HoldPCs
      <3>2. /\ HeldRow(Marked(runs[r], "failed"), v) /\ HeldRow(Adopted(runs[r]), v)
            /\ HeldRow(Finished(runs[r], "failed"), v)
            /\ HeldRow(Finished(runs[r], "landed"), v)
        BY <1>1, HeldRowKept
      <3> QED BY <1>2, <2>4, <3>1, <3>2
              DEF RefuseRun, Adopt, Finish, FinishFailed, FailRun
    <2>5. CASE Settle(w)
      <3>1. PICK x \in wk[w].todo : SetRow(x, Settled(w, x))
        BY <2>5 DEF Settle
      <3>2. x \in Run /\ wk[w].verdict \in {"skip", "raised", "noop", "applied"}
        BY <1>1, <2>5, <3>1 DEF Settle, At, IInv, Holds, Sound, Locals, Verdicts
      <3>3. HeldRow(Marked(runs[r], "failed"), v)
            /\ HeldRow(Finalized(runs[r], TRUE), v) /\ HeldRow(Finalized(runs[r], FALSE), v)
        BY <1>1, HeldRowKept
      <3>4. HeldRow(Settled(w, r), v)
        BY <3>2, <3>3 DEF Settled
      <3> QED BY <1>2, <3>1, <3>2, <3>4
    <2>6. CASE \/ Drained(w) \/ BeginLanding(w) \/ SetDirty(w) \/ NoActiveSchool(w)
               \/ TryLock(w) \/ Land(w) \/ Archive(w) \/ Redrive(w) \/ ReadScope(w) \/ Gate(w)
               \/ SkipClean(w) \/ Build(w) \/ AllSettled(w) \/ Purge(w)
      BY <1>3, <2>6 DEF Drained, BeginLanding, SetDirty, NoActiveSchool, TryLock, Land,
                        Archive, Redrive, ReadScope, Gate, SkipClean, Build, AllSettled, Purge, db
    <2> QED BY <1>6, <2>1, <2>2, <2>3, <2>4, <2>5, <2>6
            DEF WorkerStep, Landing, Transforming
  <1> QED BY <1>4, <1>5, <1>6 DEF Next

\* Every step keeps the rows of held runs with their holders.
LEMMA NextHeld ==
    ASSUME ~ LeaseCanLapse
    PROVE  IInv /\ Held /\ [Next]_vars => Held'
  <1> SUFFICES ASSUME IInv, Held, [Next]_vars PROVE Held'
    OBVIOUS
  <1>1. CASE UNCHANGED vars
    BY <1>1 DEF vars, db, Held
  <1>2. CASE Next /\ ~ \E w \in Worker : Claim(w)
    <2>1. \A v \in Worker : wk[v].cur \in Run => HeldRow(runs'[wk[v].cur], v)
      BY <1>2, RowKept DEF Held
    <2>2. \A v \in Worker : wk'[v].cur \in {wk[v].cur, NoRun}
      <3>1. CASE \E r \in Run : Enqueue(r) \/ Lapse(r)
        BY <3>1 DEF Enqueue, Lapse
      <3>2. CASE \E s \in School : ChangeSchool(s)
        BY <3>2 DEF ChangeSchool
      <3>3. ASSUME NEW w \in Worker, Start(w) \/ WorkerStep(w) \/ Heartbeat(w) \/ Fault(w)
            PROVE  \A v \in Worker : wk'[v].cur \in {wk[v].cur, NoRun}
        BY <1>2, <3>3, NoNewHold DEF WorkerStep
      <3> QED BY <1>2, <3>1, <3>2, <3>3 DEF Next
    <2> QED BY <2>1, <2>2, WorkerAssumption DEF Held
  <1>3. ASSUME NEW w \in Worker, Claim(w) PROVE Held'
    <2>1. PICK r \in Run :
              /\ runs[r].status = "pending"
              /\ runs' = [runs EXCEPT ![r] = Claimed(runs[r], w)]
              /\ wk' = [wk EXCEPT ![w] = [wk[w] EXCEPT !.pc = "resolve", !.cur = r]]
      BY <1>3 DEF Claim, OldestPending, SetRow, Become, IInv, TypeOK
    <2>2. runs \in [Run -> Row] /\ wk \in [Worker -> Locals]
      BY DEF IInv, TypeOK
    <2>3. HeldRow(Claimed(runs[r], w), w)
      BY <2>2 DEF HeldRow, Claimed, Row
    <2>4. wk'[w].cur = r
      BY <2>1, <2>2 DEF Locals
    <2>5. ASSUME NEW v \in Worker, wk'[v].cur \in Run, v # w
          PROVE  HeldRow(runs'[wk'[v].cur], v)
      BY <2>1, <2>2, <2>5 DEF Held, HeldRow
    <2> QED BY <2>1, <2>2, <2>3, <2>4, <2>5 DEF Held
  <1> QED BY <1>1, <1>2, <1>3

\* Two workers never land the same run (claim_next and the lease of requeue_expired),
\* provided that a live worker never lets the lease of the run it lands expire: the
\* heartbeat task (_heartbeat_loop) runs every 30 s against a lease of 180 s.
THEOREM ExclusiveLandingHolds ==
    ASSUME ~ LeaseCanLapse
    PROVE  Spec => []ExclusiveLanding
  <1>1. Init => Held
    BY WorkerAssumption DEF Init, Held, Down
  <1>2. Held /\ IInv => ExclusiveLanding
    <2> SUFFICES ASSUME Held, IInv, NEW v \in Worker, NEW w \in Worker,
                        wk[v].cur # NoRun, wk[v].cur = wk[w].cur
                 PROVE  v = w
      BY DEF ExclusiveLanding
    <2>1. wk[v].cur \in Run
      BY DEF IInv, TypeOK, Locals
    <2> QED BY <2>1 DEF Held, HeldRow
  <1>3. Spec => []IInv
    BY InductiveInvariant
  <1> QED BY <1>1, <1>2, <1>3, NextHeld, PTL DEF Spec

(***************************************************************************)
(* ONE PROCESS.  The app starts one worker in its event loop and is        *)
(* deployed as one uvicorn process.  What follows holds for it, for every  *)
(* set of runs, files and schools and every number of faults.  With a      *)
(* second process a verdict can be rewritten, and once a lease expires     *)
(* under a live worker rows can be lost: marks are not scoped to the       *)
(* worker.                                                                 *)
(***************************************************************************)

OneProcess == \A v, w \in Worker : v = w

(***************************************************************************)
(* The runs in hand.  Whatever a worker keeps in its locals to be landed,  *)
(* transformed or judged later is still open in the table: running until   *)
(* phase 3, and without a verdict until the marks.  The only run it holds  *)
(* with a verdict is one whose failure phase 3 has just recorded.          *)
(***************************************************************************)
Open(table, r) == table[r].status \in {"running", "landed"}
InHand(table, l) ==
    /\ l.pc = "reap" => l.batch = {}
    /\ l.cur \in Run =>
          /\ l.cur \notin l.batch
          /\ \/ table[l.cur].status = "running"
             \/ l.pc \in {"archive", "fail"} /\ table[l.cur].status = "landed"
             \/ l.pc = "fail" /\ table[l.cur].status = "failed"
    /\ l.pc \notin {"settle", "purge"} => \A r \in l.batch : Open(table, r)
    /\ l.pc \in {"gate", "skip", "build"} => \A r \in l.scope : Open(table, r)
    /\ l.pc = "settle" => \A r \in l.todo : Open(table, r)
Unjudged == \A w \in Worker : InHand(runs, wk[w])

\* A worker that is down, and one that begins a new iteration, keeps nothing.
LEMMA FreshHand ==
    ASSUME NEW table
    PROVE  InHand(table, Down) /\ \A on \in BOOLEAN : InHand(table, Poll(on))
  BY WorkerAssumption DEF InHand, Down, Poll

\* With one process, the step of its worker decides for all of them.
LEMMA HandStep ==
    ASSUME OneProcess, IInv, NEW w \in Worker, NEW l, Become(w, l), InHand(runs', l)
    PROVE  Unjudged'
  BY DEF OneProcess, IInv, TypeOK, Become, Unjudged

\* What the table shows of a run matters only as far as its status goes.
LEMMA SameStatusHand ==
    ASSUME NEW t, NEW u, NEW l \in Locals, InHand(t, l),
           \A r \in Run : u[r].status = t[r].status
    PROVE  InHand(u, l)
  BY DEF InHand, Open, Locals

\* Moving on without taking a run, with the table as it is.
LEMMA MovedHand ==
    ASSUME NEW table, NEW l \in Locals, InHand(table, l), NEW pc \in PC,
           pc \in {"settle", "purge", "reap"} => pc = l.pc,
           l.pc \in {"settle", "purge"} => pc = l.pc,
           pc \in {"gate", "skip", "build"} => l.pc \in {"gate", "skip", "build"},
           l.pc \in {"archive", "fail"} => pc \in {l.pc, "fail"}
    PROVE  InHand(table, [l EXCEPT !.pc = pc])
  <1> DEFINE m == [l EXCEPT !.pc = pc]
  <1>1. /\ m.pc = pc /\ m.cur = l.cur /\ m.batch = l.batch /\ m.scope = l.scope
        /\ m.todo = l.todo
    BY DEF Locals
  <1> HIDE DEF m
  <1>2. InHand(table, m)
    BY <1>1 DEF InHand
  <1> QED BY <1>2 DEF m

(***************************************************************************)
(* The environment and the faults.                                         *)
(***************************************************************************)
\* A step that keeps the locals and every open run open keeps what is in hand.
LEMMA EnvironmentHand ==
    ASSUME IInv, Unjudged, NEW r \in Run, Enqueue(r) \/ Lapse(r)
    PROVE  Unjudged'
  <1>1. runs \in [Run -> Row] /\ wk \in [Worker -> Locals] /\ wk' = wk
    BY DEF IInv, TypeOK, Enqueue, Lapse
  <1>2. CASE Enqueue(r)
    <2>1. \A x \in Run : x # r => runs'[x] = runs[x]
      BY <1>1, <1>2 DEF Enqueue, SetRow
    <2>2. ~ Open(runs, r) /\ runs[r].status # "failed"
      BY <1>2 DEF Enqueue, Open
    <2>3. ASSUME NEW w \in Worker PROVE InHand(runs', wk[w])
      BY <1>1, <2>1, <2>2 DEF Unjudged, InHand, Open, Locals
    <2> QED BY <1>1, <2>3 DEF Unjudged
  <1>3. CASE Lapse(r)
    <2>1. \A x \in Run : runs'[x].status = runs[x].status
      BY <1>1, <1>3 DEF Lapse, SetRow, Row
    <2> QED BY <1>1, <2>1, SameStatusHand DEF Unjudged
  <1> QED BY <1>2, <1>3

\* A fault writes no row: it drops the locals, goes to a handler, or leaves the clean
\* runs of the batch to be failed.
LEMMA FaultHand ==
    ASSUME OneProcess, IInv, Unjudged, NEW w \in Worker, Fault(w)
    PROVE  Unjudged'
  <1>1. wk[w] \in Locals /\ Sound(wk[w]) /\ InHand(runs, wk[w])
    BY DEF IInv, TypeOK, Holds, Unjudged
  <1>2. runs' = runs
    BY DEF Fault, Crash, Escape, LandingRaises, PhaseTwoRaises, GateRaises, db
  <1>3. CASE Crash(w)
    BY <1>2, <1>3, FreshHand, HandStep DEF Crash
  <1>4. CASE Escape(w)
    <2>1. wk[w].on \in BOOLEAN
      BY <1>1 DEF Locals
    <2> QED BY <1>2, <1>4, <2>1, FreshHand, HandStep DEF Escape
  <1>5. CASE LandingRaises(w)
    <2>1. InHand(runs, [wk[w] EXCEPT !.pc = "fail"])
      BY <1>1, <1>5, MovedHand DEF LandingRaises, PC
    <2> QED BY <1>2, <1>5, <2>1, HandStep DEF LandingRaises, Goto
  <1>6. CASE PhaseTwoRaises(w)
    <2>1. InHand(runs, [wk[w] EXCEPT !.pc = "rollback"])
      BY <1>1, <1>6, MovedHand DEF PhaseTwoRaises, At, PC
    <2> QED BY <1>2, <1>6, <2>1, HandStep DEF PhaseTwoRaises, Goto
  <1>7. CASE GateRaises(w)
    <2> DEFINE l == [wk[w] EXCEPT !.pc = "settle", !.verdict = "raised",
                                  !.todo = wk[w].batch \ wk[w].erred]
    <2>1. InHand(runs, l)
      BY <1>1, <1>7 DEF GateRaises, InHand, Sound, HoldPCs, Locals
    <2> QED BY <1>2, <1>7, <2>1, HandStep DEF GateRaises
  <1> QED BY <1>3, <1>4, <1>5, <1>6, <1>7 DEF Fault

(***************************************************************************)
(* The loop and the landing.                                               *)
(***************************************************************************)
\* Starting, polling, claiming and beating.  The reaper requeues runs, but its
\* worker has nothing in hand; a claim takes a run that is not in the batch, whose
\* runs are not queued.
LEMMA LoopHand ==
    ASSUME OneProcess, IInv, Unjudged, NEW w \in Worker,
           Start(w) \/ Reap(w) \/ Claim(w) \/ Drained(w) \/ Heartbeat(w)
    PROVE  Unjudged'
  <1>1. wk[w] \in Locals /\ Sound(wk[w]) /\ InHand(runs, wk[w]) /\ runs \in [Run -> Row]
    BY DEF IInv, TypeOK, Holds, Unjudged
  <1>2. CASE Start(w)
    <2>1. PICK on \in BOOLEAN : Become(w, Poll(on))
      BY <1>2, WorkerAssumption DEF Start
    <2>2. InHand(runs', Poll(on))
      BY FreshHand
    <2> QED BY <2>1, <2>2, HandStep
  <1>3. CASE Reap(w)
    <2> DEFINE l == [wk[w] EXCEPT !.pc = "claim"]
    <2>1. l.pc = "claim" /\ l.cur \notin Run /\ l.batch = {}
      BY <1>1, <1>3 DEF Reap, At, Sound, HoldPCs, InHand, Locals
    <2>2. InHand(runs', l)
      BY <2>1 DEF InHand
    <2> QED BY <1>3, <2>2, HandStep DEF Reap, Goto
  <1>4. CASE Claim(w)
    <2>1. PICK r \in Run :
              /\ runs[r].status = "pending"
              /\ SetRow(r, Claimed(runs[r], w))
              /\ Become(w, [wk[w] EXCEPT !.pc = "resolve", !.cur = r])
      BY <1>1, <1>4 DEF Claim, OldestPending
    <2>2. r \notin wk[w].batch
      BY <1>1, <1>4, <2>1 DEF Claim, At, InHand, Open
    <2>3. Claimed(runs[r], w).status = "running"
      BY <1>1 DEF Claimed, Row
    <2>4. runs'[r].status = "running" /\ \A x \in Run : x # r => runs'[x] = runs[x]
      BY <1>1, <2>1, <2>3 DEF SetRow
    <2> DEFINE l == [wk[w] EXCEPT !.pc = "resolve", !.cur = r]
    <2>5. l.pc = "resolve" /\ l.cur = r /\ l.batch = wk[w].batch
      BY <1>1 DEF Locals
    <2>6. \A x \in wk[w].batch : Open(runs', x)
      BY <1>1, <1>4, <2>2, <2>4 DEF Claim, At, InHand, Open, Locals
    <2>7. InHand(runs', l)
      BY <2>2, <2>4, <2>5, <2>6 DEF InHand, Open
    <2> QED BY <2>1, <2>7, HandStep
  <1>5. CASE Drained(w)
    <2>1. \A pc \in {"scope", "redrive"} : InHand(runs, [wk[w] EXCEPT !.pc = pc])
      BY <1>1, <1>5, MovedHand DEF Drained, At, PC
    <2> QED BY <1>5, <2>1, HandStep DEF Drained, Goto, db
  <1>6. CASE Heartbeat(w)
    <2>1. \A x \in Run : runs'[x].status = runs[x].status
      BY <1>1, <1>6 DEF Heartbeat, SetRow, Beaten, Row
    <2>2. wk' = wk
      BY <1>6 DEF Heartbeat
    <2> QED BY <2>1, <2>2, SameStatusHand DEF Unjudged, IInv, TypeOK
  <1> QED BY <1>2, <1>3, <1>4, <1>5, <1>6

\* The end of _land_run, with a verdict for the run or with its place in the batch.
LEMMA ReleasedHand ==
    ASSUME IInv, Unjudged, NEW w \in Worker, wk[w].cur \in Run, wk[w].pc \in HoldPCs,
           NEW table, \A x \in Run : x # wk[w].cur => table[x] = runs[x]
    PROVE  /\ InHand(table, NextClaim(w))
           /\ Open(table, wk[w].cur) => InHand(table, JoinBatch(w))
  <1>1. wk[w] \in Locals /\ InHand(runs, wk[w]) /\ NoRun \notin Run
    BY WorkerAssumption DEF IInv, TypeOK, Unjudged
  <1>2. /\ NextClaim(w).pc = "claim" /\ NextClaim(w).cur = NoRun
        /\ NextClaim(w).batch = wk[w].batch /\ NextClaim(w) \in Locals
    BY <1>1 DEF NextClaim, Locals, PC
  <1>3. /\ JoinBatch(w).pc = "claim" /\ JoinBatch(w).cur = NoRun
        /\ JoinBatch(w).batch = wk[w].batch \cup {wk[w].cur}
    BY <1>1, <1>2 DEF JoinBatch, Locals
  <1>4. \A x \in wk[w].batch : Open(table, x)
    BY <1>1 DEF InHand, Open, HoldPCs, Locals
  <1>5. InHand(table, NextClaim(w))
    BY <1>1, <1>2, <1>4 DEF InHand
  <1>6. Open(table, wk[w].cur) => InHand(table, JoinBatch(w))
    BY <1>1, <1>3, <1>4 DEF InHand
  <1> QED BY <1>5, <1>6

\* The steps of _land_run that write the row of the run that is held.
LEMMA LandingRowHand ==
    ASSUME OneProcess, IInv, Unjudged, NEW w \in Worker,
           RefuseRun(w) \/ Adopt(w) \/ Finish(w) \/ FinishFailed(w) \/ FailRun(w)
    PROVE  Unjudged'
  <1> DEFINE r == wk[w].cur
  <1>1. wk[w] \in Locals /\ Sound(wk[w]) /\ InHand(runs, wk[w]) /\ runs \in [Run -> Row]
    BY DEF IInv, TypeOK, Holds, Unjudged
  <1>2. wk[w].pc \in HoldPCs /\ r \in Run
    BY <1>1 DEF RefuseRun, Adopt, Finish, FinishFailed, FailRun, At, Sound, HoldPCs
  <1>3. \A x \in Run : x # r => runs'[x] = runs[x]
    BY <1>1 DEF RefuseRun, Adopt, Finish, FinishFailed, FailRun, SetRow
  <1>4. CASE RefuseRun(w) \/ FailRun(w)
    <2>1. InHand(runs', NextClaim(w))
      BY <1>2, <1>3, ReleasedHand
    <2> QED BY <1>4, <2>1, HandStep DEF RefuseRun, FailRun
  <1>5. CASE Adopt(w) \/ Finish(w) \/ FinishFailed(w)
    <2>1. PICK pc \in {"lock", "archive", "fail"} :
              /\ Become(w, [wk[w] EXCEPT !.pc = pc])
              /\ \/ runs'[r].status = "running"
                 \/ runs'[r].status = "landed" /\ pc = "archive"
                 \/ runs'[r].status = "failed" /\ pc = "fail"
      BY <1>1, <1>2, <1>5 DEF Adopt, Finish, FinishFailed, SetRow, Adopted, Finished, Row, Goto
    <2> DEFINE l == [wk[w] EXCEPT !.pc = pc]
    <2>2. l.pc = pc /\ l.cur = r /\ l.batch = wk[w].batch
      BY <1>1 DEF Locals
    <2>3. r \notin wk[w].batch /\ \A x \in wk[w].batch : Open(runs', x)
      BY <1>1, <1>2, <1>3 DEF InHand, Open, HoldPCs, Locals
    <2>4. InHand(runs', l)
      BY <2>1, <2>2, <2>3 DEF InHand, Open
    <2> QED BY <2>1, <2>4, HandStep
  <1> QED BY <1>4, <1>5

\* The other steps of _land_run.
LEMMA LandingHand ==
    ASSUME OneProcess, IInv, Unjudged, NEW w \in Worker,
           \/ BeginLanding(w) \/ SetDirty(w) \/ NoActiveSchool(w) \/ TryLock(w)
           \/ Land(w) \/ Archive(w)
    PROVE  Unjudged'
  <1>1. wk[w] \in Locals /\ Sound(wk[w]) /\ InHand(runs, wk[w]) /\ runs' = runs
    BY DEF IInv, TypeOK, Holds, Unjudged, BeginLanding, SetDirty, NoActiveSchool, TryLock,
           Land, Archive, db
  <1>2. CASE BeginLanding(w)
    <2> DEFINE l == [wk[w] EXCEPT !.pc = "predirty", !.beating = TRUE]
    <2>1. InHand(runs, l)
      BY <1>1, <1>2 DEF BeginLanding, At, InHand, Locals
    <2> QED BY <1>1, <1>2, <2>1, HandStep DEF BeginLanding
  <1>3. CASE SetDirty(w) \/ NoActiveSchool(w) \/ TryLock(w)
    <2>1. PICK pc \in {"adopt", "archive", "finish", "land"} :
              Become(w, [wk[w] EXCEPT !.pc = pc])
      BY <1>3 DEF SetDirty, NoActiveSchool, TryLock, Goto
    <2>2. wk[w].pc \in {"predirty", "adopt", "lock"}
      BY <1>3 DEF SetDirty, NoActiveSchool, TryLock, At
    <2>3. InHand(runs, [wk[w] EXCEPT !.pc = pc])
      BY <1>1, <2>2, MovedHand DEF PC
    <2> QED BY <1>1, <2>1, <2>3, HandStep
  <1>4. CASE Land(w)
    <2>1. PICK got, err :
              Become(w, [wk[w] EXCEPT !.pc = "finish", !.got = got, !.err = err])
      BY <1>4 DEF Land
    <2> DEFINE l == [wk[w] EXCEPT !.pc = "finish", !.got = got, !.err = err]
    <2>2. InHand(runs, l)
      BY <1>1, <1>4 DEF Land, At, InHand, Locals
    <2> QED BY <1>1, <2>1, <2>2, HandStep
  <1>5. CASE Archive(w)
    <2>1. wk[w].cur \in Run /\ wk[w].pc \in HoldPCs /\ Open(runs, wk[w].cur)
      BY <1>1, <1>5 DEF Archive, At, Sound, HoldPCs, InHand, Open
    <2>2. InHand(runs, JoinBatch(w))
      BY <2>1, ReleasedHand
    <2> QED BY <1>1, <1>5, <2>2, HandStep DEF Archive
  <1> QED BY <1>2, <1>3, <1>4, <1>5

(***************************************************************************)
(* The gate and the marks of the batch.                                    *)
(***************************************************************************)
\* Up to its transaction the gate works on the batch and on runs it has just seen
\* 'landed'.
LEMMA GateHand ==
    ASSUME OneProcess, IInv, Unjudged, NEW w \in Worker,
           Redrive(w) \/ ReadScope(w) \/ Gate(w) \/ SkipClean(w) \/ Build(w)
    PROVE  Unjudged'
  <1>1. wk[w] \in Locals /\ Sound(wk[w]) /\ InHand(runs, wk[w]) /\ runs \in [Run -> Row]
    BY DEF IInv, TypeOK, Holds, Unjudged
  <1>2. runs' = runs
    BY DEF Redrive, ReadScope, Gate, SkipClean, Build, db
  <1>3. InHand(runs, Poll(wk[w].on)) /\ wk[w].cur \notin Run
    BY <1>1, FreshHand DEF Redrive, ReadScope, Gate, SkipClean, Build, At, Sound, HoldPCs,
                           Locals
  <1>4. CASE Redrive(w)
    <2>1. InHand(runs, [wk[w] EXCEPT !.pc = "scope", !.force = TRUE])
      BY <1>1, <1>3, <1>4 DEF Redrive, At, InHand, Locals
    <2> QED BY <1>2, <1>3, <1>4, <2>1, HandStep DEF Redrive
  <1>5. CASE ReadScope(w)
    <2> DEFINE scope == wk[w].batch \cup Landed(runs)
               l == [wk[w] EXCEPT !.pc = "gate", !.scope = scope]
    <2>1. \A r \in scope : Open(runs, r)
      BY <1>1, <1>5 DEF ReadScope, At, InHand, Landed, Open
    <2>2. l.pc = "gate" /\ l.scope = scope /\ l.batch = wk[w].batch /\ l.cur = wk[w].cur
      BY <1>1 DEF Locals
    <2>3. InHand(runs, l)
      BY <1>3, <2>1, <2>2 DEF InHand
    <2> QED BY <1>2, <1>3, <1>5, <2>3, HandStep DEF ReadScope
  <1>6. CASE Gate(w)
    <2>1. \A pc \in {"skip", "build"} : InHand(runs, [wk[w] EXCEPT !.pc = pc])
      BY <1>1, <1>6, MovedHand DEF Gate, At, PC
    <2> QED BY <1>2, <1>3, <1>6, <2>1, HandStep DEF Gate, Goto
  <1>7. CASE SkipClean(w)
    <2> DEFINE l == [wk[w] EXCEPT !.pc = "settle", !.verdict = "skip",
                                  !.todo = wk[w].batch \ wk[w].erred]
    <2>1. InHand(runs, l)
      BY <1>1, <1>3, <1>7 DEF SkipClean, At, InHand, Locals
    <2> QED BY <1>2, <1>7, <2>1, HandStep DEF SkipClean
  <1>8. CASE Build(w)
    <2>1. PICK v, bad :
              Become(w, [wk[w] EXCEPT !.pc = "settle", !.todo = wk[w].scope,
                                      !.verdict = v, !.bad = bad])
      BY <1>8 DEF Build
    <2> DEFINE l == [wk[w] EXCEPT !.pc = "settle", !.todo = wk[w].scope,
                                  !.verdict = v, !.bad = bad]
    <2>2. InHand(runs, l)
      BY <1>1, <1>3, <1>8 DEF Build, At, InHand, Locals
    <2> QED BY <1>2, <2>1, <2>2, HandStep
  <1> QED BY <1>4, <1>5, <1>6, <1>7, <1>8

\* A mark gives its verdict to a run that leaves the todo list.
LEMMA SettleHand ==
    ASSUME OneProcess, IInv, Unjudged, NEW w \in Worker,
           Settle(w) \/ AllSettled(w) \/ Purge(w)
    PROVE  Unjudged'
  <1>1. wk[w] \in Locals /\ Sound(wk[w]) /\ InHand(runs, wk[w]) /\ runs \in [Run -> Row]
    BY DEF IInv, TypeOK, Holds, Unjudged
  <1>2. InHand(runs, Poll(wk[w].on)) /\ wk[w].cur \notin Run
    BY <1>1, FreshHand DEF Settle, AllSettled, Purge, At, Sound, HoldPCs, Locals
  <1>3. CASE Settle(w)
    <2>1. PICK r \in wk[w].todo :
              /\ SetRow(r, Settled(w, r))
              /\ Become(w, [wk[w] EXCEPT !.todo = @ \ {r}])
      BY <1>3 DEF Settle
    <2> DEFINE l == [wk[w] EXCEPT !.todo = @ \ {r}]
    <2>2. l.pc = "settle" /\ l.cur = wk[w].cur /\ l.todo = wk[w].todo \ {r}
      BY <1>1, <1>3 DEF Settle, At, Locals
    <2>3. \A x \in wk[w].todo \ {r} : Open(runs', x)
      BY <1>1, <1>3, <2>1 DEF Settle, At, SetRow, InHand, Open, Locals
    <2>4. InHand(runs', l)
      BY <1>2, <2>2, <2>3 DEF InHand
    <2> QED BY <2>1, <2>4, HandStep
  <1>4. CASE AllSettled(w)
    <2>1. InHand(runs, [wk[w] EXCEPT !.pc = "purge"])
      BY <1>1, <1>2 DEF InHand, Locals
    <2> QED BY <1>2, <1>4, <2>1, HandStep DEF AllSettled, Goto, db
  <1>5. CASE Purge(w)
    BY <1>2, <1>5, HandStep DEF Purge
  <1> QED BY <1>3, <1>4, <1>5

\* Every step keeps what is in hand unjudged.
LEMMA NextUnjudged ==
    ASSUME OneProcess
    PROVE  IInv /\ Unjudged /\ [Next]_vars => Unjudged'
  <1> SUFFICES ASSUME IInv, Unjudged, [Next]_vars PROVE Unjudged'
    OBVIOUS
  <1>1. CASE \E r \in Run : Enqueue(r) \/ Lapse(r)
    BY <1>1, EnvironmentHand
  <1>2. CASE \E s \in School : ChangeSchool(s)
    BY <1>2 DEF ChangeSchool, db, Unjudged
  <1>3. ASSUME NEW w \in Worker, Start(w) \/ WorkerStep(w) \/ Heartbeat(w) \/ Fault(w)
        PROVE  Unjudged'
    <2>1. CASE Fault(w)
      BY <2>1, FaultHand
    <2>2. CASE Start(w) \/ Reap(w) \/ Claim(w) \/ Drained(w) \/ Heartbeat(w)
      BY <2>2, LoopHand
    <2>3. CASE Landing(w)
      BY <2>3, LandingRowHand, LandingHand DEF Landing
    <2>4. CASE Transforming(w)
      BY <2>4, GateHand, SettleHand DEF Transforming
    <2> QED BY <1>3, <2>1, <2>2, <2>3, <2>4 DEF WorkerStep
  <1>4. CASE UNCHANGED vars
    BY <1>4 DEF vars, db, Unjudged
  <1> QED BY <1>1, <1>2, <1>3, <1>4 DEF Next

\* One process keeps what is in hand unjudged.
LEMMA AlwaysUnjudged ==
    ASSUME OneProcess
    PROVE  Spec => [](IInv /\ Unjudged)
  <1>1. Init => Unjudged
    BY FreshHand DEF Init, Unjudged
  <1> QED BY <1>1, InitIInv, NextIInv, NextUnjudged, PTL DEF Spec

(***************************************************************************)
(* Verdicts.                                                               *)
(***************************************************************************)
\* The runs whose row a step writes are new, queued, open, or failed and marked so
\* again.
LEMMA VerdictStep ==
    ASSUME IInv, Unjudged, Next, NEW r \in Run, runs[r].status \in Terminal
    PROVE  runs'[r].status = runs[r].status
  <1>1. runs \in [Run -> Row] /\ wk \in [Worker -> Locals]
    BY DEF IInv, TypeOK
  <1>2. ~ Open(runs, r) /\ runs[r].status \notin {"absent", "pending"}
    BY DEF Open, Terminal
  <1>3. ASSUME NEW x \in Run, NEW row, SetRow(x, row), x = r => row.status = runs[r].status
        PROVE  runs'[r].status = runs[r].status
    BY <1>1, <1>3 DEF SetRow
  <1>4. CASE \E x \in Run : Enqueue(x) \/ Lapse(x)
    BY <1>1, <1>2, <1>3, <1>4 DEF Enqueue, Lapse, Open
  <1>5. CASE \E s \in School : ChangeSchool(s)
    BY <1>5 DEF ChangeSchool, db
  <1>6. ASSUME NEW w \in Worker, Start(w) \/ WorkerStep(w) \/ Heartbeat(w) \/ Fault(w)
        PROVE  runs'[r].status = runs[r].status
    <2>1. CASE Start(w) \/ Fault(w)
      BY <2>1 DEF Start, Fault, Crash, Escape, LandingRaises, PhaseTwoRaises, GateRaises, db
    <2>2. CASE Reap(w)
      BY <1>1, <1>2, <2>2 DEF Reap, RequeueExpired, Expired, Open
    <2>3. CASE Claim(w)
      BY <1>1, <1>2, <1>3, <2>3 DEF Claim, OldestPending
    <2>4. CASE Heartbeat(w)
      <3>1. wk[w].cur \in Run
        BY <2>4 DEF Heartbeat, IInv, Holds, Sound
      <3>2. Beaten(runs[r], w).status = runs[r].status
        BY <1>1 DEF Beaten, Row
      <3> QED BY <1>3, <2>4, <3>1, <3>2 DEF Heartbeat
    <2>5. CASE RefuseRun(w) \/ Adopt(w) \/ Finish(w) \/ FinishFailed(w) \/ FailRun(w)
      <3>1. wk[w].cur \in Run
        BY <2>5 DEF RefuseRun, Adopt, Finish, FinishFailed, FailRun, At, IInv, Holds,
                    Sound, HoldPCs
      <3>2. CASE wk[w].cur = r
        <4>1. FailRun(w) /\ runs[r].status = "failed"
          BY <1>2, <2>5, <3>1, <3>2
             DEF RefuseRun, Adopt, Finish, FinishFailed, At, Unjudged, InHand, Open
        <4>2. Marked(runs[r], "failed").status = "failed"
          BY <1>1 DEF Marked, Row
        <4> QED BY <1>3, <3>2, <4>1, <4>2 DEF FailRun
      <3>3. CASE wk[w].cur # r
        BY <1>3, <2>5, <3>1, <3>3 DEF RefuseRun, Adopt, Finish, FinishFailed, FailRun
      <3> QED BY <3>2, <3>3
    <2>6. CASE Settle(w)
      <3>1. PICK x \in wk[w].todo : SetRow(x, Settled(w, x))
        BY <2>6 DEF Settle
      <3>2. x \in Run /\ Open(runs, x)
        BY <1>1, <2>6, <3>1 DEF Settle, At, Unjudged, InHand, Locals
      <3> QED BY <1>2, <1>3, <3>1, <3>2
    <2>7. CASE \/ Drained(w) \/ BeginLanding(w) \/ SetDirty(w) \/ NoActiveSchool(w)
               \/ TryLock(w) \/ Land(w) \/ Archive(w) \/ Redrive(w) \/ ReadScope(w) \/ Gate(w)
               \/ SkipClean(w) \/ Build(w) \/ AllSettled(w) \/ Purge(w)
      BY <2>7 DEF Drained, BeginLanding, SetDirty, NoActiveSchool, TryLock, Land, Archive,
                  Redrive, ReadScope, Gate, SkipClean, Build, AllSettled, Purge, db
    <2> QED BY <1>6, <2>1, <2>2, <2>3, <2>4, <2>5, <2>6, <2>7
            DEF WorkerStep, Landing, Transforming
  <1> QED BY <1>4, <1>5, <1>6 DEF Next

\* A verdict is final (mark, _finalize_succeeded, the handler of _land_run): with one
\* process nothing rewrites 'succeeded' or 'failed', whatever crashes or escapes.
THEOREM VerdictIsFinalHolds ==
    ASSUME OneProcess
    PROVE  Spec => VerdictIsFinal
  <1>1. IInv /\ Unjudged /\ [Next]_vars
        => [\A r \in Run : runs[r].status \in Terminal
                          => runs'[r].status = runs[r].status]_vars
    BY VerdictStep
  <1> QED BY <1>1, AlwaysUnjudged, PTL DEF Spec, VerdictIsFinal

(***************************************************************************)
(* Submissions.  Why the purge loses none: a row is only applied once its  *)
(* student rows are in the fact, and from the commit of the transform to   *)
(* the last mark the runs still to be promoted are covered by it.          *)
(***************************************************************************)
Covered(scope) ==
    \A f \in File : FileKind[f] = "submission" /\ raw[f] \in scope => f \in built
AppliedIsBuilt ==
    \A r \in Run : runs[r].applied => runs[r].status = "succeeded" /\ Covered({r})
ToApply == \A w \in Worker : wk[w].pc = "settle" /\ wk[w].verdict = "applied"
                            => Covered(wk[w].todo \ wk[w].bad)
Accounted == AppliedIsBuilt /\ ToApply /\ NoSubmissionLost

\* A step that applies no run, and one that promises none to be applied.
AppliesNone == \A r \in Run : runs'[r].applied => runs[r].applied
PromisesNone ==
    \A w \in Worker : wk'[w].pc = "settle" /\ wk'[w].verdict = "applied"
                     => /\ wk[w].pc = "settle" /\ wk[w].verdict = "applied"
                        /\ wk'[w].todo \ wk'[w].bad \subseteq wk[w].todo \ wk[w].bad

\* An applied row stays a succeeded one.
LEMMA AppliedStays ==
    ASSUME IInv, Unjudged, Accounted, Next, AppliesNone
    PROVE  \A r \in Run : runs'[r].applied => runs[r].applied /\ runs'[r].status = "succeeded"
  BY VerdictStep DEF AppliesNone, Accounted, AppliedIsBuilt, Terminal

\* A step that neither applies nor promises, and leaves the rows alone.
LEMMA QuietStep ==
    ASSUME IInv, Unjudged, Accounted, Next, AppliesNone, PromisesNone,
           UNCHANGED <<raw, ingested>>, built \subseteq built'
    PROVE  Accounted'
  <1>1. AppliedIsBuilt'
    BY AppliedStays DEF Accounted, AppliedIsBuilt, Covered
  <1>2. ToApply'
    BY DEF Accounted, ToApply, Covered, PromisesNone
  <1>3. NoSubmissionLost'
    BY DEF Accounted, NoSubmissionLost
  <1> QED BY <1>1, <1>2, <1>3 DEF Accounted

\* A worker's step promises nothing unless its new locals do.
LEMMA LocalsPromise ==
    ASSUME IInv, NEW w \in Worker, NEW l, Become(w, l),
           l.pc # "settle" \/ l.verdict # "applied"
    PROVE  PromisesNone
  BY DEF IInv, TypeOK, Become, PromisesNone

\* The environment and the faults.
LEMMA QuietEnvironment ==
    ASSUME IInv, Unjudged, Accounted, Next,
           \/ \E r \in Run : Enqueue(r) \/ Lapse(r)
           \/ \E s \in School : ChangeSchool(s)
           \/ \E w \in Worker : Fault(w)
    PROVE  Accounted'
  <1>1. runs \in [Run -> Row] /\ wk \in [Worker -> Locals]
    BY DEF IInv, TypeOK
  <1>2. ASSUME NEW r \in Run, Enqueue(r) \/ Lapse(r) PROVE Accounted'
    <2>1. AppliesNone
      BY <1>1, <1>2, NewRow
         DEF Enqueue, Lapse, SetRow, CreatePending, NoRow, GoodRow, Row, AppliesNone
    <2>2. PromisesNone
      BY <1>2 DEF Enqueue, Lapse, PromisesNone
    <2> QED BY <1>2, <2>1, <2>2, QuietStep DEF Enqueue, Lapse
  <1>3. ASSUME NEW s \in School, ChangeSchool(s) PROVE Accounted'
    BY <1>3, QuietStep DEF ChangeSchool, db, AppliesNone, PromisesNone
  <1>4. ASSUME NEW w \in Worker, Fault(w) PROVE Accounted'
    <2>1. Down.pc # "settle" /\ \A on : Poll(on).pc # "settle"
      BY DEF Down, Poll
    <2>2. PromisesNone
      <3>1. CASE Crash(w) \/ Escape(w)
        BY <2>1, <3>1, LocalsPromise DEF Crash, Escape
      <3>2. CASE LandingRaises(w) \/ PhaseTwoRaises(w)
        <4>1. \A pc \in {"fail", "rollback"} : [wk[w] EXCEPT !.pc = pc].pc # "settle"
          BY <1>1 DEF Locals
        <4> QED BY <3>2, <4>1, LocalsPromise DEF LandingRaises, PhaseTwoRaises, Goto
      <3>3. CASE GateRaises(w)
        <4> DEFINE l == [wk[w] EXCEPT !.pc = "settle", !.verdict = "raised",
                                      !.todo = wk[w].batch \ wk[w].erred]
        <4>1. l.verdict # "applied"
          BY <1>1 DEF Locals
        <4> QED BY <3>3, <4>1, LocalsPromise DEF GateRaises
      <3> QED BY <1>4, <3>1, <3>2, <3>3 DEF Fault
    <2>3. UNCHANGED db
      BY <1>4 DEF Fault, Crash, Escape, LandingRaises, PhaseTwoRaises, GateRaises
    <2> QED BY <2>2, <2>3, QuietStep DEF db, AppliesNone
  <1> QED BY <1>2, <1>3, <1>4

\* The steps of the loop, of _land_run and of the gate that move no raw row, give no
\* verdict but a failure and finish no transform.
LEMMA QuietWorker ==
    ASSUME IInv, Unjudged, Accounted, Next, NEW w \in Worker,
           \/ Start(w) \/ Reap(w) \/ Claim(w) \/ Drained(w) \/ Heartbeat(w)
           \/ RefuseRun(w) \/ BeginLanding(w) \/ SetDirty(w) \/ Adopt(w) \/ NoActiveSchool(w)
           \/ TryLock(w) \/ Finish(w) \/ Archive(w) \/ FinishFailed(w) \/ FailRun(w)
           \/ Redrive(w) \/ ReadScope(w) \/ Gate(w) \/ SkipClean(w) \/ AllSettled(w)
    PROVE  Accounted'
  <1>1. runs \in [Run -> Row] /\ wk[w] \in Locals /\ Sound(wk[w])
    BY DEF IInv, TypeOK, Holds
  <1>2. Down.pc # "settle" /\ \A on : Poll(on).pc # "settle"
    BY DEF Down, Poll
  <1>3. NextClaim(w).pc = "claim" /\ JoinBatch(w).pc = "claim"
    BY <1>1 DEF NextClaim, JoinBatch, Locals
  <1>4. CASE Start(w)
    BY <1>2, <1>4, LocalsPromise, QuietStep DEF Start, db, AppliesNone
  <1>5. CASE Reap(w)
    <2>1. AppliesNone
      BY <1>1, <1>5 DEF Reap, RequeueExpired, Reaped, Row, AppliesNone
    <2>2. [wk[w] EXCEPT !.pc = "claim"].pc # "settle"
      BY <1>1 DEF Locals
    <2>3. PromisesNone
      BY <1>5, <2>2, LocalsPromise DEF Reap, Goto
    <2> QED BY <1>5, <2>1, <2>3, QuietStep DEF Reap
  <1>6. CASE Claim(w)
    <2>1. PICK r \in Run : /\ SetRow(r, Claimed(runs[r], w))
                          /\ Become(w, [wk[w] EXCEPT !.pc = "resolve", !.cur = r])
      BY <1>1, <1>6 DEF Claim, OldestPending
    <2>2. AppliesNone
      BY <1>1, <2>1 DEF SetRow, Claimed, Row, AppliesNone
    <2>3. [wk[w] EXCEPT !.pc = "resolve", !.cur = r].pc # "settle"
      BY <1>1 DEF Locals
    <2>4. PromisesNone
      BY <2>1, <2>3, LocalsPromise
    <2> QED BY <1>6, <2>2, <2>4, QuietStep DEF Claim
  <1>7. CASE Heartbeat(w)
    <2>1. AppliesNone
      BY <1>1, <1>7 DEF Heartbeat, SetRow, Beaten, Row, AppliesNone
    <2>2. PromisesNone
      BY <1>7 DEF Heartbeat, PromisesNone
    <2> QED BY <1>7, <2>1, <2>2, QuietStep DEF Heartbeat
  <1>8. CASE RefuseRun(w) \/ FailRun(w)
    <2>1. AppliesNone
      BY <1>1, <1>8 DEF RefuseRun, FailRun, SetRow, Marked, Row, AppliesNone
    <2>2. PromisesNone
      BY <1>3, <1>8, LocalsPromise DEF RefuseRun, FailRun
    <2> QED BY <1>8, <2>1, <2>2, QuietStep DEF RefuseRun, FailRun
  <1>9. CASE Adopt(w) \/ Finish(w) \/ FinishFailed(w)
    <2>1. AppliesNone
      BY <1>1, <1>9 DEF Adopt, Finish, FinishFailed, SetRow, Adopted, Finished, Row, AppliesNone
    <2>2. \A pc \in {"lock", "archive", "fail"} : [wk[w] EXCEPT !.pc = pc].pc # "settle"
      BY <1>1 DEF Locals
    <2>3. PromisesNone
      BY <1>9, <2>2, LocalsPromise DEF Adopt, Finish, FinishFailed, Goto
    <2> QED BY <1>9, <2>1, <2>3, QuietStep DEF Adopt, Finish, FinishFailed
  <1>10. CASE \/ Drained(w) \/ BeginLanding(w) \/ SetDirty(w) \/ NoActiveSchool(w)
              \/ TryLock(w) \/ Archive(w) \/ Redrive(w) \/ ReadScope(w) \/ Gate(w)
              \/ SkipClean(w) \/ AllSettled(w)
    <2>1. UNCHANGED <<runs, raw, ingested, built>>
      BY <1>10 DEF Drained, BeginLanding, SetDirty, NoActiveSchool, TryLock, Archive, Redrive,
                   ReadScope, Gate, SkipClean, AllSettled, db
    <2>2. PromisesNone
      <3>1. CASE Archive(w)
        BY <1>3, <3>1, LocalsPromise DEF Archive
      <3>2. CASE BeginLanding(w)
        <4>1. [wk[w] EXCEPT !.pc = "predirty", !.beating = TRUE].pc # "settle"
          BY <1>1 DEF Locals
        <4> QED BY <3>2, <4>1, LocalsPromise DEF BeginLanding
      <3>3. CASE \/ Drained(w) \/ SetDirty(w) \/ NoActiveSchool(w) \/ TryLock(w) \/ Gate(w)
                 \/ AllSettled(w)
        <4>1. \A pc \in {"scope", "redrive", "adopt", "archive", "finish", "land", "skip",
                         "build", "purge"} : [wk[w] EXCEPT !.pc = pc].pc # "settle"
          BY <1>1 DEF Locals
        <4> QED BY <1>2, <3>3, <4>1, LocalsPromise
                DEF Drained, SetDirty, NoActiveSchool, TryLock, Gate, AllSettled, Goto
      <3>4. CASE Redrive(w)
        <4>1. [wk[w] EXCEPT !.pc = "scope", !.force = TRUE].pc # "settle"
          BY <1>1 DEF Locals
        <4> QED BY <1>2, <3>4, <4>1, LocalsPromise DEF Redrive
      <3>5. CASE ReadScope(w)
        <4>1. \A scope : [wk[w] EXCEPT !.pc = "gate", !.scope = scope].pc # "settle"
          BY <1>1 DEF Locals
        <4> QED BY <1>2, <3>5, <4>1, LocalsPromise DEF ReadScope
      <3>6. CASE SkipClean(w)
        <4> DEFINE l == [wk[w] EXCEPT !.pc = "settle", !.verdict = "skip",
                                      !.todo = wk[w].batch \ wk[w].erred]
        <4>1. l.verdict # "applied"
          BY <1>1 DEF Locals
        <4> QED BY <3>6, <4>1, LocalsPromise DEF SkipClean
      <3> QED BY <1>10, <3>1, <3>2, <3>3, <3>4, <3>5, <3>6
    <2> QED BY <2>1, <2>2, QuietStep DEF AppliesNone
  <1> QED BY <1>4, <1>5, <1>6, <1>7, <1>8, <1>9, <1>10

\* A landing only files rows under the run it holds, which is not applied.
LEMMA LandAccounted ==
    ASSUME OneProcess, IInv, Unjudged, Accounted, NEW w \in Worker, Land(w)
    PROVE  Accounted'
  <1>1. wk \in [Worker -> Locals] /\ wk[w].pc = "land" /\ wk[w].cur \in Run
    BY DEF Land, At, IInv, TypeOK, Holds, Sound, HoldPCs
  <1>2. PICK new \in SUBSET File :
            /\ raw' = [f \in File |-> IF f \in new THEN wk[w].cur ELSE raw[f]]
            /\ ingested' = ingested \cup new
    BY DEF Land
  <1>3. PICK got, err :
            wk' = [wk EXCEPT ![w] = [wk[w] EXCEPT !.pc = "finish", !.got = got, !.err = err]]
    BY DEF Land, Become
  <1>4. ~ runs[wk[w].cur].applied
    BY <1>1 DEF Unjudged, InHand, Open, Accounted, AppliedIsBuilt
  <1>5. UNCHANGED <<runs, built>>
    BY DEF Land
  <1>6. AppliedIsBuilt'
    BY <1>2, <1>4, <1>5 DEF Accounted, AppliedIsBuilt, Covered
  <1>7. ToApply'
    <2>1. wk'[w].pc = "finish"
      BY <1>1, <1>3 DEF Locals
    <2>2. \A v \in Worker : v = w
      BY DEF OneProcess
    <2> QED BY <2>1, <2>2 DEF ToApply
  <1>8. NoSubmissionLost'
    BY <1>1, <1>2, <1>5, WorkerAssumption DEF Accounted, NoSubmissionLost, IInv, TypeOK
  <1> QED BY <1>6, <1>7, <1>8 DEF Accounted

\* A transform folds in every student row of a run whose assessments it did not prune.
LEMMA FoldedCovers ==
    ASSUME IInv, NEW w \in Worker, NEW survivors, NEW pruned, NEW f \in File, NEW r \in Run,
           raw[f] = r, FileKind[f] = "submission", RunSubjects(r) \subseteq survivors
    PROVE  f \in Folded(wk[w].scope, survivors, pruned)
  <1>1. f \in RawOf({r}) /\ f \in RawLeft
    BY DEF RawOf, RawLeft
  <1>2. FileSubject[f] \in RunSubjects(r)
    BY <1>1 DEF RunSubjects, Submissions, SubjectsOf
  <1> QED BY <1>1, <1>2 DEF Folded

\* So what the gate promises to apply is covered once its transaction commits.
LEMMA BuildAccounted ==
    ASSUME OneProcess, IInv, Unjudged, Accounted, NEW w \in Worker, Build(w)
    PROVE  Accounted'
  <1>1. wk \in [Worker -> Locals] /\ wk[w] \in Locals
    BY DEF IInv, TypeOK
  <1>2. UNCHANGED <<runs, raw, ingested>>
    BY DEF Build
  <1>3. PICK survivors, pruned :
            /\ built' = IF survivors = {} THEN built
                        ELSE built \cup Folded(wk[w].scope, survivors, pruned)
            /\ wk' = [wk EXCEPT ![w] = [wk[w] EXCEPT
                  !.pc = "settle", !.todo = wk[w].scope,
                  !.verdict = IF survivors = {} THEN "noop" ELSE "applied",
                  !.bad = {r \in wk[w].scope : ~ RunSubjects(r) \subseteq survivors}]]
    BY DEF Build, Become
  <1>4. built \subseteq built'
    BY <1>3
  <1>5. AppliedIsBuilt' /\ NoSubmissionLost'
    BY <1>2, <1>4 DEF Accounted, AppliedIsBuilt, Covered, NoSubmissionLost
  <1>6. ToApply'
    <2>1. /\ wk'[w].todo = wk[w].scope
          /\ wk'[w].bad = {r \in wk[w].scope : ~ RunSubjects(r) \subseteq survivors}
          /\ wk'[w].verdict = "applied" => survivors # {}
      BY <1>1, <1>3 DEF Locals
    <2>2. ASSUME wk'[w].verdict = "applied", NEW f \in File, FileKind[f] = "submission",
                 raw[f] \in wk'[w].todo \ wk'[w].bad
          PROVE  f \in built'
      <3>1. raw[f] \in Run /\ RunSubjects(raw[f]) \subseteq survivors
        BY <1>1, <2>1, <2>2 DEF Locals
      <3>2. f \in Folded(wk[w].scope, survivors, pruned)
        BY <2>2, <3>1, FoldedCovers
      <3> QED BY <1>3, <2>1, <2>2, <3>2
    <2>3. \A v \in Worker : v = w
      BY DEF OneProcess
    <2> QED BY <1>2, <2>2, <2>3 DEF ToApply, Covered
  <1> QED BY <1>5, <1>6 DEF Accounted

\* A mark applies only runs that are covered.
LEMMA SettleAccounted ==
    ASSUME OneProcess, IInv, Unjudged, Accounted, Next, NEW w \in Worker, Settle(w)
    PROVE  Accounted'
  <1>1. runs \in [Run -> Row] /\ wk \in [Worker -> Locals] /\ wk[w] \in Locals
    BY DEF IInv, TypeOK
  <1>2. PICK r \in wk[w].todo :
            /\ runs' = [runs EXCEPT ![r] = Settled(w, r)]
            /\ wk' = [wk EXCEPT ![w] = [wk[w] EXCEPT !.todo = @ \ {r}]]
    BY DEF Settle, SetRow, Become
  <1>3. UNCHANGED <<raw, built, ingested>> /\ wk[w].pc = "settle" /\ r \in Run
    BY <1>1, <1>2 DEF Settle, At, Locals
  <1>4. ~ runs[r].applied
    BY <1>2, <1>3 DEF Unjudged, InHand, Open, Accounted, AppliedIsBuilt
  <1>5. Settled(w, r).applied => /\ Settled(w, r).status = "succeeded"
                                 /\ wk[w].verdict = "applied" /\ r \notin wk[w].bad
    <2>1. runs[r] \in Row
      BY <1>1, <1>3
    <2>2. /\ Marked(runs[r], "failed").applied = FALSE
          /\ Finalized(runs[r], FALSE).applied = FALSE
          /\ Finalized(runs[r], TRUE).status = "succeeded"
      BY <1>4, <2>1 DEF Marked, Finalized, Row
    <2>3. wk[w].verdict \in {"skip", "raised", "noop", "applied"}
      BY <1>1, <1>3 DEF IInv, Holds, Sound, Locals, Verdicts
    <2> QED BY <2>2, <2>3 DEF Settled
  <1>6. AppliedIsBuilt'
    <2>1. ASSUME runs'[r].applied PROVE runs'[r].status = "succeeded" /\ Covered({r})
      BY <1>1, <1>2, <1>3, <1>5, <2>1 DEF Accounted, ToApply, Covered
    <2>2. \A x \in Run : x # r => runs'[x] = runs[x]
      BY <1>1, <1>2
    <2> QED BY <1>3, <2>1, <2>2 DEF Accounted, AppliedIsBuilt, Covered
  <1>7. ToApply'
    <2>1. /\ wk'[w].todo = wk[w].todo \ {r} /\ wk'[w].bad = wk[w].bad
          /\ wk'[w].verdict = wk[w].verdict
      BY <1>1, <1>2 DEF Locals
    <2>2. \A v \in Worker : v = w
      BY DEF OneProcess
    <2> QED BY <1>3, <2>1, <2>2 DEF Accounted, ToApply, Covered
  <1>8. NoSubmissionLost'
    BY <1>3 DEF Accounted, NoSubmissionLost
  <1> QED BY <1>6, <1>7, <1>8 DEF Accounted

\* And the purge deletes only rows of applied runs.
LEMMA PurgeAccounted ==
    ASSUME IInv, Accounted, NEW w \in Worker, Purge(w)
    PROVE  Accounted'
  <1>1. PICK gone \in SUBSET {f \in File : Purgeable(f)} :
            raw' = [f \in File |-> IF f \in gone THEN NoRun ELSE raw[f]]
    BY DEF Purge
  <1>2. UNCHANGED <<runs, ingested, built>> /\ raw \in [File -> Run \cup {NoRun}]
    BY DEF Purge, IInv, TypeOK
  <1>3. AppliedIsBuilt'
    BY <1>1, <1>2, WorkerAssumption DEF Accounted, AppliedIsBuilt, Covered
  <1>4. ToApply'
    <2>1. Poll(wk[w].on).pc # "settle"
      BY DEF Down, Poll
    <2>2. ASSUME NEW v \in Worker, wk'[v].pc = "settle", wk'[v].verdict = "applied",
                 NEW f \in File, FileKind[f] = "submission", raw'[f] \in wk'[v].todo \ wk'[v].bad
          PROVE  f \in built'
      <3>1. v # w
        <4>1. wk' = [wk EXCEPT ![w] = Poll(wk[w].on)]
          BY DEF Purge, Become
        <4> QED BY <2>1, <2>2, <4>1 DEF IInv, TypeOK
      <3>2. wk'[v] = wk[v] /\ wk[v].todo \subseteq Run
        BY <3>1 DEF Purge, Become, IInv, TypeOK, Locals
      <3>3. raw'[f] = raw[f]
        BY <1>1, <2>2, <3>2, WorkerAssumption
      <3> QED BY <1>2, <2>2, <3>2, <3>3 DEF Accounted, ToApply, Covered
    <2> QED BY <2>2 DEF ToApply, Covered
  <1>5. NoSubmissionLost'
    <2>1. ASSUME NEW f \in gone, FileKind[f] = "submission" PROVE f \in built
      BY <2>1 DEF Purgeable, Accounted, AppliedIsBuilt, Covered
    <2>2. ingested \subseteq File
      BY DEF IInv, TypeOK
    <2> QED BY <1>1, <1>2, <2>1, <2>2 DEF Accounted, NoSubmissionLost
  <1> QED BY <1>3, <1>4, <1>5 DEF Accounted

\* Every step keeps the submissions accounted for.
LEMMA NextAccounted ==
    ASSUME OneProcess
    PROVE  IInv /\ Unjudged /\ Accounted /\ [Next]_vars => Accounted'
  <1> SUFFICES ASSUME IInv, Unjudged, Accounted, [Next]_vars PROVE Accounted'
    OBVIOUS
  <1>1. CASE UNCHANGED vars
    BY <1>1 DEF vars, db, Accounted, AppliedIsBuilt, ToApply, Covered, NoSubmissionLost
  <1>2. CASE Next /\ \/ \E r \in Run : Enqueue(r) \/ Lapse(r)
                     \/ \E s \in School : ChangeSchool(s)
                     \/ \E w \in Worker : Fault(w)
    BY <1>2, QuietEnvironment
  <1>3. ASSUME Next, NEW w \in Worker, Start(w) \/ WorkerStep(w) \/ Heartbeat(w)
        PROVE  Accounted'
    <2>1. CASE Land(w) \/ Build(w) \/ Settle(w) \/ Purge(w)
      BY <1>3, <2>1, LandAccounted, BuildAccounted, SettleAccounted, PurgeAccounted
    <2>2. CASE ~ (Land(w) \/ Build(w) \/ Settle(w) \/ Purge(w))
      BY <1>3, <2>2, QuietWorker DEF WorkerStep, Landing, Transforming
    <2> QED BY <2>1, <2>2
  <1> QED BY <1>1, <1>2, <1>3 DEF Next

\* No student row is lost (_purge_transformed_raw, the content-hash index, the gate):
\* with one process, a file the index will never let in again is in raw or its rows
\* are in the fact, whatever crashes, raises or escapes.
THEOREM NoSubmissionLostHolds ==
    ASSUME OneProcess
    PROVE  Spec => []NoSubmissionLost
  <1>1. Init => Accounted
    BY DEF Init, Accounted, AppliedIsBuilt, ToApply, NoSubmissionLost, NoRow, Down
  <1>2. Accounted => NoSubmissionLost
    BY DEF Accounted
  <1> QED BY <1>1, <1>2, AlwaysUnjudged, NextAccounted, PTL DEF Spec

(***************************************************************************)
(* The lifecycle of a run.  RunLifecycle sees of a row its status and its  *)
(* attempts, and of a step the one run whose status it changes.            *)
(***************************************************************************)
LifecycleStep == Lifecycle!Next \/ UNCHANGED Lifecycle!vars

\* A step that leaves the statuses and the attempts alone is a stutter.
LEMMA StutterStep ==
    ASSUME IInv, runs' \in [Run -> Row],
           \A r \in Run : /\ runs'[r].status = runs[r].status
                         /\ runs'[r].attempts = runs[r].attempts
    PROVE  LifecycleStep
  BY DEF LifecycleStep, Lifecycle!vars

\* A step that writes the row of one run shows the new status of that run.
LEMMA RowShown ==
    ASSUME IInv, NEW r \in Run, NEW row \in Row, SetRow(r, row)
    PROVE  /\ [x \in Run |-> runs'[x].status]
                 = [[x \in Run |-> runs[x].status] EXCEPT ![r] = row.status]
           /\ [x \in Run |-> runs'[x].attempts]
                 = [[x \in Run |-> runs[x].attempts] EXCEPT ![r] = row.attempts]
  <1>1. runs' = [runs EXCEPT ![r] = row] /\ runs \in [Run -> Row]
    BY DEF SetRow, IInv, TypeOK
  <1> QED BY <1>1

\* A run that lands, or gets its verdict, while it is open.
LEMMA JudgedStep ==
    ASSUME IInv, NEW r \in Run, NEW row \in Row, SetRow(r, row),
           row.attempts = runs[r].attempts,
           \/ row.status = runs[r].status
           \/ runs[r].status = "running" /\ row.status = "landed"
           \/ Open(runs, r) /\ row.status \in Terminal
    PROVE  LifecycleStep
  <1>1. runs \in [Run -> Row]
    BY DEF IInv, TypeOK
  <1>2. [x \in Run |-> runs'[x].attempts] = [x \in Run |-> runs[x].attempts]
    BY <1>1 DEF SetRow
  <1>3. [x \in Run |-> runs'[x].status]
            = [[x \in Run |-> runs[x].status] EXCEPT ![r] = row.status]
    BY RowShown
  <1>4. CASE row.status = runs[r].status
    BY <1>1, <1>2, <1>3, <1>4 DEF LifecycleStep, Lifecycle!vars
  <1>5. CASE runs[r].status = "running" /\ row.status = "landed"
    <2>1. Lifecycle!Land(r)
      BY <1>2, <1>3, <1>5 DEF Lifecycle!Land, Lifecycle!Goto
    <2> QED BY <2>1 DEF LifecycleStep, Lifecycle!Next, Lifecycle!Leave
  <1>6. CASE Open(runs, r) /\ row.status \in Terminal
    <2>1. Lifecycle!Settle(r)
      BY <1>2, <1>3, <1>6 DEF Lifecycle!Settle, Lifecycle!Goto, Open, Terminal
    <2> QED BY <2>1 DEF LifecycleStep, Lifecycle!Next, Lifecycle!Leave
  <1> QED BY <1>4, <1>5, <1>6

\* A request is submitted, a claim starts a run that has an attempt left, and the
\* reaper reconciles the runs whose lease expired.
LEMMA QueueStep ==
    ASSUME IInv, \/ \E r \in Run : Enqueue(r)
                 \/ \E w \in Worker : Claim(w) \/ Reap(w)
    PROVE  LifecycleStep
  <1>1. runs \in [Run -> Row] /\ \A r \in Run : GoodRow(runs[r])
    BY Rows DEF IInv, TypeOK
  <1>2. ASSUME NEW r \in Run, Enqueue(r) PROVE LifecycleStep
    <2>1. CreatePending \in Row /\ SetRow(r, CreatePending)
      BY <1>2, NewRow DEF Enqueue, GoodRow
    <2>2. /\ CreatePending.status = "pending" /\ CreatePending.attempts = 0
          /\ runs[r].status = "absent" /\ runs[r].attempts = 0
      BY <1>1, <1>2, NewRow DEF CreatePending, NoRow, Enqueue, GoodRow, WithinBudget, Row
    <2>3. [x \in Run |-> runs'[x].status]
              = [[x \in Run |-> runs[x].status] EXCEPT ![r] = CreatePending.status]
      BY <2>1, RowShown
    <2>4. [x \in Run |-> runs'[x].attempts] = [x \in Run |-> runs[x].attempts]
      BY <1>1, <2>1, <2>2 DEF SetRow
    <2>5. Lifecycle!Submit(r)
      BY <2>2, <2>3, <2>4 DEF Lifecycle!Submit, Lifecycle!Goto
    <2> QED BY <2>5 DEF LifecycleStep, Lifecycle!Next
  <1>3. ASSUME NEW w \in Worker, Claim(w) PROVE LifecycleStep
    <2>1. PICK r \in Run : runs[r].status = "pending" /\ SetRow(r, Claimed(runs[r], w))
      BY <1>1, <1>3 DEF Claim, OldestPending
    <2>2. Claimed(runs[r], w) \in Row
      BY <1>1, <2>1, ClaimedRow DEF GoodRow
    <2>3. /\ Claimed(runs[r], w).status = "running"
          /\ Claimed(runs[r], w).attempts = runs[r].attempts + 1
          /\ runs[r].attempts < MaxAttempts
      BY <1>1, <2>1 DEF Claimed, GoodRow, WithinBudget, Row
    <2>4. /\ [x \in Run |-> runs'[x].status]
                = [[x \in Run |-> runs[x].status]
                       EXCEPT ![r] = Claimed(runs[r], w).status]
          /\ [x \in Run |-> runs'[x].attempts]
                = [[x \in Run |-> runs[x].attempts]
                       EXCEPT ![r] = Claimed(runs[r], w).attempts]
      BY <2>1, <2>2, RowShown
    <2>5. Lifecycle!Start(r)
      BY <2>1, <2>3, <2>4 DEF Lifecycle!Start, Lifecycle!Goto
    <2> QED BY <2>5 DEF LifecycleStep, Lifecycle!Next
  <1>4. ASSUME NEW w \in Worker, Reap(w) PROVE LifecycleStep
    <2> DEFINE dead == {r \in Run : Expired(runs[r])}
    <2>1. \A r \in Run : /\ runs'[r].attempts = runs[r].attempts
                         /\ runs'[r].status = IF r \notin dead THEN runs[r].status
                                              ELSE IF runs[r].attempts < MaxAttempts
                                              THEN "pending" ELSE "failed"
      BY <1>1, <1>4 DEF Reap, RequeueExpired, Reaped, Row
    <2>2. dead \in SUBSET {r \in Run : [x \in Run |-> runs[x].status][r] = "running"}
      BY DEF Expired
    <2>3. Lifecycle!Reconcile
      BY <2>1, <2>2 DEF Lifecycle!Reconcile
    <2> QED BY <2>3 DEF LifecycleStep, Lifecycle!Next
  <1> QED BY <1>2, <1>3, <1>4

\* The landing and the marks move the run they write along its lifecycle.
LEMMA WorkStep ==
    ASSUME IInv, Unjudged, NEW w \in Worker,
           \/ RefuseRun(w) \/ Adopt(w) \/ Finish(w) \/ FinishFailed(w) \/ FailRun(w)
           \/ Settle(w)
    PROVE  LifecycleStep
  <1>1. runs \in [Run -> Row] /\ wk[w] \in Locals /\ InHand(runs, wk[w]) /\ Sound(wk[w])
    BY DEF IInv, TypeOK, Holds, Unjudged
  <1>2. CASE Settle(w)
    <2>1. PICK r \in wk[w].todo : SetRow(r, Settled(w, r))
      BY <1>2 DEF Settle
    <2>2. r \in Run /\ Open(runs, r) /\ wk[w].verdict \in {"skip", "raised", "noop", "applied"}
      BY <1>1, <1>2, <2>1 DEF Settle, At, InHand, Sound, Locals, Verdicts
    <2>3. \A row \in {Marked(runs[r], "failed"), Finalized(runs[r], TRUE),
                     Finalized(runs[r], FALSE)} :
              row \in Row /\ row.attempts = runs[r].attempts /\ row.status \in Terminal
      BY <1>1, <2>2 DEF Marked, Finalized, Row, Status, Terminal
    <2>4. /\ Settled(w, r) \in Row /\ Settled(w, r).attempts = runs[r].attempts
          /\ Settled(w, r).status \in Terminal
      BY <2>2, <2>3 DEF Settled
    <2> QED BY <2>1, <2>2, <2>4, JudgedStep
  <1>3. CASE RefuseRun(w) \/ Adopt(w) \/ Finish(w) \/ FinishFailed(w) \/ FailRun(w)
    <2> DEFINE r == wk[w].cur
    <2>1. r \in Run /\ runs[r] \in Row
      BY <1>1, <1>3 DEF RefuseRun, Adopt, Finish, FinishFailed, FailRun, At, Sound, HoldPCs
    <2>2. \A s \in {"landed", "failed"} :
              /\ Marked(runs[r], s) \in Row /\ Marked(runs[r], s).status = s
              /\ Marked(runs[r], s).attempts = runs[r].attempts
              /\ Finished(runs[r], s) = Marked(runs[r], s)
      BY <2>1 DEF Marked, Finished, Row, Status
    <2>3. /\ Adopted(runs[r]) \in Row /\ Adopted(runs[r]).status = "running"
          /\ Adopted(runs[r]).attempts = runs[r].attempts
      BY <2>1 DEF Adopted, Row, Status
    <2>4. CASE RefuseRun(w)
      <3>1. runs[r].status = "running" /\ SetRow(r, Marked(runs[r], "failed"))
        BY <1>1, <2>1, <2>4 DEF RefuseRun, At, InHand
      <3> QED BY <2>1, <2>2, <3>1, JudgedStep DEF Open, Terminal
    <2>5. CASE Adopt(w)
      <3>1. runs[r].status = "running" /\ SetRow(r, Adopted(runs[r]))
        BY <1>1, <2>1, <2>5 DEF Adopt, At, InHand
      <3> QED BY <2>1, <2>3, <3>1, JudgedStep
    <2>6. CASE Finish(w)
      <3>1. runs[r].status = "running" /\ SetRow(r, Finished(runs[r], "landed"))
        BY <1>1, <2>1, <2>6 DEF Finish, At, InHand
      <3> QED BY <2>1, <2>2, <3>1, JudgedStep
    <2>7. CASE FinishFailed(w)
      <3>1. runs[r].status = "running" /\ SetRow(r, Finished(runs[r], "failed"))
        BY <1>1, <2>1, <2>7 DEF FinishFailed, At, InHand
      <3> QED BY <2>1, <2>2, <3>1, JudgedStep DEF Open, Terminal
    <2>8. CASE FailRun(w)
      <3>1. /\ runs[r].status \in {"running", "landed", "failed"}
            /\ SetRow(r, Marked(runs[r], "failed"))
        BY <1>1, <2>1, <2>8 DEF FailRun, At, InHand
      <3> QED BY <2>1, <2>2, <3>1, JudgedStep DEF Open, Terminal
    <2> QED BY <1>3, <2>4, <2>5, <2>6, <2>7, <2>8
  <1> QED BY <1>2, <1>3

\* Every step of the worker is a step of the lifecycle of some runs, or a stutter.
LEMMA NextLifecycle == IInv /\ Unjudged /\ [Next]_vars => LifecycleStep
  <1> SUFFICES ASSUME IInv, Unjudged, [Next]_vars PROVE LifecycleStep
    OBVIOUS
  <1>1. runs \in [Run -> Row]
    BY DEF IInv, TypeOK
  <1>2. CASE runs' = runs
    BY <1>1, <1>2, StutterStep
  <1>3. CASE UNCHANGED vars \/ \E s \in School : ChangeSchool(s)
    BY <1>2, <1>3 DEF vars, db, ChangeSchool
  <1>4. ASSUME NEW r \in Run, Enqueue(r) \/ Lapse(r) PROVE LifecycleStep
    <2>1. CASE Enqueue(r)
      BY <2>1, QueueStep
    <2>2. CASE Lapse(r)
      <3>1. runs' \in [Run -> Row] /\ \A x \in Run : /\ runs'[x].status = runs[x].status
                                                     /\ runs'[x].attempts = runs[x].attempts
        BY <1>1, <2>2 DEF Lapse, SetRow, Row
      <3> QED BY <3>1, StutterStep
    <2> QED BY <1>4, <2>1, <2>2
  <1>5. ASSUME NEW w \in Worker, Start(w) \/ WorkerStep(w) \/ Heartbeat(w) \/ Fault(w)
        PROVE  LifecycleStep
    <2>1. CASE Start(w) \/ Fault(w)
      BY <1>2, <2>1 DEF Start, Fault, Crash, Escape, LandingRaises, PhaseTwoRaises,
                        GateRaises, db
    <2>2. CASE Claim(w) \/ Reap(w)
      BY <2>2, QueueStep
    <2>3. CASE Heartbeat(w)
      <3>1. runs' \in [Run -> Row] /\ \A x \in Run : /\ runs'[x].status = runs[x].status
                                                     /\ runs'[x].attempts = runs[x].attempts
        BY <1>1, <2>3 DEF Heartbeat, SetRow, Beaten, Row
      <3> QED BY <3>1, StutterStep
    <2>4. CASE \/ RefuseRun(w) \/ Adopt(w) \/ Finish(w) \/ FinishFailed(w) \/ FailRun(w)
               \/ Settle(w)
      BY <2>4, WorkStep
    <2>5. CASE \/ Drained(w) \/ BeginLanding(w) \/ SetDirty(w) \/ NoActiveSchool(w)
               \/ TryLock(w) \/ Land(w) \/ Archive(w) \/ Redrive(w) \/ ReadScope(w) \/ Gate(w)
               \/ SkipClean(w) \/ Build(w) \/ AllSettled(w) \/ Purge(w)
      BY <1>2, <2>5 DEF Drained, BeginLanding, SetDirty, NoActiveSchool, TryLock, Land, Archive,
                        Redrive, ReadScope, Gate, SkipClean, Build, AllSettled, Purge, db
    <2> QED BY <1>5, <2>1, <2>2, <2>3, <2>4, <2>5 DEF WorkerStep, Landing, Transforming
  <1> QED BY <1>3, <1>4, <1>5 DEF Next

\* With one process the worker keeps the safety part of RunLifecycle: each run goes
\* from request to verdict along its edges only (claim_next, requeue_expired,
\* _adopt_run, _finish_run, mark), whatever crashes, raises or lapses.
THEOREM ImplementsLifecycleSafely ==
    ASSUME OneProcess
    PROVE  Spec => Lifecycle!Safety
  <1>1. Init => Lifecycle!Init
    BY DEF Init, NoRow, Lifecycle!Init
  <1>2. IInv /\ Unjudged /\ [Next]_vars => [Lifecycle!Next]_(Lifecycle!vars)
    BY NextLifecycle DEF LifecycleStep
  <1> QED BY <1>1, <1>2, AlwaysUnjudged, PTL DEF Spec, Lifecycle!Safety

(***************************************************************************)
(* Catching up.  A worker that transforms and that nothing has disturbed   *)
(* has nothing left to do when it goes to sleep: the warehouse is clean    *)
(* and no landed run has rows in raw.  On the way, the runs that owe a     *)
(* verdict are in its hands, and the dirty flag is its own.                *)
(***************************************************************************)
OwedIn(table, rows) == {r \in Run : table[r].status = "landed" /\ \E f \in File : rows[f] = r}

\* Where the owed runs are at each place of the loop.
OwedFits(owed, l) ==
    /\ l.pc \in {"settle", "purge"} => owed \subseteq l.todo
    /\ l.pc = "purge" => l.todo = {}
    /\ l.pc \notin {"settle", "purge"} =>
          /\ owed \subseteq l.batch \cup {l.cur}
          /\ owed \cap l.batch # {} => l.rows
    /\ l.pc \in {"down", "reap", "redrive"} => l.batch = {}
    /\ l.pc \in {"gate", "skip", "build"} => l.batch \subseteq l.scope
    /\ l.pc = "skip" => ~ l.rows

\* A run is running only in the worker's hands, rows are those of runs that have been
\* claimed, and the run in hand has none before phase 2 has committed.
RowsFit(table, rows, l) ==
    /\ \A r \in Run : table[r].status = "running" => r = l.cur
    /\ \A f \in File : rows[f] \in Run => table[rows[f]].status \notin {"absent", "pending"}
    /\ \A f \in File : rows[f] \in Run /\ rows[f] = l.cur =>
                          l.got /\ l.pc \in {"finish", "archive"}

\* The flag is on only between its setting and the gate of the same batch.
DirtyFits(d, l) ==
    d.on => \/ l.batch # {} /\ l.pc \notin {"settle", "purge"}
            \/ l.pc \in {"adopt", "lock", "land", "finish", "archive"}

CatchingUp(table, rows, d, l) ==
    /\ l.pc \notin {"rollback", "fail"}
    /\ l.pc = "archive" => table[l.cur].status = "landed"
    /\ OwedFits(OwedIn(table, rows), l) /\ RowsFit(table, rows, l) /\ DirtyFits(d, l)

AllOpen == \A s \in School : school[s] = "open"
OnDuty(l) == l.on \/ l.pc = "down"
CatchUp ==
    Undisturbed => /\ AllOpen
                   /\ \A w \in Worker : OnDuty(wk[w]) => CatchingUp(runs, raw, dirty, wk[w])

\* What the theorem says of a worker that begins a poll with the transforms enabled.
CaughtUp ==
    \A w \in Worker : Undisturbed /\ At(w, "reap") /\ wk[w].on =>
        ~ dirty.on /\ OwedIn(runs, raw) = {}

\* What the table shows of a run matters only as far as its status goes.
LEMMA SameStatusCatchingUp ==
    ASSUME NEW t, NEW u, NEW rows, NEW d, NEW l \in Locals, CatchingUp(t, rows, d, l),
           l.pc = "archive" => l.cur \in Run,
           \A r \in Run : u[r].status = t[r].status
    PROVE  CatchingUp(u, rows, d, l)
  <1>1. OwedIn(u, rows) = OwedIn(t, rows)
    BY DEF OwedIn
  <1>2. RowsFit(u, rows, l)
    BY DEF CatchingUp, RowsFit
  <1> QED BY <1>1, <1>2 DEF CatchingUp

\* A worker that begins a poll with nothing owed, nothing running and a clean warehouse.
LEMMA PollCatchesUp ==
    ASSUME NEW table, NEW rows, NEW d, NEW on \in BOOLEAN, OwedIn(table, rows) = {}, ~ d.on,
           \A r \in Run : table[r].status # "running",
           \A f \in File : rows[f] \in Run => table[rows[f]].status \notin {"absent", "pending"}
    PROVE  CatchingUp(table, rows, d, Poll(on))
  <1>1. /\ Poll(on).pc = "reap" /\ Poll(on).cur = NoRun /\ Poll(on).batch = {}
        /\ NoRun \notin Run
    BY WorkerAssumption DEF Poll, Down
  <1> QED BY <1>1 DEF CatchingUp, OwedFits, RowsFit, DirtyFits

\* What the steps below start from.
LEMMA CatchingFacts ==
    ASSUME IInv, Unjudged, NEW w \in Worker
    PROVE  /\ wk \in [Worker -> Locals]
           /\ wk[w] \in Locals /\ Sound(wk[w]) /\ InHand(runs, wk[w])
           /\ runs \in [Run -> Row] /\ raw \in [File -> Run \cup {NoRun}]
           /\ NoRun \notin Run
           /\ wk[w].pc \notin HoldPCs => wk[w].cur = NoRun
  BY WorkerAssumption DEF IInv, TypeOK, Holds, Unjudged, Sound, Locals

\* Requests and the passage of time.
LEMMA EnvironmentCatchesUp ==
    ASSUME IInv, Unjudged, NEW w \in Worker, CatchingUp(runs, raw, dirty, wk[w]),
           NEW r \in Run, Enqueue(r) \/ Lapse(r)
    PROVE  CatchingUp(runs', raw', dirty', wk'[w])
  <1>1. /\ wk' = wk /\ raw' = raw /\ dirty' = dirty
        /\ wk[w] \in Locals /\ InHand(runs, wk[w]) /\ runs \in [Run -> Row]
        /\ wk[w].pc = "archive" => wk[w].cur \in Run
    BY CatchingFacts DEF Enqueue, Lapse, Sound, HoldPCs
  <1>2. CASE Enqueue(r)
    <2>1. /\ runs[r].status = "absent" /\ runs'[r].status = "pending"
          /\ \A x \in Run : x # r => runs'[x] = runs[x]
      BY <1>1, <1>2 DEF Enqueue, SetRow, CreatePending, NoRow
    <2>2. OwedIn(runs', raw') = OwedIn(runs, raw)
      BY <1>1, <2>1 DEF OwedIn
    <2>3. RowsFit(runs', raw', wk[w])
      BY <1>1, <2>1 DEF CatchingUp, RowsFit
    <2>4. wk[w].pc = "archive" => runs'[wk[w].cur].status = "landed"
      BY <1>1, <2>1 DEF CatchingUp
    <2> QED BY <1>1, <2>2, <2>3, <2>4 DEF CatchingUp
  <1>3. CASE Lapse(r)
    <2>1. \A x \in Run : runs'[x].status = runs[x].status
      BY <1>1, <1>3 DEF Lapse, SetRow, Row
    <2> QED BY <1>1, <2>1, SameStatusCatchingUp
  <1> QED BY <1>2, <1>3

\* Polling, claiming and beating.  The reaper finds nothing that is running.
LEMMA LoopCatchesUp ==
    ASSUME IInv, Unjudged, NEW w \in Worker, CatchingUp(runs, raw, dirty, wk[w]),
           Reap(w) \/ Claim(w) \/ Drained(w) \/ Heartbeat(w)
    PROVE  CatchingUp(runs', raw', dirty', wk'[w])
  <1>1. /\ raw' = raw /\ dirty' = dirty /\ runs \in [Run -> Row] /\ wk \in [Worker -> Locals]
        /\ wk[w] \in Locals /\ InHand(runs, wk[w]) /\ Sound(wk[w]) /\ NoRun \notin Run
        /\ wk[w].pc \notin HoldPCs => wk[w].cur = NoRun
    BY CatchingFacts DEF Reap, Claim, Drained, Heartbeat, db
  <1>2. CASE Reap(w)
    <2>1. wk[w].pc = "reap" /\ wk[w].cur = NoRun
      BY <1>1, <1>2 DEF Reap, At, HoldPCs
    <2>2. \A x \in Run : runs[x].status # "running"
      BY <1>1, <2>1 DEF CatchingUp, RowsFit
    <2>3. \A x \in Run : runs'[x].status = runs[x].status
      BY <1>1, <1>2, <2>2 DEF Reap, RequeueExpired, Expired
    <2> DEFINE l == [wk[w] EXCEPT !.pc = "claim"]
    <2>4. wk'[w] = l /\ l \in Locals /\ l.pc = "claim"
      BY <1>1, <1>2 DEF Reap, Goto, Become, Locals, PC
    <2>5. l.cur = wk[w].cur /\ l.batch = wk[w].batch /\ l.rows = wk[w].rows /\ l.got = wk[w].got
      BY <1>1 DEF Locals
    <2> HIDE DEF l
    <2>6. CatchingUp(runs, raw, dirty, l)
      BY <2>1, <2>4, <2>5, <1>1 DEF CatchingUp, OwedFits, RowsFit, DirtyFits
    <2>7. CatchingUp(runs', raw, dirty, l)
      BY <2>3, <2>4, <2>6, SameStatusCatchingUp
    <2> QED BY <1>1, <2>4, <2>7
  <1>3. CASE Claim(w)
    <2>1. PICK r \in Run :
              /\ runs[r].status = "pending"
              /\ SetRow(r, Claimed(runs[r], w))
              /\ Become(w, [wk[w] EXCEPT !.pc = "resolve", !.cur = r])
      BY <1>1, <1>3 DEF Claim, OldestPending
    <2>2. Claimed(runs[r], w).status = "running"
      BY <1>1 DEF Claimed, Row
    <2>3. runs'[r].status = "running" /\ \A x \in Run : x # r => runs'[x] = runs[x]
      BY <1>1, <2>1, <2>2 DEF SetRow
    <2> DEFINE l == [wk[w] EXCEPT !.pc = "resolve", !.cur = r]
    <2>4. /\ wk'[w] = l /\ l.pc = "resolve" /\ l.cur = r /\ l.batch = wk[w].batch
          /\ l.rows = wk[w].rows
      BY <1>1, <2>1 DEF Become, Locals
    <2>5. wk[w].pc = "claim" /\ wk[w].cur = NoRun
      BY <1>1, <1>3 DEF Claim, At, HoldPCs
    <2> HIDE DEF l
    <2>6. OwedIn(runs', raw') = OwedIn(runs, raw)
      BY <1>1, <2>1, <2>3 DEF OwedIn
    <2>7. \A f \in File : raw[f] # r
      BY <2>1 DEF CatchingUp, RowsFit
    <2>8. RowsFit(runs', raw', l)
      BY <1>1, <2>3, <2>4, <2>5, <2>7 DEF CatchingUp, RowsFit
    <2>9. OwedFits(OwedIn(runs', raw'), l)
      <3>1. OwedIn(runs, raw) \subseteq wk[w].batch
        BY <1>1, <2>5 DEF CatchingUp, OwedFits, OwedIn
      <3> QED BY <2>4, <2>5, <2>6, <3>1 DEF CatchingUp, OwedFits
    <2>10. DirtyFits(dirty', l)
      BY <1>1, <2>4, <2>5 DEF CatchingUp, DirtyFits
    <2> QED BY <2>4, <2>8, <2>9, <2>10 DEF CatchingUp
  <1>4. CASE Drained(w)
    <2> DEFINE pc == IF wk[w].batch # {} THEN "scope" ELSE "redrive"
               l == [wk[w] EXCEPT !.pc = pc]
    <2>1. wk[w].pc = "claim" /\ wk[w].cur = NoRun /\ runs' = runs
      BY <1>1, <1>4 DEF Drained, At, HoldPCs, db
    <2>2. /\ wk'[w] = l /\ l.pc = pc /\ l.cur = wk[w].cur /\ l.batch = wk[w].batch
          /\ l.rows = wk[w].rows /\ l.got = wk[w].got
      BY <1>1, <1>4 DEF Drained, Goto, Become, Locals
    <2> HIDE DEF l
    <2>3. CatchingUp(runs, raw, dirty, l)
      BY <1>1, <2>1, <2>2 DEF CatchingUp, OwedFits, RowsFit, DirtyFits
    <2> QED BY <1>1, <2>1, <2>2, <2>3
  <1>5. CASE Heartbeat(w)
    <2>1. \A x \in Run : runs'[x].status = runs[x].status
      BY <1>1, <1>5 DEF Heartbeat, SetRow, Beaten, Row
    <2>2. wk' = wk /\ (wk[w].pc = "archive" => wk[w].cur \in Run)
      BY <1>1, <1>5 DEF Heartbeat, Sound, HoldPCs
    <2> QED BY <1>1, <2>1, <2>2, SameStatusCatchingUp
  <1> QED BY <1>2, <1>3, <1>4, <1>5

\* The landing of a run of an open school, from resolve to the batch.
LEMMA LandingCatchesUp ==
    ASSUME IInv, Unjudged, AllOpen, NEW w \in Worker, CatchingUp(runs, raw, dirty, wk[w]),
           Landing(w)
    PROVE  CatchingUp(runs', raw', dirty', wk'[w])
  <1> DEFINE r == wk[w].cur
  <1>1. /\ runs \in [Run -> Row] /\ wk \in [Worker -> Locals]
        /\ raw \in [File -> Run \cup {NoRun}]
        /\ wk[w] \in Locals /\ InHand(runs, wk[w]) /\ Sound(wk[w]) /\ NoRun \notin Run
        /\ wk[w].pc \notin {"rollback", "fail"}
    BY CatchingFacts DEF CatchingUp
  <1>2. wk[w].pc \in HoldPCs /\ r \in Run
    BY <1>1 DEF Landing, RefuseRun, BeginLanding, SetDirty, Adopt, NoActiveSchool, TryLock,
                Land, Finish, Archive, FinishFailed, FailRun, At, Sound, HoldPCs
  <1>3. school[SchoolOf[r]] = "open"
    BY <1>2, WorkerAssumption DEF AllOpen
  <1>4. /\ ~ RefuseRun(w) /\ ~ NoActiveSchool(w) /\ ~ FinishFailed(w) /\ ~ FailRun(w)
    BY <1>1, <1>3 DEF RefuseRun, NoActiveSchool, FinishFailed, FailRun, At
  <1>5. CASE BeginLanding(w) \/ TryLock(w)
    <2>1. PICK l \in Locals :
              /\ wk'[w] = l /\ l.cur = r /\ l.batch = wk[w].batch /\ l.rows = wk[w].rows
              /\ l.got = wk[w].got
              /\ \/ wk[w].pc = "resolve" /\ l.pc = "predirty"
                 \/ wk[w].pc = "lock" /\ l.pc \in {"land", "finish"}
      <3>1. CASE BeginLanding(w)
        <4>1. PICK l : l = [wk[w] EXCEPT !.pc = "predirty", !.beating = TRUE]
          OBVIOUS
        <4>2. wk'[w] = l
          BY <1>1, <3>1, <4>1 DEF BeginLanding, Become
        <4> QED BY <1>1, <3>1, <4>1, <4>2 DEF BeginLanding, At, Locals, PC
      <3>2. CASE TryLock(w)
        <4>1. PICK pc \in {"land", "finish"} : wk'[w] = [wk[w] EXCEPT !.pc = pc]
          BY <1>1, <3>2 DEF TryLock, Goto, Become
        <4>2. PICK l : l = [wk[w] EXCEPT !.pc = pc]
          OBVIOUS
        <4> QED BY <1>1, <3>2, <4>1, <4>2 DEF TryLock, At, Locals, PC
      <3> QED BY <1>5, <3>1, <3>2
    <2>2. UNCHANGED <<runs, raw, dirty>>
      BY <1>5 DEF BeginLanding, TryLock, db
    <2>3. CatchingUp(runs, raw, dirty, l)
      BY <1>1, <2>1 DEF CatchingUp, OwedFits, RowsFit, DirtyFits
    <2> QED BY <2>1, <2>2, <2>3
  <1>6. CASE SetDirty(w)
    <2>1. PICK l : l = [wk[w] EXCEPT !.pc = "adopt"]
      OBVIOUS
    <2>2. /\ wk'[w] = l /\ l.cur = r /\ l.batch = wk[w].batch /\ l.rows = wk[w].rows
          /\ l.got = wk[w].got /\ l.pc = "adopt" /\ wk[w].pc = "predirty"
      BY <1>1, <1>6, <2>1 DEF SetDirty, Goto, Become, At, Locals
    <2>3. UNCHANGED <<runs, raw>>
      BY <1>6 DEF SetDirty
    <2>4. CatchingUp(runs, raw, dirty', l)
      BY <1>1, <2>2 DEF CatchingUp, OwedFits, RowsFit, DirtyFits
    <2> QED BY <2>2, <2>3, <2>4
  <1>7. CASE Adopt(w)
    <2>1. PICK l : l = [wk[w] EXCEPT !.pc = "lock"]
      OBVIOUS
    <2>2. /\ wk'[w] = l /\ l.cur = r /\ l.batch = wk[w].batch /\ l.rows = wk[w].rows
          /\ l.got = wk[w].got /\ l.pc = "lock" /\ wk[w].pc = "adopt" /\ l \in Locals
      BY <1>1, <1>7, <2>1 DEF Adopt, Goto, Become, At, Locals, PC
    <2>3. UNCHANGED <<dirty, raw>> /\ SetRow(r, Adopted(runs[r]))
      BY <1>7 DEF Adopt
    <2>4. runs[r].status = "running"
      BY <1>1, <1>2, <2>2 DEF InHand
    <2>5. \A x \in Run : runs'[x].status = runs[x].status
      BY <1>1, <1>2, <2>3, <2>4 DEF SetRow, Adopted, Row
    <2>6. CatchingUp(runs, raw, dirty, l)
      BY <1>1, <2>2 DEF CatchingUp, OwedFits, RowsFit, DirtyFits
    <2>7. CatchingUp(runs', raw, dirty, l)
      BY <2>2, <2>5, <2>6, SameStatusCatchingUp
    <2> QED BY <2>2, <2>3, <2>7
  <1>8. CASE Land(w)
    <2>1. PICK new \in SUBSET File, err \in BOOLEAN :
              /\ raw' = [f \in File |-> IF f \in new THEN wk[w].cur ELSE raw[f]]
              /\ Become(w, [wk[w] EXCEPT !.pc = "finish", !.got = (new # {}), !.err = err])
      BY <1>8 DEF Land
    <2>2. PICK l : l = [wk[w] EXCEPT !.pc = "finish", !.got = (new # {}), !.err = err]
      OBVIOUS
    <2>3. /\ wk'[w] = l /\ l.cur = r /\ l.batch = wk[w].batch /\ l.rows = wk[w].rows
          /\ l.pc = "finish" /\ wk[w].pc = "land" /\ l.got = (new # {})
      BY <1>1, <1>8, <2>1, <2>2 DEF Land, Become, At, Locals
    <2>4. UNCHANGED <<runs, dirty>> /\ runs[r].status = "running"
      BY <1>1, <1>2, <1>8, <2>3 DEF Land, InHand
    <2>5. OwedIn(runs, raw') \subseteq OwedIn(runs, raw)
      BY <1>2, <2>1, <2>4 DEF OwedIn
    <2>6. \A f \in File : raw[f] # r
      BY <1>2, <2>3 DEF CatchingUp, RowsFit
    <2>7. RowsFit(runs, raw', l)
      BY <1>2, <2>1, <2>3, <2>4, <2>6 DEF CatchingUp, RowsFit
    <2>8. OwedFits(OwedIn(runs, raw'), l) /\ DirtyFits(dirty, l)
      BY <2>3, <2>5 DEF CatchingUp, OwedFits, DirtyFits
    <2> QED BY <2>3, <2>4, <2>7, <2>8 DEF CatchingUp
  <1>9. CASE Finish(w)
    <2>1. PICK l : l = [wk[w] EXCEPT !.pc = "archive"]
      OBVIOUS
    <2>2. /\ wk'[w] = l /\ l.cur = r /\ l.batch = wk[w].batch /\ l.rows = wk[w].rows
          /\ l.got = wk[w].got /\ l.pc = "archive" /\ wk[w].pc = "finish"
      BY <1>1, <1>9, <2>1 DEF Finish, Goto, Become, At, Locals
    <2>3. UNCHANGED <<dirty, raw>> /\ SetRow(r, Finished(runs[r], "landed"))
      BY <1>9 DEF Finish
    <2>4. runs'[r].status = "landed" /\ \A x \in Run : x # r => runs'[x] = runs[x]
      BY <1>1, <1>2, <2>3 DEF SetRow, Finished, Row
    <2>5. OwedIn(runs', raw) \subseteq OwedIn(runs, raw) \cup {r}
      BY <2>4 DEF OwedIn
    <2>6. r \notin l.batch
      BY <1>1, <1>2, <2>2 DEF InHand
    <2>7. OwedFits(OwedIn(runs', raw), l) /\ DirtyFits(dirty, l)
      BY <2>2, <2>5, <2>6 DEF CatchingUp, OwedFits, DirtyFits
    <2>8. RowsFit(runs', raw, l)
      BY <1>2, <2>2, <2>4 DEF CatchingUp, RowsFit
    <2> QED BY <2>2, <2>3, <2>4, <2>7, <2>8 DEF CatchingUp
  <1>10. CASE Archive(w)
    <2>1. PICK l : l = JoinBatch(w)
      OBVIOUS
    <2>2. NextClaim(w) \in Locals /\ NextClaim(w).pc = "claim" /\ NextClaim(w).cur = NoRun
          /\ NextClaim(w).batch = wk[w].batch /\ NextClaim(w).rows = wk[w].rows
      BY <1>1 DEF NextClaim, Locals, PC
    <2>3. /\ wk'[w] = l /\ l.cur = NoRun /\ l.batch = wk[w].batch \cup {r} /\ l.pc = "claim"
          /\ l.rows = (wk[w].rows \/ wk[w].got) /\ wk[w].pc = "archive"
      BY <1>1, <1>10, <2>1, <2>2 DEF Archive, Become, At, JoinBatch, Locals
    <2>4. UNCHANGED <<runs, raw, dirty>> /\ runs[r].status = "landed"
      BY <1>10, <2>3 DEF Archive, db, CatchingUp
    <2>5. r \in OwedIn(runs, raw) => wk[w].got
      BY <1>2 DEF OwedIn, CatchingUp, RowsFit
    <2>6. OwedFits(OwedIn(runs, raw), l)
      BY <2>3, <2>5 DEF CatchingUp, OwedFits
    <2>7. RowsFit(runs, raw, l) /\ DirtyFits(dirty, l)
      BY <1>1, <2>3, <2>4 DEF CatchingUp, RowsFit, DirtyFits
    <2> QED BY <2>3, <2>4, <2>6, <2>7 DEF CatchingUp
  <1> QED BY <1>4, <1>5, <1>6, <1>7, <1>8, <1>9, <1>10 DEF Landing

\* From the redrive to the gate's decision: with a clean warehouse there is nothing to
\* redrive, and the scope holds the batch.
LEMMA GateCatchesUp ==
    ASSUME IInv, Unjudged, NEW w \in Worker, wk[w].on, CatchingUp(runs, raw, dirty, wk[w]),
           Redrive(w) \/ ReadScope(w) \/ Gate(w)
    PROVE  CatchingUp(runs', raw', dirty', wk'[w])
  <1>1. /\ runs' = runs /\ raw' = raw /\ dirty' = dirty /\ wk \in [Worker -> Locals]
        /\ wk[w] \in Locals /\ wk[w].cur = NoRun /\ NoRun \notin Run
    BY CatchingFacts DEF Redrive, ReadScope, Gate, At, HoldPCs, db
  <1>2. OwedIn(runs, raw) \subseteq wk[w].batch
    BY <1>1 DEF Redrive, ReadScope, Gate, At, CatchingUp, OwedFits, OwedIn
  <1>3. wk[w].batch = {} => CatchingUp(runs, raw, dirty, Poll(wk[w].on))
    <2> SUFFICES ASSUME wk[w].batch = {} PROVE CatchingUp(runs, raw, dirty, Poll(wk[w].on))
      OBVIOUS
    <2>1. /\ OwedIn(runs, raw) = {} /\ wk[w].on \in BOOLEAN
          /\ \A x \in Run : runs[x].status # "running"
          /\ \A f \in File : raw[f] \in Run => runs[raw[f]].status \notin {"absent", "pending"}
      BY <1>1, <1>2 DEF Locals, CatchingUp, RowsFit
    <2>2. ~ dirty.on
      BY DEF Redrive, ReadScope, Gate, At, CatchingUp, DirtyFits
    <2> QED BY <2>1, <2>2, PollCatchesUp
  <1>4. CASE Redrive(w)
    <2>1. wk[w].batch = {} /\ ~ dirty.on
      BY <1>4 DEF Redrive, At, CatchingUp, OwedFits, DirtyFits
    <2>2. wk'[w] = Poll(wk[w].on)
      BY <1>1, <1>4, <2>1 DEF Redrive, Become
    <2> QED BY <1>1, <1>3, <2>1, <2>2
  <1>5. CASE ReadScope(w)
    <2> DEFINE scope == wk[w].batch \cup Landed(runs)
    <2>1. CASE scope = {}
      BY <1>1, <1>3, <1>5, <2>1 DEF ReadScope, Become
    <2>2. CASE scope # {}
      <3>1. PICK l : l = [wk[w] EXCEPT !.pc = "gate", !.scope = scope]
        OBVIOUS
      <3>2. wk'[w] = l
        BY <1>1, <1>5, <2>2, <3>1 DEF ReadScope, Become
      <3>3. /\ l.pc = "gate" /\ l.scope = scope /\ l.batch = wk[w].batch
            /\ l.rows = wk[w].rows /\ l.cur = NoRun /\ wk[w].pc = "scope"
        BY <1>1, <1>5, <3>1 DEF ReadScope, At, Locals
      <3>4. CatchingUp(runs, raw, dirty, l)
        BY <1>1, <3>3 DEF CatchingUp, OwedFits, RowsFit, DirtyFits
      <3> QED BY <1>1, <3>2, <3>4
    <2> QED BY <2>1, <2>2
  <1>6. CASE Gate(w)
    <2>1. PICK pc \in {"skip", "build"} : /\ wk'[w] = [wk[w] EXCEPT !.pc = pc]
                                          /\ pc = "skip" => ~ wk[w].rows
      BY <1>1, <1>6 DEF Gate, Goto, Become
    <2>2. PICK l : l = [wk[w] EXCEPT !.pc = pc]
      OBVIOUS
    <2>3. /\ l.pc = pc /\ l.scope = wk[w].scope /\ l.batch = wk[w].batch
          /\ l.rows = wk[w].rows /\ l.cur = NoRun /\ wk[w].pc = "gate"
      BY <1>1, <1>6, <2>2 DEF Gate, At, Locals
    <2>4. CatchingUp(runs, raw, dirty, l)
      BY <1>1, <2>1, <2>3 DEF CatchingUp, OwedFits, RowsFit, DirtyFits
    <2> QED BY <1>1, <2>1, <2>2, <2>4
  <1> QED BY <1>4, <1>5, <1>6

\* The gate's transaction, or the skip of a batch without rows: the owed runs are on the
\* todo list, and the flag is cleared.
LEMMA VerdictCatchesUp ==
    ASSUME IInv, Unjudged, NEW w \in Worker, CatchingUp(runs, raw, dirty, wk[w]),
           SkipClean(w) \/ Build(w)
    PROVE  CatchingUp(runs', raw', dirty', wk'[w])
  <1>1. /\ runs' = runs /\ raw' = raw /\ dirty' = Clean /\ wk \in [Worker -> Locals]
        /\ wk[w] \in Locals /\ wk[w].cur = NoRun /\ NoRun \notin Run
        /\ wk[w].pc \in {"skip", "build"}
    BY CatchingFacts DEF SkipClean, Build, At, HoldPCs
  <1>2. OwedIn(runs, raw) \subseteq wk[w].batch
    BY <1>1 DEF CatchingUp, OwedFits, OwedIn
  <1>3. ASSUME NEW l, l.pc = "settle", l.cur = NoRun, OwedIn(runs, raw) \subseteq l.todo
        PROVE  CatchingUp(runs, raw, Clean, l)
    BY <1>1, <1>3 DEF CatchingUp, OwedFits, RowsFit, DirtyFits, Clean
  <1>4. CASE SkipClean(w)
    <2>1. OwedIn(runs, raw) = {}
      BY <1>1, <1>2, <1>4 DEF SkipClean, At, CatchingUp, OwedFits
    <2>2. PICK l : l = [wk[w] EXCEPT !.pc = "settle", !.verdict = "skip",
                                     !.todo = wk[w].batch \ wk[w].erred]
      OBVIOUS
    <2>3. wk'[w] = l /\ l.pc = "settle" /\ l.cur = NoRun
      BY <1>1, <1>4, <2>2 DEF SkipClean, Become, Locals
    <2> QED BY <1>1, <1>3, <2>1, <2>3
  <1>5. CASE Build(w)
    <2>1. PICK v, bad :
              Become(w, [wk[w] EXCEPT !.pc = "settle", !.todo = wk[w].scope,
                                      !.verdict = v, !.bad = bad])
      BY <1>5 DEF Build
    <2>2. PICK l : l = [wk[w] EXCEPT !.pc = "settle", !.todo = wk[w].scope,
                                     !.verdict = v, !.bad = bad]
      OBVIOUS
    <2>3. wk'[w] = l /\ l.pc = "settle" /\ l.cur = NoRun /\ l.todo = wk[w].scope
      BY <1>1, <2>1, <2>2 DEF Become, Locals
    <2>4. wk[w].batch \subseteq wk[w].scope
      BY <1>5 DEF Build, At, CatchingUp, OwedFits
    <2> QED BY <1>1, <1>2, <1>3, <2>3, <2>4
  <1> QED BY <1>4, <1>5

\* Each mark settles what its run owes, and the purge only takes rows.
LEMMA SettleCatchesUp ==
    ASSUME IInv, Unjudged, NEW w \in Worker, CatchingUp(runs, raw, dirty, wk[w]),
           Settle(w) \/ AllSettled(w) \/ Purge(w)
    PROVE  CatchingUp(runs', raw', dirty', wk'[w])
  <1>1. /\ dirty' = dirty /\ wk \in [Worker -> Locals] /\ runs \in [Run -> Row]
        /\ wk[w] \in Locals /\ wk[w].cur = NoRun /\ NoRun \notin Run
        /\ wk[w].pc \in {"settle", "purge"} /\ Sound(wk[w]) /\ InHand(runs, wk[w])
        /\ wk[w].on \in BOOLEAN
    BY CatchingFacts DEF Settle, AllSettled, Purge, At, HoldPCs, db, Locals
  <1>2. /\ ~ dirty.on /\ \A x \in Run : runs[x].status # "running"
        /\ OwedIn(runs, raw) \subseteq wk[w].todo
        /\ \A f \in File : raw[f] \in Run => runs[raw[f]].status \notin {"absent", "pending"}
    BY <1>1 DEF CatchingUp, OwedFits, RowsFit, DirtyFits
  <1>3. CASE Settle(w)
    <2>1. PICK r \in wk[w].todo :
              /\ SetRow(r, Settled(w, r))
              /\ Become(w, [wk[w] EXCEPT !.todo = @ \ {r}])
      BY <1>3 DEF Settle
    <2>2. raw' = raw /\ wk[w].pc = "settle" /\ r \in Run
      BY <1>1, <1>3, <2>1 DEF Settle, At, Locals
    <2>3. wk[w].verdict \in {"skip", "raised", "noop", "applied"}
      BY <1>1, <2>2 DEF Sound, Locals, Verdicts
    <2>4. Settled(w, r).status \in {"succeeded", "failed"}
      BY <1>1, <2>2, <2>3 DEF Settled, Finalized, Marked, Row
    <2>5. runs'[r].status \in {"succeeded", "failed"} /\ \A x \in Run : x # r => runs'[x] = runs[x]
      BY <1>1, <2>1, <2>2, <2>4 DEF SetRow
    <2>6. OwedIn(runs', raw) = OwedIn(runs, raw) \ {r}
      BY <2>2, <2>5 DEF OwedIn
    <2>7. PICK l : l = [wk[w] EXCEPT !.todo = @ \ {r}]
      OBVIOUS
    <2>8. wk'[w] = l /\ l.pc = "settle" /\ l.cur = NoRun /\ l.todo = wk[w].todo \ {r}
      BY <1>1, <2>1, <2>2, <2>7 DEF Become, Locals
    <2>9. RowsFit(runs', raw, l)
      BY <1>1, <1>2, <2>5, <2>8 DEF RowsFit
    <2> QED BY <1>1, <1>2, <2>2, <2>6, <2>8, <2>9 DEF CatchingUp, OwedFits, DirtyFits
  <1>4. CASE AllSettled(w)
    <2>1. OwedIn(runs, raw) = {} /\ UNCHANGED <<runs, raw>> /\ wk[w].todo = {}
      BY <1>2, <1>4 DEF AllSettled, db
    <2>2. CASE wk[w].verdict = "applied"
      <3>1. PICK l : l = [wk[w] EXCEPT !.pc = "purge"]
        OBVIOUS
      <3>2. wk'[w] = l /\ l.pc = "purge" /\ l.cur = NoRun /\ l.todo = {}
        BY <1>1, <1>4, <2>1, <2>2, <3>1 DEF AllSettled, Goto, Become, Locals
      <3> QED BY <1>1, <1>2, <2>1, <3>2 DEF CatchingUp, OwedFits, RowsFit, DirtyFits
    <2>3. CASE wk[w].verdict # "applied"
      <3>1. wk'[w] = Poll(wk[w].on)
        BY <1>1, <1>4, <2>3 DEF AllSettled, Become
      <3> QED BY <1>1, <1>2, <2>1, <3>1, PollCatchesUp
    <2> QED BY <2>2, <2>3
  <1>5. CASE Purge(w)
    <2>1. PICK gone \in SUBSET File :
              raw' = [f \in File |-> IF f \in gone THEN NoRun ELSE raw[f]]
      BY <1>5 DEF Purge
    <2>2. runs' = runs /\ wk'[w] = Poll(wk[w].on) /\ wk[w].todo = {}
      BY <1>1, <1>5 DEF Purge, Become, At, CatchingUp, OwedFits
    <2>3. OwedIn(runs, raw') = {}
      BY <1>1, <1>2, <2>1, <2>2 DEF OwedIn
    <2>4. \A f \in File : raw'[f] \in Run => raw'[f] = raw[f]
      BY <1>1, <2>1
    <2> QED BY <1>1, <1>2, <2>2, <2>3, <2>4, PollCatchesUp
  <1> QED BY <1>3, <1>4, <1>5

\* A working step keeps the setting, and its worker stays up.
LEMMA StaysOnDuty ==
    ASSUME IInv, NEW w \in Worker, WorkerStep(w) \/ Heartbeat(w), wk[w].pc # "down"
    PROVE  wk'[w].on = wk[w].on /\ wk'[w].pc # "down"
  <1>1. wk \in [Worker -> Locals] /\ wk[w] \in Locals
    BY DEF IInv, TypeOK
  <1>2. Poll(wk[w].on).on = wk[w].on /\ Poll(wk[w].on).pc = "reap"
    BY DEF Poll, Down
  <1>3. CASE Heartbeat(w)
    BY <1>3 DEF Heartbeat
  <1>4. ASSUME NEW l, Become(w, l) PROVE wk'[w] = l
    BY <1>1, <1>4 DEF Become
  <1>5. ASSUME NEW pc \in PC \ {"down"}, Goto(w, pc)
        PROVE  wk'[w].on = wk[w].on /\ wk'[w].pc # "down"
    BY <1>1, <1>4, <1>5 DEF Goto, Locals
  <1>6. CASE Reap(w) \/ Drained(w)
    BY <1>5, <1>6 DEF Reap, Drained, PC
  <1>7. CASE Claim(w)
    <2>1. PICK r \in Run : Become(w, [wk[w] EXCEPT !.pc = "resolve", !.cur = r])
      BY <1>7 DEF Claim, OldestPending, IInv, TypeOK
    <2> QED BY <1>1, <1>4, <2>1 DEF Locals
  <1>8. CASE Landing(w)
    <2>1. NextClaim(w) \in Locals /\ NextClaim(w).on = wk[w].on /\ NextClaim(w).pc = "claim"
      BY <1>1 DEF NextClaim, Locals, PC
    <2>2. JoinBatch(w).on = wk[w].on /\ JoinBatch(w).pc = "claim"
      BY <2>1 DEF JoinBatch, Locals
    <2>3. CASE RefuseRun(w) \/ FailRun(w) \/ Archive(w)
      BY <1>4, <2>1, <2>2, <2>3 DEF RefuseRun, FailRun, Archive
    <2>4. CASE \/ SetDirty(w) \/ Adopt(w) \/ NoActiveSchool(w) \/ TryLock(w)
               \/ Finish(w) \/ FinishFailed(w)
      BY <1>5, <2>4 DEF SetDirty, Adopt, NoActiveSchool, TryLock, Finish, FinishFailed, PC
    <2>5. CASE BeginLanding(w)
      BY <1>1, <1>4, <2>5 DEF BeginLanding, Locals
    <2>6. CASE Land(w)
      <3>1. PICK got, err :
                Become(w, [wk[w] EXCEPT !.pc = "finish", !.got = got, !.err = err])
        BY <2>6 DEF Land
      <3> QED BY <1>1, <1>4, <3>1 DEF Locals
    <2> QED BY <1>8, <2>3, <2>4, <2>5, <2>6 DEF Landing
  <1>9. CASE Transforming(w)
    <2>1. CASE Redrive(w) \/ ReadScope(w) \/ Gate(w) \/ AllSettled(w) \/ Purge(w)
      <3>1. \/ \E pc \in PC \ {"down"} : Goto(w, pc)
            \/ Become(w, Poll(wk[w].on))
            \/ Become(w, [wk[w] EXCEPT !.pc = "scope", !.force = TRUE])
            \/ \E scope : Become(w, [wk[w] EXCEPT !.pc = "gate", !.scope = scope])
        BY <2>1 DEF Redrive, ReadScope, Gate, AllSettled, Purge, PC
      <3> QED BY <1>1, <1>2, <1>4, <1>5, <3>1 DEF Locals
    <2>2. CASE SkipClean(w) \/ Build(w) \/ Settle(w)
      <3>1. \/ \E v, todo : Become(w, [wk[w] EXCEPT !.pc = "settle", !.verdict = v,
                                                   !.todo = todo])
            \/ \E v, todo, bad : Become(w, [wk[w] EXCEPT !.pc = "settle", !.todo = todo,
                                                        !.verdict = v, !.bad = bad])
            \/ \E todo : Become(w, [wk[w] EXCEPT !.todo = todo])
        BY <2>2 DEF SkipClean, Build, Settle
      <3> QED BY <1>1, <1>4, <3>1 DEF Locals
    <2> QED BY <1>9, <2>1, <2>2 DEF Transforming
  <1> QED BY <1>3, <1>6, <1>7, <1>8, <1>9 DEF WorkerStep

\* Every step keeps an undisturbed worker catching up.
LEMMA NextCatchUp ==
    ASSUME OneProcess
    PROVE  IInv /\ Unjudged /\ CatchUp /\ [Next]_vars => CatchUp'
  <1> SUFFICES ASSUME IInv, Unjudged, CatchUp, [Next]_vars, Undisturbed'
               PROVE  AllOpen' /\ \A w \in Worker : OnDuty(wk'[w]) =>
                                    CatchingUp(runs', raw', dirty', wk'[w])
    BY DEF CatchUp
  <1>1. faults' = FaultBudget /\ faults \in Nat /\ faults <= FaultBudget /\ FaultBudget \in Nat
    BY WorkerAssumption DEF Undisturbed, IInv, TypeOK
  <1>2. CASE UNCHANGED vars
    BY <1>1, <1>2 DEF vars, db, CatchUp, Undisturbed, AllOpen
  <1>3. CASE Next
    <2>1. faults' # faults - 1
      BY <1>1
    <2>2. \A w \in Worker : ~ Fault(w)
      BY <2>1 DEF Fault, Crash, Escape, LandingRaises, PhaseTwoRaises, GateRaises, SpendFault
    <2>3. \A s \in School : ~ ChangeSchool(s)
      BY <2>1 DEF ChangeSchool, SpendFault
    <2>4. CASE \E r \in Run : Enqueue(r) \/ Lapse(r)
      <3>1. UNCHANGED <<school, faults, wk>>
        BY <2>4 DEF Enqueue, Lapse
      <3>2. AllOpen /\ \A w \in Worker : OnDuty(wk[w]) => CatchingUp(runs, raw, dirty, wk[w])
        BY <1>1, <3>1 DEF CatchUp, Undisturbed
      <3> QED BY <2>4, <3>1, <3>2, EnvironmentCatchesUp DEF AllOpen
    <2>5. ASSUME NEW w \in Worker, Start(w) \/ WorkerStep(w) \/ Heartbeat(w)
          PROVE  AllOpen' /\ \A v \in Worker : OnDuty(wk'[v]) =>
                               CatchingUp(runs', raw', dirty', wk'[v])
      <3>1. UNCHANGED <<school, faults>>
        BY <2>5 DEF Start, WorkerStep, Heartbeat, Reap, Claim, Drained, Landing, Transforming,
             RefuseRun, BeginLanding, SetDirty, Adopt, NoActiveSchool, TryLock, Land, Finish,
             Archive, FinishFailed, FailRun, Redrive, ReadScope, Gate, SkipClean, Build,
             Settle, AllSettled, Purge
      <3>2. /\ AllOpen /\ (OnDuty(wk[w]) => CatchingUp(runs, raw, dirty, wk[w]))
            /\ \A v \in Worker : v = w
        BY <1>1, <3>1 DEF CatchUp, Undisturbed, OneProcess
      <3>3. OnDuty(wk'[w]) => CatchingUp(runs', raw', dirty', wk'[w])
        <4>1. CASE Start(w)
          <5>1. /\ wk[w].pc = "down" /\ UNCHANGED <<runs, raw, dirty>> /\ wk[w].cur = NoRun
                /\ NoRun \notin Run
            BY <4>1, CatchingFacts DEF Start, At, db, HoldPCs
          <5>2. PICK on \in BOOLEAN : wk'[w] = Poll(on)
            BY <4>1, WorkerAssumption DEF Start, Become, IInv, TypeOK
          <5>3. /\ OwedIn(runs, raw) = {} /\ ~ dirty.on
                /\ \A x \in Run : runs[x].status # "running"
                /\ \A f \in File : raw[f] \in Run =>
                                      runs[raw[f]].status \notin {"absent", "pending"}
            BY <3>2, <5>1 DEF OnDuty, CatchingUp, OwedFits, RowsFit, DirtyFits, OwedIn
          <5> QED BY <5>1, <5>2, <5>3, PollCatchesUp
        <4>2. CASE WorkerStep(w) \/ Heartbeat(w)
          <5> SUFFICES ASSUME OnDuty(wk'[w])
                       PROVE  CatchingUp(runs', raw', dirty', wk'[w])
            OBVIOUS
          <5>1. CASE wk[w].pc = "down"
            <6>1. ~ WorkerStep(w)
              BY <5>1 DEF WorkerStep, Reap, Claim, Drained, Landing, Transforming,
                   RefuseRun, BeginLanding, SetDirty, Adopt, NoActiveSchool, TryLock, Land,
                   Finish, Archive, FinishFailed, FailRun, Redrive, ReadScope, Gate,
                   SkipClean, Build, Settle, AllSettled, Purge, At
            <6>2. Heartbeat(w)
              BY <4>2, <6>1
            <6> QED BY <3>2, <5>1, <6>2, LoopCatchesUp DEF OnDuty
          <5>2. CASE wk[w].pc # "down"
            <6>1. wk[w].on
              BY <4>2, <5>2, StaysOnDuty DEF OnDuty
            <6>2. CatchingUp(runs, raw, dirty, wk[w])
              BY <3>2, <6>1 DEF OnDuty
            <6>3. CASE Reap(w) \/ Claim(w) \/ Drained(w) \/ Heartbeat(w)
              BY <6>2, <6>3, LoopCatchesUp
            <6>4. CASE Landing(w)
              BY <3>2, <6>2, <6>4, LandingCatchesUp
            <6>5. CASE Transforming(w)
              BY <6>1, <6>2, <6>5, GateCatchesUp, VerdictCatchesUp, SettleCatchesUp
                 DEF Transforming
            <6> QED BY <4>2, <6>3, <6>4, <6>5 DEF WorkerStep
          <5> QED BY <5>1, <5>2
        <4> QED BY <2>5, <4>1, <4>2
      <3> QED BY <3>1, <3>2, <3>3 DEF AllOpen
    <2> QED BY <1>3, <2>2, <2>3, <2>4, <2>5 DEF Next
  <1> QED BY <1>2, <1>3

\* An undisturbed worker goes to sleep with a clean warehouse and with a verdict for every
\* landed run that has rows in raw: the safety half of LandedRowsAreJudged and
\* DirtyIsCleared, for any number of runs, schools and files.
THEOREM UndisturbedPollsCatchUp ==
    ASSUME OneProcess
    PROVE  Spec => []CaughtUp
  <1>1. Init => CatchUp
    <2> SUFFICES ASSUME Init PROVE CatchUp
      OBVIOUS
    <2>1. ASSUME NEW w \in Worker PROVE CatchingUp(runs, raw, dirty, wk[w])
      <3>1. /\ wk[w].pc = "down" /\ wk[w].batch = {} /\ ~ dirty.on
            /\ \A r \in Run : runs[r].status = "absent"
            /\ \A f \in File : raw[f] \notin Run
        BY WorkerAssumption DEF Init, Down, NoRow, Clean
      <3>2. OwedIn(runs, raw) = {}
        BY <3>1 DEF OwedIn
      <3> QED BY <3>1, <3>2 DEF CatchingUp, OwedFits, RowsFit, DirtyFits
    <2> QED BY <2>1 DEF Init, CatchUp, AllOpen
  <1>2. IInv /\ CatchUp => CaughtUp
    <2> SUFFICES ASSUME IInv, CatchUp, NEW w \in Worker, Undisturbed, At(w, "reap"), wk[w].on
                 PROVE  ~ dirty.on /\ OwedIn(runs, raw) = {}
      BY DEF CaughtUp
    <2>1. CatchingUp(runs, raw, dirty, wk[w])
      BY DEF CatchUp, OnDuty
    <2>2. wk[w].cur = NoRun /\ wk[w].pc = "reap" /\ NoRun \notin Run
      BY WorkerAssumption DEF IInv, TypeOK, Holds, Sound, Locals, HoldPCs, At
    <2> QED BY <2>1, <2>2 DEF CatchingUp, OwedFits, DirtyFits, OwedIn
  <1> QED BY <1>1, <1>2, NextCatchUp, AlwaysUnjudged, PTL DEF Spec
=============================================================================

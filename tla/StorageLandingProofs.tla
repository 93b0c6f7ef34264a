------------------------ MODULE StorageLandingProofs ------------------------
(***************************************************************************)
(* What TLAPS proves of StorageLanding for every set of keys, contents and  *)
(* workers and every bound on uploads and faults: the types; for one run at *)
(* a time on an active school, that the archive takes nothing that raw has  *)
(* not got; and, for any runs, that a commit brings what the snapshot saw.  *)
(***************************************************************************)
EXTENDS StorageLanding, TLAPS

\* What the proof of ArchivedIsIngested needs: the runs of the school do not overlap,
\* nobody uploads between a re-list and its moves, and no administrator deactivates the
\* school under its run.  TLC shows that none of the three can be left out.
Undisturbed == /\ \A v, w \in Worker : v = w
               /\ QuietArchive = TRUE /\ MayDeactivate = FALSE

(***************************************************************************)
(* Types                                                                    *)
(***************************************************************************)
LEMMA ListingsAreTyped ==
    TypeOK => /\ Listing \in [Key -> Mtime] /\ Listed \subseteq Key
              /\ Unlisted \in [Key -> Mtime] /\ Idle \in Locals
  <1> SUFFICES ASSUME TypeOK
               PROVE  /\ Listing \in [Key -> Mtime] /\ Listed \subseteq Key
                      /\ Unlisted \in [Key -> Mtime] /\ Idle \in Locals
    OBVIOUS
  <1>1. MaxUploads \in Nat
    BY LandingAssumption
  <1>2. Unlisted \in [Key -> Mtime]
    BY <1>1 DEF Unlisted, Mtime
  <1>3. Listing \in [Key -> Mtime]
    BY <1>1 DEF TypeOK, Listing, Mtime
  <1>4. Idle \in Locals
    BY <1>2 DEF Idle, Locals
  <1> QED BY <1>2, <1>3, <1>4 DEF Listed

\* A step of one run that leaves the bucket alone.
LEMMA RunMoves ==
    ASSUME TypeOK, NEW w \in Worker, NEW m \in Locals, Become(w, m),
           ingested' \subseteq Content, live' = live, archived' = archived,
           uploads' = uploads, faults' = faults \/ SpendFault
    PROVE  TypeOK' /\ wk'[w] = m
  <1>1. faults' \in 0..MaxFaults
    BY LandingAssumption DEF TypeOK, SpendFault
  <1> QED BY <1>1 DEF TypeOK, Become, Mtime

LEMMA TypeInit == Init => TypeOK
  <1> SUFFICES ASSUME Init PROVE TypeOK
    OBVIOUS
  <1>1. Unlisted \in [Key -> Mtime]
    BY LandingAssumption DEF Unlisted, Mtime
  <1>2. Idle \in Locals
    BY <1>1 DEF Idle, Locals
  <1> QED BY <1>2, LandingAssumption DEF Init, TypeOK, Mtime

LEMMA TypeKept == TypeOK /\ [Next]_vars => TypeOK'
  <1> SUFFICES ASSUME TypeOK, [Next]_vars PROVE TypeOK'
    OBVIOUS
  <1>1. CASE UNCHANGED vars
    BY <1>1 DEF vars, TypeOK, Mtime
  <1>2. ASSUME NEW k \in Key, NEW c \in Content, Upload(k, c) PROVE TypeOK'
    <2>1. uploads + 1 \in 1..MaxUploads /\ uploads' \in Mtime
      BY <1>2, LandingAssumption DEF Upload, TypeOK, Mtime
    <2>2. [content |-> c, mtime |-> uploads + 1] \in [content : Content, mtime : 1..MaxUploads]
      BY <2>1
    <2>3. live' \in [Key -> [content : Content, mtime : 1..MaxUploads] \cup {Nothing}]
      BY <1>2, <2>2 DEF Upload, TypeOK
    <2> QED BY <1>2, <2>1, <2>3 DEF Upload, TypeOK, Mtime
  <1>3. ASSUME NEW w \in Worker, RunStep(w) \/ Fault(w) PROVE TypeOK'
    <2>0. /\ wk[w] \in Locals /\ wk[w].txn \subseteq Content /\ wk[w].todo \subseteq Key
          /\ wk[w].snapshot \in [Key -> Mtime]
          /\ Listing \in [Key -> Mtime] /\ Listed \subseteq Key /\ Idle \in Locals
          /\ ingested \subseteq Content
      BY ListingsAreTyped DEF TypeOK, Locals
    <2>1. CASE Snapshot(w)
      <3>1. [Idle EXCEPT !.pc = "lock", !.snapshot = Listing] \in Locals
        BY <2>0 DEF Locals
      <3> QED BY <2>0, <2>1, <3>1, RunMoves DEF Snapshot
    <2>2. CASE LockAndList(w)
      <3>1. [wk[w] EXCEPT !.pc = "phase2", !.todo = Listed] \in Locals
        BY <2>0 DEF Locals
      <3> QED BY <2>0, <2>2, <3>1, RunMoves DEF LockAndList
    <2>3. CASE SkipSchool(w) \/ NoActiveSchool(w)
      <3>1. [wk[w] EXCEPT !.pc = "relist"] \in Locals
        BY <2>0 DEF Locals
      <3> QED BY <2>0, <2>3, <3>1, RunMoves DEF SkipSchool, NoActiveSchool
    <2>4. CASE Commit(w)
      <3>1. [wk[w] EXCEPT !.pc = "relist", !.txn = {}] \in Locals
        BY <2>0 DEF Locals
      <3>2. ingested \cup wk[w].txn \subseteq Content
        BY <2>0
      <3>3. CASE wk[w].errors \/ wk[w].lost
        BY <2>0, <2>4, <3>2, <3>3, RunMoves DEF Commit
      <3>4. CASE ~ (wk[w].errors \/ wk[w].lost)
        BY <2>4, <3>1, <3>2, <3>4, RunMoves DEF Commit
      <3> QED BY <3>3, <3>4
    <2>5. CASE Relist(w)
      <3>1. [wk[w] EXCEPT !.pc = "move",
               !.todo = {k \in KeysIn(wk[w].snapshot) :
                           ~ Listing[k] > wk[w].snapshot[k]}] \in Locals
        BY <2>0 DEF Locals, KeysIn
      <3> QED BY <2>0, <2>5, <3>1, RunMoves DEF Relist
    <2>6. CASE EndRun(w) \/ Crash(w)
      BY <2>0, <2>6, RunMoves DEF EndRun, Crash
    <2>7. ASSUME NEW k \in Key, BlobError(w, k) \/ BlobFails(w, k) PROVE TypeOK'
      <3>1. [wk[w] EXCEPT !.todo = @ \ {k}, !.errors = TRUE] \in Locals
        BY <2>0 DEF Locals
      <3> QED BY <2>0, <2>7, <3>1, RunMoves DEF BlobError, BlobFails
    <2>8. ASSUME NEW k \in Key, RecordFails(w, k) PROVE TypeOK'
      <3>1. [wk[w] EXCEPT !.todo = @ \ {k}, !.lost = TRUE] \in Locals
        BY <2>0 DEF Locals
      <3> QED BY <2>0, <2>8, <3>1, RunMoves DEF RecordFails
    <2>9. ASSUME NEW k \in Key, BlobIngested(w, k) PROVE TypeOK'
      <3>1. live[k].content \in Content
        BY <2>9 DEF BlobIngested, TypeOK
      <3>2. [wk[w] EXCEPT !.todo = @ \ {k}, !.txn = @ \cup {live[k].content}] \in Locals
        BY <2>0, <3>1 DEF Locals
      <3> QED BY <2>0, <2>9, <3>2, RunMoves DEF BlobIngested
    <2>10. ASSUME NEW k \in Key, Move(w, k) PROVE TypeOK'
      <3>1. [wk[w] EXCEPT !.todo = @ \ {k}] \in Locals
        BY <2>0 DEF Locals
      <3>2. archived' \subseteq Content
        BY <2>10 DEF Move, TypeOK
      <3>3. wk' \in [Worker -> Locals]
        BY <2>10, <3>1 DEF Move, Become, TypeOK
      <3>4. live' \in [Key -> [content : Content, mtime : 1..MaxUploads] \cup {Nothing}]
        BY <2>10 DEF Move, TypeOK
      <3> QED BY <2>10, <3>2, <3>3, <3>4 DEF Move, TypeOK, Mtime
    <2>11. ASSUME NEW k \in Key, MoveFails(w, k) PROVE TypeOK'
      <3>1. [wk[w] EXCEPT !.todo = @ \ {k}] \in Locals
        BY <2>0 DEF Locals
      <3> QED BY <2>0, <2>11, <3>1, RunMoves DEF MoveFails
    <2> QED BY <1>3, <2>1, <2>2, <2>3, <2>4, <2>5, <2>6, <2>7, <2>8, <2>9, <2>10, <2>11
            DEF RunStep, Fault
  <1> QED BY <1>1, <1>2, <1>3 DEF Next

\* The bucket, the tables and every run's locals are typed, for any number of runs,
\* keys, uploads and faults.
THEOREM StorageIsTyped == Spec => []TypeOK
  <1> QED BY TypeInit, TypeKept, PTL DEF Spec

(***************************************************************************)
(* The archive                                                              *)
(***************************************************************************)

\* The object the snapshot of m saw under k is still there.
Kept(m, k) == live[k] # Nothing /\ live[k].mtime <= m.snapshot[k]

\* Where a run with locals m is, and what it has of the objects of its snapshot.
Fits(m, got) ==
  /\ \A k \in Key : m.snapshot[k] <= uploads
  /\ m.pc = "phase2" /\ ~m.errors /\ ~m.lost =>
        \A k \in Key : Kept(m, k) => k \in m.todo \/ live[k].content \in got \cup m.txn
  /\ m.pc = "relist" => \A k \in Key : Kept(m, k) => live[k].content \in got
  /\ m.pc = "move" =>
        \A k \in m.todo : live[k] # Nothing => live[k].content \in got
Stamped == \A k \in Key : live[k] # Nothing => live[k].mtime <= uploads
StorageInv == /\ TypeOK /\ Stamped /\ ArchivedIsIngested
              /\ \A w \in Worker : Fits(wk[w], ingested)

\* A step of the only run that leaves the bucket alone.
LEMMA RunKeeps ==
    ASSUME Undisturbed, StorageInv, NEW w \in Worker, NEW m \in Locals, Become(w, m),
           ingested \subseteq ingested', live' = live, archived' = archived,
           uploads' = uploads, TypeOK', Fits(m, ingested')
    PROVE  StorageInv'
  <1>1. wk'[w] = m /\ \A v \in Worker : v = w
    BY DEF Become, Undisturbed, StorageInv, TypeOK
  <1>2. Stamped' /\ ArchivedIsIngested'
    BY DEF StorageInv, Stamped, ArchivedIsIngested
  <1>3. \A v \in Worker : Fits(wk[v], ingested)'
    BY <1>1 DEF Fits, Kept
  <1> QED BY <1>2, <1>3 DEF StorageInv

LEMMA StorageInit == Init => StorageInv
  <1> SUFFICES ASSUME Init PROVE StorageInv
    OBVIOUS
  <1>1. \A w \in Worker : Fits(wk[w], ingested)
    BY DEF Init, Fits, Idle, Unlisted
  <1>2. Stamped /\ ArchivedIsIngested
    BY DEF Init, Stamped, ArchivedIsIngested
  <1> QED BY <1>1, <1>2, TypeInit DEF StorageInv

LEMMA UploadKeeps ==
    ASSUME Undisturbed, StorageInv, TypeOK', NEW k \in Key, NEW c \in Content, Upload(k, c)
    PROVE  StorageInv'
  <1>1. /\ live' = [live EXCEPT ![k] = [content |-> c, mtime |-> uploads + 1]]
        /\ uploads' = uploads + 1 /\ uploads \in Nat
        /\ UNCHANGED <<archived, ingested, wk>>
        /\ \A w \in Worker : wk[w].pc # "move"
    BY LandingAssumption DEF Upload, Undisturbed, StorageInv, TypeOK, Mtime, At
  <1>2. \A x \in Key : /\ x # k => live'[x] = live[x]
                       /\ live'[k].mtime = uploads + 1
                       /\ live[x] # Nothing => live[x].mtime \in Nat
    BY <1>1 DEF StorageInv, TypeOK
  <1>3. Stamped' /\ ArchivedIsIngested'
    BY <1>1, <1>2 DEF StorageInv, Stamped, ArchivedIsIngested
  <1>4. ASSUME NEW w \in Worker PROVE Fits(wk[w], ingested)'
    <2>1. \A x \in Key : wk[w].snapshot[x] \in Nat /\ wk[w].snapshot[x] <= uploads
      BY LandingAssumption DEF StorageInv, TypeOK, Locals, Mtime, Fits
    <2>2. \A x \in Key : live'[x] # Nothing /\ live'[x].mtime <= wk[w].snapshot[x]
                           => Kept(wk[w], x) /\ live'[x] = live[x]
      BY <1>1, <1>2, <2>1 DEF Kept
    <2>3. Fits(wk[w], ingested)
      BY DEF StorageInv
    <2> QED BY <1>1, <2>1, <2>2, <2>3 DEF Fits, Kept
  <1> QED BY <1>3, <1>4 DEF StorageInv

LEMMA MoveKeeps ==
    ASSUME Undisturbed, StorageInv, TypeOK', NEW w \in Worker, NEW k \in Key, Move(w, k)
    PROVE  StorageInv'
  <1>1. /\ wk[w].pc = "move" /\ k \in wk[w].todo /\ wk[w] \in Locals
        /\ live' = [live EXCEPT ![k] = Nothing] /\ UNCHANGED <<ingested, uploads>>
        /\ archived' = IF live[k] = Nothing THEN archived ELSE archived \cup {live[k].content}
    BY DEF Move, At, StorageInv, TypeOK
  <1>2. \A x \in Key : live'[x] = IF x = k THEN Nothing ELSE live[x]
    BY <1>1 DEF StorageInv, TypeOK
  <1>3. Fits(wk[w], ingested)
    BY DEF StorageInv
  <1>4. Stamped' /\ ArchivedIsIngested'
    BY <1>1, <1>2, <1>3 DEF StorageInv, Stamped, ArchivedIsIngested, Fits
  <1>5. /\ wk'[w].pc = "move" /\ wk'[w].todo = wk[w].todo \ {k}
        /\ wk'[w].snapshot = wk[w].snapshot /\ wk[w].todo \subseteq Key
        /\ \A v \in Worker : v = w
    BY <1>1 DEF Move, Become, StorageInv, TypeOK, Locals, Undisturbed
  <1>6. \A v \in Worker : Fits(wk[v], ingested)'
    BY <1>1, <1>2, <1>3, <1>5 DEF Fits
  <1> QED BY <1>4, <1>6 DEF StorageInv

LEMMA RunStepKeeps ==
    ASSUME Undisturbed, StorageInv, TypeOK', NEW w \in Worker, RunStep(w) \/ Fault(w)
    PROVE  StorageInv'
  <1>0. /\ TypeOK /\ wk[w] \in Locals /\ wk[w].txn \subseteq Content /\ wk[w].todo \subseteq Key
        /\ wk[w].snapshot \in [Key -> Mtime] /\ Fits(wk[w], ingested) /\ uploads \in Nat
        /\ Listing \in [Key -> Mtime] /\ Listed \subseteq Key /\ Idle \in Locals
        /\ \A k \in Key : live[k] # Nothing =>
                             live[k].mtime \in Nat /\ live[k].mtime >= 1 /\ live[k].mtime <= uploads
    BY ListingsAreTyped, LandingAssumption DEF StorageInv, TypeOK, Locals, Mtime, Stamped
  <1>1. \A m \in Locals : m.pc = "idle" /\ m.snapshot = Unlisted => Fits(m, ingested')
    BY <1>0 DEF Fits, Unlisted
  <1>2. CASE Snapshot(w)
    <2>1. PICK m : m = [Idle EXCEPT !.pc = "lock", !.snapshot = Listing]
      OBVIOUS
    <2>2. m \in Locals /\ m.pc = "lock" /\ m.snapshot = Listing
      BY <1>0, <2>1 DEF Locals
    <2>3. \A k \in Key : Listing[k] <= uploads
      BY <1>0 DEF Listing
    <2>4. Fits(m, ingested')
      BY <2>2, <2>3 DEF Fits
    <2>5. Become(w, m) /\ UNCHANGED <<live, archived, ingested, uploads>>
      BY <1>2, <2>1 DEF Snapshot
    <2> QED BY <2>2, <2>4, <2>5, RunKeeps
  <1>3. CASE LockAndList(w)
    <2>1. PICK m : m = [wk[w] EXCEPT !.pc = "phase2", !.todo = Listed]
      OBVIOUS
    <2>2. m \in Locals /\ m.pc = "phase2" /\ m.snapshot = wk[w].snapshot /\ m.todo = Listed
      BY <1>0, <2>1 DEF Locals
    <2>3. Fits(m, ingested')
      BY <1>0, <2>2 DEF Fits, Kept, Listed
    <2>4. Become(w, m) /\ UNCHANGED <<live, archived, ingested, uploads>>
      BY <1>3, <2>1 DEF LockAndList
    <2> QED BY <2>2, <2>3, <2>4, RunKeeps
  <1>4. ~ SkipSchool(w) /\ ~ NoActiveSchool(w)
    BY DEF SkipSchool, NoActiveSchool, LockHeld, At, Undisturbed
  <1>5. CASE Commit(w)
    <2>1. PICK m : m = IF wk[w].errors \/ wk[w].lost THEN Idle
                       ELSE [wk[w] EXCEPT !.pc = "relist", !.txn = {}]
      OBVIOUS
    <2>2. /\ Become(w, m) /\ UNCHANGED <<live, archived, uploads>>
          /\ ingested' = ingested \cup wk[w].txn /\ wk[w].pc = "phase2" /\ wk[w].todo = {}
      BY <1>5, <2>1 DEF Commit, At
    <2>3. CASE wk[w].errors \/ wk[w].lost
      <3>1. m \in Locals /\ m.pc = "idle" /\ m.snapshot = Unlisted
        BY <1>0, <2>1, <2>3 DEF Idle
      <3>2. Fits(m, ingested')
        BY <1>1, <3>1
      <3> QED BY <2>2, <3>1, <3>2, RunKeeps
    <2>4. CASE ~ (wk[w].errors \/ wk[w].lost)
      <3>1. m \in Locals /\ m.pc = "relist" /\ m.snapshot = wk[w].snapshot
        BY <1>0, <2>1, <2>4 DEF Locals
      <3>2. Fits(m, ingested')
        BY <1>0, <2>2, <2>4, <3>1 DEF Fits, Kept
      <3> QED BY <2>2, <3>1, <3>2, RunKeeps
    <2> QED BY <2>3, <2>4
  <1>6. CASE Relist(w)
    <2>1. PICK m : m = [wk[w] EXCEPT !.pc = "move",
                          !.todo = {k \in KeysIn(wk[w].snapshot) :
                                      ~ Listing[k] > wk[w].snapshot[k]}]
      OBVIOUS
    <2>2. /\ m \in Locals /\ m.pc = "move" /\ m.snapshot = wk[w].snapshot
          /\ m.todo = {k \in KeysIn(wk[w].snapshot) : ~ Listing[k] > wk[w].snapshot[k]}
      BY <1>0, <2>1 DEF Locals, KeysIn
    <2>3. \A k \in m.todo : k \in Key /\ (live[k] # Nothing => Kept(wk[w], k))
      BY <1>0, <2>2 DEF KeysIn, Kept, Listing, Mtime
    <2>4. /\ Become(w, m) /\ UNCHANGED <<live, archived, ingested, uploads>>
          /\ wk[w].pc = "relist"
      BY <1>6, <2>1 DEF Relist, At
    <2>5. Fits(m, ingested')
      BY <1>0, <2>2, <2>3, <2>4 DEF Fits
    <2> QED BY <2>2, <2>4, <2>5, RunKeeps
  <1>7. CASE EndRun(w) \/ Crash(w)
    <2>1. Become(w, Idle) /\ UNCHANGED <<live, archived, ingested, uploads>>
      BY <1>7 DEF EndRun, Crash
    <2>2. Fits(Idle, ingested')
      BY <1>0, <1>1 DEF Idle
    <2> QED BY <1>0, <2>1, <2>2, RunKeeps
  <1>8. ASSUME NEW k \in Key, BlobError(w, k) \/ BlobFails(w, k) \/ RecordFails(w, k)
        PROVE  StorageInv'
    <2>1. PICK m : /\ m = [wk[w] EXCEPT !.todo = @ \ {k}, !.errors = TRUE]
                       \/ m = [wk[w] EXCEPT !.todo = @ \ {k}, !.lost = TRUE]
                   /\ Become(w, m)
      BY <1>8 DEF BlobError, BlobFails, RecordFails
    <2>2. /\ m \in Locals /\ (m.errors \/ m.lost) /\ m.pc = wk[w].pc
          /\ m.snapshot = wk[w].snapshot
      BY <1>0, <2>1 DEF Locals
    <2>3. UNCHANGED <<live, archived, ingested, uploads>> /\ wk[w].pc = "phase2"
      BY <1>8 DEF BlobError, BlobFails, RecordFails, At
    <2>4. Fits(m, ingested')
      BY <1>0, <2>2, <2>3 DEF Fits
    <2> QED BY <2>1, <2>2, <2>3, <2>4, RunKeeps
  <1>9. ASSUME NEW k \in Key, BlobIngested(w, k) PROVE StorageInv'
    <2>1. PICK m : m = [wk[w] EXCEPT !.todo = @ \ {k}, !.txn = @ \cup {live[k].content}]
      OBVIOUS
    <2>2. /\ Become(w, m) /\ UNCHANGED <<live, archived, ingested, uploads>>
          /\ wk[w].pc = "phase2" /\ live[k].content \in Content
      BY <1>0, <1>9, <2>1 DEF BlobIngested, At, TypeOK
    <2>3. /\ m \in Locals /\ m.pc = wk[w].pc /\ m.snapshot = wk[w].snapshot
          /\ m.errors = wk[w].errors /\ m.lost = wk[w].lost
          /\ m.todo = wk[w].todo \ {k} /\ m.txn = wk[w].txn \cup {live[k].content}
      BY <1>0, <2>1, <2>2 DEF Locals
    <2>4. Fits(m, ingested')
      BY <1>0, <2>2, <2>3 DEF Fits, Kept
    <2> QED BY <2>2, <2>3, <2>4, RunKeeps
  <1>10. ASSUME NEW k \in Key, MoveFails(w, k) PROVE StorageInv'
    <2>1. PICK m : m = [wk[w] EXCEPT !.todo = @ \ {k}]
      OBVIOUS
    <2>2. /\ Become(w, m) /\ UNCHANGED <<live, archived, ingested, uploads>>
          /\ wk[w].pc = "move"
      BY <1>10, <2>1 DEF MoveFails, At
    <2>3. /\ m \in Locals /\ m.pc = wk[w].pc /\ m.snapshot = wk[w].snapshot
          /\ m.todo = wk[w].todo \ {k}
      BY <1>0, <2>1 DEF Locals
    <2>4. Fits(m, ingested')
      BY <1>0, <2>2, <2>3 DEF Fits
    <2> QED BY <2>2, <2>3, <2>4, RunKeeps
  <1> QED BY <1>2, <1>3, <1>4, <1>5, <1>6, <1>7, <1>8, <1>9, <1>10, MoveKeeps DEF RunStep, Fault

LEMMA StorageKept == Undisturbed /\ StorageInv /\ [Next]_vars => StorageInv'
  <1> SUFFICES ASSUME Undisturbed, StorageInv, [Next]_vars PROVE StorageInv'
    OBVIOUS
  <1>1. TypeOK'
    BY TypeKept DEF StorageInv
  <1>2. CASE UNCHANGED vars
    BY <1>1, <1>2 DEF vars, StorageInv, Stamped, ArchivedIsIngested, Fits, Kept
  <1> QED BY <1>1, <1>2, UploadKeeps, RunStepKeeps DEF Next

\* Nothing is archived that raw has not got: the snapshot, the belt and the re-list of
\* the archive are enough whatever the scraper overwrites before the re-list and
\* whatever fails or crashes.
THEOREM TheArchivedIsIngested == ASSUME Undisturbed PROVE Spec => []ArchivedIsIngested
  <1>1. StorageInv => ArchivedIsIngested
    BY DEF StorageInv
  <1> QED BY <1>1, StorageInit, StorageKept, PTL DEF Spec

(***************************************************************************)
(* What a commit brings.  For any number of overlapping runs, uploads at    *)
(* any moment and deactivations: as long as no call fails, the refused      *)
(* files of a school do not keep its readable ones out.                     *)
(***************************************************************************)

\* The object that the snapshot of w saw under k is still there and can be read.
Readable(w, k) == Kept(wk[w], k) /\ live[k].content \notin Corrupt

\* In phase 2 it waits for its turn or is recorded.
Sees(w) ==
  /\ \A k \in Key : wk[w].snapshot[k] <= uploads
  /\ faults = MaxFaults /\ At(w, "phase2") =>
       \A k \in Key : Readable(w, k) => k \in wk[w].todo \/ live[k].content \in Known(w)
AllSee == Stamped /\ \A w \in Worker : Sees(w)

\* The commit of a run whose school nothing has gone wrong with leaves every such object
\* in raw, whatever other files were refused.
CommitsWhatItSaw ==
  [][\A w \in Worker : Commit(w) /\ faults = MaxFaults =>
       \A k \in Key : Readable(w, k) => live[k].content \in ingested']_vars

\* What a step does to the objects and to the other runs: an object that is older than
\* the uploads so far was there before, what is recorded stays so, and a run keeps its
\* locals or is the one that moves.
LEMMA StepOfStorage ==
    ASSUME TypeOK, Stamped, Next
    PROVE  /\ uploads <= uploads' /\ ingested \subseteq ingested' /\ Stamped'
           /\ \A k \in Key : live'[k] # Nothing /\ live'[k].mtime <= uploads =>
                               live'[k] = live[k]
           /\ faults' = MaxFaults => faults = MaxFaults
  <1>0. /\ uploads \in Nat /\ faults \in Nat /\ faults <= MaxFaults /\ MaxFaults \in Nat
        /\ live \in [Key -> [content : Content, mtime : 1..MaxUploads] \cup {Nothing}]
    BY LandingAssumption DEF TypeOK, Mtime
  <1>1. ASSUME NEW k \in Key, NEW c \in Content, Upload(k, c)
        PROVE  /\ uploads <= uploads' /\ ingested' = ingested /\ faults' = faults
               /\ \A x \in Key : live'[x] # Nothing =>
                     \/ live'[x] = live[x]
                     \/ live'[x].mtime = uploads' /\ uploads' > uploads
    BY <1>0, <1>1 DEF Upload
  <1>2. ASSUME NEW w \in Worker, RunStep(w) \/ Fault(w)
        PROVE  /\ uploads' = uploads /\ ingested \subseteq ingested'
               /\ \A x \in Key : live'[x] # Nothing => live'[x] = live[x]
               /\ faults' = MaxFaults => faults = MaxFaults
    <2>1. uploads' = uploads /\ ingested \subseteq ingested'
      BY <1>2 DEF RunStep, Fault, Snapshot, LockAndList, SkipSchool, NoActiveSchool, Commit,
                  Relist, EndRun, BlobError, BlobIngested, Move, Crash, BlobFails,
                  RecordFails, MoveFails
    <2>2. \A x \in Key : live'[x] # Nothing => live'[x] = live[x]
      BY <1>0, <1>2 DEF RunStep, Fault, Snapshot, LockAndList, SkipSchool, NoActiveSchool,
                  Commit, Relist, EndRun, BlobError, BlobIngested, Move, Crash, BlobFails,
                  RecordFails, MoveFails
    <2>3. faults' = faults \/ faults' = faults - 1
      BY <1>2 DEF RunStep, Fault, Snapshot, LockAndList, SkipSchool, NoActiveSchool,
                  Commit, Relist, EndRun, BlobError, BlobIngested, Move, Crash, BlobFails,
                  RecordFails, MoveFails, SpendFault
    <2> QED BY <1>0, <2>1, <2>2, <2>3
  <1>3. \A x \in Key : live[x] # Nothing => live[x].mtime \in Nat /\ live[x].mtime <= uploads
    BY <1>0 DEF Stamped
  <1>4. CASE \E k \in Key, c \in Content : Upload(k, c)
    <2>1. /\ uploads <= uploads' /\ ingested' = ingested /\ faults' = faults /\ uploads' \in Nat
          /\ \A x \in Key : live'[x] # Nothing =>
                \/ live'[x] = live[x]
                \/ live'[x].mtime = uploads' /\ uploads' > uploads
      BY <1>0, <1>1, <1>4 DEF Upload
    <2>2. \A x \in Key : live'[x] # Nothing => live'[x].mtime <= uploads'
      BY <1>0, <1>3, <2>1
    <2> QED BY <1>0, <2>1, <2>2 DEF Stamped
  <1>5. CASE \E w \in Worker : RunStep(w) \/ Fault(w)
    BY <1>0, <1>2, <1>3, <1>5 DEF Stamped
  <1> QED BY <1>4, <1>5 DEF Next

\* A run that does not move keeps seeing what it saw.
LEMMA OthersSee ==
    ASSUME TypeOK, AllSee, Next, NEW w \in Worker, wk'[w] = wk[w], TypeOK'
    PROVE  Sees(w)'
  <1>1. /\ \A k \in Key : wk[w].snapshot[k] \in Nat /\ wk[w].snapshot[k] <= uploads
        /\ uploads \in Nat /\ uploads' \in Nat
        /\ \A k \in Key : live'[k] # Nothing => live'[k].mtime \in Nat
    BY LandingAssumption DEF TypeOK, Locals, Mtime, AllSee, Sees
  <1>2. \A k \in Key : Readable(w, k)' => Readable(w, k) /\ live'[k] = live[k]
    BY <1>1, StepOfStorage DEF AllSee, Readable, Kept
  <1>3. \A k \in Key : wk'[w].snapshot[k] <= uploads'
    BY <1>1, StepOfStorage DEF AllSee
  <1> QED BY <1>2, <1>3, StepOfStorage DEF AllSee, Sees, At, Known

\* The steps of a run itself.
LEMMA RunSees ==
    ASSUME TypeOK, AllSee, NEW w \in Worker, RunStep(w) \/ Fault(w), TypeOK'
    PROVE  Sees(w)'
  <1>0. /\ Next /\ Sees(w) /\ Stamped
    BY DEF Next, AllSee
  <1>1. /\ wk[w] \in Locals /\ wk' \in [Worker -> Locals] /\ wk \in [Worker -> Locals]
        /\ uploads \in Nat /\ uploads' \in Nat /\ uploads <= uploads'
        /\ \A k \in Key : /\ wk[w].snapshot[k] \in Nat /\ wk[w].snapshot[k] <= uploads
                          /\ live[k] # Nothing => live[k].mtime \in Nat /\ live[k].mtime <= uploads
                          /\ live'[k] # Nothing => live'[k].mtime \in Nat
    BY <1>0, StepOfStorage, LandingAssumption DEF TypeOK, Locals, Mtime, Sees, Stamped
  <1>old. \A k \in Key : wk[w].snapshot[k] <= uploads' /\ Unlisted[k] <= uploads'
    BY <1>1 DEF Unlisted
  <1>2. CASE Snapshot(w)
    <2>1. wk'[w].snapshot = Listing /\ wk'[w].pc = "lock"
      BY <1>1, <1>2, ListingsAreTyped DEF Snapshot, Become, Idle, Locals
    <2>2. \A k \in Key : Listing[k] <= uploads'
      BY <1>1 DEF Listing
    <2> QED BY <2>1, <2>2 DEF Sees, At
  <1>3. CASE LockAndList(w)
    <2>1. wk'[w].snapshot = wk[w].snapshot /\ wk'[w].todo = Listed /\ live' = live
      BY <1>1, <1>3 DEF LockAndList, Become, Locals
    <2> QED BY <1>1, <2>1 DEF Sees, Readable, Kept, Listed
  <1>4. CASE SkipSchool(w) \/ NoActiveSchool(w) \/ Relist(w)
    <2>1. wk'[w].snapshot = wk[w].snapshot /\ wk'[w].pc # "phase2"
      <3>1. CASE SkipSchool(w) \/ NoActiveSchool(w)
        BY <1>1, <3>1 DEF SkipSchool, NoActiveSchool, Become, Locals
      <3>2. CASE Relist(w)
        BY <1>1, <3>2 DEF Relist, Become, Locals
      <3> QED BY <1>4, <3>1, <3>2
    <2> QED BY <1>old, <2>1 DEF Sees, At
  <1>5. CASE Commit(w) \/ EndRun(w) \/ Crash(w)
    <2>1. wk'[w] = Idle \/ wk'[w] = [wk[w] EXCEPT !.pc = "relist", !.txn = {}]
      BY <1>1, <1>5 DEF Commit, EndRun, Crash, Become
    <2>2. \/ wk'[w].snapshot = wk[w].snapshot /\ wk'[w].pc # "phase2"
          \/ wk'[w].snapshot = Unlisted /\ wk'[w].pc # "phase2"
      <3>1. CASE wk'[w] = Idle
        BY <3>1 DEF Idle
      <3>2. CASE wk'[w] = [wk[w] EXCEPT !.pc = "relist", !.txn = {}]
        BY <1>1, <3>2 DEF Locals
      <3> QED BY <2>1, <3>1, <3>2
    <2> QED BY <1>old, <2>2 DEF Sees, At
  <1>6. ASSUME NEW k \in Key, BlobError(w, k) PROVE Sees(w)'
    <2>1. /\ wk'[w].snapshot = wk[w].snapshot /\ wk'[w].todo = wk[w].todo \ {k}
          /\ wk'[w].txn = wk[w].txn /\ wk'[w].pc = "phase2" /\ wk[w].pc = "phase2"
          /\ UNCHANGED <<live, ingested, faults, uploads>>
      BY <1>1, <1>6 DEF BlobError, Become, At, Locals
    <2>2. ~Readable(w, k)
      BY <1>6 DEF BlobError, Refused, Readable, Kept
    <2> QED BY <1>0, <1>1, <2>1, <2>2 DEF Sees, At, Readable, Kept, Known
  <1>7. ASSUME NEW k \in Key, BlobIngested(w, k) PROVE Sees(w)'
    <2>1. /\ wk'[w].snapshot = wk[w].snapshot /\ wk'[w].todo = wk[w].todo \ {k}
          /\ wk'[w].txn = wk[w].txn \cup {live[k].content}
          /\ wk'[w].pc = "phase2" /\ wk[w].pc = "phase2"
          /\ UNCHANGED <<live, ingested, faults, uploads>>
      BY <1>1, <1>7 DEF BlobIngested, Become, At, Locals
    <2> QED BY <1>0, <1>1, <2>1 DEF Sees, At, Readable, Kept, Known
  <1>8. ASSUME NEW k \in Key, BlobFails(w, k) \/ RecordFails(w, k) \/ MoveFails(w, k)
        PROVE  Sees(w)'
    <2>1. faults' # MaxFaults
      BY <1>8, LandingAssumption DEF BlobFails, RecordFails, MoveFails, SpendFault, TypeOK
    <2>2. wk'[w].snapshot = wk[w].snapshot
      <3>1. \/ wk'[w] = [wk[w] EXCEPT !.todo = @ \ {k}, !.errors = TRUE]
            \/ wk'[w] = [wk[w] EXCEPT !.todo = @ \ {k}, !.lost = TRUE]
            \/ wk'[w] = [wk[w] EXCEPT !.todo = @ \ {k}]
        BY <1>1, <1>8 DEF BlobFails, RecordFails, MoveFails, Become
      <3> QED BY <1>1, <3>1 DEF Locals
    <2> QED BY <1>old, <2>1, <2>2 DEF Sees
  <1>9. ASSUME NEW k \in Key, Move(w, k) PROVE Sees(w)'
    <2>1. wk'[w].snapshot = wk[w].snapshot /\ wk'[w].pc = "move"
      BY <1>1, <1>9 DEF Move, Become, At, Locals
    <2> QED BY <1>1, <2>1 DEF Sees, At
  <1> QED BY <1>2, <1>3, <1>4, <1>5, <1>6, <1>7, <1>8, <1>9 DEF RunStep, Fault

LEMMA AllKeepSeeing == TypeOK /\ AllSee /\ [Next]_vars => AllSee'
  <1> SUFFICES ASSUME TypeOK, AllSee, [Next]_vars PROVE AllSee'
    OBVIOUS
  <1>1. TypeOK'
    BY TypeKept
  <1>2. CASE UNCHANGED vars
    BY <1>2 DEF vars, AllSee, Stamped, Sees, At, Readable, Kept, Known
  <1>3. CASE Next
    <2>1. Stamped'
      BY <1>3, StepOfStorage DEF AllSee
    <2>2. ASSUME NEW w \in Worker PROVE Sees(w)'
      <3>1. CASE RunStep(w) \/ Fault(w)
        BY <1>1, <3>1, RunSees
      <3>2. CASE ~ (RunStep(w) \/ Fault(w))
        <4>1. CASE \E k \in Key, c \in Content : Upload(k, c)
          BY <1>1, <1>3, <4>1, OthersSee DEF Upload
        <4>2. ASSUME NEW v \in Worker, v # w, RunStep(v) \/ Fault(v) PROVE Sees(w)'
          <5>1. \E m : Become(v, m)
            BY <4>2 DEF RunStep, Fault, Snapshot, LockAndList, SkipSchool, NoActiveSchool,
                  Commit, Relist, EndRun, BlobError, BlobIngested, Move, Crash, BlobFails,
                  RecordFails, MoveFails
          <5>2. wk'[w] = wk[w]
            BY <4>2, <5>1 DEF Become, TypeOK
          <5> QED BY <1>1, <1>3, <5>2, OthersSee
        <4> QED BY <1>3, <3>2, <4>1, <4>2 DEF Next
      <3> QED BY <3>1, <3>2
    <2> QED BY <2>1, <2>2 DEF AllSee
  <1> QED BY <1>2, <1>3

\* Whatever the parsers refuse beside it and whatever other runs do, a readable object
\* that the snapshot saw and nobody has overwritten is in raw when phase 2 commits.
THEOREM CommitsBringWhatTheySaw == Spec => CommitsWhatItSaw
  <1> DEFINE Brings == \A w \in Worker : Commit(w) /\ faults = MaxFaults =>
               \A k \in Key : Readable(w, k) => live[k].content \in ingested'
  <1>1. Init => AllSee
    <2> SUFFICES ASSUME Init PROVE AllSee
      OBVIOUS
    <2>1. \A w \in Worker : wk[w] = Idle
      BY DEF Init
    <2> QED BY <2>1 DEF Init, AllSee, Stamped, Sees, At, Idle, Unlisted
  <1>2. AllSee => Brings
    <2> SUFFICES ASSUME AllSee, NEW w \in Worker, Commit(w), faults = MaxFaults,
                        NEW k \in Key, Readable(w, k)
                 PROVE  live[k].content \in ingested'
      OBVIOUS
    <2>1. At(w, "phase2") /\ wk[w].todo = {} /\ ingested' = ingested \cup wk[w].txn
      BY DEF Commit
    <2> QED BY <2>1 DEF AllSee, Sees, Known
  <1> HIDE DEF Brings
  <1>3. Spec => [][Brings]_vars
    BY <1>1, <1>2, AllKeepSeeing, StorageIsTyped, PTL DEF Spec
  <1> QED BY <1>3 DEF CommitsWhatItSaw, Brings
=============================================================================

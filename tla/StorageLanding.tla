--------------------------- MODULE StorageLanding ---------------------------
(***************************************************************************)
(* One school's files on their way from the live prefix of the bucket into *)
(* raw and then under processed/: phase 2 of run_ingestion and the archive *)
(* of _land_run, against a scraper that may upload (upsert) at any moment. *)
(* A key holds an object: its content, and last_modified as the number of  *)
(* uploads so far.  Content is known by its SHA-256, so ingested_files is  *)
(* a set of contents.                                                      *)
(***************************************************************************)
EXTENDS Naturals, FiniteSets

CONSTANTS Key, Content,
          Corrupt,        \* contents the parsers or the path parser refuse
          Worker,
          Nothing,        \* no object under a key
          MaxUploads,     \* bound on uploads
          MaxFaults,      \* bound on crashes and on failing storage or SQL calls
          QuietArchive,   \* TRUE: nobody uploads between a re-list and its moves
          MayDeactivate   \* TRUE: an admin may deactivate the school under a run

ASSUME LandingAssumption ==
    /\ Corrupt \subseteq Content
    /\ MaxUploads \in Nat /\ MaxFaults \in Nat /\ QuietArchive \in BOOLEAN
    /\ MayDeactivate \in BOOLEAN
    /\ IsFiniteSet(Key) /\ IsFiniteSet(Content)

VARIABLES live,      \* live[k]: the object under <short_name>/k
          archived,  \* contents moved under processed/
          ingested,  \* contents recorded in ingested_files (and in raw), committed
          uploads,   \* uploads so far: the clock of last_modified
          wk,        \* what each worker's run holds in memory and in its transaction
          faults

vars == <<live, archived, ingested, uploads, wk, faults>>

Mtime == 0..MaxUploads    \* 0: the key is not listed
Locals == [pc : {"idle", "lock", "phase2", "relist", "move"},
           snapshot : [Key -> Mtime],   \* list_files before the run
           todo : SUBSET Key,           \* blobs to process, then keys to move
           txn : SUBSET Content,        \* recorded in the open transaction
           errors : BOOLEAN,            \* error_count > 0
           lost : BOOLEAN]              \* a seen file that no counter accounts for

Unlisted == [k \in Key |-> 0]
Idle == [pc |-> "idle", snapshot |-> Unlisted, todo |-> {}, txn |-> {},
         errors |-> FALSE, lost |-> FALSE]

TypeOK ==
    /\ live \in [Key -> [content : Content, mtime : 1..MaxUploads] \cup {Nothing}]
    /\ archived \subseteq Content /\ ingested \subseteq Content
    /\ uploads \in Mtime /\ faults \in 0..MaxFaults
    /\ wk \in [Worker -> Locals]

Init ==
    /\ live = [k \in Key |-> Nothing]
    /\ archived = {} /\ ingested = {}
    /\ uploads = 0 /\ faults = MaxFaults
    /\ wk = [w \in Worker |-> Idle]
-----------------------------------------------------------------------------
At(w, pc) == wk[w].pc = pc
Become(w, locals) == wk' = [wk EXCEPT ![w] = locals]
SpendFault == faults > 0 /\ faults' = faults - 1
Listed == {k \in Key : live[k] # Nothing}
Listing == [k \in Key |-> IF live[k] = Nothing THEN 0 ELSE live[k].mtime]
KeysIn(listing) == {k \in Key : listing[k] # 0}

\* Mutant: the first upload of a school gets no stamp.
UploadUnstamped(k, c) ==
    /\ uploads < MaxUploads
    /\ QuietArchive => \A w \in Worker : ~ At(w, "move")
    /\ uploads' = uploads + 1
    /\ live' = [live EXCEPT ![k] = [content |-> c, mtime |-> uploads]]
    /\ UNCHANGED <<archived, ingested, wk, faults>>

\* The scraper's upload with upsert: a new object, or new bytes under an old key.
Upload(k, c) ==
    /\ uploads < MaxUploads
    /\ QuietArchive => \A w \in Worker : ~ At(w, "move")
    /\ uploads' = uploads + 1
    /\ live' = [live EXCEPT ![k] = [content |-> c, mtime |-> uploads + 1]]
    /\ UNCHANGED <<archived, ingested, wk, faults>>

\* _land_run starts: the snapshot of the live keys.
Snapshot(w) ==
    /\ At(w, "idle")
    /\ Become(w, [Idle EXCEPT !.pc = "lock", !.snapshot = Listing])
    /\ UNCHANGED <<live, archived, ingested, uploads, faults>>

LockHeld == \E w \in Worker : At(w, "phase2")

\* Phase 2 with the school's advisory lock: list the blobs.
LockAndList(w) ==
    /\ At(w, "lock") /\ ~ LockHeld
    /\ Become(w, [wk[w] EXCEPT !.pc = "phase2", !.todo = Listed])
    /\ UNCHANGED <<live, archived, ingested, uploads, faults>>

\* The lock is taken: the school is skipped; no file is seen and none is an error.
SkipSchool(w) ==
    /\ At(w, "lock") /\ LockHeld
    /\ Become(w, [wk[w] EXCEPT !.pc = "relist"])
    /\ UNCHANGED <<live, archived, ingested, uploads, faults>>

\* Phase 1 finds no active school of that name any more: an empty summary.
NoActiveSchool(w) ==
    /\ At(w, "lock") /\ MayDeactivate
    /\ Become(w, [wk[w] EXCEPT !.pc = "relist"])
    /\ UNCHANGED <<live, archived, ingested, uploads, faults>>
-----------------------------------------------------------------------------
(* _process_blob in its SAVEPOINT: the object is downloaded as it is now. *)

Known(w) == ingested \cup wk[w].txn

\* The object is gone, or its path, type or bytes are refused.
Refused(w, k) == live[k] # Nothing => live[k].content \in Corrupt \ Known(w)

\* Mutant: a download or parse error is logged but not counted.
BlobErrorUncounted(w, k) ==
    /\ At(w, "phase2") /\ k \in wk[w].todo
    /\ Refused(w, k)
    /\ Become(w, [wk[w] EXCEPT !.todo = @ \ {k}])
    /\ UNCHANGED <<live, archived, ingested, uploads, faults>>

\* Counted in error_count.
BlobError(w, k) ==
    /\ At(w, "phase2") /\ k \in wk[w].todo
    /\ Refused(w, k)
    /\ Become(w, [wk[w] EXCEPT !.todo = @ \ {k}, !.errors = TRUE])
    /\ UNCHANGED <<live, archived, ingested, uploads, faults>>

\* A storage or SQL error on a healthy file, counted.
BlobFails(w, k) ==
    /\ At(w, "phase2") /\ k \in wk[w].todo
    /\ SpendFault
    /\ Become(w, [wk[w] EXCEPT !.todo = @ \ {k}, !.errors = TRUE])
    /\ UNCHANGED <<live, archived, ingested, uploads>>

\* _record_ingested_file raises: the SAVEPOINT is rolled back, nothing is counted.
RecordFails(w, k) ==
    /\ At(w, "phase2") /\ k \in wk[w].todo
    /\ live[k] # Nothing /\ live[k].content \notin Known(w)
    /\ SpendFault
    /\ Become(w, [wk[w] EXCEPT !.todo = @ \ {k}, !.lost = TRUE])
    /\ UNCHANGED <<live, archived, ingested, uploads>>

\* files_skipped, or files_processed.
BlobIngested(w, k) ==
    /\ At(w, "phase2") /\ k \in wk[w].todo
    /\ live[k] # Nothing /\ live[k].content \notin Corrupt
    /\ Become(w, [wk[w] EXCEPT !.todo = @ \ {k}, !.txn = @ \cup {live[k].content}])
    /\ UNCHANGED <<live, archived, ingested, uploads, faults>>
-----------------------------------------------------------------------------
(* The end of phase 2, the file-count invariant and the archive. *)

\* Mutant: the belt of _land_run is missing.
CommitWithoutBelt(w) ==
    /\ At(w, "phase2") /\ wk[w].todo = {}
    /\ ingested' = ingested \cup wk[w].txn
    /\ Become(w, IF wk[w].errors THEN Idle
                 ELSE [wk[w] EXCEPT !.pc = "relist", !.txn = {}])
    /\ UNCHANGED <<live, archived, uploads, faults>>

\* Mutant: one bad file undoes the school.
CommitAllOrNothing(w) ==
    /\ At(w, "phase2") /\ wk[w].todo = {}
    /\ ingested' = IF wk[w].errors THEN ingested ELSE ingested \cup wk[w].txn
    /\ Become(w, IF wk[w].errors \/ wk[w].lost THEN Idle
                 ELSE [wk[w] EXCEPT !.pc = "relist", !.txn = {}])
    /\ UNCHANGED <<live, archived, uploads, faults>>

\* Commit; a run with an error, or with a file nobody counted, does not archive.
Commit(w) ==
    /\ At(w, "phase2") /\ wk[w].todo = {}
    /\ ingested' = ingested \cup wk[w].txn
    /\ Become(w, IF wk[w].errors \/ wk[w].lost THEN Idle
                 ELSE [wk[w] EXCEPT !.pc = "relist", !.txn = {}])
    /\ UNCHANGED <<live, archived, uploads, faults>>

\* Phase 2 raises, or the process dies anywhere: memory and transaction are gone.
Crash(w) ==
    /\ ~ At(w, "idle")
    /\ SpendFault
    /\ Become(w, Idle)
    /\ UNCHANGED <<live, archived, ingested, uploads>>

\* Mutant: the changed-guard is missing.
RelistUnguarded(w) ==
    /\ At(w, "relist")
    /\ Become(w, [wk[w] EXCEPT !.pc = "move", !.todo = KeysIn(wk[w].snapshot)])
    /\ UNCHANGED <<live, archived, ingested, uploads, faults>>

\* Mutant: a key that is as old as in the snapshot counts as re-uploaded.
RelistStrict(w) ==
    /\ At(w, "relist")
    /\ Become(w, [wk[w] EXCEPT !.pc = "move",
                    !.todo = {k \in KeysIn(wk[w].snapshot) :
                                ~ Listing[k] >= wk[w].snapshot[k]}])
    /\ UNCHANGED <<live, archived, ingested, uploads, faults>>

\* _archive: re-list once and keep the snapshot keys whose live bytes are not newer.
Relist(w) ==
    /\ At(w, "relist")
    /\ Become(w, [wk[w] EXCEPT !.pc = "move",
                    !.todo = {k \in KeysIn(wk[w].snapshot) :
                                ~ Listing[k] > wk[w].snapshot[k]}])
    /\ UNCHANGED <<live, archived, ingested, uploads, faults>>

\* Move whatever is under the key now; a key without an object is swallowed.
Move(w, k) ==
    /\ At(w, "move") /\ k \in wk[w].todo
    /\ archived' = IF live[k] = Nothing THEN archived ELSE archived \cup {live[k].content}
    /\ live' = [live EXCEPT ![k] = Nothing]
    /\ Become(w, [wk[w] EXCEPT !.todo = @ \ {k}])
    /\ UNCHANGED <<ingested, uploads, faults>>

\* A failing move is logged, and the file stays live.
MoveFails(w, k) ==
    /\ At(w, "move") /\ k \in wk[w].todo
    /\ SpendFault
    /\ Become(w, [wk[w] EXCEPT !.todo = @ \ {k}])
    /\ UNCHANGED <<live, archived, ingested, uploads>>

EndRun(w) ==
    /\ At(w, "move") /\ wk[w].todo = {}
    /\ Become(w, Idle)
    /\ UNCHANGED <<live, archived, ingested, uploads, faults>>
-----------------------------------------------------------------------------
RunStep(w) == \/ Snapshot(w) \/ LockAndList(w) \/ SkipSchool(w) \/ NoActiveSchool(w)
              \/ Commit(w) \/ Relist(w) \/ EndRun(w)
              \/ \E k \in Key : BlobError(w, k) \/ BlobIngested(w, k) \/ Move(w, k)
Fault(w) == Crash(w) \/ \E k \in Key : BlobFails(w, k) \/ RecordFails(w, k) \/ MoveFails(w, k)

Next == \/ \E k \in Key, c \in Content : Upload(k, c)
        \/ \E w \in Worker : RunStep(w) \/ Fault(w)

Spec == Init /\ [][Next]_vars

\* Scrapes keep coming, so runs of the school keep being queued, and a run goes on.
FairSpec == Spec /\ \A w \in Worker : WF_vars(RunStep(w))
-----------------------------------------------------------------------------
\* Nothing leaves the live prefix that raw has not got: what is archived is ingested.
ArchivedIsIngested == archived \subseteq ingested

Live(c) == \E k \in Key : live[k] # Nothing /\ live[k].content = c

\* A file the parsers accept is ingested, unless it is overwritten first.
UploadIsIngested ==
    \A c \in Content \ Corrupt : Live(c) ~> c \in ingested \/ ~ Live(c)

\* A partial archive heals: once the uploads are over the live prefix drains, unless
\* a file the parsers refuse is among them and keeps all of them live.
LivePrefixDrains == <>[](Listed = {} \/ \E c \in Corrupt : Live(c))
=============================================================================

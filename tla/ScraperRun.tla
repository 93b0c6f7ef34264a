----------------------------- MODULE ScraperRun -----------------------------
(* One run of the Schoology exporter.  A bounded pool works through the     *)
(* groups of schools that share an account; a school is discovered, logged  *)
(* in to and exported assessment by assessment, its files go to the bucket  *)
(* and the backend is told.  A transient failure repeats the whole school   *)
(* once.  In the end the run has a verdict, an exit code and a mail.        *)
(*                                                                          *)
(* The transfer history is one page per account that only grows: an export  *)
(* knows its rows by their not being there when it looked before asking.    *)
EXTENDS CollectionWalk

CONSTANTS
  FileType, Wanted,     \* what an export makes, and WANTED_FILE_PREFIXES
  Unsubmitted,          \* assessments nobody has submitted
  Credentials, NoCredentials,
  Concurrency,          \* SCRAPER_CONCURRENCY
  Retries,              \* TRANSIENT_RETRY_ATTEMPTS
  MaxPolls,             \* reads of the history page per export
  Nothing,              \* no current assessment
  RowsMayOutrun         \* may rows appear after the next look at the page?

ASSUME ExportAssumption ==
  /\ Wanted \subseteq FileType /\ IsFiniteSet(FileType)
  /\ Unsubmitted \subseteq Assessment /\ Nothing \notin Assessment
  /\ NoCredentials \notin Credentials
  /\ Concurrency \in Nat \ {0} /\ Retries \in Nat /\ MaxPolls \in Nat \ {0}
  /\ RowsMayOutrun \in BOOLEAN

VARIABLES
  job,       \* what the worker of each school is at
  ledger,    \* the outcome of each school
  pending,   \* rows that Schoology was asked for and has not shown yet
  bucket,    \* objects: under whose key, from whose export, which file
  told,      \* objects that were there when the backend was last told
  main       \* the run: its phase, its fatal error, settings and exit code

scraperVars == <<source, page, walk, job, ledger, pending, bucket, told, main>>

Row == [of : Assessment, file : FileType]
Rows(a) == [of : {a}, file : FileType]
Object == [at : Assessment, of : Assessment, file : Wanted]

NoJob == [pc |-> "waiting", attempt |-> 0, todo |-> {}, cur |-> Nothing, new |-> {},
          fresh |-> {}, polls |-> 0, calm |-> FALSE,
          up |-> FALSE, errs |-> FALSE, partial |-> FALSE]
Outcome == [status : {"none", "ok", "failed"}, uploaded : BOOLEAN, partial : BOOLEAN]
Ledger(status, uploaded, partial) ==
  [status |-> status, uploaded |-> uploaded, partial |-> partial]

ScraperInit ==
  /\ source \in [School -> Credentials \cup {NoCredentials}]
  /\ page = PageOf /\ walk = [s \in School |-> NoWalk]
  /\ job = [s \in School |-> NoJob]
  /\ ledger = [s \in School |-> Ledger("none", FALSE, FALSE)]
  /\ pending = {} /\ bucket = {} /\ told = {}
  /\ main \in [pc : {"start"}, fatal : {FALSE}, settings : BOOLEAN, exit : {0},
               notify : {"always", "failure"}, mail : {"none"}]
-----------------------------------------------------------------------------
(* The pool                                                                 *)

\* Mutant: every school is a group of its own.
GroupAlone(s) == {s}

\* Schools that must not overlap: those with the same credentials.
Group(s) ==
  IF source[s] = NoCredentials THEN {s} ELSE {t \in School : source[t] = source[s]}
Started(s) == job[s].pc # "waiting"
Done(s) == job[s].pc = "done"
Busy(G) == (\E s \in G : Started(s)) /\ (\E s \in G : ~Done(s))
BusyGroups == {G \in {Group(s) : s \in School} : Busy(G)}

MayStart(s) ==
  /\ ~Started(s)
  /\ \A t \in Group(s) : Started(t) => Done(t)
  /\ Group(s) \in BusyGroups \/ Cardinality(BusyGroups) < Concurrency

At(s, pc) == main.pc = "running" /\ job[s].pc = pc
Goes(s, pc) == job' = [job EXCEPT ![s].pc = pc]
Closes(s, outcome) ==
  /\ job' = [job EXCEPT ![s] = [NoJob EXCEPT !.pc = "done"]]
  /\ ledger' = [ledger EXCEPT ![s] = outcome]
\* Mutant: a repeated school has all its attempts again.
RestartsAfresh(s) ==
  /\ job' = [job EXCEPT ![s] = [NoJob EXCEPT !.pc = "discover", !.attempt = job[s].attempt]]
  /\ walk' = [walk EXCEPT ![s] = NewWalk(s)]
  /\ UNCHANGED ledger
Restarts(s) ==
  /\ job' = [job EXCEPT ![s] = [NoJob EXCEPT !.pc = "discover", !.attempt = job[s].attempt + 1]]
  /\ walk' = [walk EXCEPT ![s] = NewWalk(s)]
  /\ UNCHANGED ledger

\* Of a walk that is over its finds are left.
Leaves(s) == walk' = [walk EXCEPT ![s] = [NoWalk EXCEPT !.found = walk[s].found]]

\* Mutant: one attempt too many.
FailsOffByOne(s) ==
  IF job[s].attempt <= Retries THEN Restarts(s)
  ELSE Closes(s, Ledger("failed", FALSE, FALSE)) /\ Leaves(s)

\* A transient failure: one more attempt from the start, or the school fails.
AttemptFails(s) ==
  IF job[s].attempt < Retries THEN Restarts(s)
  ELSE Closes(s, Ledger("failed", FALSE, FALSE)) /\ Leaves(s)

StartSchool(s) ==
  /\ main.pc = "running" /\ MayStart(s)
  /\ IF source[s] = NoCredentials
     THEN Closes(s, Ledger("failed", FALSE, FALSE)) /\ UNCHANGED walk
     ELSE /\ Goes(s, "discover")
          /\ walk' = [walk EXCEPT ![s] = NewWalk(s)]
          /\ UNCHANGED ledger
  /\ UNCHANGED <<source, page, pending, bucket, told, main>>

Discover(s) == At(s, "discover") /\ WalkStep(s) /\ UNCHANGED <<job, ledger, pending, bucket, told, main>>

\* Nothing to export is not an error; refused credentials are final.
Discovered(s) ==
  /\ At(s, "discover")
  /\ \/ /\ walk[s].pc = "whole" /\ walk[s].found = {}
        /\ Closes(s, Ledger("ok", FALSE, FALSE)) /\ Leaves(s)
     \/ /\ walk[s].pc = "whole" /\ walk[s].found # {}
        /\ job' = [job EXCEPT ![s].pc = "login", ![s].todo = walk[s].found]
        /\ Leaves(s) /\ UNCHANGED ledger
     \/ walk[s].pc = "rejected" /\ Closes(s, Ledger("failed", FALSE, FALSE)) /\ Leaves(s)
     \/ walk[s].pc = "broken" /\ AttemptFails(s)
  /\ UNCHANGED <<source, page, pending, bucket, told, main>>

Login(s) ==
  /\ At(s, "login")
  /\ \/ Goes(s, "next") /\ UNCHANGED <<walk, ledger>>
     \/ Closes(s, Ledger("failed", FALSE, FALSE)) /\ UNCHANGED walk
     \/ AttemptFails(s)
  /\ UNCHANGED <<source, page, pending, bucket, told, main>>
-----------------------------------------------------------------------------
(* One assessment                                                           *)

\* A look at the history page, before asking: new collects what appears on
\* the page from here on.
SnapshotTransfers(s) ==
  /\ At(s, "next")
  /\ \E a \in job[s].todo :
       job' = [job EXCEPT ![s].pc = "ask", ![s].cur = a, ![s].todo = @ \ {a}, ![s].new = {}]
  /\ pending' = IF RowsMayOutrun THEN pending
                ELSE {r \in pending : source[SchoolOf[r.of]] # source[s]}
  /\ UNCHANGED <<source, page, walk, ledger, bucket, told, main>>

Onwards(s, partial) ==
  job' = [job EXCEPT ![s].pc = "next", ![s].cur = Nothing, ![s].new = {}, ![s].fresh = {},
                     ![s].polls = 0, ![s].calm = FALSE, ![s].partial = @ \/ partial]

\* A control is not found, nobody has submitted, or the export is under way.
RequestExport(s) ==
  /\ At(s, "ask")
  /\ \/ Onwards(s, TRUE) /\ UNCHANGED pending
     \/ job[s].cur \in Unsubmitted /\ Onwards(s, FALSE) /\ UNCHANGED pending
     \/ /\ job[s].cur \notin Unsubmitted
        /\ Goes(s, "wait")
        /\ pending' = pending \cup Rows(job[s].cur)
  /\ UNCHANGED <<source, page, walk, ledger, bucket, told, main>>

\* A row appears on the page of its account, for everyone who watches it.
RowAppears(r) ==
  /\ r \in pending /\ pending' = pending \ {r}
  /\ job' = [t \in School |->
       IF source[t] = source[SchoolOf[r.of]] /\ job[t].pc \in {"ask", "wait"}
       THEN [job[t] EXCEPT !.new = @ \cup {r}] ELSE job[t]]
  /\ UNCHANGED <<source, page, walk, ledger, bucket, told, main>>

\* Enough rows and none more than at the last read, or no patience left.
PollTransfers(s) ==
  LET j == job[s]
      calm == j.new # {} /\ Cardinality(j.new) = Cardinality(j.fresh)
      settled == Cardinality(j.new) >= Cardinality(Wanted) /\ calm
  IN /\ At(s, "wait")
     /\ job' = [job EXCEPT ![s].fresh = j.new, ![s].calm = calm, ![s].polls = @ + 1,
                           ![s].pc = IF settled \/ j.polls + 1 = MaxPolls THEN "files" ELSE "wait"]
     /\ UNCHANGED <<source, page, walk, ledger, pending, bucket, told, main>>

\* Any of the downloads and any of the uploads may fail; each failure counts.
Ship(s) ==
  /\ At(s, "files")
  /\ \E got \in SUBSET job[s].fresh :
       LET wanted == {r \in got : r.file \in Wanted}
       IN \E ok \in SUBSET wanted :
            /\ bucket' = bucket \cup {[at |-> job[s].cur, of |-> r.of, file |-> r.file] : r \in ok}
            /\ job' = [job EXCEPT ![s] = [NoJob EXCEPT !.pc = "next", !.attempt = job[s].attempt,
                 !.todo = job[s].todo, !.up = job[s].up \/ ok # {}, !.errs = job[s].errs \/ ok # wanted,
                 !.partial = job[s].partial \/ {r.file : r \in wanted} # Wanted]]
  /\ UNCHANGED <<source, page, walk, ledger, pending, told, main>>

\* A page that does not load in time.
PageFails(s) ==
  /\ \/ At(s, "next") /\ job[s].todo # {}
     \/ At(s, "ask") \/ At(s, "wait")
  /\ AttemptFails(s)
  /\ UNCHANGED <<source, page, pending, bucket, told, main>>

\* The backend is told once something reached the bucket.  It may have
\* accepted a call that looks failed here.
ScraperComplete(s) ==
  /\ At(s, "next") /\ job[s].todo = {}
  /\ IF job[s].up
     THEN \/ /\ told' = told \cup {o \in bucket : SchoolOf[o.at] = s}
             /\ \/ Closes(s, Ledger("ok", TRUE, job[s].errs \/ job[s].partial)) /\ UNCHANGED walk
                \/ AttemptFails(s)
          \/ AttemptFails(s) /\ UNCHANGED told
     ELSE /\ IF job[s].errs THEN AttemptFails(s)
             ELSE Closes(s, Ledger("ok", FALSE, job[s].partial)) /\ UNCHANGED walk
          /\ UNCHANGED told
  /\ UNCHANGED <<source, page, pending, bucket, main>>
-----------------------------------------------------------------------------
(* The run                                                                  *)

\* Mutant: a school whose export is incomplete counts as a good one.
StatusWithoutPartial ==
  IF main.fatal THEN "FATAL"
  ELSE IF \E s \in School : ledger[s].status = "failed" THEN "FAILED"
  ELSE IF \A s \in School : ~ledger[s].uploaded THEN "NO-DATA" ELSE "OK"

OverallStatus ==
  IF main.fatal THEN "FATAL"
  ELSE IF \E s \in School : ledger[s].status = "failed" THEN "FAILED"
  ELSE IF \E s \in School : ledger[s].partial THEN "PARTIAL"
  ELSE IF \A s \in School : ~ledger[s].uploaded THEN "NO-DATA" ELSE "OK"
Green == OverallStatus \in {"OK", "NO-DATA"}

\* The configuration cannot be had, or the settings for uploads are missing;
\* the latter is not recorded as a fatal error.
Begin ==
  /\ main.pc = "start"
  /\ \/ main' = [main EXCEPT !.pc = "over", !.fatal = TRUE, !.exit = 1]
     \/ main' = IF main.settings THEN [main EXCEPT !.pc = "running"]
                ELSE [main EXCEPT !.pc = "over", !.exit = 1]
  /\ UNCHANGED <<source, page, walk, job, ledger, pending, bucket, told>>

BatchSummary ==
  /\ main.pc = "running" /\ \A s \in School : Done(s)
  /\ main' = [main EXCEPT !.pc = "over", !.exit = IF Green THEN 0 ELSE 1]
  /\ UNCHANGED <<source, page, walk, job, ledger, pending, bucket, told>>

\* Recipients and a transport are taken to be configured.
SendRunSummary ==
  /\ main.pc = "over"
  /\ main' = [main EXCEPT !.pc = "mailed",
       !.mail = IF main.notify = "failure" /\ Green THEN "suppressed" ELSE "tried"]
  /\ UNCHANGED <<source, page, walk, job, ledger, pending, bucket, told>>

Added(a) == Appears(a) /\ UNCHANGED <<job, ledger, pending, bucket, told, main>>

SchoolStep(s) ==
  \/ StartSchool(s) \/ Discover(s) \/ Discovered(s) \/ Login(s)
  \/ SnapshotTransfers(s) \/ RequestExport(s) \/ PollTransfers(s) \/ Ship(s)
  \/ PageFails(s) \/ ScraperComplete(s)
MainStep == Begin \/ BatchSummary \/ SendRunSummary
ScraperNext ==
  \/ \E s \in School : SchoolStep(s)
  \/ MainStep
  \/ \E r \in Row : RowAppears(r)
  \/ \E a \in Assessment : Added(a)

\* Every wait of the process has a timeout.
ScraperSpec ==
  /\ ScraperInit /\ [][ScraperNext]_scraperVars
  /\ WF_scraperVars(MainStep)
  /\ \A s \in School : WF_scraperVars(SchoolStep(s))
-----------------------------------------------------------------------------
\* A school works through its own assessments, within its attempts and polls,
\* and the backend is told of no file that the bucket has not got.
ScraperTypeOK ==
  /\ source \in [School -> Credentials \cup {NoCredentials}]
  /\ page \in [Assessment -> 0..LastPage]
  /\ \A s \in School :
       /\ walk[s].pc \in WalkState /\ walk[s].url \in Url /\ walk[s].seen \subseteq Url
       /\ job[s].todo \subseteq Own(s) /\ job[s].cur \in Own(s) \cup {Nothing}
       /\ job[s].new \subseteq Row /\ job[s].fresh \subseteq Row
       /\ job[s].attempt <= Retries /\ job[s].polls <= MaxPolls
       /\ ledger[s] \in Outcome
  /\ pending \subseteq Row /\ bucket \subseteq Object /\ told \subseteq bucket
  /\ main.exit \in {0, 1} /\ main.mail \in {"none", "suppressed", "tried"}

\* What is stored under the key of an assessment comes from its own export,
\* however the pool runs the schools of an account, exports fail half-way and
\* schools are repeated: the rows of every export that was asked for stay on
\* one page (snapshotTransfers, and the grouping of schools by identity).
FiledUnderItsAssessment == \A o \in bucket : o.at = o.of

\* "A scheduled run that silently shipped an incomplete triplet": a run that
\* exits 0 has put every wanted file of every assessment it found into the
\* bucket, and the backend was told of them afterwards.
GreenIsShipped ==
  (main.pc \in {"over", "mailed"} /\ main.exit = 0) =>
     \A s \in School : \A a \in walk[s].found \ Unsubmitted :
       \A f \in Wanted : [at |-> a, of |-> a, file |-> f] \in told

\* Whatever fails and however often, the batch comes to its verdict and mail.
BatchEnds == <>(main.pc = "mailed")
=============================================================================

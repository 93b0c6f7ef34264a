---------------------------- MODULE RequestQueue ----------------------------
(***************************************************************************)
(* From a finished scrape to a worked-on run.  A scraper uploads its files *)
(* and POSTs /ingestion/scraper-complete up to PostAttempts times; the     *)
(* request handler coalesces on a pending run of the school or inserts     *)
(* one; the durable worker claims the oldest pending run, lists the files  *)
(* of the school and lands them.  The handler reads and inserts in one     *)
(* READ COMMITTED transaction: other handlers run between the two, and a   *)
(* client that gave up does not stop its handler.                          *)
(*                                                                         *)
(* A scrape stands for the files it uploaded, all under its school.        *)
(***************************************************************************)
EXTENDS IngestionRuns, FiniteSets

CONSTANTS Run, NoRun,
          Scrape, SchoolOf,   \* finished scrapes and the school of each
          PostAttempts,       \* how often each may POST, at most maxAttempts
          W                   \* the id of the one worker process

ASSUME QueueAssumption ==
    /\ NoRun \notin Run
    /\ W \in Worker
    /\ PostAttempts \in [Scrape -> Nat \ {0}]
    /\ IsFiniteSet(Run)

VARIABLES runs, started,
          target,    \* school_id of each run
          scraper,   \* scraper[c]: where the client of scrape c is, and its answer
          request,   \* request[c][k]: the handler of the k-th POST of c
          live,      \* scrapes whose files are under the live prefix
          landed,    \* scrapes all of whose files some run has landed
          refused,   \* error_count: the scrapes each run has refused a file of
          job        \* the worker: the run it holds and the files it has listed

vars == <<runs, started, target, scraper, request, live, landed, refused, job>>

Tries(c) == 1..PostAttempts[c]
Idle == [pc |-> "idle", run |-> NoRun, files |-> {}]

TypeOK ==
    /\ runs \in [Run -> Row] /\ started \in [Run -> Nat]
    /\ target \in [Run -> {SchoolOf[c] : c \in Scrape} \cup {NoRun}]
    /\ scraper \in [Scrape -> [pc : {"scraping", "uploaded", "waiting", "done", "failed"},
                               try : Nat, answer : Run \cup {NoRun}]]
    /\ DOMAIN request = Scrape
    /\ \A c \in Scrape :
          /\ scraper[c].try <= PostAttempts[c]
          /\ request[c] \in [Tries(c) -> [pc : {"none", "sent", "insert", "answered", "error"},
                                          run : Run \cup {NoRun}]]
    /\ live \subseteq Scrape /\ landed \subseteq Scrape
    /\ refused \in [Run -> SUBSET Scrape]
    /\ job \in [pc : {"idle", "claimed", "listed"}, run : Run \cup {NoRun},
                files : SUBSET Scrape]

Init ==
    /\ runs = [r \in Run |-> NoRow]
    /\ started = [r \in Run |-> 0]
    /\ target = [r \in Run |-> NoRun]
    /\ scraper = [c \in Scrape |-> [pc |-> "scraping", try |-> 0, answer |-> NoRun]]
    /\ request = [c \in Scrape |-> [k \in Tries(c) |-> [pc |-> "none", run |-> NoRun]]]
    /\ live = {} /\ landed = {}
    /\ refused = [r \in Run |-> {}]
    /\ job = Idle
-----------------------------------------------------------------------------
(* The scraper. *)

Upload(c) ==
    /\ scraper[c].pc = "scraping"
    /\ scraper' = [scraper EXCEPT ![c].pc = "uploaded"]
    /\ live' = live \cup {c}
    /\ UNCHANGED <<runs, started, target, request, landed, refused, job>>

\* The next attempt of postScraperComplete.
Post(c) ==
    /\ scraper[c].pc = "uploaded"
    /\ scraper' = [scraper EXCEPT ![c].pc = "waiting", ![c].try = @ + 1]
    /\ request' = [request EXCEPT ![c][scraper[c].try + 1].pc = "sent"]
    /\ UNCHANGED <<runs, started, target, live, landed, refused, job>>

\* A network error or a 429 / 5xx answer: back off while attempts are left.  Any other
\* refusal, and the last attempt, end the client.
RetryOrGiveUp(c) ==
    /\ scraper[c].pc = "waiting"
    /\ \E next \in {"uploaded", "failed"} :
          /\ next = "uploaded" => scraper[c].try < PostAttempts[c]
          /\ scraper' = [scraper EXCEPT ![c].pc = next]
    /\ UNCHANGED <<runs, started, target, request, live, landed, refused, job>>

Accepted(c) ==
    LET reply == request[c][scraper[c].try] IN
    /\ scraper[c].pc = "waiting"
    /\ reply.pc = "answered"
    /\ scraper' = [scraper EXCEPT ![c].pc = "done", ![c].answer = reply.run]
    /\ UNCHANGED <<runs, started, target, request, live, landed, refused, job>>
-----------------------------------------------------------------------------
(* The request handler: scraper_complete and enqueue. *)

\* Mutant: coalesce on a run that is already being worked on.
QueuedOrRunning(s) ==
    {r \in Run : runs[r].status \in {"pending", "running"} /\ target[r] = s}

\* pending_for_school; the oldest of them is returned.
PendingFor(s) == {r \in Run : runs[r].status = "pending" /\ target[r] = s}

Coalesce(c, k) ==
    /\ request[c][k].pc = "sent"
    /\ \E r \in PendingFor(SchoolOf[c]) :
          /\ \A x \in PendingFor(SchoolOf[c]) : started[r] <= started[x]
          /\ request' = [request EXCEPT ![c][k] = [pc |-> "answered", run |-> r]]
    /\ UNCHANGED <<runs, started, target, scraper, live, landed, refused, job>>

FindNone(c, k) ==
    /\ request[c][k].pc = "sent"
    /\ PendingFor(SchoolOf[c]) = {}
    /\ request' = [request EXCEPT ![c][k].pc = "insert"]
    /\ UNCHANGED <<runs, started, target, scraper, live, landed, refused, job>>

\* Mutant: the row is stamped with the request instead of the school.
InsertForRequest(c, k) ==
    LET r == CHOOSE x \in Run : runs[x].status = "absent" IN
    /\ request[c][k].pc = "insert" /\ \E x \in Run : runs[x].status = "absent"
    /\ runs' = [runs EXCEPT ![r] = CreatePending]
    /\ started' = StartedNow(started, r, Cardinality(Run))
    /\ target' = [target EXCEPT ![r] = c]
    /\ request' = [request EXCEPT ![c][k] = [pc |-> "answered", run |-> r]]
    /\ UNCHANGED <<scraper, live, landed, refused, job>>

\* create_pending and the commit (Run bounds the rows of the table).
Insert(c, k) ==
    LET r == CHOOSE x \in Run : runs[x].status = "absent" IN
    /\ request[c][k].pc = "insert" /\ \E x \in Run : runs[x].status = "absent"
    /\ runs' = [runs EXCEPT ![r] = CreatePending]
    /\ started' = StartedNow(started, r, Cardinality(Run))
    /\ target' = [target EXCEPT ![r] = SchoolOf[c]]
    /\ request' = [request EXCEPT ![c][k] = [pc |-> "answered", run |-> r]]
    /\ UNCHANGED <<scraper, live, landed, refused, job>>

\* The rate limiter or the database refuses the request: nothing is written.
RequestFails(c, k) ==
    /\ request[c][k].pc \in {"sent", "insert"}
    /\ request' = [request EXCEPT ![c][k].pc = "error"]
    /\ UNCHANGED <<runs, started, target, scraper, live, landed, refused, job>>
-----------------------------------------------------------------------------
(* The worker, as far as the queue sees it. *)

ClaimRun ==
    /\ job.pc = "idle"
    /\ \E r \in OldestPending(runs, started) :
          /\ runs' = [runs EXCEPT ![r] = Claimed(runs[r], W)]
          /\ job' = [Idle EXCEPT !.pc = "claimed", !.run = r]
    /\ UNCHANGED <<started, target, scraper, request, live, landed, refused>>

\* Phases 1 and 2 of run_ingestion: adopt, then list the school's live files.
AdoptAndList ==
    /\ job.pc = "claimed"
    /\ runs' = [runs EXCEPT ![job.run] = Adopted(runs[job.run])]
    /\ started' = StartedNow(started, job.run, Cardinality(Run))
    /\ job' = [job EXCEPT !.pc = "listed",
                          !.files = {c \in live : SchoolOf[c] = target[job.run]}]
    /\ UNCHANGED <<target, scraper, request, live, landed, refused>>

\* Phase 3 and the archive.  A file that cannot be read or parsed does not fail the
\* run: it is counted, and the run then leaves all it has listed under the live prefix.
\* The archive takes the files away or, when it fails, leaves them (StorageLanding has
\* it object by object).
LandRun ==
    /\ job.pc = "listed"
    /\ runs' = [runs EXCEPT ![job.run] = Finished(runs[job.run], "landed")]
    /\ \E bad \in SUBSET job.files, moved \in {{}, job.files} :
          /\ bad # {} => moved = {}
          /\ landed' = landed \cup (job.files \ bad)
          /\ refused' = [refused EXCEPT ![job.run] = bad]
          /\ live' = live \ moved
    /\ job' = Idle
    /\ UNCHANGED <<started, target, scraper, request>>

FailRun ==
    /\ job.pc # "idle"
    /\ runs' = [runs EXCEPT ![job.run] = Marked(runs[job.run], "failed")]
    /\ job' = Idle
    /\ UNCHANGED <<started, target, scraper, request, live, landed, refused>>

\* The process dies; the lease of its run lapses before the next one reaps.
CrashAndReap ==
    /\ job.pc # "idle"
    /\ runs' = RequeueExpired([runs EXCEPT ![job.run].beat = "stale"])
    /\ job' = Idle
    /\ UNCHANGED <<started, target, scraper, request, live, landed, refused>>
-----------------------------------------------------------------------------
Client(c) == Upload(c) \/ Post(c) \/ RetryOrGiveUp(c) \/ Accepted(c)
Handler(c, k) == Coalesce(c, k) \/ FindNone(c, k) \/ Insert(c, k) \/ RequestFails(c, k)
Work == ClaimRun \/ AdoptAndList \/ LandRun \/ FailRun \/ CrashAndReap

Next == \/ \E c \in Scrape : Client(c) \/ \E k \in Tries(c) : Handler(c, k)
        \/ Work

\* The worker process and its database keep going; scrapers may do what they like.
Spec == Init /\ [][Next]_vars /\ WF_vars(Work)
-----------------------------------------------------------------------------
Told(c, r) == scraper[c].pc = "done" /\ scraper[c].answer = r

\* A scrape whose POST was accepted is covered by the run it was told: once that run
\* has landed, the files uploaded before the POST have been landed by some run, or that
\* run reports one of them as an error and they are still there for the next one.
AcceptedIsLanded ==
    \A c \in Scrape, r \in Run :
        Told(c, r) /\ runs[r].status = "landed" =>
            c \in landed \/ (c \in refused[r] /\ c \in live)

\* An accepted scrape is landed, or the run it was told fails or reports its files where
\* an admin sees it.
AcceptedIsWorkedOn ==
    \A c \in Scrape, r \in Run :
        Told(c, r) ~> c \in landed \/ runs[r].status = "failed" \/ c \in refused[r]
=============================================================================

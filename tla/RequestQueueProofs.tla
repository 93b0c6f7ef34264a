------------------------- MODULE RequestQueueProofs -------------------------
(***************************************************************************)
(* What TLAPS proves of RequestQueue for every set of scrapes, schools and  *)
(* runs and every number of attempts: the types, and that a scrape which    *)
(* was told of a run is covered by it.                                      *)
(***************************************************************************)
EXTENDS RequestQueue, FiniteSetTheorems, TLAPS

(***************************************************************************)
(* The inductive invariant.  A run that is being worked on is the worker's, *)
(* and whoever was told of a run finds its files where the run has yet to   *)
(* look, in its hands, or landed.                                           *)
(***************************************************************************)
ClientsFit ==
  \A c \in Scrape :
    /\ scraper[c].pc = "scraping" => scraper[c].try = 0
    /\ scraper[c].pc = "uploaded" => scraper[c].try < PostAttempts[c]
    /\ scraper[c].pc = "waiting" => scraper[c].try \in Tries(c)
    /\ scraper[c].pc # "scraping" => c \in live \cup landed
    /\ \A k \in Tries(c) : request[c][k].pc # "none" => scraper[c].pc # "scraping"
JobFits ==
  /\ job.pc # "idle" => job.run \in Run /\ runs[job.run].status = "running"
  /\ \A r \in Run : runs[r].status = "running" => job.pc # "idle" /\ job.run = r
Covers(r, c) ==
  /\ r \in Run /\ runs[r].status # "absent"
  /\ target[r] = SchoolOf[c]
  /\ runs[r].status = "landed" => c \in landed \cup refused[r]
  /\ job.pc = "listed" /\ job.run = r => c \in job.files \cup landed
PromisesFit ==
  \A c \in Scrape :
    /\ \A k \in Tries(c) : request[c][k].pc = "answered" => Covers(request[c][k].run, c)
    /\ scraper[c].pc = "done" => Covers(scraper[c].answer, c)
QueueInv == TypeOK /\ ClientsFit /\ JobFits /\ PromisesFit

\* The statements of the repository keep a row a row.
LEMMA RowsStayRows ==
    ASSUME NEW row \in Row
    PROVE  /\ CreatePending \in Row /\ NoRow \in Row
           /\ Claimed(row, W) \in Row /\ Adopted(row) \in Row
           /\ Finished(row, "landed") \in Row /\ Marked(row, "failed") \in Row
           /\ Reaped(row) \in Row /\ [row EXCEPT !.beat = "stale"] \in Row
           /\ CreatePending.status = "pending" /\ Claimed(row, W).status = "running"
           /\ Adopted(row).status = "running" /\ Finished(row, "landed").status = "landed"
           /\ Marked(row, "failed").status = "failed"
           /\ Reaped(row).status \in {"pending", "failed"}
           /\ [row EXCEPT !.beat = "stale"].status = row.status
  <1>1. NoRow \in Row /\ NoRow.status = "absent"
    BY DEF NoRow, Row, Status
  <1>2. CreatePending \in Row /\ CreatePending.status = "pending"
    BY <1>1 DEF CreatePending, Row, Status
  <1>3. Claimed(row, W) \in Row /\ Claimed(row, W).status = "running"
    <2>1. row.attempts + 1 \in Nat
      BY DEF Row
    <2> QED BY <2>1, QueueAssumption DEF Claimed, Row, Status
  <1>4. Adopted(row) \in Row /\ Adopted(row).status = "running"
    BY DEF Adopted, Row, Status
  <1>5. Finished(row, "landed") \in Row /\ Finished(row, "landed").status = "landed"
    BY DEF Finished, Row, Status
  <1>6. Marked(row, "failed") \in Row /\ Marked(row, "failed").status = "failed"
    BY DEF Marked, Row, Status
  <1>7. Reaped(row) \in Row /\ Reaped(row).status \in {"pending", "failed"}
    BY DEF Reaped, Row, Status
  <1>8. [row EXCEPT !.beat = "stale"] \in Row /\ [row EXCEPT !.beat = "stale"].status = row.status
    BY DEF Row, Status
  <1> QED BY <1>1, <1>2, <1>3, <1>4, <1>5, <1>6, <1>7, <1>8

\* The order of start times stays one of numbers.
LEMMA StartsStayNumbers ==
    ASSUME NEW rank \in [Run -> Nat], NEW r \in Run
    PROVE  StartedNow(rank, r, Cardinality(Run)) \in [Run -> Nat]
  <1>1. Cardinality(Run) \in Nat
    BY QueueAssumption, FS_CardinalityType
  <1> QED BY <1>1 DEF StartedNow

LEMMA QueueInit == Init => QueueInv
  <1> SUFFICES ASSUME Init PROVE QueueInv
    OBVIOUS
  <1>1. NoRow \in Row /\ NoRow.status = "absent"
    BY DEF NoRow, Row, Status
  <1>2. \A c \in Scrape : PostAttempts[c] \in Nat /\ PostAttempts[c] > 0
    BY QueueAssumption
  <1>3. TypeOK
    BY <1>1, <1>2 DEF Init, TypeOK, Idle, Tries
  <1>4. ClientsFit
    BY <1>2 DEF Init, ClientsFit
  <1>5. JobFits /\ PromisesFit
    BY <1>1 DEF Init, JobFits, PromisesFit, Idle
  <1> QED BY <1>3, <1>4, <1>5 DEF QueueInv

(***************************************************************************)
(* The client and the handler                                               *)
(***************************************************************************)

\* A step of one client, as the others see it.
LEMMA ScraperMoves ==
    ASSUME TypeOK, NEW c \in Scrape,
           NEW m \in [pc : {"scraping", "uploaded", "waiting", "done", "failed"},
                      try : Nat, answer : Run \cup {NoRun}],
           m.try <= PostAttempts[c], scraper' = [scraper EXCEPT ![c] = m],
           UNCHANGED <<runs, started, target, landed, refused, job>>, live' \subseteq Scrape,
           \/ request' = request
           \/ \E k \in Tries(c) : request' = [request EXCEPT ![c][k].pc = "sent"]
    PROVE  /\ TypeOK' /\ scraper'[c] = m
           /\ \A d \in Scrape \ {c} : scraper'[d] = scraper[d] /\ request'[d] = request[d]
  <1>1. scraper'[c] = m /\ \A d \in Scrape \ {c} : scraper'[d] = scraper[d]
    BY DEF TypeOK
  <1>2. scraper' \in [Scrape -> [pc : {"scraping", "uploaded", "waiting", "done", "failed"},
                                 try : Nat, answer : Run \cup {NoRun}]]
    BY DEF TypeOK
  <1>3. /\ DOMAIN request' = Scrape
        /\ \A d \in Scrape \ {c} : request'[d] = request[d]
        /\ request'[c] \in [Tries(c) -> [pc : {"none", "sent", "insert", "answered", "error"},
                                         run : Run \cup {NoRun}]]
    <2>1. CASE request' = request
      BY <2>1 DEF TypeOK
    <2>2. ASSUME NEW k \in Tries(c), request' = [request EXCEPT ![c][k].pc = "sent"]
          PROVE  <1>3!1 /\ <1>3!2 /\ <1>3!3
      <3> DEFINE n == [request[c] EXCEPT ![k].pc = "sent"]
      <3>1. n \in [Tries(c) -> [pc : {"none", "sent", "insert", "answered", "error"},
                                run : Run \cup {NoRun}]]
        BY DEF TypeOK
      <3>2. request' = [request EXCEPT ![c] = n]
        BY <2>2
      <3> HIDE DEF n
      <3> QED BY <3>1, <3>2 DEF TypeOK
    <2> QED BY <2>1, <2>2
  <1>4. TypeOK'
    BY <1>1, <1>2, <1>3 DEF TypeOK, Tries
  <1> QED BY <1>1, <1>3, <1>4

LEMMA ClientStep ==
    ASSUME QueueInv, NEW c \in Scrape, Client(c)
    PROVE  QueueInv'
  <1> USE DEF QueueInv
  <1>0. /\ scraper[c] \in [pc : {"scraping", "uploaded", "waiting", "done", "failed"},
                           try : Nat, answer : Run \cup {NoRun}]
        /\ PostAttempts[c] \in Nat /\ PostAttempts[c] > 0 /\ scraper[c].try <= PostAttempts[c]
        /\ request[c] \in [Tries(c) -> [pc : {"none", "sent", "insert", "answered", "error"},
                                         run : Run \cup {NoRun}]]
    BY QueueAssumption DEF TypeOK
  <1>1. CASE Upload(c)
    <2> DEFINE m == [scraper[c] EXCEPT !.pc = "uploaded"]
    <2>1. /\ m \in [pc : {"scraping", "uploaded", "waiting", "done", "failed"},
                    try : Nat, answer : Run \cup {NoRun}]
          /\ m.pc = "uploaded" /\ m.try = 0 /\ m.try <= PostAttempts[c] /\ m.try < PostAttempts[c]
      BY <1>0, <1>1 DEF Upload, ClientsFit
    <2>2. /\ scraper' = [scraper EXCEPT ![c] = m] /\ live' \subseteq Scrape /\ request' = request
          /\ UNCHANGED <<runs, started, target, landed, refused, job>> /\ live' = live \cup {c}
      BY <1>1 DEF Upload, TypeOK
    <2> HIDE DEF m
    <2>3. /\ TypeOK' /\ scraper'[c] = m
          /\ \A d \in Scrape \ {c} : scraper'[d] = scraper[d]
      BY <2>1, <2>2, ScraperMoves
    <2>4. ClientsFit'
      BY <2>1, <2>2, <2>3 DEF ClientsFit, Tries
    <2>5. JobFits' /\ PromisesFit'
      BY <2>1, <2>2, <2>3 DEF JobFits, PromisesFit, Covers, Tries
    <2> QED BY <2>3, <2>4, <2>5
  <1>2. CASE Post(c)
    <2> DEFINE m == [scraper[c] EXCEPT !.pc = "waiting", !.try = @ + 1]
               k == scraper[c].try + 1
    <2>1. scraper[c].pc = "uploaded" /\ scraper[c].try < PostAttempts[c]
      BY <1>2 DEF Post, ClientsFit
    <2>2. /\ m \in [pc : {"scraping", "uploaded", "waiting", "done", "failed"},
                    try : Nat, answer : Run \cup {NoRun}]
          /\ m.pc = "waiting" /\ m.try = k /\ m.try <= PostAttempts[c] /\ k \in Tries(c)
      <3>1. k \in Nat /\ k <= PostAttempts[c] /\ k >= 1 /\ k \in Tries(c)
        BY <1>0, <2>1 DEF Tries
      <3> QED BY <1>0, <3>1
    <2>3. /\ scraper' = [scraper EXCEPT ![c] = m] /\ live' \subseteq Scrape
          /\ request' = [request EXCEPT ![c][k].pc = "sent"]
          /\ UNCHANGED <<runs, started, target, landed, refused, job, live>>
      BY <1>2 DEF Post, TypeOK
    <2>4. \A j \in Tries(c) : request'[c][j].pc = "answered" => request'[c][j] = request[c][j]
      BY <1>0, <2>2, <2>3 DEF TypeOK
    <2> HIDE DEF m, k
    <2>5. /\ TypeOK' /\ scraper'[c] = m
          /\ \A d \in Scrape \ {c} : scraper'[d] = scraper[d] /\ request'[d] = request[d]
      BY <2>2, <2>3, ScraperMoves
    <2>6. ClientsFit'
      BY <2>1, <2>2, <2>3, <2>5 DEF ClientsFit, Tries
    <2>7. JobFits' /\ PromisesFit'
      <3>1. \A r, d : Covers(r, d)' <=> Covers(r, d)
        BY <2>3 DEF Covers
      <3>2. PromisesFit'
        <4>1. ASSUME NEW d \in Scrape
              PROVE  /\ \A j \in Tries(d) : request'[d][j].pc = "answered" =>
                                             Covers(request'[d][j].run, d)
                     /\ scraper'[d].pc = "done" => Covers(scraper'[d].answer, d)
          <5>1. CASE d = c
            BY <5>1, <2>2, <2>4, <2>5 DEF PromisesFit
          <5>2. CASE d # c
            BY <5>2, <2>5 DEF PromisesFit
          <5> QED BY <5>1, <5>2
        <4> QED BY <4>1, <3>1 DEF PromisesFit, Tries
      <3> QED BY <3>2, <2>3 DEF JobFits
    <2> QED BY <2>5, <2>6, <2>7
  <1>3. CASE RetryOrGiveUp(c)
    <2>1. PICK next \in {"uploaded", "failed"} :
            /\ next = "uploaded" => scraper[c].try < PostAttempts[c]
            /\ scraper' = [scraper EXCEPT ![c].pc = next]
      BY <1>3 DEF RetryOrGiveUp
    <2> DEFINE m == [scraper[c] EXCEPT !.pc = next]
    <2>2. /\ m \in [pc : {"scraping", "uploaded", "waiting", "done", "failed"},
                    try : Nat, answer : Run \cup {NoRun}]
          /\ m.pc = next /\ m.try = scraper[c].try /\ m.try <= PostAttempts[c]
      BY <1>0
    <2>3. /\ scraper' = [scraper EXCEPT ![c] = m] /\ live' \subseteq Scrape /\ request' = request
          /\ UNCHANGED <<runs, started, target, landed, refused, job, live>>
          /\ scraper[c].pc = "waiting"
      BY <1>3, <2>1 DEF RetryOrGiveUp, TypeOK
    <2> HIDE DEF m
    <2>4. /\ TypeOK' /\ scraper'[c] = m
          /\ \A d \in Scrape \ {c} : scraper'[d] = scraper[d]
      BY <2>2, <2>3, ScraperMoves
    <2>5. ClientsFit'
      BY <2>1, <2>2, <2>3, <2>4 DEF ClientsFit, Tries
    <2>6. JobFits' /\ PromisesFit'
      BY <2>2, <2>3, <2>4 DEF JobFits, PromisesFit, Covers, Tries
    <2> QED BY <2>4, <2>5, <2>6
  <1>4. CASE Accepted(c)
    <2> DEFINE m == [scraper[c] EXCEPT !.pc = "done", !.answer = request[c][scraper[c].try].run]
    <2>1. /\ scraper[c].pc = "waiting" /\ scraper[c].try \in Tries(c)
          /\ request[c][scraper[c].try].pc = "answered"
      BY <1>4 DEF Accepted, ClientsFit
    <2>2. /\ m \in [pc : {"scraping", "uploaded", "waiting", "done", "failed"},
                    try : Nat, answer : Run \cup {NoRun}]
          /\ m.pc = "done" /\ m.try = scraper[c].try /\ m.try <= PostAttempts[c]
          /\ m.answer = request[c][scraper[c].try].run
      BY <1>0, <2>1
    <2>3. /\ scraper' = [scraper EXCEPT ![c] = m] /\ live' \subseteq Scrape /\ request' = request
          /\ UNCHANGED <<runs, started, target, landed, refused, job, live>>
      BY <1>4 DEF Accepted, TypeOK
    <2> HIDE DEF m
    <2>4. /\ TypeOK' /\ scraper'[c] = m
          /\ \A d \in Scrape \ {c} : scraper'[d] = scraper[d]
      BY <2>2, <2>3, ScraperMoves
    <2>5. ClientsFit'
      BY <2>1, <2>2, <2>3, <2>4 DEF ClientsFit, Tries
    <2>6. JobFits' /\ PromisesFit'
      BY <2>1, <2>2, <2>3, <2>4 DEF JobFits, PromisesFit, Covers, Tries
    <2> QED BY <2>4, <2>5, <2>6
  <1> QED BY <1>1, <1>2, <1>3, <1>4 DEF Client

\* A step of one handler, as the others see it.
LEMMA RequestMoves ==
    ASSUME TypeOK, NEW c \in Scrape, NEW k \in Tries(c),
           NEW n \in [pc : {"none", "sent", "insert", "answered", "error"},
                      run : Run \cup {NoRun}],
           request' = [request EXCEPT ![c][k] = n]
    PROVE  /\ DOMAIN request' = Scrape /\ request'[c][k] = n
           /\ \A d \in Scrape : request'[d] \in
                 [Tries(d) -> [pc : {"none", "sent", "insert", "answered", "error"},
                               run : Run \cup {NoRun}]]
           /\ \A d \in Scrape : \A j \in Tries(d) :
                 d # c \/ j # k => request'[d][j] = request[d][j]
  <1> DEFINE f == [request[c] EXCEPT ![k] = n]
  <1>1. /\ f \in [Tries(c) -> [pc : {"none", "sent", "insert", "answered", "error"},
                               run : Run \cup {NoRun}]]
        /\ f[k] = n /\ \A j \in Tries(c) : j # k => f[j] = request[c][j]
    BY DEF TypeOK
  <1>2. request' = [request EXCEPT ![c] = f]
    OBVIOUS
  <1> HIDE DEF f
  <1> QED BY <1>1, <1>2 DEF TypeOK

LEMMA HandlerStep ==
    ASSUME QueueInv, NEW c \in Scrape, NEW k \in Tries(c), Handler(c, k)
    PROVE  QueueInv'
  <1> USE DEF QueueInv
  <1>0. request[c][k] \in [pc : {"none", "sent", "insert", "answered", "error"},
                           run : Run \cup {NoRun}]
    BY DEF TypeOK
  <1>1. CASE Coalesce(c, k)
    <2>1. PICK r \in PendingFor(SchoolOf[c]) :
            request' = [request EXCEPT ![c][k] = [pc |-> "answered", run |-> r]]
      BY <1>1 DEF Coalesce
    <2> DEFINE n == [pc |-> "answered", run |-> r]
    <2>2. r \in Run /\ runs[r].status = "pending" /\ target[r] = SchoolOf[c]
      BY DEF PendingFor
    <2>3. /\ n \in [pc : {"none", "sent", "insert", "answered", "error"}, run : Run \cup {NoRun}]
          /\ n.run = r /\ request' = [request EXCEPT ![c][k] = n]
      BY <2>1, <2>2
    <2> HIDE DEF n
    <2>4. /\ DOMAIN request' = Scrape /\ request'[c][k] = n
          /\ \A d \in Scrape : request'[d] \in
                [Tries(d) -> [pc : {"none", "sent", "insert", "answered", "error"},
                              run : Run \cup {NoRun}]]
          /\ \A d \in Scrape : \A j \in Tries(d) :
                d # c \/ j # k => request'[d][j] = request[d][j]
      BY <2>3, RequestMoves
    <2>5. UNCHANGED <<runs, started, target, scraper, live, landed, refused, job>>
          /\ request[c][k].pc = "sent"
      BY <1>1 DEF Coalesce
    <2>6. Covers(r, c)'
      BY <2>2, <2>5 DEF Covers, JobFits
    <2>7. TypeOK'
      BY <2>4, <2>5 DEF TypeOK, Tries
    <2>8. ClientsFit'
      BY <2>4, <2>5 DEF ClientsFit, Tries
    <2>9. JobFits'
      BY <2>5 DEF JobFits
    <2>10. \A x, d : Covers(x, d)' <=> Covers(x, d)
      BY <2>5 DEF Covers
    <2>11. PromisesFit'
      BY <2>3, <2>4, <2>5, <2>6, <2>10 DEF PromisesFit, Tries
    <2> QED BY <2>7, <2>8, <2>9, <2>11
  <1>2. CASE FindNone(c, k) \/ RequestFails(c, k)
    <2>1. PICK pc \in {"insert", "error"} : request' = [request EXCEPT ![c][k].pc = pc]
      BY <1>2 DEF FindNone, RequestFails
    <2> DEFINE n == [request[c][k] EXCEPT !.pc = pc]
    <2>3. /\ n \in [pc : {"none", "sent", "insert", "answered", "error"}, run : Run \cup {NoRun}]
          /\ n.pc # "answered" /\ request' = [request EXCEPT ![c][k] = n]
      BY <1>0, <2>1
    <2> HIDE DEF n
    <2>4. /\ DOMAIN request' = Scrape /\ request'[c][k] = n
          /\ \A d \in Scrape : request'[d] \in
                [Tries(d) -> [pc : {"none", "sent", "insert", "answered", "error"},
                              run : Run \cup {NoRun}]]
          /\ \A d \in Scrape : \A j \in Tries(d) :
                d # c \/ j # k => request'[d][j] = request[d][j]
      BY <2>3, RequestMoves
    <2>5. /\ UNCHANGED <<runs, started, target, scraper, live, landed, refused, job>>
          /\ request[c][k].pc # "none"
      BY <1>2 DEF FindNone, RequestFails
    <2>7. TypeOK'
      BY <2>4, <2>5 DEF TypeOK, Tries
    <2>8. ClientsFit'
      BY <2>4, <2>5 DEF ClientsFit, Tries
    <2>9. JobFits'
      BY <2>5 DEF JobFits
    <2>10. \A x, d : Covers(x, d)' <=> Covers(x, d)
      BY <2>5 DEF Covers
    <2>11. PromisesFit'
      BY <2>3, <2>4, <2>5, <2>10 DEF PromisesFit, Tries
    <2> QED BY <2>7, <2>8, <2>9, <2>11
  <1>3. CASE Insert(c, k)
    <2>1. PICK r \in Run : /\ r = CHOOSE x \in Run : runs[x].status = "absent"
                          /\ runs[r].status = "absent"
      BY <1>3 DEF Insert
    <2> DEFINE n == [pc |-> "answered", run |-> r]
    <2>2. /\ runs' = [runs EXCEPT ![r] = CreatePending]
          /\ started' = StartedNow(started, r, Cardinality(Run))
          /\ target' = [target EXCEPT ![r] = SchoolOf[c]]
          /\ request' = [request EXCEPT ![c][k] = n]
          /\ UNCHANGED <<scraper, live, landed, refused, job>>
          /\ request[c][k].pc = "insert"
      BY <1>3, <2>1 DEF Insert
    <2>2a. TypeOK /\ request' = [request EXCEPT ![c][k] = n]
      BY <2>2
    <2>3. /\ n \in [pc : {"none", "sent", "insert", "answered", "error"}, run : Run \cup {NoRun}]
          /\ n.run = r
      BY <2>1
    <2> HIDE DEF n
    <2>4. /\ DOMAIN request' = Scrape /\ request'[c][k] = n
          /\ \A d \in Scrape : request'[d] \in
                [Tries(d) -> [pc : {"none", "sent", "insert", "answered", "error"},
                              run : Run \cup {NoRun}]]
          /\ \A d \in Scrape : \A j \in Tries(d) :
                d # c \/ j # k => request'[d][j] = request[d][j]
      BY <2>2a, <2>3, RequestMoves
    <2>5. /\ runs \in [Run -> Row] /\ started \in [Run -> Nat]
          /\ runs[r] \in Row
      BY <2>1 DEF TypeOK
    <2>6. /\ runs' \in [Run -> Row] /\ runs'[r].status = "pending"
          /\ \A x \in Run : x # r => runs'[x] = runs[x]
      <3>1. CreatePending \in Row /\ CreatePending.status = "pending"
        BY <2>5, RowsStayRows
      <3> QED BY <2>1, <2>2, <2>5, <3>1
    <2>7. started' \in [Run -> Nat]
      BY <2>1, <2>2, <2>5, StartsStayNumbers
    <2>8. /\ target' \in [Run -> {SchoolOf[d] : d \in Scrape} \cup {NoRun}]
          /\ target'[r] = SchoolOf[c] /\ \A x \in Run : x # r => target'[x] = target[x]
      BY <2>1, <2>2 DEF TypeOK
    <2>9. TypeOK'
      BY <2>2, <2>4, <2>6, <2>7, <2>8 DEF TypeOK, Tries
    <2>10. ClientsFit'
      BY <2>2, <2>4 DEF ClientsFit, Tries
    <2>11. JobFits'
      BY <2>1, <2>2, <2>6 DEF JobFits
    <2>12. Covers(r, c)'
      BY <2>1, <2>2, <2>6, <2>8 DEF Covers, JobFits
    <2>13. \A x, d : Covers(x, d) => Covers(x, d)'
      <3> SUFFICES ASSUME NEW x, NEW d, Covers(x, d) PROVE Covers(x, d)'
        OBVIOUS
      <3>1. x \in Run /\ x # r
        BY <2>1 DEF Covers
      <3> QED BY <3>1, <2>2, <2>6, <2>8 DEF Covers
    <2>14. PromisesFit'
      BY <2>2, <2>3, <2>4, <2>12, <2>13 DEF PromisesFit, Tries
    <2> QED BY <2>9, <2>10, <2>11, <2>14
  <1> QED BY <1>1, <1>2, <1>3 DEF Handler

(***************************************************************************)
(* The worker                                                               *)
(***************************************************************************)

\* The worker writes the row of one run, moves files into landed and keeps the promises
\* of every other run.
LEMMA WorkerMoves ==
    ASSUME QueueInv, NEW r \in Run, NEW row \in Row, row.status # "absent",
           runs' = [runs EXCEPT ![r] = row], started' \in [Run -> Nat],
           UNCHANGED <<target, scraper, request>>,
           landed' \subseteq Scrape, landed \subseteq landed', live' \subseteq live,
           refused' \in [Run -> SUBSET Scrape], \A x \in Run \ {r} : refused'[x] = refused[x],
           live \subseteq live' \cup landed',
           job' \in [pc : {"idle", "claimed", "listed"}, run : Run \cup {NoRun},
                    files : SUBSET Scrape],
           job.pc = "idle" \/ job.run = r,
           IF row.status = "running" THEN job'.pc # "idle" /\ job'.run = r ELSE job'.pc = "idle",
           \A c \in Scrape : Covers(r, c) /\ c \in live \cup landed =>
                /\ row.status = "landed" => c \in landed' \cup refused'[r]
                /\ job'.pc = "listed" /\ job'.run = r => c \in job'.files \cup landed'
    PROVE  QueueInv'
  <1> USE DEF QueueInv
  <1>1. /\ runs' \in [Run -> Row] /\ runs'[r] = row
        /\ \A x \in Run : x # r => runs'[x] = runs[x]
    BY DEF TypeOK
  <1>2. TypeOK'
    BY <1>1 DEF TypeOK, Tries
  <1>3. ClientsFit'
    BY DEF ClientsFit, Tries
  <1>4. JobFits'
    BY <1>1 DEF JobFits
  <1>5. ASSUME NEW x, NEW c \in Scrape, Covers(x, c), c \in live \cup landed
        PROVE  Covers(x, c)'
    <2>1. CASE x = r
      BY <1>1, <1>5, <2>1 DEF Covers
    <2>2. CASE x # r
      <3>1. job'.pc = "idle" \/ job'.run = r
        OBVIOUS
      <3> QED BY <1>1, <1>5, <2>2, <3>1 DEF Covers
    <2> QED BY <2>1, <2>2
  <1>6. PromisesFit'
    <2>1. ASSUME NEW c \in Scrape
          PROVE  /\ \A k \in Tries(c) : request[c][k].pc = "answered" =>
                                         Covers(request[c][k].run, c)'
                 /\ scraper[c].pc = "done" => Covers(scraper[c].answer, c)'
      <3>1. \A x : Covers(x, c) /\ c \in live \cup landed => Covers(x, c)'
        BY <1>5
      <3>2. /\ \A k \in Tries(c) : request[c][k].pc = "answered" =>
                                   Covers(request[c][k].run, c) /\ c \in live \cup landed
            /\ scraper[c].pc = "done" => Covers(scraper[c].answer, c) /\ c \in live \cup landed
        BY DEF PromisesFit, ClientsFit
      <3> QED BY <3>1, <3>2
    <2> QED BY <2>1 DEF PromisesFit, Tries
  <1> QED BY <1>2, <1>3, <1>4, <1>6

LEMMA WorkerStep ==
    ASSUME QueueInv, Work
    PROVE  QueueInv'
  <1>0. /\ runs \in [Run -> Row] /\ started \in [Run -> Nat]
        /\ live \subseteq Scrape /\ landed \subseteq Scrape
        /\ refused \in [Run -> SUBSET Scrape]
        /\ job \in [pc : {"idle", "claimed", "listed"}, run : Run \cup {NoRun},
                    files : SUBSET Scrape]
        /\ job.pc # "idle" => job.run \in Run /\ runs[job.run].status = "running"
        /\ \A x \in Run : runs[x].status = "running" => job.pc # "idle" /\ job.run = x
    BY DEF QueueInv, TypeOK, JobFits
  <1>1. CASE ClaimRun
    <2>1. PICK r \in OldestPending(runs, started) :
            /\ runs' = [runs EXCEPT ![r] = Claimed(runs[r], W)]
            /\ job' = [Idle EXCEPT !.pc = "claimed", !.run = r]
      BY <1>1 DEF ClaimRun
    <2>2. r \in Run /\ runs[r] \in Row
      BY <1>0 DEF OldestPending
    <2> DEFINE row == Claimed(runs[r], W)
    <2>3. row \in Row /\ row.status = "running"
      BY <2>2, RowsStayRows
    <2>4. /\ job' \in [pc : {"idle", "claimed", "listed"}, run : Run \cup {NoRun},
                       files : SUBSET Scrape]
          /\ job'.pc = "claimed" /\ job'.run = r
      BY <2>1, <2>2 DEF Idle
    <2>5. job.pc = "idle" /\ UNCHANGED <<started, target, scraper, request, live, landed, refused>>
      BY <1>1 DEF ClaimRun
    <2>6. runs' = [runs EXCEPT ![r] = row]
      BY <2>1
    <2> HIDE DEF row
    <2> QED BY <1>0, <2>2, <2>3, <2>4, <2>5, <2>6, WorkerMoves
  <1>2. CASE AdoptAndList
    <2> DEFINE r == job.run
               row == Adopted(runs[r])
    <2>1. job.pc = "claimed" /\ r \in Run /\ runs[r] \in Row
      BY <1>0, <1>2 DEF AdoptAndList
    <2>2. row \in Row /\ row.status = "running"
      BY <2>1, RowsStayRows
    <2>3. /\ job' \in [pc : {"idle", "claimed", "listed"}, run : Run \cup {NoRun},
                       files : SUBSET Scrape]
          /\ job'.pc = "listed" /\ job'.run = r
          /\ job'.files = {c \in live : SchoolOf[c] = target[r]}
      BY <1>0, <1>2 DEF AdoptAndList
    <2>4. started' \in [Run -> Nat]
      BY <1>0, <1>2, <2>1, StartsStayNumbers DEF AdoptAndList
    <2>5. /\ runs' = [runs EXCEPT ![r] = row]
          /\ UNCHANGED <<target, scraper, request, live, landed, refused>>
      BY <1>2 DEF AdoptAndList
    <2>6. \A c \in Scrape : Covers(r, c) /\ c \in live \cup landed =>
                             c \in job'.files \cup landed'
      BY <2>3, <2>5 DEF Covers
    <2> HIDE DEF row
    <2>7. /\ job.pc = "idle" \/ job.run = r
          /\ job'.pc # "idle" /\ row.status # "absent" /\ row.status # "landed"
      BY <2>2, <2>3
    <2> HIDE DEF r
    <2> QED BY <1>0, <2>1, <2>2, <2>3, <2>4, <2>5, <2>6, <2>7, WorkerMoves
  <1>3. CASE LandRun
    <2> DEFINE r == job.run
               row == Finished(runs[r], "landed")
    <2>1. job.pc = "listed" /\ r \in Run /\ runs[r] \in Row
      BY <1>0, <1>3 DEF LandRun
    <2>2. row \in Row /\ row.status = "landed"
      BY <2>1, RowsStayRows
    <2>3. /\ job' \in [pc : {"idle", "claimed", "listed"}, run : Run \cup {NoRun},
                       files : SUBSET Scrape]
          /\ job'.pc = "idle"
      BY <1>3 DEF LandRun, Idle
    <2>4. /\ runs' = [runs EXCEPT ![r] = row]
          /\ UNCHANGED <<started, target, scraper, request>>
      BY <1>3 DEF LandRun
    <2>9. PICK bad \in SUBSET job.files, moved \in {{}, job.files} :
            /\ bad # {} => moved = {}
            /\ landed' = landed \cup (job.files \ bad)
            /\ refused' = [refused EXCEPT ![r] = bad]
            /\ live' = live \ moved
      BY <1>3 DEF LandRun
    <2>5. /\ landed' \subseteq Scrape /\ landed \subseteq landed' /\ live' \subseteq live
          /\ live \subseteq live' \cup landed' /\ started' \in [Run -> Nat]
      BY <1>0, <2>4, <2>9
    <2>8. /\ refused' \in [Run -> SUBSET Scrape] /\ refused'[r] = bad
          /\ \A x \in Run \ {r} : refused'[x] = refused[x]
      BY <1>0, <2>1, <2>9
    <2>6. \A c \in Scrape : Covers(r, c) => c \in landed' \cup refused'[r]
      BY <2>1, <2>8, <2>9 DEF Covers
    <2> HIDE DEF row
    <2>7. job.run = r
      OBVIOUS
    <2> HIDE DEF r
    <2> QED BY <1>0, <2>1, <2>2, <2>3, <2>4, <2>5, <2>6, <2>7, <2>8, WorkerMoves
  <1>4. CASE FailRun
    <2> DEFINE r == job.run
               row == Marked(runs[r], "failed")
    <2>1. r \in Run /\ runs[r] \in Row
      BY <1>0, <1>4 DEF FailRun
    <2>2. row \in Row /\ row.status = "failed"
      BY <2>1, RowsStayRows
    <2>3. /\ job' \in [pc : {"idle", "claimed", "listed"}, run : Run \cup {NoRun},
                       files : SUBSET Scrape]
          /\ job'.pc = "idle"
      BY <1>4 DEF FailRun, Idle
    <2>4. /\ runs' = [runs EXCEPT ![r] = row]
          /\ UNCHANGED <<started, target, scraper, request, live, landed, refused>>
      BY <1>4 DEF FailRun
    <2> HIDE DEF row
    <2>5. job.run = r
      OBVIOUS
    <2> HIDE DEF r
    <2> QED BY <1>0, <2>1, <2>2, <2>3, <2>4, <2>5, WorkerMoves
  <1>5. CASE CrashAndReap
    <2> DEFINE r == job.run
               old == [runs[r] EXCEPT !.beat = "stale"]
               row == Reaped(old)
    <2>1. r \in Run /\ runs[r] \in Row /\ runs[r].status = "running"
      BY <1>0, <1>5 DEF CrashAndReap
    <2>2. old \in Row /\ old.status = "running" /\ old.beat = "stale"
      BY <2>1, RowsStayRows DEF Row
    <2>3. runs' = RequeueExpired([runs EXCEPT ![r] = old])
      BY <1>5 DEF CrashAndReap
    <2> HIDE DEF old
    <2>4. row \in Row /\ row.status \in {"pending", "failed"}
      BY <2>2, RowsStayRows
    <2>5. Expired(old)
      BY <2>2 DEF Expired
    <2>6. \A x \in Run : x # r => ~Expired(runs[x])
      BY <1>0 DEF Expired
    <2> HIDE DEF row
    <2>7. runs' = [runs EXCEPT ![r] = row]
      <3> DEFINE t == [runs EXCEPT ![r] = old]
      <3>1. DOMAIN t = Run /\ t[r] = old /\ \A x \in Run : x # r => t[x] = runs[x]
        BY <1>0, <2>1
      <3>2. runs' = [x \in Run |-> IF Expired(t[x]) THEN Reaped(t[x]) ELSE t[x]]
        BY <2>3, <3>1 DEF RequeueExpired
      <3> HIDE DEF t
      <3>3. \A x \in Run : (IF Expired(t[x]) THEN Reaped(t[x]) ELSE t[x])
                             = IF x = r THEN row ELSE runs[x]
        BY <2>5, <2>6, <3>1 DEF row
      <3> QED BY <1>0, <3>2, <3>3
    <2>8. /\ job' \in [pc : {"idle", "claimed", "listed"}, run : Run \cup {NoRun},
                       files : SUBSET Scrape]
          /\ job'.pc = "idle"
          /\ UNCHANGED <<started, target, scraper, request, live, landed, refused>>
      BY <1>5 DEF CrashAndReap, Idle
    <2>9. job.run = r
      OBVIOUS
    <2> HIDE DEF r
    <2> QED BY <1>0, <2>1, <2>4, <2>7, <2>8, <2>9, WorkerMoves
  <1> QED BY <1>1, <1>2, <1>3, <1>4, <1>5 DEF Work

LEMMA QueueKept == QueueInv /\ [Next]_vars => QueueInv'
  <1>1. ASSUME QueueInv, UNCHANGED vars PROVE QueueInv'
    BY <1>1 DEF vars, QueueInv, TypeOK, ClientsFit, JobFits, PromisesFit, Covers, Tries
  <1> QED BY <1>1, ClientStep, HandlerStep, WorkerStep DEF Next

(***************************************************************************)
(* The theorems                                                             *)
(***************************************************************************)

LEMMA QueueInvHolds == Spec => []QueueInv
  <1> QED BY QueueInit, QueueKept, PTL DEF Spec

\* Every row, request and client of the queue is typed, whatever the number of scrapes,
\* runs and attempts: no client posts more often than maxAttempts.
THEOREM QueueIsTyped == Spec => []TypeOK
  <1>1. QueueInv => TypeOK
    BY DEF QueueInv
  <1> QED BY <1>1, QueueInvHolds, PTL

\* A scrape that was told of a run has been landed when that run has: coalescing on a
\* pending run loses no file, with any number of handlers, retries and crashes.
THEOREM TheAcceptedAreLanded == Spec => []AcceptedIsLanded
  <1>1. QueueInv => AcceptedIsLanded
    BY DEF QueueInv, ClientsFit, PromisesFit, Covers, AcceptedIsLanded, Told
  <1> QED BY <1>1, QueueInvHolds, PTL
=============================================================================

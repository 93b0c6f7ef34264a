-------------------------- MODULE ScraperRunProofs --------------------------
(***************************************************************************)
(* What TLAPS proves of ScraperRun for every set of schools, assessments    *)
(* and accounts, every listing and every bound on pages, attempts and       *)
(* polls: the types; that discovery is whole; that the schools of an        *)
(* account take turns; and, when the rows of a failed export do not outrun  *)
(* the next look at the page, that every file is under its own assessment   *)
(* and that a run that exits 0 has shipped everything.                      *)
(***************************************************************************)
EXTENDS ScraperRun, FiniteSetTheorems, TLAPS

(***************************************************************************)
(* The inductive invariant of the types and of discovery: what the record   *)
(* of a walk and the record of a worker look like on their own.             *)
(***************************************************************************)
JobState == {"waiting", "discover", "login", "next", "ask", "wait", "files", "done"}
Exporting == {"ask", "wait", "files"}

Walks == [pc : WalkState, url : Url, seen : SUBSET Url, found : SUBSET Assessment,
          items : Nat, counted : BOOLEAN, total : Nat, absent : BOOLEAN,
          due : SUBSET Assessment, still : BOOLEAN, ordered : BOOLEAN]
Jobs == [pc : JobState, attempt : 0..Retries, todo : SUBSET Assessment,
         cur : Assessment \cup {Nothing}, new : SUBSET Row, fresh : SUBSET Row,
         polls : 0..MaxPolls, calm : BOOLEAN, up : BOOLEAN, errs : BOOLEAN, partial : BOOLEAN]
Mains == [pc : {"start", "running", "over", "mailed"}, fatal : BOOLEAN, settings : BOOLEAN,
          exit : {0, 1}, notify : {"always", "failure"}, mail : {"none", "suppressed", "tried"}]

\* As long as the listing stands still, the walk has found what was listed on the pages it
\* saw, every item once, and the stated total is that of the listing.
StillFits(s, w, pg) ==
    w.still => /\ w.due = {a \in Own(s) : pg[a] # 0}
               /\ w.found = {a \in w.due : pg[a] \in Visited(w)}
               /\ w.items = Cardinality(w.found)
               /\ w.counted => w.total = Cardinality(w.due)

\* As long as the pages come one after the other, what is still to be found is on a later one,
\* wherever it moves on to.
OrderFits(w, pg) ==
    w.ordered => \E n \in 0..LastPage : Visited(w) = 1..n /\ \A a \in w.due \ w.found : n < pg[a]

\* The walk keeps to the building: its URLs have the filter, and none is asked for twice.
WalkFits(s, w, pg) ==
    /\ w \in Walks /\ w.found \subseteq Own(s) /\ w.due \subseteq Own(s)
    /\ w.url.scoped /\ \A url \in w.seen : url.scoped
    /\ w.pc = "walking" => w.url \notin w.seen
    /\ StillFits(s, w, pg) /\ OrderFits(w, pg)
    /\ w.pc = "whole" /\ ~w.absent => ~Short(w)

\* The worker exports one assessment of its own school, and reads the page afresh for it.
JobFits(s, j) ==
    /\ j \in Jobs /\ j.todo \subseteq Own(s)
    /\ IF j.pc \in Exporting THEN j.cur \in Own(s) ELSE j.cur = Nothing
    /\ j.pc \notin {"wait", "files"} => j.fresh = {} /\ j.polls = 0
    /\ j.pc = "wait" => j.polls < MaxPolls

TypeInv ==
    /\ source \in [School -> Credentials \cup {NoCredentials}]
    /\ walk \in [School -> Walks] /\ job \in [School -> Jobs] /\ ledger \in [School -> Outcome]
    /\ page \in [Assessment -> 0..LastPage]
    /\ \A s \in School : WalkFits(s, walk[s], page) /\ JobFits(s, job[s])
    /\ pending \subseteq Row /\ bucket \subseteq Object /\ told \subseteq bucket
    /\ main \in Mains

\* One school moves: its worker, its walk and its outcome become these.
Becomes(s, j, w, l) ==
    /\ job' = [job EXCEPT ![s] = j]
    /\ walk' = [walk EXCEPT ![s] = w]
    /\ ledger' = [ledger EXCEPT ![s] = l]

(***************************************************************************)
(* Types and discovery                                                      *)
(***************************************************************************)
LEMMA NoWalkFits ==
    ASSUME page \in [Assessment -> 0..LastPage], NEW s \in School, NEW found \in SUBSET Own(s)
    PROVE  /\ WalkFits(s, NewWalk(s), page)
           /\ WalkFits(s, [NoWalk EXCEPT !.found = found], page)
           /\ WalkFits(s, NoWalk, page)
  <1>1. [page |-> 1, scoped |-> TRUE] \in Url /\ LastPage \in Nat
    BY ListingAssumption DEF Url
  <1>2. Own(s) \subseteq Assessment /\ Listed(s) = {a \in Own(s) : page[a] # 0}
    BY DEF Own, Listed
  <1>3. ASSUME NEW w \in Walks, w.seen = {}, w.due = {} \/ w.due = Listed(s)
        PROVE  Visited(w) = {} /\ OrderFits(w, page)
    <2>1. Visited(w) = 1..0
      BY <1>3 DEF Visited
    <2>2. \A a \in w.due : 0 < page[a]
      BY <1>2, <1>3
    <2> QED BY <1>1, <2>1, <2>2 DEF OrderFits
  <1>4. ASSUME NEW f \in SUBSET Own(s)
        PROVE  WalkFits(s, [NoWalk EXCEPT !.found = f], page)
    <2> DEFINE w == [NoWalk EXCEPT !.found = f]
    <2>1. w \in Walks /\ w.pc = "idle" /\ w.url.scoped /\ w.seen = {} /\ w.due = {} /\ ~w.still
          /\ w.found = f
      BY <1>1, <1>2 DEF NoWalk, Walks, WalkState
    <2> HIDE DEF w
    <2>2. WalkFits(s, w, page)
      BY <1>3, <2>1 DEF WalkFits, StillFits
    <2> QED BY <2>2 DEF w
  <1>5. WalkFits(s, NewWalk(s), page)
    <2> DEFINE w == NewWalk(s)
    <2>1. /\ w \in Walks /\ w.pc = "walking" /\ w.url.scoped /\ w.seen = {} /\ w.due = Listed(s)
          /\ w.found = {} /\ w.items = 0 /\ ~w.counted
      BY <1>1, <1>2 DEF NewWalk, NoWalk, Walks, WalkState
    <2> HIDE DEF w
    <2>2. StillFits(s, w, page)
      BY <1>2, <1>3, <2>1, FS_EmptySet DEF StillFits
    <2>3. WalkFits(s, w, page)
      BY <1>2, <1>3, <2>1, <2>2 DEF WalkFits
    <2> QED BY <2>3 DEF w
  <1>6. NoWalk = [NoWalk EXCEPT !.found = {}]
    BY DEF NoWalk
  <1> QED BY <1>4, <1>5, <1>6

LEMMA NoJobFits ==
    /\ NoJob \in Jobs
    /\ \A s \in School : JobFits(s, NoJob)
    /\ \A s \in School : JobFits(s, [NoJob EXCEPT !.pc = "done"])
    /\ \A s \in School, n \in 0..Retries :
         JobFits(s, [NoJob EXCEPT !.pc = "discover", !.attempt = n])
  <1>1. NoJob \in Jobs
    BY ExportAssumption DEF NoJob, Jobs, JobState
  <1>2. \A s \in School : JobFits(s, NoJob)
    BY <1>1 DEF NoJob, JobFits, Exporting
  <1>4. ASSUME NEW s \in School PROVE JobFits(s, [NoJob EXCEPT !.pc = "done"])
    <2>1. [NoJob EXCEPT !.pc = "done"] \in Jobs
      BY <1>1 DEF Jobs, JobState
    <2> QED BY <2>1 DEF NoJob, JobFits, Exporting
  <1>3. ASSUME NEW s \in School, NEW n \in 0..Retries
        PROVE  JobFits(s, [NoJob EXCEPT !.pc = "discover", !.attempt = n])
    <2>1. [NoJob EXCEPT !.pc = "discover", !.attempt = n] \in Jobs
      BY <1>1 DEF Jobs, JobState
    <2> QED BY <2>1 DEF NoJob, JobFits, Exporting
  <1> QED BY <1>1, <1>2, <1>3, <1>4

LEMMA OwnIsFinite ==
    ASSUME NEW s, NEW S \in SUBSET Own(s)
    PROVE  IsFiniteSet(S) /\ Cardinality(S) \in Nat
  <1>1. IsFiniteSet(S)
    BY FS_Subset, ListingAssumption DEF Own
  <1> QED BY <1>1, FS_CardinalityType

\* A page that a walk fetches is of its own building and not one it has seen.
LEMMA BatchFits ==
    ASSUME TypeInv, NEW s \in School, walk[s].pc = "walking"
    PROVE  /\ Batch(s, walk[s].url) = {a \in Own(s) : page[a] = walk[s].url.page}
           /\ walk[s].url.page \in 1..LastPage /\ walk[s].url.page \notin Visited(walk[s])
  <1> DEFINE v == walk[s]
  <1>1. /\ v \in Walks /\ v.url.scoped /\ (\A url \in v.seen : url.scoped) /\ v.url \notin v.seen
    BY DEF TypeInv, WalkFits
  <1>2. Batch(s, v.url) = {a \in Own(s) : page[a] = v.url.page}
    BY <1>1 DEF Batch, Own
  <1>3. v.url \in Url /\ v.seen \subseteq Url
    BY <1>1 DEF Walks
  <1>4. ASSUME NEW url \in v.seen, url.page = v.url.page PROVE FALSE
    BY <1>1, <1>3, <1>4 DEF Url
  <1> QED BY <1>2, <1>3, <1>4 DEF Visited, Url

\* A walk that goes on or ends has seen one page more and found what is on it.
LEMMA FetchedFits ==
    ASSUME TypeInv, NEW s \in School, NEW counted \in BOOLEAN, walk[s].pc = "walking"
    PROVE  LET w == Fetched(s, counted)
           IN /\ w \in Walks /\ w.url = walk[s].url /\ w.url.scoped /\ w.pc = "walking"
              /\ w.found \subseteq Own(s) /\ w.due \subseteq Own(s)
              /\ \A url \in w.seen : url.scoped
              /\ StillFits(s, w, page) /\ OrderFits(w, page)
  <1> DEFINE v == walk[s]  w == Fetched(s, counted)  batch == Batch(s, v.url)  p == v.url.page
  <1>1. /\ v \in Walks /\ v.found \subseteq Own(s) /\ v.due \subseteq Own(s)
        /\ v.url.scoped /\ (\A url \in v.seen : url.scoped)
        /\ StillFits(s, v, page) /\ OrderFits(v, page)
    BY DEF TypeInv, WalkFits
  <1>2. batch = {a \in Own(s) : page[a] = p} /\ p \in 1..LastPage /\ p \notin Visited(v)
    BY BatchFits
  <1>3. /\ IsFiniteSet(batch) /\ Cardinality(batch) \in Nat
        /\ IsFiniteSet(v.found) /\ Cardinality(v.found) \in Nat
        /\ Listed(s) = {a \in Own(s) : page[a] # 0} /\ Cardinality(Listed(s)) \in Nat
    BY <1>1, <1>2, OwnIsFinite DEF Listed
  <1>4. Own(s) \subseteq Assessment
    BY DEF Own
  <1>5. LastPage \in Nat /\ page \in [Assessment -> 0..LastPage]
    BY ListingAssumption DEF TypeInv
  <1> HIDE DEF batch
  <1>6. /\ w.seen = v.seen \cup {v.url} /\ w.found = v.found \cup batch
        /\ w.items = v.items + Cardinality(batch) /\ w.counted = (v.counted \/ counted)
        /\ w.total = (IF counted /\ ~v.counted THEN Cardinality(Listed(s)) ELSE v.total)
        /\ w.ordered => v.ordered /\ Visited(v) = 1..(p - 1)
        /\ w.url = v.url /\ w.pc = v.pc /\ w.due = v.due /\ w.still = v.still
    BY <1>1 DEF Fetched, Walks, batch
  <1>7. w \in Walks
    <2> DEFINE seen == v.seen \cup {v.url}  found == v.found \cup batch
               items == v.items + Cardinality(batch)  stated == (v.counted \/ counted)
               total == IF counted /\ ~v.counted THEN Cardinality(Listed(s)) ELSE v.total
               ordered == (v.ordered /\ Visited(v) = 1..(p - 1))
    <2>1. /\ seen \in SUBSET Url /\ found \in SUBSET Assessment /\ items \in Nat
          /\ stated \in BOOLEAN /\ total \in Nat
      BY <1>1, <1>2, <1>3, <1>4 DEF Walks
    <2>2. ordered \in BOOLEAN
      OBVIOUS
    <2>3. w = [v EXCEPT !.seen = seen, !.found = found, !.items = items, !.counted = stated,
                        !.total = total, !.ordered = ordered]
      BY DEF Fetched, batch
    <2> HIDE DEF seen, found, items, stated, total, ordered, w, v
    <2> QED BY <1>1, <2>1, <2>2, <2>3 DEF Walks
  <1>8. Visited(w) = Visited(v) \cup {p}
    BY <1>6 DEF Visited
  <1> HIDE DEF v, w, p
  <1>9. StillFits(s, w, page)
    <2> SUFFICES ASSUME v.still
                 PROVE  /\ w.due = {a \in Own(s) : page[a] # 0}
                        /\ w.found = {a \in w.due : page[a] \in Visited(w)}
                        /\ w.items = Cardinality(w.found)
                        /\ w.counted => w.total = Cardinality(w.due)
      BY <1>6 DEF StillFits
    <2>1. /\ v.due = Listed(s) /\ v.found = {a \in v.due : page[a] \in Visited(v)}
          /\ v.items = Cardinality(v.found) /\ (v.counted => v.total = Cardinality(v.due))
      BY <1>1, <1>3 DEF StillFits
    <2>2. batch = {a \in v.due : page[a] = p}
      BY <1>2, <1>3, <2>1
    <2>3. w.found = {a \in w.due : page[a] \in Visited(w)}
      BY <1>6, <1>8, <2>1, <2>2
    <2>4. v.found \cap batch = {}
      BY <1>2, <2>1, <2>2
    <2>5. w.items = Cardinality(w.found)
      <3>1. /\ Cardinality(v.found \cup batch)
                  = Cardinality(v.found) + Cardinality(batch) - Cardinality(v.found \cap batch)
            /\ Cardinality({}) = 0
        BY <1>3, FS_Union, FS_EmptySet
      <3>2. Cardinality(v.found \cap batch) = 0
        BY <2>4, <3>1
      <3> QED BY <1>3, <1>6, <2>1, <3>1, <3>2
    <2> QED BY <1>3, <1>6, <2>1, <2>3, <2>5
  <1>10. OrderFits(w, page)
    <2> SUFFICES ASSUME v.ordered, Visited(v) = 1..(p - 1)
                 PROVE  /\ Visited(w) = 1..p
                        /\ \A a \in w.due \ w.found : p < page[a]
      <3>1. p \in 0..LastPage
        BY <1>2, <1>5
      <3> QED BY <1>6, <3>1 DEF OrderFits
    <2>1. PICK n \in 0..LastPage : Visited(v) = 1..n /\ \A a \in v.due \ v.found : n < page[a]
      BY <1>1 DEF OrderFits
    <2>2. n = p - 1
      BY <1>2, <1>5, <2>1
    <2>3. ASSUME NEW a \in w.due \ w.found PROVE p < page[a]
      <3>1. a \in v.due \ v.found /\ a \in Own(s) /\ page[a] # p /\ page[a] \in Nat
        BY <1>1, <1>2, <1>4, <1>5, <1>6, <2>3
      <3>2. n < page[a]
        BY <2>1, <3>1
      <3> QED BY <1>2, <1>5, <2>2, <3>1, <3>2
    <2> QED BY <1>2, <1>5, <1>8, <2>3
  <1> QED BY <1>1, <1>2, <1>6, <1>7, <1>9, <1>10 DEF v, w

\* A walk that has seen no other pages and found nothing else fits as before, whatever its end.
LEMMA WalkEnds ==
    ASSUME NEW s, NEW v \in Walks, NEW m \in Walks,
           v.found \subseteq Own(s), v.due \subseteq Own(s), \A url \in v.seen : url.scoped,
           StillFits(s, v, page), OrderFits(v, page),
           /\ m.seen = v.seen /\ m.found = v.found /\ m.items = v.items /\ m.counted = v.counted
           /\ m.total = v.total /\ m.due = v.due /\ m.still = v.still /\ m.ordered = v.ordered,
           m.url.scoped, m.pc = "walking" => m.url \notin m.seen,
           m.pc = "whole" /\ ~m.absent => ~Short(m)
    PROVE  WalkFits(s, m, page)
  <1>1. Visited(m) = Visited(v)
    BY DEF Visited
  <1>2. StillFits(s, m, page)
    BY <1>1 DEF StillFits
  <1>3. OrderFits(m, page)
    BY <1>1 DEF OrderFits
  <1> QED BY <1>2, <1>3 DEF WalkFits

\* A step of the walk leaves it on its building, and whole if it says so.
LEMMA WalkKept ==
    ASSUME TypeInv, NEW s \in School, WalkStep(s)
    PROVE  \E w : walk' = [walk EXCEPT ![s] = w] /\ WalkFits(s, w, page)
  <1>0. /\ WalkFits(s, walk[s], page) /\ walk[s] \in Walks /\ walk[s].pc = "walking"
        /\ walk[s].url \notin walk[s].seen
    BY DEF TypeInv, WalkFits, WalkStep, FollowLink, EndWalk, NotFound, GetFails
  <1>1. ASSUME NEW counted \in BOOLEAN, EndWalk(s, counted)
        PROVE  \E w : walk' = [walk EXCEPT ![s] = w] /\ WalkFits(s, w, page)
    <2> DEFINE v == Fetched(s, counted)
               m == [v EXCEPT !.pc = IF Short(v) THEN "broken" ELSE "whole"]
    <2>1. walk' = [walk EXCEPT ![s] = m]
      BY <1>1 DEF EndWalk
    <2>2. /\ v \in Walks /\ v.url.scoped /\ (\A url \in v.seen : url.scoped)
          /\ v.found \subseteq Own(s) /\ v.due \subseteq Own(s)
          /\ StillFits(s, v, page) /\ OrderFits(v, page)
      BY <1>0, FetchedFits
    <2> HIDE DEF v
    <2>3. /\ m \in Walks /\ m.url = v.url /\ m.seen = v.seen /\ m.found = v.found
          /\ m.items = v.items /\ m.counted = v.counted /\ m.total = v.total /\ m.due = v.due
          /\ m.still = v.still /\ m.ordered = v.ordered /\ m.pc # "walking"
          /\ m.pc = "whole" => ~Short(v)
      BY <2>2 DEF Walks, WalkState
    <2> HIDE DEF m
    <2>4. WalkFits(s, m, page)
      BY <2>2, <2>3, WalkEnds DEF Short
    <2> QED BY <2>1, <2>4
  <1>2. ASSUME NEW counted \in BOOLEAN, NEW link \in Url, FollowLink(s, counted, link)
        PROVE  \E w : walk' = [walk EXCEPT ![s] = w] /\ WalkFits(s, w, page)
    <2> DEFINE v == Fetched(s, counted)
               m == IF Stuck(v, Fill(link)) THEN [v EXCEPT !.pc = "broken"]
                    ELSE [v EXCEPT !.url = Fill(link)]
    <2>1. walk' = [walk EXCEPT ![s] = m]
      BY <1>2 DEF FollowLink
    <2>2. /\ v \in Walks /\ v.url.scoped /\ (\A url \in v.seen : url.scoped)
          /\ v.found \subseteq Own(s) /\ v.due \subseteq Own(s) /\ v.pc = "walking"
          /\ StillFits(s, v, page) /\ OrderFits(v, page)
      BY <1>0, FetchedFits
    <2>3. Fill(link) \in Url /\ Fill(link).scoped
      BY DEF Fill, Url
    <2> HIDE DEF v
    <2>4. /\ m \in Walks /\ m.url.scoped /\ m.seen = v.seen /\ m.found = v.found
          /\ m.items = v.items /\ m.counted = v.counted /\ m.total = v.total /\ m.due = v.due
          /\ m.still = v.still /\ m.ordered = v.ordered /\ m.pc # "whole"
          /\ m.pc = "walking" => m.url \notin v.seen
      BY <2>2, <2>3 DEF Walks, WalkState, Stuck
    <2> HIDE DEF m
    <2>5. WalkFits(s, m, page)
      BY <2>2, <2>4, WalkEnds
    <2> QED BY <2>1, <2>5
  <1>3. ASSUME NEW pc \in {"whole", "broken", "rejected"}, NEW absent \in BOOLEAN,
               pc = "whole" => absent, walk' = [walk EXCEPT ![s].pc = pc, ![s].absent = absent]
        PROVE  \E w : walk' = [walk EXCEPT ![s] = w] /\ WalkFits(s, w, page)
    <2> DEFINE v == walk[s]  m == [v EXCEPT !.pc = pc, !.absent = absent]
    <2>1. walk' = [walk EXCEPT ![s] = m]
      BY <1>3
    <2>2. /\ v \in Walks /\ v.url.scoped /\ (\A url \in v.seen : url.scoped)
          /\ v.found \subseteq Own(s) /\ v.due \subseteq Own(s)
          /\ StillFits(s, v, page) /\ OrderFits(v, page)
      BY <1>0 DEF WalkFits
    <2> HIDE DEF v
    <2>3. /\ m \in Walks /\ m.url = v.url /\ m.seen = v.seen /\ m.found = v.found
          /\ m.items = v.items /\ m.counted = v.counted /\ m.total = v.total /\ m.due = v.due
          /\ m.still = v.still /\ m.ordered = v.ordered /\ m.pc = pc /\ m.absent = absent
      BY <2>2 DEF Walks, WalkState
    <2> HIDE DEF m
    <2>4. WalkFits(s, m, page)
      BY <1>3, <2>2, <2>3, WalkEnds
    <2> QED BY <2>1, <2>4
  <1>4. ASSUME NotFound(s) \/ \E how \in {"broken", "rejected"} : GetFails(s, how)
        PROVE  \E pc \in {"whole", "broken", "rejected"}, absent \in BOOLEAN :
                 /\ pc = "whole" => absent
                 /\ walk' = [walk EXCEPT ![s].pc = pc, ![s].absent = absent]
    <2> DEFINE v == walk[s]
    <2>1. v.absent \in BOOLEAN /\ \A pc : [v EXCEPT !.pc = pc] = [v EXCEPT !.pc = pc, !.absent = v.absent]
      BY <1>0 DEF Walks
    <2>2. CASE v.seen = {} /\ NotFound(s)
      BY <2>2 DEF NotFound
    <2>3. ASSUME NEW pc \in {"broken", "rejected"}, walk' = [walk EXCEPT ![s] = [v EXCEPT !.pc = pc]]
          PROVE  walk' = [walk EXCEPT ![s].pc = pc, ![s].absent = v.absent]
      BY <2>1, <2>3
    <2>4. CASE v.seen # {} /\ NotFound(s)
      <3>1. walk' = [walk EXCEPT ![s] = [v EXCEPT !.pc = "broken"]]
        BY <2>4 DEF NotFound
      <3> QED BY <2>1, <2>3, <3>1
    <2>5. ASSUME NEW how \in {"broken", "rejected"}, GetFails(s, how)
          PROVE  walk' = [walk EXCEPT ![s].pc = how, ![s].absent = v.absent]
      <3>1. walk' = [walk EXCEPT ![s] = [v EXCEPT !.pc = how]]
        BY <2>5 DEF GetFails
      <3> QED BY <2>3, <3>1
    <2> QED BY <1>4, <2>1, <2>2, <2>4, <2>5
  <1> QED BY <1>1, <1>2, <1>3, <1>4 DEF WalkStep

\* An assessment that is added leaves every walk as it was, but for its standing still.
LEMMA AppearsKept ==
    ASSUME TypeInv, NEW a \in Assessment, Appears(a)
    PROVE  /\ page' \in [Assessment -> 0..LastPage] /\ walk' \in [School -> Walks]
           /\ \A s \in School : /\ WalkFits(s, walk'[s], page')
                               /\ walk'[s].found = walk[s].found
  <1> DEFINE t == SchoolOf[a]
  <1>1. t \in School /\ LastPage \in Nat /\ SchoolOf \in [Assessment -> School]
    BY ListingAssumption
  <1>2. page \in [Assessment -> 0..LastPage] /\ walk \in [School -> Walks]
    BY DEF TypeInv
  <1>3. walk' = [walk EXCEPT ![t].still = FALSE]
    BY DEF Appears
  <1>8. PICK p \in 1..LastPage :
          \E moved \in SUBSET {b \in Listed(t) : p <= page[b] /\ page[b] < LastPage} :
            page' = [b \in Assessment |-> IF b = a THEN p ELSE IF b \in moved THEN page[b] + 1 ELSE page[b]]
    BY DEF Appears
  <1>9. PICK moved \in SUBSET {b \in Listed(t) : p <= page[b] /\ page[b] < LastPage} :
          page' = [b \in Assessment |-> IF b = a THEN p ELSE IF b \in moved THEN page[b] + 1 ELSE page[b]]
    BY <1>8
  <1>10. page[a] = 0 /\ a \in Own(t)
    BY DEF Appears, Own
  <1>11. ASSUME NEW b \in Assessment
         PROVE  /\ page'[b] \in 0..LastPage /\ page[b] <= page'[b]
                /\ page[b] \in Nat /\ page'[b] \in Nat
                /\ b \notin Own(t) => page'[b] = page[b]
    <2>1. /\ page'[b] = IF b = a THEN p ELSE IF b \in moved THEN page[b] + 1 ELSE page[b]
          /\ page[b] \in 0..LastPage
      BY <1>2, <1>9
    <2>2. b \in moved => b \in Own(t) /\ page[b] < LastPage
      BY <1>9 DEF Listed
    <2> HIDE DEF t
    <2> QED BY <1>1, <1>8, <1>10, <2>1, <2>2
  <1>12. page' \in [Assessment -> 0..LastPage]
    BY <1>9, <1>11
  <1>4. ASSUME NEW s \in School, s # t PROVE WalkFits(s, walk[s], page')
    <2>1. \A b \in Own(s) : page'[b] = page[b]
      <3> SUFFICES ASSUME NEW b \in Own(s) PROVE page'[b] = page[b]
        OBVIOUS
      <3>1. b \in Assessment /\ b \notin Own(t)
        BY <1>4 DEF Own
      <3> QED BY <1>11, <3>1
    <2>2. WalkFits(s, walk[s], page)
      BY DEF TypeInv
    <2>3. StillFits(s, walk[s], page')
      BY <2>1, <2>2 DEF WalkFits, StillFits
    <2>4. OrderFits(walk[s], page')
      BY <2>1, <2>2 DEF WalkFits, OrderFits
    <2> QED BY <2>2, <2>3, <2>4 DEF WalkFits
  <1>5. WalkFits(t, [walk[t] EXCEPT !.still = FALSE], page') /\ walk'[t].found = walk[t].found
    <2> DEFINE v == walk[t]  m == [v EXCEPT !.still = FALSE]
    <2>1. v \in Walks /\ WalkFits(t, v, page)
      BY <1>1 DEF TypeInv
    <2>2. walk'[t] = m
      BY <1>1, <1>2, <1>3
    <2> HIDE DEF t, v
    <2>3. /\ m \in Walks /\ m.url = v.url /\ m.seen = v.seen /\ m.found = v.found /\ m.pc = v.pc
          /\ m.items = v.items /\ m.counted = v.counted /\ m.total = v.total /\ m.due = v.due
          /\ m.absent = v.absent /\ ~m.still /\ m.ordered = v.ordered
      BY <2>1 DEF Walks
    <2> HIDE DEF m
    <2>4. Visited(m) = Visited(v) /\ (Short(m) <=> Short(v))
      BY <2>3 DEF Visited, Short
    <2>5. StillFits(t, m, page')
      BY <2>3 DEF StillFits
    <2>6. OrderFits(m, page')
      <3> SUFFICES ASSUME v.ordered
                   PROVE  \E n \in 0..LastPage : Visited(v) = 1..n /\ \A b \in v.due \ v.found : n < page'[b]
        BY <2>3, <2>4 DEF OrderFits
      <3>1. PICK n \in 0..LastPage : Visited(v) = 1..n /\ \A b \in v.due \ v.found : n < page[b]
        BY <2>1 DEF WalkFits, OrderFits
      <3>2. ASSUME NEW b \in v.due \ v.found PROVE n < page'[b]
        <4>1. b \in Assessment
          BY <2>1 DEF Walks
        <4>2. page[b] \in Nat /\ page'[b] \in Nat /\ page[b] <= page'[b]
          BY <1>11, <4>1
        <4> QED BY <3>1, <4>2
      <3> QED BY <3>1, <3>2
    <2>7. WalkFits(t, m, page')
      BY <2>1, <2>3, <2>4, <2>5, <2>6 DEF WalkFits
    <2> QED BY <2>2, <2>3, <2>7 DEF m, v
  <1>6. ASSUME NEW s \in School
        PROVE  WalkFits(s, walk'[s], page') /\ walk'[s].found = walk[s].found
    <2>1. CASE s = t
      <3>1. walk'[t] = [walk[t] EXCEPT !.still = FALSE]
        BY <1>1, <1>2, <1>3
      <3> QED BY <1>5, <2>1, <3>1
    <2>2. CASE s # t
      <3>1. walk'[s] = walk[s]
        BY <1>2, <1>3, <2>2
      <3> QED BY <1>4, <2>2, <3>1
    <2> QED BY <2>1, <2>2
  <1>7. walk' = [s \in School |-> walk'[s]] /\ \A s \in School : walk'[s] \in Walks
    BY <1>2, <1>3, <1>6 DEF WalkFits
  <1> QED BY <1>6, <1>7, <1>12

\* What a step of a school makes of its worker, walk and outcome.
Moves(s) ==
    \E j, w, l : Becomes(s, j, w, l) /\ JobFits(s, j) /\ WalkFits(s, w, page) /\ l \in Outcome

LEMMA ClosesMoves ==
    ASSUME TypeInv, NEW s \in School, NEW l \in Outcome, Closes(s, l),
           UNCHANGED walk
    PROVE  Moves(s)
  <1> DEFINE j == [NoJob EXCEPT !.pc = "done"]
  <1>1. JobFits(s, j)
    BY NoJobFits
  <1>2. walk' = [walk EXCEPT ![s] = walk[s]] /\ WalkFits(s, walk[s], page)
    BY DEF TypeInv
  <1> QED BY <1>1, <1>2 DEF Closes, Becomes, Moves

\* The worker is through with its walk, whose finds are left.
LEMMA LeavesFits ==
    ASSUME TypeInv, NEW s \in School, Leaves(s)
    PROVE  \E w : /\ walk' = [walk EXCEPT ![s] = w] /\ WalkFits(s, w, page)
                  /\ w.found = walk[s].found /\ walk'[s].found = walk[s].found
  <1> DEFINE w == [NoWalk EXCEPT !.found = walk[s].found]
  <1>1. walk[s].found \in SUBSET Own(s) /\ walk \in [School -> Walks]
    BY DEF TypeInv, WalkFits
  <1>2. WalkFits(s, w, page)
    BY <1>1, NoWalkFits DEF TypeInv
  <1>3. walk' = [walk EXCEPT ![s] = w] /\ w.found = walk[s].found
    BY DEF Leaves, NoWalk
  <1> QED BY <1>1, <1>2, <1>3

LEMMA LeavesMoves ==
    ASSUME TypeInv, NEW s \in School, NEW l \in Outcome, Closes(s, l), Leaves(s)
    PROVE  Moves(s)
  <1>1. JobFits(s, [NoJob EXCEPT !.pc = "done"])
    BY NoJobFits
  <1> QED BY <1>1, LeavesFits DEF Closes, Becomes, Moves

LEMMA AttemptFailsMoves ==
    ASSUME TypeInv, NEW s \in School, AttemptFails(s) PROVE Moves(s)
  <1>1. CASE job[s].attempt < Retries
    <2> DEFINE j == [NoJob EXCEPT !.pc = "discover", !.attempt = job[s].attempt + 1]
    <2>1. job[s].attempt + 1 \in 0..Retries
      BY <1>1, ExportAssumption DEF TypeInv, Jobs
    <2>2. JobFits(s, j) /\ WalkFits(s, NewWalk(s), page)
      BY <2>1, NoJobFits, NoWalkFits DEF TypeInv
    <2>3. Becomes(s, j, NewWalk(s), ledger[s]) /\ ledger[s] \in Outcome
      BY <1>1 DEF AttemptFails, Restarts, Becomes, TypeInv
    <2> QED BY <2>2, <2>3 DEF Moves
  <1>2. CASE ~(job[s].attempt < Retries)
    BY <1>2, LeavesMoves DEF AttemptFails, Ledger, Outcome
  <1> QED BY <1>1, <1>2

\* Only the worker's record changes.
LEMMA WorkerMoves ==
    ASSUME TypeInv, NEW s \in School, NEW j, JobFits(s, j),
           job' = [job EXCEPT ![s] = j], UNCHANGED <<walk, ledger>>
    PROVE  Moves(s)
  <1>1. /\ walk' = [walk EXCEPT ![s] = walk[s]] /\ WalkFits(s, walk[s], page)
        /\ ledger' = [ledger EXCEPT ![s] = ledger[s]] /\ ledger[s] \in Outcome
    BY DEF TypeInv
  <1> QED BY <1>1 DEF Becomes, Moves

LEMMA SchoolMoves ==
    ASSUME TypeInv, NEW s \in School, SchoolStep(s) PROVE Moves(s)
  <1>0. /\ job[s] \in Jobs /\ JobFits(s, job[s]) /\ walk[s] \in Walks /\ WalkFits(s, walk[s], page)
        /\ ledger[s] \in Outcome /\ MaxPolls \in Nat
        /\ job = [job EXCEPT ![s] = job[s]]
        /\ \A st \in {"ok", "failed"}, u, p \in BOOLEAN : Ledger(st, u, p) \in Outcome
    BY ExportAssumption DEF TypeInv, Ledger, Outcome
  <1> DEFINE j == job[s]
  <1>1. CASE StartSchool(s)
    <2>1. CASE source[s] = NoCredentials
      BY <1>0, <1>1, <2>1, ClosesMoves DEF StartSchool
    <2>2. CASE source[s] # NoCredentials
      <3> DEFINE m == [j EXCEPT !.pc = "discover"]
      <3>1. JobFits(s, m)
        BY <1>0, <1>1 DEF StartSchool, MayStart, Started, JobFits, Jobs, JobState, Exporting
      <3>2. Becomes(s, m, NewWalk(s), ledger[s])
        BY <1>1, <2>2 DEF StartSchool, Goes, Becomes, TypeInv
      <3> QED BY <1>0, <3>1, <3>2, NoWalkFits DEF Moves, TypeInv
    <2> QED BY <2>1, <2>2
  <1>2. CASE Discover(s)
    <2>1. PICK w : walk' = [walk EXCEPT ![s] = w] /\ WalkFits(s, w, page)
      BY <1>2, WalkKept DEF Discover
    <2>2. Becomes(s, job[s], w, ledger[s])
      BY <1>2, <2>1 DEF Discover, Becomes, TypeInv
    <2> QED BY <1>0, <2>1, <2>2 DEF Moves
  <1>3. CASE Discovered(s)
    <2>1. CASE walk[s].found # {} /\ Leaves(s) /\ UNCHANGED ledger
               /\ job' = [job EXCEPT ![s].pc = "login", ![s].todo = walk[s].found]
      <3> DEFINE m == [j EXCEPT !.pc = "login", !.todo = walk[s].found]
      <3>1. JobFits(s, m)
        BY <1>0, <1>3 DEF Discovered, At, JobFits, WalkFits, Walks, Jobs, JobState, Exporting
      <3>2. job' = [job EXCEPT ![s] = m]
        BY <2>1
      <3>3. ledger' = [ledger EXCEPT ![s] = ledger[s]]
        BY <2>1 DEF TypeInv
      <3>4. PICK w : walk' = [walk EXCEPT ![s] = w] /\ WalkFits(s, w, page)
        BY <2>1, LeavesFits
      <3> QED BY <1>0, <3>1, <3>2, <3>3, <3>4 DEF Becomes, Moves
    <2>2. CASE \E l \in Outcome : Closes(s, l) /\ Leaves(s)
      BY <2>2, LeavesMoves
    <2>3. CASE AttemptFails(s)
      BY <2>3, AttemptFailsMoves
    <2> QED BY <1>0, <1>3, <2>1, <2>2, <2>3 DEF Discovered
  <1>4. CASE Login(s)
    <2>1. CASE Goes(s, "next") /\ UNCHANGED <<walk, ledger>>
      <3> DEFINE m == [j EXCEPT !.pc = "next"]
      <3>1. JobFits(s, m)
        BY <1>0, <1>4 DEF Login, At, JobFits, Jobs, JobState, Exporting
      <3>2. job' = [job EXCEPT ![s] = m]
        BY <2>1 DEF Goes
      <3> QED BY <2>1, <3>1, <3>2, WorkerMoves
    <2>2. CASE Closes(s, Ledger("failed", FALSE, FALSE)) /\ UNCHANGED walk
      BY <1>0, <2>2, ClosesMoves
    <2>3. CASE AttemptFails(s)
      BY <2>3, AttemptFailsMoves
    <2> QED BY <1>4, <2>1, <2>2, <2>3 DEF Login
  <1>5. CASE SnapshotTransfers(s)
    <2>1. PICK a \in j.todo :
            job' = [job EXCEPT ![s].pc = "ask", ![s].cur = a, ![s].todo = @ \ {a}, ![s].new = {}]
      BY <1>5 DEF SnapshotTransfers
    <2> DEFINE m == [j EXCEPT !.pc = "ask", !.cur = a, !.todo = @ \ {a}, !.new = {}]
    <2>2. job' = [job EXCEPT ![s] = m]
      BY <2>1
    <2>3. JobFits(s, m)
      BY <1>0, <1>5 DEF SnapshotTransfers, At, JobFits, Jobs, JobState, Exporting
    <2> QED BY <1>5, <2>2, <2>3, WorkerMoves DEF SnapshotTransfers
  <1>6. CASE RequestExport(s)
    <2>1. ASSUME NEW p \in BOOLEAN, Onwards(s, p) PROVE Moves(s)
      <3> DEFINE m == [j EXCEPT !.pc = "next", !.cur = Nothing, !.new = {}, !.fresh = {},
                                !.polls = 0, !.calm = FALSE, !.partial = @ \/ p]
      <3>1. job' = [job EXCEPT ![s] = m]
        BY <2>1 DEF Onwards
      <3>2. JobFits(s, m)
        BY <1>0, <1>6 DEF RequestExport, At, JobFits, Jobs, JobState, Exporting
      <3> QED BY <1>6, <3>1, <3>2, WorkerMoves DEF RequestExport
    <2>2. CASE Goes(s, "wait")
      <3> DEFINE m == [j EXCEPT !.pc = "wait"]
      <3>1. job' = [job EXCEPT ![s] = m]
        BY <2>2 DEF Goes
      <3>2. JobFits(s, m)
        BY <1>0, <1>6, ExportAssumption
        DEF RequestExport, At, JobFits, Jobs, JobState, Exporting
      <3> QED BY <1>6, <3>1, <3>2, WorkerMoves DEF RequestExport
    <2> QED BY <1>6, <2>1, <2>2 DEF RequestExport
  <1>7. CASE PollTransfers(s)
    <2>1. PICK calm \in BOOLEAN, settled \in BOOLEAN :
            job' = [job EXCEPT ![s].fresh = j.new, ![s].calm = calm, ![s].polls = @ + 1,
              ![s].pc = IF settled \/ j.polls + 1 = MaxPolls THEN "files" ELSE "wait"]
      BY <1>7 DEF PollTransfers
    <2> DEFINE m == [j EXCEPT !.fresh = j.new, !.calm = calm, !.polls = @ + 1,
                       !.pc = IF settled \/ j.polls + 1 = MaxPolls THEN "files" ELSE "wait"]
    <2>2. job' = [job EXCEPT ![s] = m]
      BY <2>1
    <2>5. j.polls \in Nat /\ j.polls < MaxPolls
      <3>1. j.pc = "wait"
        BY <1>7 DEF PollTransfers, At
      <3>2. j \in Jobs /\ JobFits(s, j)
        BY <1>0
      <3>3. j.polls \in 0..MaxPolls
        BY <3>2 DEF Jobs
      <3> QED BY <3>1, <3>2, <3>3 DEF JobFits
    <2>3. j.polls + 1 \in 0..MaxPolls /\ (j.polls + 1 # MaxPolls => j.polls + 1 < MaxPolls)
      BY <1>0, <2>5
    <2>4. JobFits(s, m)
      BY <1>0, <1>7, <2>3 DEF PollTransfers, At, JobFits, Jobs, JobState, Exporting
    <2> QED BY <1>7, <2>2, <2>4, WorkerMoves DEF PollTransfers
  <1>8. CASE Ship(s)
    <2>1. PICK up \in BOOLEAN, errs \in BOOLEAN, partial \in BOOLEAN :
            job' = [job EXCEPT ![s] = [NoJob EXCEPT !.pc = "next", !.attempt = j.attempt,
              !.todo = j.todo, !.up = up, !.errs = errs, !.partial = partial]]
      BY <1>0, <1>8 DEF Ship, Jobs
    <2> DEFINE m == [NoJob EXCEPT !.pc = "next", !.attempt = j.attempt,
              !.todo = j.todo, !.up = up, !.errs = errs, !.partial = partial]
    <2>2. m \in Jobs
      BY <1>0, NoJobFits DEF Jobs, JobState
    <2>3. JobFits(s, m)
      BY <1>0, <2>2 DEF JobFits, Exporting, NoJob
    <2> QED BY <1>8, <2>1, <2>3, WorkerMoves DEF Ship
  <1>9. CASE PageFails(s)
    BY <1>9, AttemptFailsMoves DEF PageFails
  <1>10. CASE ScraperComplete(s)
    <2>1. CASE AttemptFails(s)
      BY <2>1, AttemptFailsMoves
    <2>2. CASE \E l \in Outcome : Closes(s, l) /\ UNCHANGED walk
      BY <2>2, ClosesMoves
    <2>3. j.errs \in BOOLEAN /\ j.partial \in BOOLEAN /\ (j.errs \/ j.partial) \in BOOLEAN
      BY <1>0 DEF Jobs
    <2> QED BY <1>0, <1>10, <2>1, <2>2, <2>3 DEF ScraperComplete
  <1> QED BY <1>1, <1>2, <1>3, <1>4, <1>5, <1>6, <1>7, <1>8, <1>9, <1>10 DEF SchoolStep

\* What a step of a school does to the page, the bucket and the backend.
LEMMA SchoolShared ==
    ASSUME TypeInv, NEW s \in School, SchoolStep(s)
    PROVE  /\ source' = source /\ main' = main /\ page' = page
           /\ pending' \subseteq Row /\ bucket' \subseteq Object /\ told' \subseteq bucket'
           /\ bucket \subseteq bucket' /\ told \subseteq told'
  <1>0. /\ pending \subseteq Row /\ bucket \subseteq Object /\ told \subseteq bucket
        /\ job[s] \in Jobs /\ JobFits(s, job[s])
    BY DEF TypeInv
  <1>1. source' = source /\ main' = main /\ page' = page
    BY DEF SchoolStep, StartSchool, Discover, WalkStep, EndWalk, FollowLink, NotFound, GetFails,
      Discovered, Login, SnapshotTransfers, RequestExport, PollTransfers, Ship, PageFails,
      ScraperComplete
  <1>2. CASE RequestExport(s)
    <2>1. job[s].cur \in Own(s)
      BY <1>0, <1>2 DEF RequestExport, At, JobFits, Exporting
    <2>2. Rows(job[s].cur) \subseteq Row
      BY <2>1 DEF Rows, Row, Own
    <2> QED BY <1>0, <1>1, <1>2, <2>2 DEF RequestExport
  <1>3. CASE Ship(s)
    <2>1. job[s].cur \in Assessment /\ job[s].fresh \subseteq Row
      BY <1>0, <1>3 DEF Ship, At, JobFits, Exporting, Own, Jobs
    <2>2. PICK ok \in SUBSET {r \in job[s].fresh : r.file \in Wanted} :
            bucket' = bucket \cup {[at |-> job[s].cur, of |-> r.of, file |-> r.file] : r \in ok}
      BY <1>3 DEF Ship
    <2>3. \A r \in ok : [at |-> job[s].cur, of |-> r.of, file |-> r.file] \in Object
      BY <2>1 DEF Row, Object
    <2> QED BY <1>0, <1>1, <1>3, <2>2, <2>3 DEF Ship
  <1>4. CASE ScraperComplete(s)
    BY <1>0, <1>1, <1>4 DEF ScraperComplete
  <1>5. CASE SnapshotTransfers(s)
    BY <1>0, <1>1, <1>5 DEF SnapshotTransfers
  <1>6. CASE StartSchool(s) \/ Discover(s) \/ Discovered(s) \/ Login(s) \/ PollTransfers(s)
             \/ PageFails(s)
    BY <1>0, <1>1, <1>6 DEF StartSchool, Discover, Discovered, Login, PollTransfers, PageFails
  <1> QED BY <1>2, <1>3, <1>4, <1>5, <1>6 DEF SchoolStep

\* A row that shows up joins what the watching workers have seen.
LEMMA RowsFit ==
    ASSUME TypeInv, NEW r \in Row, RowAppears(r)
    PROVE  /\ job' \in [School -> Jobs]
           /\ \A t \in School : JobFits(t, job'[t]) /\ job'[t].pc = job[t].pc
                                /\ job'[t].cur = job[t].cur /\ job'[t].todo = job[t].todo
                                /\ job'[t].fresh = job[t].fresh /\ job'[t].up = job[t].up
                                /\ job'[t].errs = job[t].errs /\ job'[t].partial = job[t].partial
  <1>1. ASSUME NEW t \in School
        PROVE  /\ job'[t] \in Jobs /\ JobFits(t, job'[t]) /\ job'[t].pc = job[t].pc
               /\ job'[t].cur = job[t].cur /\ job'[t].todo = job[t].todo
               /\ job'[t].fresh = job[t].fresh /\ job'[t].up = job[t].up
               /\ job'[t].errs = job[t].errs /\ job'[t].partial = job[t].partial
    <2> DEFINE j == job[t]
               m == [j EXCEPT !.new = @ \cup {r}]
    <2>1. j \in Jobs /\ JobFits(t, j)
      BY DEF TypeInv
    <2>2. job'[t] = j \/ job'[t] = m
      BY DEF RowAppears
    <2> HIDE DEF j
    <2>3. /\ m \in Jobs /\ m.pc = j.pc /\ m.cur = j.cur /\ m.todo = j.todo /\ m.fresh = j.fresh
          /\ m.up = j.up /\ m.errs = j.errs /\ m.partial = j.partial /\ m.polls = j.polls
      BY <2>1 DEF Jobs
    <2> HIDE DEF m
    <2>4. JobFits(t, m)
      BY <2>1, <2>3 DEF JobFits
    <2> QED BY <2>1, <2>2, <2>3, <2>4 DEF j
  <1>2. job' = [t \in School |-> job'[t]]
    BY DEF RowAppears
  <1> QED BY <1>1, <1>2

LEMMA TypeInvInit == ScraperInit => TypeInv
  <1> SUFFICES ASSUME ScraperInit PROVE TypeInv
    OBVIOUS
  <1>1. Ledger("none", FALSE, FALSE) \in Outcome
    BY DEF Ledger, Outcome
  <1>2. NoWalk \in Walks /\ NoJob \in Jobs
    <2>1. [page |-> 1, scoped |-> TRUE] \in Url
      BY ListingAssumption DEF Url
    <2> QED BY <2>1, NoJobFits DEF NoWalk, Walks, WalkState
  <1>3. main \in Mains
    BY DEF ScraperInit, Mains
  <1>4. page \in [Assessment -> 0..LastPage]
    BY ListingAssumption DEF ScraperInit
  <1> QED BY <1>1, <1>2, <1>3, <1>4, NoWalkFits, NoJobFits DEF ScraperInit, TypeInv

LEMMA TypeInvKept == TypeInv /\ [ScraperNext]_scraperVars => TypeInv'
  <1> SUFFICES ASSUME TypeInv, [ScraperNext]_scraperVars PROVE TypeInv'
    OBVIOUS
  <1>1. ASSUME NEW s \in School, SchoolStep(s) PROVE TypeInv'
    <2>1. PICK j, w, l : Becomes(s, j, w, l) /\ JobFits(s, j) /\ WalkFits(s, w, page) /\ l \in Outcome
      BY <1>1, SchoolMoves DEF Moves
    <2>2. /\ job' \in [School -> Jobs] /\ walk' \in [School -> Walks]
          /\ ledger' \in [School -> Outcome]
      BY <2>1 DEF Becomes, TypeInv, JobFits, WalkFits
    <2>3. \A t \in School : WalkFits(t, walk'[t], page) /\ JobFits(t, job'[t])
      BY <2>1 DEF Becomes, TypeInv
    <2> QED BY <1>1, <2>2, <2>3, SchoolShared DEF TypeInv
  <1>2. ASSUME NEW r \in Row, RowAppears(r) PROVE TypeInv'
    <2>1. job' \in [School -> Jobs] /\ \A t \in School : JobFits(t, job'[t])
      BY <1>2, RowsFit
    <2> QED BY <1>2, <2>1 DEF RowAppears, TypeInv
  <1>3. CASE MainStep
    <2>1. main' \in Mains
      BY <1>3 DEF MainStep, Begin, BatchSummary, SendRunSummary, TypeInv, Mains
    <2> QED BY <1>3, <2>1 DEF MainStep, Begin, BatchSummary, SendRunSummary, TypeInv
  <1>4. CASE UNCHANGED scraperVars
    BY <1>4 DEF scraperVars, TypeInv
  <1>5. ASSUME NEW a \in Assessment, Added(a) PROVE TypeInv'
    BY <1>5, AppearsKept DEF Added, Appears, TypeInv
  <1> QED BY <1>1, <1>2, <1>3, <1>4, <1>5 DEF ScraperNext

LEMMA TypeInvHolds == ScraperSpec => []TypeInv
  <1> QED BY TypeInvInit, TypeInvKept, PTL DEF ScraperSpec

\* Every school works through its own assessments, within its attempts and its polls; no
\* file that the backend is told of is missing from the bucket.
THEOREM ScraperRunIsTyped == ScraperSpec => []ScraperTypeOK
  <1>1. TypeInv => ScraperTypeOK
    <2> SUFFICES ASSUME TypeInv PROVE ScraperTypeOK
      OBVIOUS
    <2>1. ASSUME NEW s \in School
          PROVE  /\ walk[s].pc \in WalkState /\ walk[s].url \in Url /\ walk[s].seen \subseteq Url
                 /\ job[s].todo \subseteq Own(s) /\ job[s].cur \in Own(s) \cup {Nothing}
                 /\ job[s].new \subseteq Row /\ job[s].fresh \subseteq Row
                 /\ job[s].attempt <= Retries /\ job[s].polls <= MaxPolls
                 /\ ledger[s] \in Outcome
      <3>1. /\ walk[s] \in Walks /\ job[s] \in Jobs /\ JobFits(s, job[s])
            /\ ledger[s] \in Outcome
        BY DEF TypeInv
      <3>2. job[s].attempt <= Retries /\ job[s].polls <= MaxPolls
        BY <3>1 DEF Jobs
      <3> QED BY <3>1, <3>2 DEF Walks, Jobs, JobFits
    <2>2. main.exit \in {0, 1} /\ main.mail \in {"none", "suppressed", "tried"}
      BY DEF TypeInv, Mains
    <2> QED BY <2>1, <2>2 DEF TypeInv, ScraperTypeOK
  <1> QED BY <1>1, TypeInvHolds, PTL

\* Whatever links the server hands out and whatever is added meanwhile, a walk that returns
\* found assessments of its own building only, and all that were listed when it began, if the
\* listing stood still and the total is stated or every page was served, or if the pages were
\* served one after the other.
THEOREM WalksAreWhole == ScraperSpec => []DiscoveryIsWhole
  <1>1. TypeInv => DiscoveryIsWhole
    <2> SUFFICES ASSUME TypeInv, NEW s \in School
                 PROVE  LET w == walk[s]
                            all == Visited(w) = 1..LastPage
                        IN /\ w.found \subseteq Own(s)
                           /\ (w.pc = "whole" /\ ~w.absent
                                 /\ ((w.counted /\ w.still) \/ (all /\ (w.still \/ w.ordered))))
                                => w.due \subseteq w.found
      BY DEF DiscoveryIsWhole
    <2> DEFINE w == walk[s]
    <2>1. WalkFits(s, w, page) /\ page \in [Assessment -> 0..LastPage] /\ LastPage \in Nat
      BY ListingAssumption DEF TypeInv
    <2> HIDE DEF w
    <2>2. \A a \in w.due : page[a] \in 0..LastPage
      BY <2>1 DEF WalkFits, Own
    <2>3. ASSUME w.pc = "whole", ~w.absent, w.counted, w.still PROVE w.due \subseteq w.found
      <3>1. /\ w.found \subseteq w.due /\ w.due \in SUBSET Own(s) /\ w.items = Cardinality(w.found)
            /\ w.total = Cardinality(w.due) /\ ~(w.items < w.total)
        BY <2>1, <2>3 DEF WalkFits, StillFits, Short
      <3>2. IsFiniteSet(w.due) /\ Cardinality(w.due) \in Nat
        BY <3>1, OwnIsFinite
      <3>3. Cardinality(w.found) \in Nat /\ Cardinality(w.found) <= Cardinality(w.due)
        BY <3>1, <3>2, FS_Subset, FS_CardinalityType
      <3>4. Cardinality(w.found) = Cardinality(w.due)
        BY <3>1, <3>2, <3>3
      <3> QED BY <3>1, <3>2, <3>4, FS_Subset
    <2>4. ASSUME Visited(w) = 1..LastPage, w.still PROVE w.due \subseteq w.found
      <3>1. w.due = {a \in Own(s) : page[a] # 0} /\ w.found = {a \in w.due : page[a] \in Visited(w)}
        BY <2>1, <2>4 DEF WalkFits, StillFits
      <3> QED BY <2>1, <2>2, <2>4, <3>1
    <2>5. ASSUME Visited(w) = 1..LastPage, w.ordered PROVE w.due \subseteq w.found
      <3>1. PICK n \in 0..LastPage : Visited(w) = 1..n /\ \A a \in w.due \ w.found : n < page[a]
        BY <2>1, <2>5 DEF WalkFits, OrderFits
      <3>2. n = LastPage
        BY <2>1, <2>5, <3>1
      <3> QED BY <2>1, <2>2, <3>1, <3>2
    <2>6. w.found \subseteq Own(s)
      BY <2>1 DEF WalkFits
    <2> QED BY <2>3, <2>4, <2>5, <2>6 DEF w
  <1> QED BY <1>1, TypeInvHolds, PTL

(***************************************************************************)
(* The schools of an account take turns                                     *)
(***************************************************************************)
Active(s) == Started(s) /\ ~Done(s)

\* The pool works on no two schools that resolve to the same credentials at once, and on
\* none that has no credentials.
SchoolsTakeTurns ==
    /\ \A s \in School : Active(s) => source[s] # NoCredentials
    /\ \A s, t \in School : Active(s) /\ Active(t) /\ source[s] = source[t] => s = t

\* The rows of s's account that are still to come.
Asked(s) == {r \in pending : source[SchoolOf[r.of]] = source[s]}

\* Whatever an export has seen, has read or may still see comes from that export.
RowsAreOwn ==
    \A s \in School : job[s].pc \in Exporting =>
      \A r \in job[s].new \cup job[s].fresh \cup Asked(s) : r.of = job[s].cur

\* The assessments whose every wanted file is in the bucket, under their own key; and
\* those that the backend was told of then.
Stored == {a \in Assessment : \A f \in Wanted : [at |-> a, of |-> a, file |-> f] \in bucket}
Reported == {a \in Assessment : \A f \in Wanted : [at |-> a, of |-> a, file |-> f] \in told}

\* A worker that has nothing to excuse has shipped what it is through with, and knows.
ShipsAt(s) ==
    /\ job[s].pc = "login" => job[s].todo = walk[s].found
    /\ job[s].pc \in {"next"} \cup Exporting /\ ~job[s].partial /\ ~job[s].errs =>
         \A a \in walk[s].found \ Unsubmitted :
           a \notin job[s].todo /\ a # job[s].cur => a \in Stored /\ (Wanted # {} => job[s].up)
ShipsInOrder == \A s \in School : ShipsAt(s)

\* A school that is closed as good has all its files with the backend.
ClosedAt(s) ==
    Done(s) =>
      /\ ledger[s].status # "none"
      /\ ledger[s].status = "ok" /\ ~ledger[s].partial =>
           walk[s].found \ Unsubmitted \subseteq Reported
ClosedIsReported == \A s \in School : ClosedAt(s)

\* Exit 0 is the verdict on schools that are all closed as good.
ZeroIsGood ==
    main.pc \in {"over", "mailed"} /\ main.exit = 0 =>
      \A s \in School : Done(s) /\ ledger[s].status = "ok" /\ ~ledger[s].partial

ExportInv ==
    /\ RowsAreOwn /\ FiledUnderItsAssessment /\ ShipsInOrder /\ ClosedIsReported /\ ZeroIsGood

\* One school moves, the others stay; and it moves in a running batch only.
LEMMA OthersStay ==
    ASSUME TypeInv, NEW s \in School, SchoolStep(s)
    PROVE  /\ main.pc = "running" /\ ~Done(s)
           /\ \A t \in School : t # s => /\ job'[t] = job[t] /\ walk'[t] = walk[t]
                                         /\ ledger'[t] = ledger[t]
  <1>1. PICK j, w, l : Becomes(s, j, w, l)
    BY SchoolMoves DEF Moves
  <1>2. \A t \in School : t # s => job'[t] = job[t] /\ walk'[t] = walk[t] /\ ledger'[t] = ledger[t]
    BY <1>1 DEF Becomes, TypeInv
  <1>3. main.pc = "running" /\ job[s].pc # "done"
    BY DEF SchoolStep, StartSchool, MayStart, Started, Discover, Discovered, Login,
      SnapshotTransfers, RequestExport, PollTransfers, Ship, PageFails, ScraperComplete, At
  <1> QED BY <1>2, <1>3 DEF Done

LEMMA TurnsInit == ScraperInit => SchoolsTakeTurns
  BY DEF ScraperInit, SchoolsTakeTurns, Active, Started, NoJob

LEMMA TurnsKept ==
    TypeInv /\ SchoolsTakeTurns /\ [ScraperNext]_scraperVars => SchoolsTakeTurns'
  <1> SUFFICES ASSUME TypeInv, SchoolsTakeTurns, [ScraperNext]_scraperVars
               PROVE  SchoolsTakeTurns'
    OBVIOUS
  <1>1. ASSUME NEW s \in School, SchoolStep(s) PROVE SchoolsTakeTurns'
    <2>1. /\ source' = source
          /\ \A t \in School : t # s => (Active(t)' <=> Active(t))
      BY <1>1, OthersStay, SchoolShared DEF Active, Started, Done
    <2>2. CASE StartSchool(s)
      <3>1. CASE source[s] = NoCredentials
        <4>1. job' = [job EXCEPT ![s] = [NoJob EXCEPT !.pc = "done"]]
          BY <2>2, <3>1 DEF StartSchool, Closes
        <4>2. job'[s] = [NoJob EXCEPT !.pc = "done"]
          BY <4>1 DEF TypeInv
        <4>3. ~Active(s)'
          BY <4>2 DEF Active, Done, NoJob
        <4> QED BY <2>1, <4>3 DEF SchoolsTakeTurns
      <3>2. CASE source[s] # NoCredentials
        <4>1. \A t \in School : source[t] = source[s] => ~Active(t)
          BY <2>2, <3>2 DEF StartSchool, MayStart, Group, Active
        <4> QED BY <2>1, <3>2, <4>1 DEF SchoolsTakeTurns
      <3> QED BY <3>1, <3>2
    <2>3. CASE ~StartSchool(s)
      <3>1. Active(s)
        BY <1>1, <2>3 DEF SchoolStep, Discover, Discovered, Login, SnapshotTransfers,
          RequestExport, PollTransfers, Ship, PageFails, ScraperComplete, At, Active, Started, Done
      <3> QED BY <2>1, <3>1 DEF SchoolsTakeTurns
    <2> QED BY <2>2, <2>3
  <1>2. ASSUME NEW r \in Row, RowAppears(r) PROVE SchoolsTakeTurns'
    <2>1. source' = source /\ \A t \in School : job'[t].pc = job[t].pc
      BY <1>2, RowsFit DEF RowAppears
    <2> QED BY <2>1 DEF SchoolsTakeTurns, Active, Started, Done
  <1>3. CASE MainStep \/ UNCHANGED scraperVars
    <2>1. UNCHANGED <<job, source>>
      BY <1>3 DEF MainStep, Begin, BatchSummary, SendRunSummary, scraperVars
    <2> QED BY <2>1 DEF SchoolsTakeTurns, Active, Started, Done
  <1>4. ASSUME NEW a \in Assessment, Added(a) PROVE SchoolsTakeTurns'
    BY <1>4 DEF Added, Appears, SchoolsTakeTurns, Active, Started, Done
  <1> QED BY <1>1, <1>2, <1>3, <1>4 DEF ScraperNext

\* Schools that share an account are never worked on at the same time, and a school without
\* credentials is not worked on at all: what every export relies on when it tells its own
\* rows on the history page by their being new (the grouping of schools by identity).
THEOREM AccountsTakeTurns == ScraperSpec => []SchoolsTakeTurns
  <1> QED BY TypeInvHolds, TurnsInit, TurnsKept, PTL DEF ScraperSpec

\* Where closing, failing and going on leave the worker.
LEMMA ClosesJob ==
    ASSUME TypeInv, NEW s \in School, NEW l, Closes(s, l)
    PROVE  job'[s].pc = "done" /\ ledger'[s] = l
  BY DEF Closes, TypeInv, NoJob

LEMMA GoesJob ==
    ASSUME TypeInv, NEW s \in School, NEW pc, Goes(s, pc)
    PROVE  job'[s].pc = pc /\ job'[s] = [job[s] EXCEPT !.pc = pc]
  BY DEF Goes, TypeInv, Jobs

LEMMA AttemptFailsJob ==
    ASSUME TypeInv, NEW s \in School, AttemptFails(s)
    PROVE  \/ job'[s].pc = "discover"
           \/ job'[s].pc = "done" /\ ledger'[s] = Ledger("failed", FALSE, FALSE)
  <1>1. CASE Restarts(s)
    BY <1>1 DEF Restarts, TypeInv, NoJob
  <1>2. CASE Closes(s, Ledger("failed", FALSE, FALSE))
    BY <1>2, ClosesJob
  <1> QED BY <1>1, <1>2 DEF AttemptFails

(***************************************************************************)
(* Files are under their own assessments                                    *)
(***************************************************************************)
LEMMA RowsKeptOfOthers ==
    ASSUME TypeInv, SchoolsTakeTurns, RowsAreOwn, RowsMayOutrun = FALSE,
           NEW s \in School, SchoolStep(s), NEW t \in School, t # s, job[t].pc \in Exporting
    PROVE  Asked(t)' \subseteq Asked(t)
  <1>1. source' = source
    BY SchoolShared
  <1>2. CASE RequestExport(s)
    <2>1. job[s].cur \in Own(s) /\ Active(s) /\ Active(t)
      BY <1>2 DEF RequestExport, At, TypeInv, JobFits, Exporting, Active, Started, Done
    <2>2. source[s] # source[t]
      BY <2>1 DEF SchoolsTakeTurns
    <2>3. pending' \subseteq pending \cup Rows(job[s].cur)
      BY <1>2 DEF RequestExport
    <2>4. \A r \in Rows(job[s].cur) : source[SchoolOf[r.of]] = source[s]
      BY <2>1 DEF Rows, Own
    <2> QED BY <1>1, <2>2, <2>3, <2>4 DEF Asked
  <1>3. CASE ~RequestExport(s)
    <2>1. pending' \subseteq pending
      BY <1>3 DEF SchoolStep, StartSchool, Discover, Discovered, Login, SnapshotTransfers,
        PollTransfers, Ship, PageFails, ScraperComplete
    <2> QED BY <1>1, <2>1 DEF Asked
  <1> QED BY <1>2, <1>3

LEMMA RowsKept ==
    ASSUME TypeInv, SchoolsTakeTurns, RowsAreOwn, RowsMayOutrun = FALSE,
           [ScraperNext]_scraperVars
    PROVE  RowsAreOwn'
  <1>1. ASSUME NEW s \in School, SchoolStep(s) PROVE RowsAreOwn'
    <2>0. source' = source /\ JobFits(s, job[s]) /\ job[s] \in Jobs
      BY <1>1, SchoolShared DEF TypeInv
    <2>1. ASSUME NEW t \in School, t # s, job'[t].pc \in Exporting
          PROVE  \A r \in job'[t].new \cup job'[t].fresh \cup Asked(t)' : r.of = job'[t].cur
      <3>1. job'[t] = job[t]
        BY <1>1, <2>1, OthersStay
      <3>2. Asked(t)' \subseteq Asked(t)
        BY <1>1, <2>1, <3>1, RowsKeptOfOthers
      <3> QED BY <2>1, <3>1, <3>2 DEF RowsAreOwn
    <2>2. ASSUME job'[s].pc \in Exporting
          PROVE  \A r \in job'[s].new \cup job'[s].fresh \cup Asked(s)' : r.of = job'[s].cur
      <3>1. CASE SnapshotTransfers(s)
        <4>1. PICK a \in job[s].todo :
                job' = [job EXCEPT ![s].pc = "ask", ![s].cur = a, ![s].todo = @ \ {a}, ![s].new = {}]
          BY <3>1 DEF SnapshotTransfers
        <4>2. job'[s] = [job[s] EXCEPT !.pc = "ask", !.cur = a, !.todo = @ \ {a}, !.new = {}]
          BY <4>1 DEF TypeInv
        <4>3. job'[s].new = {} /\ job'[s].fresh = {}
          BY <2>0, <3>1, <4>2 DEF SnapshotTransfers, At, JobFits, Jobs
        <4>4. Asked(s)' = {}
          BY <2>0, <3>1 DEF SnapshotTransfers, Asked
        <4> QED BY <4>3, <4>4
      <3>2. CASE RequestExport(s)
        <4>1. CASE \E p \in BOOLEAN : Onwards(s, p)
          <5>1. job'[s].pc = "next"
            BY <4>1 DEF Onwards, TypeInv, Jobs
          <5> QED BY <2>2, <5>1 DEF Exporting
        <4>2. CASE Goes(s, "wait") /\ pending' = pending \cup Rows(job[s].cur)
          <5>1. job'[s] = [job[s] EXCEPT !.pc = "wait"] /\ job[s].pc \in Exporting
            BY <3>2, <4>2 DEF Goes, TypeInv, RequestExport, At, Exporting
          <5>2. \A r \in Rows(job[s].cur) : r.of = job[s].cur
            BY DEF Rows
          <5> QED BY <2>0, <4>2, <5>1, <5>2 DEF RowsAreOwn, Asked, Jobs
        <4> QED BY <3>2, <4>1, <4>2 DEF RequestExport
      <3>3. CASE PollTransfers(s)
        <4>1. PICK calm, pc, n : job' = [job EXCEPT ![s].fresh = job[s].new, ![s].calm = calm,
                                            ![s].polls = n, ![s].pc = pc]
          BY <3>3 DEF PollTransfers
        <4>2. job'[s] = [job[s] EXCEPT !.fresh = job[s].new, !.calm = calm, !.polls = n, !.pc = pc]
          BY <4>1 DEF TypeInv
        <4>3. /\ job'[s].fresh = job[s].new /\ job'[s].new = job[s].new
              /\ job'[s].cur = job[s].cur
          BY <2>0, <4>2 DEF Jobs
        <4>4. Asked(s)' = Asked(s) /\ job[s].pc \in Exporting
          BY <2>0, <3>3 DEF PollTransfers, Asked, At, Exporting
        <4> QED BY <4>3, <4>4 DEF RowsAreOwn
      <3>4. CASE Ship(s)
        <4>1. job'[s].pc = "next"
          BY <3>4 DEF Ship, TypeInv, NoJob
        <4> QED BY <2>2, <4>1 DEF Exporting
      <3>5. CASE Discover(s)
        BY <2>2, <3>5 DEF Discover, At, Exporting
      <3>6. CASE StartSchool(s) \/ Discovered(s) \/ Login(s) \/ PageFails(s) \/ ScraperComplete(s)
        <4>1. \/ \E l : Closes(s, l)
              \/ AttemptFails(s)
              \/ \E pc \in {"discover", "next"} : Goes(s, pc)
              \/ job' = [job EXCEPT ![s].pc = "login", ![s].todo = walk[s].found]
          BY <3>6 DEF StartSchool, Discovered, Login, PageFails, ScraperComplete
        <4>2. job'[s].pc \in {"done", "discover", "next", "login"}
          <5>1. CASE job' = [job EXCEPT ![s].pc = "login", ![s].todo = walk[s].found]
            BY <2>0, <5>1 DEF TypeInv, Jobs
          <5> QED BY <4>1, <5>1, ClosesJob, GoesJob, AttemptFailsJob
        <4> QED BY <2>2, <4>2 DEF Exporting
      <3> QED BY <1>1, <3>1, <3>2, <3>3, <3>4, <3>5, <3>6 DEF SchoolStep
    <2> QED BY <2>1, <2>2 DEF RowsAreOwn
  <1>2. ASSUME NEW r \in Row, RowAppears(r) PROVE RowsAreOwn'
    <2>1. ASSUME NEW t \in School, job'[t].pc \in Exporting
          PROVE  \A x \in job'[t].new \cup job'[t].fresh \cup Asked(t)' : x.of = job'[t].cur
      <3>1. job[t].pc \in Exporting /\ job'[t].cur = job[t].cur /\ job'[t].fresh = job[t].fresh
        BY <1>2, <2>1, RowsFit
      <3>2. Asked(t)' \subseteq Asked(t)
        BY <1>2 DEF RowAppears, Asked
      <3>3. job[t] \in Jobs
        BY DEF TypeInv
      <3>4. job'[t].new \subseteq job[t].new \cup Asked(t)
        BY <1>2, <3>3 DEF RowAppears, Asked, Jobs
      <3> QED BY <3>1, <3>2, <3>4 DEF RowsAreOwn
    <2> QED BY <2>1 DEF RowsAreOwn
  <1>3. CASE MainStep \/ UNCHANGED scraperVars
    <2>1. UNCHANGED <<job, source, pending>>
      BY <1>3 DEF MainStep, Begin, BatchSummary, SendRunSummary, scraperVars
    <2> QED BY <2>1 DEF RowsAreOwn, Asked
  <1>4. ASSUME NEW a \in Assessment, Added(a) PROVE RowsAreOwn'
    BY <1>4 DEF Added, Appears, RowsAreOwn, Asked
  <1> QED BY <1>1, <1>2, <1>3, <1>4 DEF ScraperNext

LEMMA FiledKept ==
    ASSUME TypeInv, RowsAreOwn, FiledUnderItsAssessment, [ScraperNext]_scraperVars
    PROVE  FiledUnderItsAssessment'
  <1>1. ASSUME NEW s \in School, Ship(s) PROVE FiledUnderItsAssessment'
    <2>1. \A r \in job[s].fresh : r.of = job[s].cur
      BY <1>1 DEF RowsAreOwn, Ship, At, Exporting
    <2>2. PICK ok \in SUBSET job[s].fresh :
            bucket' = bucket \cup {[at |-> job[s].cur, of |-> r.of, file |-> r.file] : r \in ok}
      BY <1>1 DEF Ship
    <2> QED BY <2>1, <2>2 DEF FiledUnderItsAssessment
  <1>2. CASE UNCHANGED bucket
    BY <1>2 DEF FiledUnderItsAssessment
  <1>3. (\E s \in School : Ship(s)) \/ UNCHANGED bucket
    BY DEF ScraperNext, SchoolStep, MainStep, Begin, BatchSummary, SendRunSummary, scraperVars,
      RowAppears, StartSchool, Discover, Discovered, Login, SnapshotTransfers, RequestExport,
      PollTransfers, PageFails, ScraperComplete, Added
  <1> QED BY <1>1, <1>2, <1>3

LEMMA FiledInv ==
    RowsMayOutrun = FALSE /\ ScraperSpec =>
      [](TypeInv /\ SchoolsTakeTurns /\ RowsAreOwn /\ FiledUnderItsAssessment)
  <1> SUFFICES ASSUME RowsMayOutrun = FALSE
               PROVE  ScraperSpec =>
                 [](TypeInv /\ SchoolsTakeTurns /\ RowsAreOwn /\ FiledUnderItsAssessment)
    OBVIOUS
  <1>1. ScraperInit => RowsAreOwn /\ FiledUnderItsAssessment
    BY DEF ScraperInit, RowsAreOwn, FiledUnderItsAssessment, NoJob, Exporting
  <1>2. /\ TypeInv /\ SchoolsTakeTurns /\ RowsAreOwn
        /\ FiledUnderItsAssessment /\ [ScraperNext]_scraperVars
        => RowsAreOwn' /\ FiledUnderItsAssessment'
    BY RowsKept, FiledKept
  <1> QED BY <1>1, <1>2, TypeInvHolds, AccountsTakeTurns, PTL DEF ScraperSpec

\* When the rows of an export that was given up do not outrun the next look at the page,
\* every file in the bucket is stored under the assessment it was exported from.
THEOREM FilesAreUnderTheirAssessment ==
    RowsMayOutrun = FALSE /\ ScraperSpec => []FiledUnderItsAssessment
  <1> QED BY FiledInv, PTL

(***************************************************************************)
(* A run that exits 0 has shipped everything                                *)
(***************************************************************************)
LEMMA FoundIsOwn ==
    ASSUME TypeInv, NEW s \in School
    PROVE  walk[s].found \subseteq Own(s) /\ Nothing \notin walk[s].found
  BY ExportAssumption DEF TypeInv, WalkFits, Own

LEMMA StoredStays ==
    ASSUME bucket \subseteq bucket' PROVE Stored \subseteq Stored'
  BY DEF Stored

LEMMA ShipShips ==
    ASSUME TypeInv, RowsAreOwn, ShipsInOrder, NEW s \in School, Ship(s)
    PROVE  ShipsAt(s)'
  <1> DEFINE j == job[s]
  <1>1. PICK got \in SUBSET j.fresh : \E ok \in SUBSET {r \in got : r.file \in Wanted} :
          /\ bucket' = bucket \cup {[at |-> j.cur, of |-> r.of, file |-> r.file] : r \in ok}
          /\ job' = [job EXCEPT ![s] = [NoJob EXCEPT !.pc = "next", !.attempt = j.attempt,
               !.todo = j.todo, !.up = j.up \/ ok # {},
               !.errs = j.errs \/ ok # {r \in got : r.file \in Wanted},
               !.partial = j.partial \/ {r.file : r \in {x \in got : x.file \in Wanted}} # Wanted]]
    BY DEF Ship
  <1> DEFINE wanted == {r \in got : r.file \in Wanted}
  <1>2. PICK ok \in SUBSET wanted :
          /\ bucket' = bucket \cup {[at |-> j.cur, of |-> r.of, file |-> r.file] : r \in ok}
          /\ job' = [job EXCEPT ![s] = [NoJob EXCEPT !.pc = "next", !.attempt = j.attempt,
               !.todo = j.todo, !.up = j.up \/ ok # {}, !.errs = j.errs \/ ok # wanted,
               !.partial = j.partial \/ {r.file : r \in wanted} # Wanted]]
    BY <1>1
  <1>3. /\ job'[s].pc = "next" /\ job'[s].todo = j.todo /\ job'[s].up = (j.up \/ ok # {})
        /\ job'[s].errs = (j.errs \/ ok # wanted) /\ job'[s].cur = Nothing
        /\ job'[s].partial = (j.partial \/ {r.file : r \in wanted} # Wanted)
    BY <1>2 DEF TypeInv, NoJob
  <1>4. /\ walk' = walk /\ j.pc = "files" /\ bucket \subseteq bucket'
        /\ \A r \in j.fresh : r.of = j.cur
    BY <1>2 DEF Ship, At, RowsAreOwn, Exporting
  <1> HIDE DEF wanted, j
  <1>5. ASSUME ~job'[s].partial, ~job'[s].errs,
               NEW a \in walk[s].found \ Unsubmitted, a \notin j.todo
        PROVE  a \in Stored' /\ (Wanted # {} => job'[s].up)
    <2>1. ok = wanted /\ {r.file : r \in wanted} = Wanted /\ ~j.partial /\ ~j.errs
      BY <1>3, <1>5
    <2>2. CASE a # j.cur
      <3>1. a \in Stored /\ (Wanted # {} => j.up)
        BY <1>4, <1>5, <2>1, <2>2 DEF ShipsInOrder, ShipsAt, Exporting, j
      <3> QED BY <1>3, <1>4, <3>1, StoredStays
    <2>3. CASE a = j.cur
      <3>1. ASSUME NEW f \in Wanted PROVE [at |-> a, of |-> a, file |-> f] \in bucket'
        <4>1. PICK r \in wanted : r.file = f
          BY <2>1
        <4>2. r.of = j.cur
          BY <1>1, <1>4, <4>1 DEF wanted
        <4> QED BY <1>2, <2>1, <2>3, <4>1, <4>2
      <3>2. Wanted # {} => ok # {}
        BY <2>1
      <3>3. a \in Assessment
        BY FoundIsOwn DEF Own
      <3> QED BY <1>3, <3>1, <3>2, <3>3 DEF Stored
    <2> QED BY <2>2, <2>3
  <1> QED BY <1>3, <1>4, <1>5 DEF ShipsAt

LEMMA ShipsKept ==
    ASSUME TypeInv, RowsAreOwn, ShipsInOrder, [ScraperNext]_scraperVars
    PROVE  ShipsInOrder'
  <1>0. ShipsInOrder <=> \A s \in School : ShipsAt(s)
    BY DEF ShipsInOrder
  <1>00. (ShipsInOrder <=> \A s \in School : ShipsAt(s))'
    BY DEF ShipsInOrder
  <1>1. ASSUME NEW s \in School, SchoolStep(s) PROVE ShipsInOrder'
    <2>0. /\ JobFits(s, job[s]) /\ job[s] \in Jobs /\ bucket \subseteq bucket'
          /\ walk[s].found \subseteq Own(s) /\ Nothing \notin walk[s].found
      BY <1>1, SchoolShared, FoundIsOwn DEF TypeInv
    <2>1. ASSUME NEW t \in School, t # s PROVE ShipsAt(t)'
      <3>1. job'[t] = job[t] /\ walk'[t] = walk[t]
        BY <1>1, <2>1, OthersStay
      <3> QED BY <1>0, <2>0, <3>1, StoredStays DEF ShipsAt
    <2>2. ASSUME job'[s].pc \in {"discover", "done"} PROVE ShipsAt(s)'
      BY <2>2 DEF ShipsAt, Exporting
    <2>3. ASSUME SnapshotTransfers(s) PROVE ShipsAt(s)'
      <3>1. PICK a \in job[s].todo :
              job' = [job EXCEPT ![s].pc = "ask", ![s].cur = a, ![s].todo = @ \ {a}, ![s].new = {}]
        BY <2>3 DEF SnapshotTransfers
      <3>2. job'[s] = [job[s] EXCEPT !.pc = "ask", !.cur = a, !.todo = @ \ {a}, !.new = {}]
        BY <3>1 DEF TypeInv
      <3>3. /\ job'[s].pc = "ask" /\ job'[s].cur = a /\ job'[s].todo = job[s].todo \ {a}
            /\ job'[s].partial = job[s].partial /\ job'[s].errs = job[s].errs
            /\ job'[s].up = job[s].up
        BY <2>0, <3>2 DEF Jobs
      <3>4. job[s].pc = "next" /\ job[s].cur = Nothing /\ walk' = walk
        BY <2>0, <2>3 DEF SnapshotTransfers, At, JobFits, Exporting
      <3> QED BY <1>0, <2>0, <3>3, <3>4, StoredStays DEF ShipsAt
    <2>4. ASSUME RequestExport(s) PROVE ShipsAt(s)'
      <3>0. walk' = walk /\ job[s].pc = "ask"
        BY <2>4 DEF RequestExport, At
      <3>1. ASSUME NEW p \in BOOLEAN, Onwards(s, p), p \/ job[s].cur \in Unsubmitted
            PROVE  ShipsAt(s)'
        <4>1. job'[s] = [job[s] EXCEPT !.pc = "next", !.cur = Nothing, !.new = {}, !.fresh = {},
                           !.polls = 0, !.calm = FALSE, !.partial = @ \/ p]
          BY <3>1 DEF Onwards, TypeInv
        <4>2. /\ job'[s].pc = "next" /\ job'[s].todo = job[s].todo /\ job'[s].cur = Nothing
              /\ job'[s].partial = (job[s].partial \/ p) /\ job'[s].errs = job[s].errs
              /\ job'[s].up = job[s].up
          BY <2>0, <4>1 DEF Jobs
        <4> QED BY <1>0, <2>0, <3>0, <3>1, <4>2, StoredStays DEF ShipsAt, Exporting
      <3>2. CASE Goes(s, "wait")
        <4>1. job'[s] = [job[s] EXCEPT !.pc = "wait"]
          BY <3>2 DEF Goes, TypeInv
        <4>2. /\ job'[s].pc = "wait" /\ job'[s].todo = job[s].todo /\ job'[s].cur = job[s].cur
              /\ job'[s].partial = job[s].partial /\ job'[s].errs = job[s].errs
              /\ job'[s].up = job[s].up
          BY <2>0, <4>1 DEF Jobs
        <4> QED BY <1>0, <2>0, <3>0, <4>2, StoredStays DEF ShipsAt, Exporting
      <3> QED BY <2>4, <3>1, <3>2 DEF RequestExport
    <2>5. ASSUME PollTransfers(s) PROVE ShipsAt(s)'
      <3>1. PICK calm, n : \E pc \in {"wait", "files"} :
              job' = [job EXCEPT ![s].fresh = job[s].new, ![s].calm = calm,
                                 ![s].polls = n, ![s].pc = pc]
        BY <2>5 DEF PollTransfers
      <3>2. PICK pc \in {"wait", "files"} :
              job'[s] = [job[s] EXCEPT !.fresh = job[s].new, !.calm = calm, !.polls = n, !.pc = pc]
        BY <3>1 DEF TypeInv
      <3>3. /\ job'[s].pc = pc /\ job'[s].todo = job[s].todo /\ job'[s].cur = job[s].cur
            /\ job'[s].partial = job[s].partial /\ job'[s].errs = job[s].errs
            /\ job'[s].up = job[s].up
        BY <2>0, <3>2 DEF Jobs
      <3>4. walk' = walk /\ job[s].pc = "wait"
        BY <2>5 DEF PollTransfers, At
      <3> QED BY <1>0, <2>0, <3>3, <3>4, StoredStays DEF ShipsAt, Exporting
    <2>6. ASSUME Ship(s) PROVE ShipsAt(s)'
      BY <2>6, ShipShips
    <2>7. ASSUME job' = [job EXCEPT ![s].pc = "login", ![s].todo = walk[s].found], Leaves(s)
          PROVE  ShipsAt(s)'
      <3>1. job'[s] = [job[s] EXCEPT !.pc = "login", !.todo = walk[s].found]
        BY <2>7 DEF TypeInv
      <3>2. job'[s].pc = "login" /\ job'[s].todo = walk[s].found
        BY <2>0, <3>1 DEF Jobs
      <3>3. walk'[s].found = walk[s].found
        BY <2>7, LeavesFits
      <3> QED BY <3>2, <3>3 DEF ShipsAt, Exporting
    <2>8. ASSUME Login(s), Goes(s, "next"), UNCHANGED walk PROVE ShipsAt(s)'
      <3>1. job'[s] = [job[s] EXCEPT !.pc = "next"]
        BY <2>8 DEF Goes, TypeInv
      <3>2. job'[s].pc = "next" /\ job'[s].todo = job[s].todo
        BY <2>0, <3>1 DEF Jobs
      <3>3. job[s].pc = "login"
        BY <2>8 DEF Login, At
      <3>4. \A a \in walk'[s].found : a \in job'[s].todo
        BY <1>0, <2>8, <3>2, <3>3 DEF ShipsAt
      <3> QED BY <3>2, <3>4 DEF ShipsAt
    <2>9. ASSUME Discover(s) PROVE ShipsAt(s)'
      <3>1. job' = job /\ job[s].pc = "discover"
        BY <2>9 DEF Discover, At
      <3> QED BY <3>1, <2>2
    <2>10. ASSUME AttemptFails(s) \/ Goes(s, "discover") \/ \E l : Closes(s, l)
           PROVE  ShipsAt(s)'
      <3>1. CASE \E l : Closes(s, l)
        <4>1. PICK l : Closes(s, l)
          BY <3>1
        <4> QED BY <2>2, <4>1, ClosesJob
      <3>2. CASE Goes(s, "discover")
        BY <2>2, <3>2, GoesJob
      <3>3. CASE AttemptFails(s)
        BY <2>2, <3>3, AttemptFailsJob
      <3> QED BY <2>10, <3>1, <3>2, <3>3
    <2>11. \/ SnapshotTransfers(s) \/ RequestExport(s) \/ PollTransfers(s) \/ Ship(s) \/ Discover(s)
           \/ job' = [job EXCEPT ![s].pc = "login", ![s].todo = walk[s].found]
                /\ Leaves(s)
           \/ Login(s) /\ Goes(s, "next") /\ UNCHANGED walk
           \/ AttemptFails(s) \/ Goes(s, "discover") \/ \E l : Closes(s, l)
      BY <1>1 DEF SchoolStep, StartSchool, Discovered, Login, PageFails, ScraperComplete
    <2> QED BY <1>00, <2>1, <2>3, <2>4, <2>5, <2>6, <2>7, <2>8, <2>9, <2>10, <2>11
  <1>2. ASSUME NEW r \in Row, RowAppears(r) PROVE ShipsInOrder'
    <2>1. /\ walk' = walk /\ bucket' = bucket
          /\ \A t \in School : job'[t].pc = job[t].pc /\ job'[t].cur = job[t].cur
               /\ job'[t].todo = job[t].todo /\ job'[t].up = job[t].up
               /\ job'[t].errs = job[t].errs /\ job'[t].partial = job[t].partial
      BY <1>2, RowsFit DEF RowAppears
    <2> QED BY <2>1 DEF ShipsInOrder, ShipsAt, Stored
  <1>3. CASE MainStep \/ UNCHANGED scraperVars
    <2>1. UNCHANGED <<job, walk, bucket>>
      BY <1>3 DEF MainStep, Begin, BatchSummary, SendRunSummary, scraperVars
    <2> QED BY <2>1 DEF ShipsInOrder, ShipsAt, Stored
  <1>4. ASSUME NEW a \in Assessment, Added(a) PROVE ShipsInOrder'
    <2>1. UNCHANGED <<job, bucket>> /\ \A t \in School : walk'[t].found = walk[t].found
      BY <1>4, AppearsKept DEF Added
    <2> QED BY <2>1 DEF ShipsInOrder, ShipsAt, Stored
  <1> QED BY <1>1, <1>2, <1>3, <1>4 DEF ScraperNext

LEMMA ReportedStays ==
    ASSUME told \subseteq told' PROVE Reported \subseteq Reported'
  BY DEF Reported

LEMMA CompleteCloses ==
    ASSUME TypeInv, ShipsInOrder, NEW s \in School, ScraperComplete(s) PROVE ClosedAt(s)'
  <1>0. /\ job[s].pc = "next" /\ job[s].todo = {} /\ job[s] \in Jobs /\ job[s].cur = Nothing
        /\ walk[s].found \subseteq Own(s) /\ Nothing \notin walk[s].found
    BY FoundIsOwn DEF ScraperComplete, At, TypeInv, JobFits, Exporting
  <1>1. CASE AttemptFails(s)
    BY <1>1, AttemptFailsJob DEF ClosedAt, Done, Ledger
  <1>2. CASE /\ job[s].up /\ told' = told \cup {o \in bucket : SchoolOf[o.at] = s}
             /\ Closes(s, Ledger("ok", TRUE, job[s].errs \/ job[s].partial)) /\ UNCHANGED walk
    <2>1. ledger'[s] = Ledger("ok", TRUE, job[s].errs \/ job[s].partial)
      BY <1>2, ClosesJob
    <2>2. ASSUME ~job[s].errs, ~job[s].partial
          PROVE  walk[s].found \ Unsubmitted \subseteq Reported'
      <3>1. walk[s].found \ Unsubmitted \subseteq Stored
        BY <1>0, <2>2 DEF ShipsInOrder, ShipsAt
      <3>2. \A a \in Own(s), f \in Wanted : [at |-> a, of |-> a, file |-> f] \in bucket
              => [at |-> a, of |-> a, file |-> f] \in told'
        BY <1>2 DEF Own
      <3>3. ASSUME NEW a \in walk[s].found \ Unsubmitted PROVE a \in Reported'
        <4>1. a \in Own(s) /\ a \in Assessment
          BY <1>0 DEF Own
        <4>2. \A f \in Wanted : [at |-> a, of |-> a, file |-> f] \in bucket
          BY <3>1 DEF Stored
        <4>3. \A f \in Wanted : [at |-> a, of |-> a, file |-> f] \in told'
          BY <3>2, <4>1, <4>2
        <4> QED BY <4>1, <4>3 DEF Reported
      <3> QED BY <3>3
    <2>3. /\ ledger'[s].partial = (job[s].errs \/ job[s].partial) /\ ledger'[s].status = "ok"
          /\ walk' = walk
      BY <1>2, <2>1 DEF Ledger
    <2> QED BY <2>2, <2>3 DEF ClosedAt
  <1>3. CASE ~job[s].up /\ Closes(s, Ledger("ok", FALSE, job[s].partial)) /\ UNCHANGED walk
             /\ ~job[s].errs
    <2>1. ledger'[s] = Ledger("ok", FALSE, job[s].partial)
      BY <1>3, ClosesJob
    <2>2. ASSUME ~job[s].partial
          PROVE  walk[s].found \ Unsubmitted \subseteq Reported'
      <3>1. \A a \in walk[s].found \ Unsubmitted : Wanted = {}
        BY <1>0, <1>3, <2>2 DEF ShipsInOrder, ShipsAt
      <3> QED BY <1>0, <3>1 DEF Reported, Own
    <2> QED BY <1>3, <2>1, <2>2 DEF ClosedAt, Ledger
  <1> QED BY <1>1, <1>2, <1>3 DEF ScraperComplete

LEMMA ClosedKept ==
    ASSUME TypeInv, ShipsInOrder, ClosedIsReported, [ScraperNext]_scraperVars
    PROVE  ClosedIsReported'
  <1>0. ClosedIsReported <=> \A s \in School : ClosedAt(s)
    BY DEF ClosedIsReported
  <1>00. (ClosedIsReported <=> \A s \in School : ClosedAt(s))'
    BY DEF ClosedIsReported
  <1>1. ASSUME NEW s \in School, SchoolStep(s) PROVE ClosedIsReported'
    <2>1. ASSUME NEW t \in School, t # s PROVE ClosedAt(t)'
      <3>1. job'[t] = job[t] /\ walk'[t] = walk[t] /\ ledger'[t] = ledger[t]
        BY <1>1, <2>1, OthersStay
      <3>2. Reported \subseteq Reported'
        BY <1>1, SchoolShared, ReportedStays
      <3> QED BY <1>0, <3>1, <3>2 DEF ClosedAt, Done
    <2>2. ASSUME NEW pc, Goes(s, pc), pc # "done" PROVE ClosedAt(s)'
      BY <2>2, GoesJob DEF ClosedAt, Done
    <2>3. ASSUME NEW l, Closes(s, l), l.status = "failed" PROVE ClosedAt(s)'
      BY <2>3, ClosesJob DEF ClosedAt
    <2>4. ASSUME AttemptFails(s) PROVE ClosedAt(s)'
      BY <2>4, AttemptFailsJob DEF ClosedAt, Done, Ledger
    <2>5. Ledger("failed", FALSE, FALSE).status = "failed"
      BY DEF Ledger
    <2>6. ASSUME StartSchool(s) PROVE ClosedAt(s)'
      <3>1. CASE Closes(s, Ledger("failed", FALSE, FALSE))
        BY <2>3, <2>5, <3>1
      <3>2. CASE Goes(s, "discover")
        BY <2>2, <3>2
      <3> QED BY <2>6, <3>1, <3>2 DEF StartSchool
    <2>7. ASSUME Discovered(s) PROVE ClosedAt(s)'
      <3>1. CASE walk[s].found = {} /\ Closes(s, Ledger("ok", FALSE, FALSE)) /\ Leaves(s)
        BY <3>1, ClosesJob, LeavesFits DEF ClosedAt, Ledger
      <3>2. CASE job' = [job EXCEPT ![s].pc = "login", ![s].todo = walk[s].found]
        <4>1. job'[s].pc = "login"
          BY <3>2 DEF TypeInv, Jobs
        <4> QED BY <4>1 DEF ClosedAt, Done
      <3>3. CASE Closes(s, Ledger("failed", FALSE, FALSE))
        BY <2>3, <2>5, <3>3
      <3> QED BY <2>4, <2>7, <3>1, <3>2, <3>3 DEF Discovered
    <2>8. ASSUME Login(s) PROVE ClosedAt(s)'
      <3>1. CASE Goes(s, "next")
        BY <2>2, <3>1
      <3>2. CASE Closes(s, Ledger("failed", FALSE, FALSE))
        BY <2>3, <2>5, <3>2
      <3> QED BY <2>4, <2>8, <3>1, <3>2 DEF Login
    <2>9. ASSUME Discover(s) PROVE ClosedAt(s)'
      BY <2>9 DEF Discover, At, ClosedAt, Done
    <2>10. ASSUME SnapshotTransfers(s) \/ RequestExport(s) \/ PollTransfers(s) \/ Ship(s)
           PROVE  ClosedAt(s)'
      <3>1. job'[s].pc # "done"
        <4>2. CASE SnapshotTransfers(s)
          BY <4>2 DEF SnapshotTransfers, TypeInv, Jobs
        <4>3. CASE RequestExport(s)
          BY <4>3 DEF RequestExport, Onwards, Goes, TypeInv, Jobs
        <4>4. CASE PollTransfers(s)
          BY <4>4 DEF PollTransfers, TypeInv, Jobs
        <4>5. CASE Ship(s)
          BY <4>5 DEF Ship, TypeInv, NoJob
        <4> QED BY <2>10, <4>2, <4>3, <4>4, <4>5
      <3> QED BY <3>1 DEF ClosedAt, Done
    <2>11. ASSUME PageFails(s) PROVE ClosedAt(s)'
      BY <2>4, <2>11 DEF PageFails
    <2>12. ClosedAt(s)'
      BY <1>1, <2>6, <2>7, <2>8, <2>9, <2>10, <2>11, CompleteCloses DEF SchoolStep
    <2> QED BY <1>00, <2>1, <2>12
  <1>2. ASSUME NEW r \in Row, RowAppears(r) PROVE ClosedIsReported'
    <2>1. UNCHANGED <<walk, ledger, told>> /\ \A t \in School : job'[t].pc = job[t].pc
      BY <1>2, RowsFit DEF RowAppears
    <2> QED BY <2>1 DEF ClosedIsReported, ClosedAt, Done, Reported
  <1>3. CASE MainStep \/ UNCHANGED scraperVars
    <2>1. UNCHANGED <<job, walk, ledger, told>>
      BY <1>3 DEF MainStep, Begin, BatchSummary, SendRunSummary, scraperVars
    <2> QED BY <2>1 DEF ClosedIsReported, ClosedAt, Done, Reported
  <1>4. ASSUME NEW a \in Assessment, Added(a) PROVE ClosedIsReported'
    <2>1. UNCHANGED <<job, ledger, told>> /\ \A t \in School : walk'[t].found = walk[t].found
      BY <1>4, AppearsKept DEF Added
    <2> QED BY <2>1 DEF ClosedIsReported, ClosedAt, Done, Reported
  <1> QED BY <1>1, <1>2, <1>3, <1>4 DEF ScraperNext

LEMMA ZeroKept ==
    ASSUME TypeInv, ClosedIsReported, ZeroIsGood, [ScraperNext]_scraperVars
    PROVE  ZeroIsGood'
  <1>1. ASSUME NEW s \in School, SchoolStep(s) PROVE ZeroIsGood'
    BY <1>1, OthersStay, SchoolShared DEF ZeroIsGood
  <1>2. ASSUME NEW r \in Row, RowAppears(r) PROVE ZeroIsGood'
    <2>1. UNCHANGED <<main, ledger>> /\ \A t \in School : job'[t].pc = job[t].pc
      BY <1>2, RowsFit DEF RowAppears
    <2> QED BY <2>1 DEF ZeroIsGood, Done
  <1>3. CASE Begin
    <2>1. main'.exit = 1 \/ main'.pc = "running"
      BY <1>3 DEF Begin, TypeInv, Mains
    <2> QED BY <2>1 DEF ZeroIsGood
  <1>4. CASE BatchSummary
    <2>1. UNCHANGED <<job, ledger>> /\ (main'.exit = 0 => Green) /\ \A s \in School : Done(s)
      BY <1>4 DEF BatchSummary, TypeInv, Mains
    <2>2. ASSUME Green, NEW s \in School PROVE ledger[s].status = "ok" /\ ~ledger[s].partial
      <3>1. ledger[s].status # "failed" /\ ~ledger[s].partial
        BY <2>2 DEF Green, OverallStatus
      <3>2. ledger[s].status # "none"
        BY <2>1 DEF ClosedIsReported, ClosedAt
      <3> QED BY <3>1, <3>2 DEF TypeInv, Outcome
    <2> QED BY <2>1, <2>2 DEF ZeroIsGood, Done
  <1>5. CASE SendRunSummary
    <2>1. UNCHANGED <<job, ledger>> /\ main'.exit = main.exit /\ main.pc = "over"
      BY <1>5 DEF SendRunSummary, TypeInv, Mains
    <2> QED BY <2>1 DEF ZeroIsGood, Done
  <1>6. CASE UNCHANGED scraperVars
    BY <1>6 DEF scraperVars, ZeroIsGood, Done
  <1>7. ASSUME NEW a \in Assessment, Added(a) PROVE ZeroIsGood'
    BY <1>7 DEF Added, ZeroIsGood, Done
  <1> QED BY <1>1, <1>2, <1>3, <1>4, <1>5, <1>6, <1>7 DEF ScraperNext, MainStep

LEMMA ExportInvHolds == RowsMayOutrun = FALSE /\ ScraperSpec => [](TypeInv /\ ExportInv)
  <1> SUFFICES ASSUME RowsMayOutrun = FALSE PROVE ScraperSpec => [](TypeInv /\ ExportInv)
    OBVIOUS
  <1>1. ASSUME ScraperInit PROVE ExportInv
    <2>1. \A s \in School : job[s].pc = "waiting"
      BY <1>1 DEF ScraperInit, NoJob
    <2>2. main.pc = "start" /\ bucket = {}
      BY <1>1 DEF ScraperInit
    <2> QED BY <2>1, <2>2 DEF ExportInv, RowsAreOwn, FiledUnderItsAssessment, ShipsInOrder, ShipsAt,
              ClosedIsReported, ClosedAt, ZeroIsGood, Exporting, Done
  <1>2. TypeInv /\ SchoolsTakeTurns /\ ExportInv /\ [ScraperNext]_scraperVars => ExportInv'
    BY RowsKept, FiledKept, ShipsKept, ClosedKept, ZeroKept DEF ExportInv
  <1> QED BY <1>1, <1>2, TypeInvHolds, AccountsTakeTurns, PTL DEF ScraperSpec

\* When the rows of an export that was given up do not outrun the next look at the page, a
\* run that exits 0 has put every wanted file of every assessment it found, of every school,
\* into the bucket, and told the backend of it afterwards.
THEOREM GreenRunsHaveShipped ==
    RowsMayOutrun = FALSE /\ ScraperSpec => []GreenIsShipped
  <1>1. TypeInv /\ ExportInv => GreenIsShipped
    <2> SUFFICES ASSUME TypeInv, ExportInv, main.pc \in {"over", "mailed"}, main.exit = 0,
                        NEW s \in School, NEW a \in walk[s].found \ Unsubmitted, NEW f \in Wanted
                 PROVE  [at |-> a, of |-> a, file |-> f] \in told
      BY DEF GreenIsShipped
    <2>1. Done(s) /\ ledger[s].status = "ok" /\ ~ledger[s].partial
      BY DEF ExportInv, ZeroIsGood
    <2>2. a \in Reported
      BY <2>1 DEF ExportInv, ClosedIsReported, ClosedAt
    <2> QED BY <2>2 DEF Reported
  <1> QED BY <1>1, ExportInvHolds, PTL
=============================================================================

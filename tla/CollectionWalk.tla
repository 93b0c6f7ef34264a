--------------------------- MODULE CollectionWalk ---------------------------
(* How the scraper reads what a school has to export.  Schoology serves a   *)
(* collection in pages, each with a link to the next one.  The links drop   *)
(* the building filter, may repeat a page or leave one out, and only some   *)
(* collections state their total; the walk returns everything or throws.    *)
(* The nested walks over courses, sections, categories and assignments are  *)
(* one walk here, over the assessments that pass the filters of discovery.  *)
(* Assessments may be added while a walk is under way.                      *)
EXTENDS Naturals, FiniteSets

CONSTANTS
  School, Assessment,
  SchoolOf,    \* the school whose building each assessment is in
  PageOf,      \* the page of the listing it is on at first, 0 if it is not there yet
  LastPage,    \* pages of a listing
  MaxPages     \* MAX_PAGES

ASSUME ListingAssumption ==
  /\ SchoolOf \in [Assessment -> School]
  /\ LastPage \in Nat \ {0} /\ PageOf \in [Assessment -> 0..LastPage]
  /\ MaxPages \in Nat /\ IsFiniteSet(Assessment)

VARIABLES
  source,      \* the credentials each school resolves to
  page,        \* the page each assessment is on
  walk         \* the walk of each school

Url == [page : 1..LastPage, scoped : BOOLEAN]
Own(s) == {a \in Assessment : SchoolOf[a] = s}
Listed(s) == {a \in Own(s) : page[a] # 0}
WalkState == {"idle", "walking", "whole", "broken", "rejected"}

\* Of a walk the code knows its URLs, its items and the total.  The rest is the
\* history that the properties speak of: what was listed when it began, whether
\* the listing has stood still and its pages were served one after the other.
NoWalk == [pc |-> "idle", url |-> [page |-> 1, scoped |-> TRUE], seen |-> {}, found |-> {},
           items |-> 0, counted |-> FALSE, total |-> 0, absent |-> FALSE,
           due |-> {}, still |-> FALSE, ordered |-> TRUE]
NewWalk(s) == [NoWalk EXCEPT !.pc = "walking", !.due = Listed(s), !.still = TRUE]

\* The pages that the server let a walk see.
Visited(w) == {url.page : url \in w.seen}

\* A request without the filter is answered with every building that the
\* credentials can see.
Batch(s, url) ==
  {a \in Assessment :
     /\ page[a] = url.page
     /\ source[SchoolOf[a]] = source[s]
     /\ url.scoped => SchoolOf[a] = s}

\* Mutant: a link is followed as it came.
FillNothing(link) == link

\* The filter goes back on a link that lost it; the cursor stays the server's.
Fill(link) == [link EXCEPT !.scoped = TRUE]

\* Items are counted as they come, one that is served twice both times.  The
\* first total that is stated stands.
Fetched(s, counted) ==
  LET w == walk[s]
      batch == Batch(s, w.url)
  IN [w EXCEPT !.seen = @ \cup {w.url}, !.found = @ \cup batch,
               !.items = @ + Cardinality(batch), !.counted = @ \/ counted,
               !.total = IF counted /\ ~w.counted THEN Cardinality(Listed(s)) ELSE @,
               !.ordered = @ /\ Visited(w) = 1..(w.url.page - 1)]
Short(w) == w.counted /\ w.items < w.total
Stuck(w, url) == url \in w.seen \/ Cardinality(w.seen) >= MaxPages

\* A page with a link to another one, whatever that link points at.  An empty
\* page is a page like any other.
FollowLink(s, counted, link) ==
  LET w == Fetched(s, counted)
  IN /\ walk[s].pc = "walking"
     /\ walk' = [walk EXCEPT ![s] =
          IF Stuck(w, Fill(link)) THEN [w EXCEPT !.pc = "broken"]
          ELSE [w EXCEPT !.url = Fill(link)]]
     /\ UNCHANGED <<source, page>>

\* A page without one.
EndWalk(s, counted) ==
  LET w == Fetched(s, counted)
  IN /\ walk[s].pc = "walking"
     /\ walk' = [walk EXCEPT ![s] = [w EXCEPT !.pc = IF Short(w) THEN "broken" ELSE "whole"]]
     /\ UNCHANGED <<source, page>>

\* HTTP 404: no such collection, unless the walk is in the middle of it.
NotFound(s) ==
  /\ walk[s].pc = "walking"
  /\ walk' = [walk EXCEPT ![s] =
       IF walk[s].seen = {} THEN [@ EXCEPT !.pc = "whole", !.absent = TRUE]
       ELSE [@ EXCEPT !.pc = "broken"]]
  /\ UNCHANGED <<source, page>>

\* Three attempts failed, or the credentials were refused on one of them.
GetFails(s, how) ==
  /\ walk[s].pc = "walking" /\ how \in {"broken", "rejected"}
  /\ walk' = [walk EXCEPT ![s].pc = how]
  /\ UNCHANGED <<source, page>>

WalkStep(s) ==
  \/ \E counted \in BOOLEAN :
       EndWalk(s, counted) \/ \E link \in Url : FollowLink(s, counted, link)
  \/ NotFound(s)
  \/ \E how \in {"broken", "rejected"} : GetFails(s, how)

\* A teacher adds an assessment during a walk: it takes a place on some page and
\* others move on to the next one.  At any other time it is simply there when the
\* next walk begins.  None is taken away.
Appears(a) ==
  LET s == SchoolOf[a]
  IN /\ page[a] = 0 /\ walk[s].pc = "walking"
     /\ \E p \in 1..LastPage :
          \E moved \in SUBSET {b \in Listed(s) : p <= page[b] /\ page[b] < LastPage} :
            page' = [b \in Assessment |-> IF b = a THEN p ELSE IF b \in moved THEN page[b] + 1 ELSE page[b]]
     /\ walk' = [walk EXCEPT ![s].still = FALSE]
     /\ UNCHANGED source
-----------------------------------------------------------------------------
\* A walk that returns has the assessments of its own building: those of no
\* other school though the server drops the filter from its links, and all that
\* were listed when it began though pages repeat, are empty or disappear.  Two
\* things go unnoticed: a page that is left out of a collection that states no
\* total, and one that is left out, or served late, while the listing grows, as
\* an item that has moved on and is served twice makes up for one that is missing.
DiscoveryIsWhole ==
  \A s \in School :
    LET w == walk[s]
        all == Visited(w) = 1..LastPage
    IN /\ w.found \subseteq Own(s)
       /\ (w.pc = "whole" /\ ~w.absent /\ ((w.counted /\ w.still) \/ (all /\ (w.still \/ w.ordered))))
            => w.due \subseteq w.found
=============================================================================

------------------------------ MODULE Dashboard ------------------------------
(***************************************************************************)
(* The start of the reports dashboard                                       *)
(* (src/frontend/src/components/app/DashboardPage.tsx) under the school     *)
(* provider: the default scope (academic year and grade) is applied when a  *)
(* school's dimensions are there, the subject default when the overview is, *)
(* and only then (ready) the subject-scoped queries are enabled.  Queries   *)
(* are react-query's: cached per key, a new key shows the last data there   *)
(* was until its own arrive, a failed refetch keeps the data it had, a key  *)
(* that failed is fetched again when it is shown anew, and answers come in  *)
(* any order.                                                               *)
(*                                                                          *)
(* Cached answers are younger than their staleTime.                         *)
(***************************************************************************)
EXTENDS SchoolSwitch

CONSTANTS
  Scopes,     \* academic year and grade, as one value
  ScopeOf     \* the default scope of each school
ASSUME ScopeAssumption ==
  ScopeOf \in [SchoolIds -> Scopes] /\ None # "no key" /\ {None, "no key"} \cap Scopes = {}

VARIABLES
  dims,       \* the sessions and grades of each school
  overview,   \* the overview query of each key
  data,       \* the last key that was shown with data of its own
  scope,      \* filters.session and filters.grade
  inited, ready, initedFor,   \* inited, defaultsReady, initedSchool.current
  subjectDone,                \* autoDefault.current.subject
  seen,       \* the dependencies of the last render's effects
  refreshed   \* history: Refresh was pressed on an initialised page with the list, after the last move
dashVars == <<dims, overview, data, scope, inited, ready, initedFor, subjectDone, seen, refreshed>>
vars == <<schoolVars, dashVars>>

Keys == SchoolIds \X (Scopes \cup {None})
Key == <<School, scope>>
NoKey == <<None, "no key">>

(* A query without data is idle, asked or failed; one with data has them,   *)
(* is to be fetched again (stale) or is (again), kept them when that failed,*)
(* or is fetched once more after it did (retry).                            *)
OverviewState == {"idle", "asked", "failed", "have", "stale", "again", "kept", "retry"}
InFlight == {"asked", "again", "retry"}
HasData(k) == overview[k] \in {"have", "stale", "again", "kept", "retry"}
Asking(state) ==
  CASE state \in {"idle", "failed"} -> "asked" [] state \in {"have", "stale"} -> "again"
    [] state = "kept" -> "retry" [] OTHER -> state

(* The query is enabled once inited; a key without an answer, an            *)
(* invalidated one, and a failed one that is shown anew, is asked for in    *)
(* the render that shows it.                                                *)
WillAsk ==
  inited /\ (overview[Key] \in {"idle", "stale"} \/ (overview[Key] \in {"failed", "kept"} /\ seen.key # Key))
IsFetching == inited /\ (WillAsk \/ overview[Key] \in InFlight)
IsError == inited /\ ((overview[Key] = "failed" /\ ~WillAsk) \/ overview[Key] \in {"kept", "retry"})
Data ==
  IF ~inited THEN NoKey
  ELSE IF HasData(Key) THEN Key
  ELSE IF IsError THEN NoKey ELSE data   \* keepPreviousData

InitDeps == [dims |-> dims[School], school |-> School, inited |-> inited, loading |-> list = "loading"]
\* Mutant: the effect does not depend on the query's status.
SubjectDepsByData == [inited |-> inited, data |-> Data, fetching |-> FALSE, error |-> FALSE]
SubjectDeps == [inited |-> inited, data |-> Data, fetching |-> IsFetching, error |-> IsError]

Init ==
  /\ InitSchool
  /\ dims = [s \in SchoolIds |-> "idle"] /\ overview = [k \in Keys |-> "idle"]
  /\ data = NoKey /\ scope = None
  /\ inited = FALSE /\ ready = FALSE /\ initedFor = None /\ subjectDone = FALSE
  /\ seen = [init |-> <<>>, subject |-> <<>>, key |-> NoKey]
  /\ refreshed = FALSE

\* Mutant: the dimensions are not waited for.
AppliesScopeEarly ==
  /\ seen.init # InitDeps
  /\ list # "loading" /\ ~(initedFor = School /\ inited)
(* The init effect: once per school, when the school has settled and both   *)
(* dimensions are there.                                                    *)
AppliesScope ==
  /\ seen.init # InitDeps
  /\ list # "loading" /\ dims[School] = "have" /\ ~(initedFor = School /\ inited)

(* The latest year and first grade of the dimensions that are there.        *)
DefaultScope == IF dims[School] = "have" THEN ScopeOf[School] ELSE None

\* Mutant: an overview that failed leaves the gate shut.
PicksSubjectFromData ==
  /\ seen.subject # SubjectDeps
  /\ inited /\ (AppliesScope \/ ~subjectDone)
  /\ Data # NoKey /\ ~IsFetching
(* The subject effect, which runs after the init effect of the same render. *)
PicksSubject ==
  /\ seen.subject # SubjectDeps
  /\ inited /\ (AppliesScope \/ ~subjectDone)
  /\ IsError \/ (Data # NoKey /\ ~IsFetching)

(* Something a render or an effect depends on has changed.                  *)
RenderDue == SchoolChanged \/ seen.init # InitDeps \/ seen.subject # SubjectDeps \/ seen.key # Key

(* A render and its effects, the page's before the provider's.              *)
Render ==
  /\ RenderDue
  /\ SchoolEffects
  /\ dims' = [dims EXCEPT ![School] =
       IF @ = "idle" \/ (@ = "failed" /\ seen.key[1] # School) THEN "asked" ELSE @]
  /\ overview' = [overview EXCEPT ![Key] = IF WillAsk THEN Asking(@) ELSE @]
  /\ data' = IF inited /\ HasData(Key) THEN Key ELSE data
  /\ scope' = IF AppliesScope THEN DefaultScope ELSE scope
  /\ inited' = (inited \/ AppliesScope)
  /\ initedFor' = IF AppliesScope THEN School ELSE initedFor
  /\ ready' = (PicksSubject \/ (ready /\ ~AppliesScope))
  /\ subjectDone' = (PicksSubject \/ (subjectDone /\ ~AppliesScope))
  /\ seen' = [init |-> InitDeps, subject |-> SubjectDeps, key |-> Key]
  /\ UNCHANGED refreshed

DimsAnswer(s) ==
  /\ dims[s] = "asked"
  /\ \E answer \in {"have", "failed"} : dims' = [dims EXCEPT ![s] = answer]
  /\ UNCHANGED <<schoolVars, overview, data, scope, inited, ready, initedFor, subjectDone, seen, refreshed>>

OverviewAnswers(k) ==
  /\ overview[k] \in InFlight
  /\ \E answer \in {"have", IF HasData(k) THEN "kept" ELSE "failed"} :
       overview' = [overview EXCEPT ![k] = answer]
  /\ UNCHANGED <<schoolVars, dims, data, scope, inited, ready, initedFor, subjectDone, seen, refreshed>>

(* The user picks a grade or year.                                          *)
PickScope(g) ==
  /\ inited /\ moves < MaxMoves /\ g # scope
  /\ scope' = g /\ moves' = moves + 1 /\ refreshed' = FALSE
  /\ UNCHANGED <<list, url, nav, selected, seenUrl, seenSelected, seenList, crossed,
                 dims, overview, data, inited, ready, initedFor, subjectDone, seen>>

(* The Refresh button: what is shown is asked for again, keeping its data,  *)
(* and everything else when it is next shown.  The list of schools is       *)
(* always shown: one that failed is loading again.                          *)
Refresh ==
  /\ moves < MaxMoves /\ moves' = moves + 1
  /\ refreshed' = (inited /\ initedFor = School /\ list = "loaded")
  /\ list' = IF list = "failed" THEN "loading" ELSE list
  /\ dims' = [dims EXCEPT ![School] = IF @ = "failed" THEN "asked" ELSE @]
  /\ overview' = [k \in Keys |->
       IF inited /\ k = Key THEN Asking(overview[k])
       ELSE IF overview[k] = "have" THEN "stale" ELSE overview[k]]
  /\ UNCHANGED <<url, nav, selected, seenUrl, seenSelected, seenList, crossed,
                 data, scope, inited, ready, initedFor, subjectDone, seen>>

Move ==
  /\ (\E s \in Accessible : Switch(s)) \/ (\E u \in SchoolIds : Navigate(u))
  /\ refreshed' = FALSE
  /\ UNCHANGED <<dims, overview, data, scope, inited, ready, initedFor, subjectDone, seen>>

Lands == (ListAnswers \/ ReplaceLands) /\ UNCHANGED dashVars

(* What comes from outside: answers, a navigation's landing, the user.      *)
Event ==
  \/ Lands \/ Move \/ Refresh
  \/ \E s \in SchoolIds : DimsAnswer(s)
  \/ \E k \in Keys : OverviewAnswers(k)
  \/ \E g \in Scopes : PickScope(g)

(* React renders a change and flushes its effects before the next event.    *)
Next == Render \/ (~RenderDue /\ Event)

(* React renders what changed, navigations land and requests are answered   *)
(* (react-query gives up after its retry); the user owes nothing.           *)
Fairness ==
  /\ WF_vars(Render) /\ WF_vars(Lands /\ ~RenderDue)
  /\ \A s \in SchoolIds : WF_vars(DimsAnswer(s) /\ ~RenderDue)
  /\ \A k \in Keys : WF_vars(OverviewAnswers(k) /\ ~RenderDue)
Spec == Init /\ [][Next]_vars /\ Fairness

-----------------------------------------------------------------------------
(* The types of the provider's and the page's state.                        *)
DashboardTypeOK ==
  /\ list \in {"loading", "loaded", "failed"} /\ {url, nav, selected} \subseteq SchoolIds
  /\ dims \in [SchoolIds -> {"idle", "asked", "have", "failed"}]
  /\ overview \in [Keys -> OverviewState]
  /\ data \in Keys \cup {NoKey}
  /\ scope \in (IF inited THEN Scopes ELSE {None})
  /\ initedFor \in SchoolIds /\ {inited, ready, subjectDone} \subseteq BOOLEAN

(* The first visit loads: a user who touches nothing gets a page whose      *)
(* scoped queries are enabled, whatever the link or the last choice was and *)
(* in whatever order schools, dimensions and overview answer, unless the    *)
(* dimensions cannot be had.                                                *)
FirstVisitLoads ==
  [](moves = 0 /\ dims[School] # "failed") => <>[](ready /\ initedFor = School)

(* Refresh opens the gate: whatever switches and late answers left it shut  *)
(* (an overview that answers before the dimensions of its school does),     *)
(* after Refresh the scoped queries of an initialised school are enabled,   *)
(* with an overview that fails too, unless the user moves on.  (A list of   *)
(* schools that had failed may bring another school, so that a Refresh      *)
(* which asks for the list again counts as a move.)                         *)
Shut == refreshed /\ ~crossed /\ inited /\ initedFor = School /\ ~ready
RefreshOpens == Shut ~> ~Shut
=============================================================================

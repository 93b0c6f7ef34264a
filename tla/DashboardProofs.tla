--------------------------- MODULE DashboardProofs ---------------------------
(***************************************************************************)
(* What TLAPS proves of Dashboard for every list of schools, every scope    *)
(* and every number of moves: the types, and what is true whenever the page *)
(* is quiet.  That it gets quiet and loads is liveness and left to TLC;     *)
(* that it never comes to rest in a wrong state is proved here.             *)
(***************************************************************************)
EXTENDS Dashboard, TLAPS

(***************************************************************************)
(* The inductive invariants                                                 *)
(***************************************************************************)
TypeInv == DashboardTypeOK /\ moves \in Nat /\ {crossed, refreshed} \subseteq BOOLEAN

\* What the last render's effects have made of the choice and of the URL.
Reconciled ==
    /\ list = "loaded" /\ seenList = list /\ selected = seenSelected => selected \in Accessible
    /\ ~SchoolChanged /\ list = "loaded" => url = selected \/ nav = selected
    /\ nav # None => nav # url /\ nav \in Accessible /\ list = "loaded"

\* As long as no move crosses, nothing that arrives by the URL is adopted against the
\* choice, and the replace under way is for the choice or is about to be superseded.
Uncrossed ==
    ~crossed =>
      /\ url = seenUrl \/ url \in {None, selected}
      /\ nav # None =>
           \/ nav = selected
           \/ selected # seenSelected /\ url # selected /\ selected \in Accessible

\* A render has asked for the dimensions and the overview it shows, and has applied the
\* default scope of dimensions that are there.
DimsAsked ==
    seen.init = InitDeps =>
      /\ dims[School] # "idle"
      /\ list # "loading" /\ dims[School] = "have" => inited /\ initedFor = School
OverviewAsked ==
    seen.key = Key /\ seen.subject = SubjectDeps /\ inited => overview[Key] \notin {"idle", "stale"}
Flags ==
    /\ ready <=> subjectDone
    /\ inited /\ moves = 0 => list # "loading"
    /\ ~inited => \A k \in Keys : overview[k] = "idle"
    /\ refreshed => inited /\ list = "loaded"
    /\ moves = 0 => ~crossed
Asked == DimsAsked /\ OverviewAsked /\ Flags

\* The pages whose gate opens: those nobody has touched, and those that were refreshed.
Awaited == {"idle", "stale"} \cup InFlight
Watched == ~crossed /\ (moves = 0 \/ refreshed)
AboutToPick == seen.subject # SubjectDeps /\ (IsError \/ (Data # NoKey /\ ~IsFetching))
Gated ==
    Watched /\ inited =>
      /\ initedFor = School
      /\ ready \/ overview[Key] \in Awaited \/ AboutToPick

(***************************************************************************)
(* What the theorems say                                                    *)
(***************************************************************************)
\* With the list there, the choice and the URL agree whenever no effect is due and no
\* replace is under way.
QuietIsSettled == ~SchoolChanged /\ nav = None /\ list = "loaded" => Settled

\* Nothing is due, and nothing that the page shows is under way.
Quiet ==
    /\ ~RenderDue /\ list # "loading" /\ nav = None
    /\ dims[School] # "asked" /\ overview[Key] \notin InFlight
QuietIsInited == Quiet /\ dims[School] # "failed" => inited /\ initedFor = School
QuietIsOpen == Quiet /\ Watched /\ dims[School] # "failed" => ready

(***************************************************************************)
(* Types                                                                    *)
(***************************************************************************)
LEMMA FirstSchool == Schools[1] \in Accessible /\ Accessible \subseteq SchoolIds /\ None \in SchoolIds
                     /\ None \notin Accessible
  <1>1. 1 \in DOMAIN Schools
    BY SchoolAssumption DEF Accessible
  <1> QED BY <1>1, SchoolAssumption DEF Accessible, SchoolIds

LEMMA SchoolTyped ==
    ASSUME {url, selected} \subseteq SchoolIds
    PROVE  School \in SchoolIds
  BY FirstSchool DEF School

LEMMA KeyTyped ==
    ASSUME TypeInv
    PROVE  /\ School \in SchoolIds /\ Key \in Keys /\ Key # NoKey
           /\ Data \in Keys \cup {NoKey}
  <1>1. School \in SchoolIds
    BY SchoolTyped DEF TypeInv, DashboardTypeOK
  <1>2. scope \in Scopes \cup {None}
    BY DEF TypeInv, DashboardTypeOK
  <1>3. Key \in Keys
    BY <1>1, <1>2 DEF Key, Keys
  <1>4. Key # NoKey
    BY <1>2, ScopeAssumption DEF Key, NoKey
  <1>5. Data \in Keys \cup {NoKey}
    BY <1>3 DEF Data, TypeInv, DashboardTypeOK
  <1> QED BY <1>1, <1>3, <1>4, <1>5

LEMMA TypeInvInit == Init => TypeInv
  <1> SUFFICES ASSUME Init PROVE TypeInv
    OBVIOUS
  <1>1. {url, nav, selected} \subseteq SchoolIds
    BY FirstSchool DEF Init, InitSchool
  <1>2. overview \in [Keys -> {"idle"}] /\ "idle" \in OverviewState /\ dims \in [SchoolIds -> {"idle"}]
    BY DEF Init, OverviewState
  <1> QED BY <1>1, <1>2, FirstSchool DEF Init, InitSchool, TypeInv, DashboardTypeOK

LEMMA TypeInvKept == TypeInv /\ [Next]_vars => TypeInv'
  <1> SUFFICES ASSUME TypeInv, [Next]_vars PROVE TypeInv'
    OBVIOUS
  <1>0. /\ list \in {"loading", "loaded", "failed"} /\ url \in SchoolIds /\ nav \in SchoolIds
        /\ selected \in SchoolIds
        /\ dims \in [SchoolIds -> {"idle", "asked", "have", "failed"}]
        /\ overview \in [Keys -> OverviewState]
        /\ data \in Keys \cup {NoKey} /\ scope \in (IF inited THEN Scopes ELSE {None})
        /\ initedFor \in SchoolIds /\ inited \in BOOLEAN /\ ready \in BOOLEAN
        /\ subjectDone \in BOOLEAN /\ moves \in Nat /\ crossed \in BOOLEAN /\ refreshed \in BOOLEAN
    BY DEF TypeInv, DashboardTypeOK
  <1>1. School \in SchoolIds /\ Key \in Keys /\ Data \in Keys \cup {NoKey}
    BY KeyTyped
  <1>2. CASE Render
    <2>1. nav' \in SchoolIds /\ selected' \in SchoolIds /\ list' = list /\ url' = url
          /\ moves' = moves /\ crossed' = crossed
      BY <1>0, <1>2, FirstSchool DEF Render, SchoolEffects
    <2>2. dims' \in [SchoolIds -> {"idle", "asked", "have", "failed"}]
      BY <1>0, <1>1, <1>2 DEF Render
    <2>3. overview' \in [Keys -> OverviewState]
      BY <1>0, <1>1, <1>2 DEF Render, Asking, OverviewState
    <2>4. scope' \in (IF inited' THEN Scopes ELSE {None}) /\ inited' \in BOOLEAN
      <3>1. CASE AppliesScope
        BY <1>1, <1>2, <3>1, ScopeAssumption DEF Render, AppliesScope, DefaultScope
      <3>2. CASE ~AppliesScope
        BY <1>0, <1>2, <3>2 DEF Render
      <3> QED BY <3>1, <3>2
    <2>5. data' \in Keys \cup {NoKey} /\ initedFor' \in SchoolIds /\ ready' \in BOOLEAN
          /\ subjectDone' \in BOOLEAN /\ refreshed' \in BOOLEAN
      BY <1>0, <1>1, <1>2 DEF Render
    <2> QED BY <1>0, <2>1, <2>2, <2>3, <2>4, <2>5 DEF TypeInv, DashboardTypeOK
  <1>3. CASE Lands
    BY <1>0, <1>3, FirstSchool DEF Lands, ListAnswers, ReplaceLands, dashVars, TypeInv, DashboardTypeOK
  <1>4. CASE Move
    <2>1. /\ list' = list /\ url' \in SchoolIds /\ nav' \in SchoolIds /\ selected' \in SchoolIds
          /\ moves' \in Nat /\ refreshed' = FALSE
      BY <1>0, <1>4, FirstSchool DEF Move, Switch, Navigate
    <2>2. crossed' \in BOOLEAN
      <3>1. ASSUME NEW s \in Accessible, Switch(s) PROVE crossed' \in BOOLEAN
        BY <3>1 DEF Switch
      <3>2. ASSUME NEW u \in SchoolIds, Navigate(u) PROVE crossed' \in BOOLEAN
        BY <3>2 DEF Navigate
      <3> QED BY <1>4, <3>1, <3>2 DEF Move
    <2>3. UNCHANGED <<dims, overview, data, scope, inited, ready, initedFor, subjectDone>>
      BY <1>4 DEF Move
    <2> QED BY <1>0, <2>1, <2>2, <2>3 DEF TypeInv, DashboardTypeOK
  <1>5. CASE Refresh
    <2>1. dims' \in [SchoolIds -> {"idle", "asked", "have", "failed"}]
      BY <1>0, <1>5 DEF Refresh
    <2>2. overview' \in [Keys -> OverviewState]
      BY <1>0, <1>5 DEF Refresh, Asking, OverviewState
    <2>3. moves' \in Nat /\ refreshed' \in BOOLEAN
      BY <1>0, <1>5 DEF Refresh
    <2> QED BY <1>0, <1>5, <2>1, <2>2, <2>3 DEF Refresh, TypeInv, DashboardTypeOK
  <1>6. ASSUME NEW s \in SchoolIds, DimsAnswer(s) PROVE TypeInv'
    <2>1. dims' \in [SchoolIds -> {"idle", "asked", "have", "failed"}]
      BY <1>0, <1>6 DEF DimsAnswer
    <2> QED BY <1>0, <1>6, <2>1 DEF DimsAnswer, schoolVars, TypeInv, DashboardTypeOK
  <1>7. ASSUME NEW k \in Keys, OverviewAnswers(k) PROVE TypeInv'
    <2>1. overview' \in [Keys -> OverviewState]
      BY <1>0, <1>7 DEF OverviewAnswers, OverviewState
    <2> QED BY <1>0, <1>7, <2>1 DEF OverviewAnswers, schoolVars, TypeInv, DashboardTypeOK
  <1>8. ASSUME NEW g \in Scopes, PickScope(g) PROVE TypeInv'
    <2>1. scope' \in (IF inited' THEN Scopes ELSE {None})
      BY <1>8 DEF PickScope
    <2>2. moves' \in Nat /\ refreshed' = FALSE
      BY <1>0, <1>8 DEF PickScope
    <2> QED BY <1>0, <1>8, <2>1, <2>2 DEF PickScope, TypeInv, DashboardTypeOK
  <1>9. CASE UNCHANGED vars
    BY <1>9 DEF vars, schoolVars, dashVars, TypeInv, DashboardTypeOK
  <1> QED BY <1>2, <1>3, <1>4, <1>5, <1>6, <1>7, <1>8, <1>9 DEF Next, Event

\* The types of the provider's and the page's state hold in every state
\* (SelectedSchoolContext.tsx, DashboardPage.tsx).
THEOREM DashboardIsTyped == Spec => []DashboardTypeOK
  <1>1. TypeInv => DashboardTypeOK
    BY DEF TypeInv
  <1> QED BY <1>1, TypeInvInit, TypeInvKept, PTL DEF Spec

(***************************************************************************)
(* The reconciliation                                                       *)
(***************************************************************************)
\* What the provider's variables may do in a step.
ListAskedAgain ==
    /\ list = "failed" /\ list' = "loading"
    /\ UNCHANGED <<url, nav, selected, seenUrl, seenSelected, seenList, crossed>>
Still == UNCHANGED <<list, url, nav, selected, seenUrl, seenSelected, seenList, crossed>>

LEMMA SchoolSteps ==
    ASSUME [Next]_vars
    PROVE  \/ Render
           \/ ~SchoolChanged /\ ListAnswers
           \/ ~SchoolChanged /\ ReplaceLands
           \/ \E s \in Accessible : ~SchoolChanged /\ Switch(s)
           \/ \E u \in SchoolIds : ~SchoolChanged /\ Navigate(u)
           \/ ~SchoolChanged /\ ListAskedAgain
           \/ Still
  BY DEF Next, Event, Lands, Move, Refresh, DimsAnswer, OverviewAnswers, PickScope, RenderDue,
         vars, schoolVars, ListAskedAgain, Still

LEMMA ReconciledKept ==
    ASSUME TypeInv, Reconciled, [Next]_vars
    PROVE  Reconciled'
  <1>1. CASE Render
    <2>1. /\ selected' = IF FallsBack THEN Schools[1] ELSE IF Adopts THEN url ELSE selected
          /\ nav' = IF Mirrors THEN selected ELSE nav
          /\ seenUrl' = url /\ seenSelected' = selected /\ seenList' = list
          /\ list' = list /\ url' = url
      BY <1>1 DEF Render, SchoolEffects
    <2>2. ASSUME list = "loaded", selected' = selected PROVE selected \in Accessible /\ ~Adopts
      <3>1. ~FallsBack
        BY <2>1, <2>2, FirstSchool DEF FallsBack
      <3>2. ~Adopts
        BY <2>1, <2>2, <3>1 DEF Adopts
      <3>3. selected \in Accessible
        BY <2>2, <3>1 DEF FallsBack, Reconciled
      <3> QED BY <3>2, <3>3
    <2>3. ASSUME list = "loaded", selected' = selected, url # selected PROVE nav' = selected
      <3>1. selected \in Accessible
        BY <2>2, <2>3
      <3>2. CASE SchoolChanged
        BY <2>1, <2>3, <3>1, <3>2 DEF SchoolChanged, Mirrors, IsAccessible
      <3>3. CASE ~SchoolChanged
        BY <2>1, <2>3, <3>3 DEF SchoolChanged, Mirrors, Reconciled
      <3> QED BY <3>2, <3>3
    <2>4. nav' # None => nav' # url' /\ nav' \in Accessible /\ list' = "loaded"
      BY <2>1 DEF Mirrors, IsAccessible, Reconciled
    <2> QED BY <2>1, <2>2, <2>3, <2>4 DEF Reconciled, SchoolChanged
  <1>2. CASE ~SchoolChanged /\ ListAnswers
    BY <1>2 DEF SchoolChanged, ListAnswers, Reconciled
  <1>3. CASE ~SchoolChanged /\ ReplaceLands
    BY <1>3 DEF SchoolChanged, ReplaceLands, Reconciled
  <1>4. ASSUME NEW s \in Accessible, ~SchoolChanged /\ Switch(s) PROVE Reconciled'
    BY <1>4 DEF SchoolChanged, Switch, Reconciled
  <1>5. ASSUME NEW u \in SchoolIds, ~SchoolChanged /\ Navigate(u) PROVE Reconciled'
    BY <1>5 DEF SchoolChanged, Navigate, Reconciled
  <1>6. CASE ~SchoolChanged /\ ListAskedAgain
    BY <1>6 DEF SchoolChanged, ListAskedAgain, Reconciled
  <1>7. CASE Still
    BY <1>7 DEF Still, SchoolChanged, Reconciled
  <1> QED BY <1>1, <1>2, <1>3, <1>4, <1>5, <1>6, <1>7, SchoolSteps

LEMMA ReconciledHolds == Spec => [](TypeInv /\ Reconciled)
  <1>1. Init => Reconciled
    BY DEF Init, InitSchool, Reconciled
  <1>2. TypeInv /\ Reconciled /\ [Next]_vars => Reconciled'
    BY ReconciledKept
  <1> QED BY <1>1, <1>2, TypeInvInit, TypeInvKept, PTL DEF Spec

\* The three effects of the provider never stop with the choice and the URL apart: with the
\* list there, whenever no effect is due and no replace is under way, both name the same
\* accessible school, whatever switches, links and replaces went before
\* (SelectedSchoolContext.tsx).
THEOREM ProviderRestsSettled == Spec => []QuietIsSettled
  <1>1. TypeInv /\ Reconciled => QuietIsSettled
    <2> SUFFICES ASSUME TypeInv, Reconciled, ~SchoolChanged, nav = None, list = "loaded"
                 PROVE  Settled
      BY DEF QuietIsSettled
    <2>1. selected \in Accessible
      BY DEF Reconciled, SchoolChanged
    <2>2. url = selected
      BY <2>1, FirstSchool DEF Reconciled
    <2> QED BY <2>1, <2>2 DEF Settled, IsAccessible, School
  <1> QED BY <1>1, ReconciledHolds, PTL

(***************************************************************************)
(* The exposed school stays as it is while no move crosses                  *)
(***************************************************************************)
LEMMA UncrossedKept ==
    ASSUME TypeInv, Reconciled, Uncrossed, [Next]_vars
    PROVE  Uncrossed'
  <1>1. CASE Render
    <2> SUFFICES ASSUME ~crossed PROVE Uncrossed'
      BY <1>1 DEF Render, SchoolEffects, Uncrossed
    <2>1. /\ selected' = IF FallsBack THEN Schools[1] ELSE IF Adopts THEN url ELSE selected
          /\ nav' = IF Mirrors THEN selected ELSE nav
          /\ seenUrl' = url /\ seenSelected' = selected /\ url' = url
      BY <1>1 DEF Render, SchoolEffects
    <2>2. ~Adopts
      BY DEF Uncrossed, Adopts
    <2>3. CASE Mirrors
      BY <2>1, <2>2, <2>3 DEF Mirrors, IsAccessible, FallsBack, Uncrossed
    <2>4. CASE ~Mirrors /\ nav # None
      <3>1. nav \in Accessible /\ list = "loaded"
        BY <2>4 DEF Reconciled
      <3>2. nav = selected
        BY <2>4, <3>1 DEF Uncrossed, Mirrors, IsAccessible
      <3> QED BY <2>1, <2>2, <2>4, <3>1, <3>2 DEF FallsBack, Uncrossed
    <2> QED BY <2>1, <2>3, <2>4 DEF Uncrossed
  <1>2. CASE ~SchoolChanged /\ ListAnswers
    BY <1>2 DEF SchoolChanged, ListAnswers, Uncrossed
  <1>3. CASE ~SchoolChanged /\ ReplaceLands
    BY <1>3 DEF SchoolChanged, ReplaceLands, Uncrossed
  <1>4. ASSUME NEW s \in Accessible, ~SchoolChanged /\ Switch(s) PROVE Uncrossed'
    BY <1>4 DEF SchoolChanged, Switch, Uncrossed
  <1>5. ASSUME NEW u \in SchoolIds, ~SchoolChanged /\ Navigate(u) PROVE Uncrossed'
    BY <1>5 DEF SchoolChanged, Navigate, Uncrossed
  <1>6. CASE ~SchoolChanged /\ ListAskedAgain
    BY <1>6 DEF SchoolChanged, ListAskedAgain, Uncrossed
  <1>7. CASE Still
    BY <1>7 DEF Still, Uncrossed
  <1> QED BY <1>1, <1>2, <1>3, <1>4, <1>5, <1>6, <1>7, SchoolSteps

\* The effects of a render change the choice only to what was exposed.
LEMMA SchoolKept ==
    ASSUME TypeInv, Reconciled, Uncrossed, ~crossed, Render \/ ReplaceLands
    PROVE  School' = School
  <1>1. CASE Render
    <2>1. /\ selected' = IF FallsBack THEN Schools[1] ELSE IF Adopts THEN url ELSE selected
          /\ list' = list /\ url' = url
      BY <1>1 DEF Render, SchoolEffects
    <2>2. ~Adopts
      BY DEF Uncrossed, Adopts
    <2> QED BY <2>1, <2>2, FirstSchool DEF FallsBack, School, IsAccessible
  <1>2. CASE ReplaceLands
    <2>1. list = "loaded" /\ list' = list /\ selected' = selected
      BY <1>2 DEF ReplaceLands, Reconciled
    <2> QED BY <2>1 DEF School, IsAccessible
  <1> QED BY <1>1, <1>2

(***************************************************************************)
(* What a render has asked for                                              *)
(***************************************************************************)
\* Between two renders the page's own flags stay, and what the last render saw is current
\* when an event comes.
LEMMA EventsKeep ==
    ASSUME ~RenderDue, Event
    PROVE  /\ UNCHANGED <<seen, inited, ready, initedFor, subjectDone, data>>
           /\ seen.init = InitDeps /\ seen.subject = SubjectDeps /\ seen.key = Key
           /\ ~SchoolChanged
  BY DEF RenderDue, Event, Lands, Move, Refresh, DimsAnswer, OverviewAnswers, PickScope, dashVars

LEMMA DimsAskedKept ==
    ASSUME TypeInv, DimsAsked, [Next]_vars
    PROVE  DimsAsked'
  <1>0. School \in SchoolIds /\ dims \in [SchoolIds -> {"idle", "asked", "have", "failed"}]
    BY KeyTyped DEF TypeInv, DashboardTypeOK
  <1>1. CASE Render
    <2> SUFFICES ASSUME (seen.init = InitDeps)'
                 PROVE  (/\ dims[School] # "idle"
                         /\ list # "loading" /\ dims[School] = "have" => inited /\ initedFor = School)'
      BY DEF DimsAsked
    <2>1. /\ dims' = [dims EXCEPT ![School] =
                IF dims[School] = "idle" \/ (dims[School] = "failed" /\ seen.key[1] # School)
                THEN "asked" ELSE dims[School]]
          /\ initedFor' = (IF AppliesScope THEN School ELSE initedFor) /\ list' = list
          /\ inited' = (inited \/ AppliesScope) /\ seen'.init = InitDeps
      BY <1>1 DEF Render, SchoolEffects
    <2>2. InitDeps' = InitDeps
      BY <2>1
    <2>3. School' = School /\ dims'[School'] = dims[School] /\ inited' = inited
      BY <2>2 DEF InitDeps
    <2>4. dims[School] # "idle"
      BY <1>0, <2>1, <2>3
    <2>5. ASSUME list # "loading", dims[School] = "have" PROVE inited' /\ initedFor' = School
      <3>1. CASE seen.init = InitDeps
        BY <2>1, <2>5, <3>1 DEF DimsAsked, AppliesScope
      <3>2. CASE seen.init # InitDeps
        BY <2>1, <2>5, <3>2 DEF AppliesScope
      <3> QED BY <3>1, <3>2
    <2> QED BY <2>1, <2>3, <2>4, <2>5
  <1>2. CASE ~RenderDue /\ Event
    <2>1. UNCHANGED <<seen, inited, initedFor>> /\ seen.init = InitDeps
      BY <1>2, EventsKeep
    <2> SUFFICES ASSUME InitDeps' = InitDeps
                 PROVE  (/\ dims[School] # "idle"
                         /\ list # "loading" /\ dims[School] = "have" => inited /\ initedFor = School)'
      BY <2>1 DEF DimsAsked
    <2>2. School' = School /\ dims'[School'] = dims[School] /\ (list' = "loading" <=> list = "loading")
      BY DEF InitDeps
    <2> QED BY <2>1, <2>2 DEF DimsAsked
  <1>3. CASE UNCHANGED vars
    BY <1>3 DEF vars, schoolVars, dashVars, DimsAsked, InitDeps, School, IsAccessible
  <1> QED BY <1>1, <1>2, <1>3 DEF Next

LEMMA OverviewAskedKept ==
    ASSUME TypeInv, OverviewAsked, [Next]_vars
    PROVE  OverviewAsked'
  <1>0. Key \in Keys /\ overview \in [Keys -> OverviewState]
    BY KeyTyped DEF TypeInv, DashboardTypeOK
  <1>1. CASE Render
    <2> SUFFICES ASSUME (seen.key = Key /\ seen.subject = SubjectDeps /\ inited)'
                 PROVE  (overview[Key] \notin {"idle", "stale"})'
      BY DEF OverviewAsked
    <2>1. /\ overview' = [overview EXCEPT ![Key] = IF WillAsk THEN Asking(overview[Key]) ELSE overview[Key]]
          /\ seen'.key = Key /\ seen'.subject = SubjectDeps
      BY <1>1 DEF Render
    <2>2. Key' = Key /\ SubjectDeps' = SubjectDeps
      BY <2>1
    <2>3. inited
      BY <2>2 DEF SubjectDeps
    <2>4. overview'[Key] \notin {"idle", "stale"}
      BY <1>0, <2>1, <2>3 DEF WillAsk, Asking, OverviewState
    <2> QED BY <2>2, <2>4
  <1>2. CASE ~RenderDue /\ Event
    <2>1. UNCHANGED <<seen, inited>> /\ seen.key = Key /\ seen.subject = SubjectDeps
      BY <1>2, EventsKeep
    <2>2. inited => overview[Key] \notin {"idle", "stale"} /\ overview'[Key] \notin {"idle", "stale"}
      <3> SUFFICES ASSUME inited PROVE overview[Key] \notin {"idle", "stale"} /\ overview'[Key] \notin {"idle", "stale"}
        OBVIOUS
      <3>1. overview[Key] \notin {"idle", "stale"}
        BY <2>1 DEF OverviewAsked
      <3>2. CASE overview' = overview
        BY <3>1, <3>2
      <3>3. CASE Refresh
        BY <1>0, <3>1, <3>3 DEF Refresh, Asking, OverviewState
      <3>4. ASSUME NEW k \in Keys, OverviewAnswers(k) PROVE overview'[Key] \notin {"idle", "stale"}
        BY <1>0, <3>1, <3>4 DEF OverviewAnswers
      <3> QED BY <1>2, <3>1, <3>2, <3>3, <3>4
              DEF Event, Lands, Move, DimsAnswer, PickScope, dashVars
    <2>3. CASE Key' = Key
      BY <2>1, <2>2, <2>3 DEF OverviewAsked
    <2>4. CASE Key' # Key
      BY <2>1, <2>4 DEF OverviewAsked
    <2> QED BY <2>3, <2>4
  <1>3. CASE UNCHANGED vars
    BY <1>3 DEF vars, schoolVars, dashVars, OverviewAsked, SubjectDeps, Data, IsFetching, IsError,
                WillAsk, HasData, Key, School, IsAccessible
  <1> QED BY <1>1, <1>2, <1>3 DEF Next

LEMMA FlagsKept ==
    ASSUME TypeInv, Flags, [Next]_vars
    PROVE  Flags'
  <1>0. /\ Key \in Keys /\ overview \in [Keys -> OverviewState]
        /\ moves \in Nat
    BY KeyTyped DEF TypeInv, DashboardTypeOK
  <1>1. CASE Render
    <2>1. ready' <=> subjectDone'
      BY <1>1 DEF Render, Flags
    <2>2. inited' /\ moves' = 0 => list' # "loading"
      BY <1>1 DEF Render, SchoolEffects, AppliesScope, Flags
    <2>3. ASSUME ~inited' PROVE \A k \in Keys : overview'[k] = "idle"
      <3>1. ~inited /\ overview' = overview
        BY <1>0, <1>1, <2>3 DEF Render, WillAsk
      <3> QED BY <3>1 DEF Flags
    <2>4. refreshed' => inited' /\ list' = "loaded"
      BY <1>1 DEF Render, SchoolEffects, Flags
    <2>5. moves' = 0 => ~crossed'
      BY <1>1 DEF Render, SchoolEffects, Flags
    <2> QED BY <2>1, <2>2, <2>3, <2>4, <2>5 DEF Flags
  <1>2. CASE ~RenderDue /\ Event
    <2>1. UNCHANGED <<inited, ready, subjectDone>>
      BY <1>2, EventsKeep
    <2>2. inited /\ moves' = 0 => list' # "loading"
      <3>1. Refresh => moves' # 0
        BY <1>0 DEF Refresh
      <3>2. moves' = moves \/ moves' = moves + 1
        BY <1>2 DEF Event, Lands, ListAnswers, ReplaceLands, Move, Switch, Navigate, Refresh,
                    DimsAnswer, OverviewAnswers, PickScope, schoolVars
      <3>3. ~Refresh => list' = list \/ list' # "loading"
        BY <1>2 DEF Event, Lands, ListAnswers, ReplaceLands, Move, Switch, Navigate,
                    DimsAnswer, OverviewAnswers, PickScope, schoolVars
      <3> QED BY <1>0, <3>1, <3>2, <3>3 DEF Flags
    <2>3. ASSUME ~inited PROVE \A k \in Keys : overview'[k] = "idle"
      <3>1. \A k \in Keys : overview[k] = "idle"
        BY <2>3 DEF Flags
      <3>2. CASE Refresh
        BY <2>3, <3>1, <3>2 DEF Refresh, Asking
      <3>3. ASSUME NEW k \in Keys, OverviewAnswers(k) PROVE FALSE
        BY <3>1, <3>3 DEF OverviewAnswers, InFlight
      <3>4. CASE overview' = overview
        BY <3>1, <3>4
      <3> QED BY <1>2, <3>2, <3>3, <3>4 DEF Event, Lands, Move, DimsAnswer, PickScope, dashVars
    <2>4. refreshed' => inited /\ list' = "loaded"
      BY <1>2 DEF Event, Lands, ListAnswers, ReplaceLands, Move, schoolVars, Refresh, DimsAnswer, OverviewAnswers, PickScope, dashVars, Flags
    <2>5. moves' = 0 => ~crossed'
      <3>1. moves' = moves + 1 \/ (moves' = moves /\ crossed' = crossed)
        BY <1>2 DEF Event, Lands, ListAnswers, ReplaceLands, Move, Switch, Navigate, Refresh,
                    DimsAnswer, OverviewAnswers, PickScope, schoolVars
      <3> QED BY <1>0, <3>1 DEF Flags
    <2> QED BY <2>1, <2>2, <2>3, <2>4, <2>5 DEF Flags
  <1>3. CASE UNCHANGED vars
    BY <1>3 DEF vars, schoolVars, dashVars, Flags
  <1> QED BY <1>1, <1>2, <1>3 DEF Next

LEMMA AskedInit == Init => Asked
  <1> SUFFICES ASSUME Init PROVE Asked
    OBVIOUS
  <1>1. seen.init = <<>> /\ ~inited
    BY DEF Init
  <1>2. InitDeps # <<>>
    BY DEF InitDeps
  <1> QED BY <1>1, <1>2 DEF Init, InitSchool, Asked, DimsAsked, OverviewAsked, Flags

(***************************************************************************)
(* The gate of the scoped queries                                           *)
(***************************************************************************)
\* While a page is watched, an answer is all its gate waits for.
LEMMA GatedKept ==
    ASSUME TypeInv, Reconciled, Uncrossed, Asked, Gated, [Next]_vars
    PROVE  Gated'
  <1>0. /\ Key \in Keys /\ Key # NoKey /\ moves \in Nat
        /\ overview \in [Keys -> OverviewState]
    BY KeyTyped DEF TypeInv, DashboardTypeOK
  <1>1. CASE Render
    <2> SUFFICES ASSUME Watched', inited'
                 PROVE  /\ initedFor' = School'
                        /\ ready' \/ overview'[Key'] \in Awaited \/ AboutToPick'
      BY DEF Gated
    <2>1. Watched
      BY <1>1 DEF Render, SchoolEffects, Watched
    <2>2. School' = School
      BY <1>1, <2>1, SchoolKept DEF Watched
    <2>3. /\ overview' = [overview EXCEPT ![Key] = IF WillAsk THEN Asking(overview[Key]) ELSE overview[Key]]
          /\ initedFor' = (IF AppliesScope THEN School ELSE initedFor)
          /\ scope' = (IF AppliesScope THEN DefaultScope ELSE scope)
          /\ inited' = (inited \/ AppliesScope)
          /\ ready' = (PicksSubject \/ (ready /\ ~AppliesScope))
      BY <1>1 DEF Render
    <2>4. CASE inited
      <3>1. /\ initedFor = School /\ ~AppliesScope
            /\ ready \/ overview[Key] \in Awaited \/ AboutToPick
        BY <2>1, <2>4 DEF Gated, AppliesScope
      <3>2. Key' = Key
        BY <2>2, <2>3, <3>1 DEF Key
      <3>3. CASE ready
        BY <2>2, <2>3, <3>1, <3>3
      <3>4. CASE overview[Key] \in Awaited
        <4>1. overview'[Key] \in InFlight
          BY <1>0, <2>3, <2>4, <3>4 DEF WillAsk, Awaited, InFlight, Asking
        <4> QED BY <2>2, <2>3, <3>1, <3>2, <4>1 DEF Awaited
      <3>5. CASE AboutToPick /\ ~ready
        <4>1. ~subjectDone
          BY <3>5 DEF Asked, Flags
        <4>2. PicksSubject
          BY <2>4, <3>5, <4>1 DEF AboutToPick, PicksSubject
        <4> QED BY <2>2, <2>3, <3>1, <4>2
      <3> QED BY <3>1, <3>3, <3>4, <3>5
    <2>5. CASE ~inited
      <3>1. AppliesScope /\ initedFor' = School
        BY <2>3, <2>5
      <3>2. \A k \in Keys : overview[k] = "idle"
        BY <2>5 DEF Asked, Flags
      <3>3. overview' = overview
        BY <1>0, <2>3, <2>5 DEF WillAsk
      <3>4. Key' \in Keys
        <4>1. TypeInv'
          BY TypeInvKept
        <4>2. School \in SchoolIds /\ scope' \in Scopes \cup {None}
          BY <4>1, KeyTyped DEF TypeInv, DashboardTypeOK
        <4> QED BY <2>2, <4>2 DEF Key, Keys
      <3>5. overview'[Key'] = "idle"
        BY <3>2, <3>3, <3>4
      <3> QED BY <2>2, <3>1, <3>5 DEF Awaited
    <2> QED BY <2>4, <2>5
  <1>2. CASE ~RenderDue /\ Event
    <2>1. /\ UNCHANGED <<seen, inited, ready, initedFor, subjectDone, data>>
          /\ seen.subject = SubjectDeps /\ seen.key = Key
      BY <1>2, EventsKeep
    <2> SUFFICES ASSUME Watched', inited
                 PROVE  /\ initedFor = School'
                        /\ ready \/ overview'[Key'] \in Awaited \/ AboutToPick'
      BY <2>1 DEF Gated
    <2>2. Watched => list # "loading"
      BY DEF Asked, Flags, Watched
    <2>3. CASE Refresh
      <3>1. refreshed'
        BY <1>0, <2>3 DEF Watched, Refresh
      <3>2. initedFor = School /\ School' = School /\ Key' = Key
        BY <2>3, <3>1 DEF Refresh, School, IsAccessible, Key
      <3>3. overview'[Key] \in InFlight
        BY <1>0, <2>3 DEF Refresh, Asking, OverviewState, InFlight
      <3> QED BY <3>2, <3>3 DEF Awaited
    <2>4. CASE Move \/ \E g \in Scopes : PickScope(g)
      <3>1. moves' = moves + 1 /\ refreshed' = FALSE
        BY <2>4 DEF Move, Switch, Navigate, PickScope
      <3> QED BY <1>0, <3>1 DEF Watched
    <2>5. CASE ~Refresh /\ ~Move /\ ~\E g \in Scopes : PickScope(g)
      <3>1. Watched
        <4>1. UNCHANGED <<moves, crossed, refreshed>>
          BY <1>2, <2>5 DEF Event, Lands, ListAnswers, ReplaceLands, DimsAnswer, OverviewAnswers,
                            schoolVars, dashVars
        <4> QED BY <4>1 DEF Watched
      <3>2. initedFor = School /\ (ready \/ overview[Key] \in InFlight)
        BY <2>1, <3>1 DEF Gated, AboutToPick, Awaited, Asked, OverviewAsked
      <3>3. School' = School /\ Key' = Key
        <4>1. CASE ReplaceLands
          BY <3>1, <4>1, <1>2, <2>5, SchoolKept
             DEF Watched, Key, Event, Lands, ReplaceLands, DimsAnswer, OverviewAnswers, schoolVars, dashVars
        <4>2. CASE ~ReplaceLands
          BY <1>2, <2>2, <2>5, <3>1, <4>2
             DEF Event, Lands, ListAnswers, DimsAnswer, OverviewAnswers, schoolVars, School, IsAccessible, Key
        <4> QED BY <4>1, <4>2
      <3>4. CASE overview' = overview
        BY <3>2, <3>3, <3>4 DEF Awaited
      <3>5. ASSUME NEW k \in Keys, OverviewAnswers(k)
            PROVE  ready \/ overview'[Key'] \in Awaited \/ AboutToPick'
        <4>1. CASE k # Key \/ ready
          BY <1>0, <3>2, <3>3, <3>5, <4>1 DEF OverviewAnswers, Awaited
        <4>2. CASE k = Key /\ ~ready
          <5>1. overview[Key] \in InFlight /\ overview'[Key] \in {"have", "failed", "kept"}
            BY <1>0, <3>5, <4>2 DEF OverviewAnswers
          <5>2. SubjectDeps.fetching
            BY <5>1 DEF SubjectDeps, IsFetching
          <5>3. ~WillAsk' /\ ~IsFetching'
            BY <2>1, <3>3, <5>1 DEF WillAsk, IsFetching, InFlight
          <5>4. seen'.subject # SubjectDeps'
            BY <2>1, <5>2, <5>3 DEF SubjectDeps
          <5>5. IsError' \/ Data' # NoKey
            <6>1. CASE overview'[Key] \in {"failed", "kept"}
              BY <2>1, <3>3, <5>3, <6>1 DEF IsError
            <6>2. CASE overview'[Key] = "have"
              <7>1. inited' /\ ~IsError'
                BY <2>1, <3>3, <6>2 DEF IsError
              <7>2. Data' = Key
                BY <3>3, <6>2, <7>1 DEF Data, HasData
              <7> QED BY <1>0, <7>2
            <6> QED BY <5>1, <6>1, <6>2
          <5> QED BY <5>3, <5>4, <5>5 DEF AboutToPick
        <4> QED BY <4>1, <4>2
      <3>6. \/ overview' = overview
            \/ \E k \in Keys : OverviewAnswers(k)
        BY <1>2, <2>5 DEF Event, Lands, DimsAnswer, dashVars
      <3> QED BY <3>2, <3>3, <3>4, <3>5, <3>6
    <2> QED BY <2>3, <2>4, <2>5
  <1>3. CASE UNCHANGED vars
    BY <1>3 DEF vars, schoolVars, dashVars, Gated, Watched, AboutToPick, SubjectDeps, Data,
                IsFetching, IsError, WillAsk, HasData, Key, School, IsAccessible
  <1> QED BY <1>1, <1>2, <1>3 DEF Next

LEMMA DashboardInvHolds == Spec => [](TypeInv /\ Reconciled /\ Uncrossed /\ Asked /\ Gated)
  <1>1. Init => Uncrossed /\ Gated
    BY DEF Init, InitSchool, Uncrossed, Gated
  <1>2. TypeInv /\ Reconciled /\ Uncrossed /\ [Next]_vars => Uncrossed'
    BY UncrossedKept
  <1>3. TypeInv /\ Asked /\ [Next]_vars => Asked'
    BY DimsAskedKept, OverviewAskedKept, FlagsKept DEF Asked
  <1>4. TypeInv /\ Reconciled /\ Uncrossed /\ Asked /\ Gated /\ [Next]_vars => Gated'
    BY GatedKept
  <1> QED BY <1>1, <1>2, <1>3, <1>4, ReconciledHolds, AskedInit, PTL DEF Spec

\* The default scope is applied to every school whose dimensions can be had: when nothing is
\* due and nothing that is shown is under way, the page is initialised, and for the school
\* that is exposed, whatever switches and late answers went before (DashboardPage.tsx).
THEOREM QuietPagesAreInited == Spec => []QuietIsInited
  <1>1. TypeInv /\ Asked => QuietIsInited
    <2> SUFFICES ASSUME TypeInv, Asked, Quiet, dims[School] # "failed"
                 PROVE  inited /\ initedFor = School
      BY DEF QuietIsInited
    <2>1. dims[School] \in {"idle", "asked", "have", "failed"}
      BY KeyTyped DEF TypeInv, DashboardTypeOK
    <2> QED BY <2>1 DEF Quiet, RenderDue, Asked, DimsAsked
  <1> QED BY <1>1, DashboardInvHolds, PTL

\* And the scoped queries of a page that nobody has touched, or that was refreshed last with
\* its list of schools there, are enabled by then, with an overview that failed too.  (A page
\* that a switch has reached may come to rest with the gate shut.)
THEOREM QuietPagesAreOpen == Spec => []QuietIsOpen
  <1>1. TypeInv /\ Asked /\ Gated => QuietIsOpen
    <2> SUFFICES ASSUME TypeInv, Asked, Gated, Quiet, Watched, dims[School] # "failed"
                 PROVE  ready
      BY DEF QuietIsOpen
    <2>1. dims[School] \in {"idle", "asked", "have", "failed"}
      BY KeyTyped DEF TypeInv, DashboardTypeOK
    <2>2. inited
      BY <2>1 DEF Quiet, RenderDue, Asked, DimsAsked
    <2>3. overview[Key] \notin Awaited /\ ~AboutToPick
      BY <2>2 DEF Quiet, RenderDue, Asked, OverviewAsked, AboutToPick, Awaited
    <2> QED BY <2>2, <2>3 DEF Quiet, Gated
  <1> QED BY <1>1, DashboardInvHolds, PTL
=============================================================================

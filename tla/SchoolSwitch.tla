----------------------------- MODULE SchoolSwitch -----------------------------
(***************************************************************************)
(* The school a reports page is scoped to: SelectedSchoolProvider           *)
(* (src/frontend/src/lib/context/SelectedSchoolContext.tsx).  The choice    *)
(* lives in React state, in the URL and in the list of accessible schools,  *)
(* and three effects reconcile them.  An effect runs after a render in      *)
(* which one of its dependencies changed, with the values of that render;   *)
(* router.replace lands later and may be superseded.                        *)
(***************************************************************************)
EXTENDS Naturals, Sequences

CONSTANTS
  Schools,    \* the accessible schools, in the order of the list
  Foreign,    \* schools of shared links that this user may not see
  None,       \* no school
  MaxMoves    \* bound on the user's moves

Accessible == {Schools[n] : n \in DOMAIN Schools}
SchoolIds == Accessible \cup Foreign \cup {None}

ASSUME SchoolAssumption ==
  Schools \in Seq(Accessible) /\ Len(Schools) > 0 /\ None \notin Accessible \cup Foreign /\ MaxMoves \in Nat

VARIABLES
  list,       \* the accessible-schools query
  url,        \* the school_id of the URL
  nav,        \* the target of a router.replace under way, or None
  selected,   \* the user's current choice
  seenUrl, seenSelected, seenList,   \* what the last render had
  moves,      \* history: moves made
  crossed     \* history: a move sent the choice and the URL past each other
schoolVars == <<list, url, nav, selected, seenUrl, seenSelected, seenList, moves, crossed>>

(* isAccessible, false for everything until the list is there.              *)
IsAccessible(s) == list = "loaded" /\ s \in Accessible

(* The exposed school: the choice, a hint while there is no list, the first.*)
School ==
  IF IsAccessible(selected) THEN selected
  ELSE IF list = "loaded" THEN Schools[1]
  ELSE IF url # None THEN url ELSE selected

(* The choice is seeded from the URL, then from this browser's last use.    *)
InitSchool ==
  /\ list = "loading" /\ nav = None /\ moves = 0 /\ crossed = FALSE
  /\ url \in SchoolIds
  /\ IF url = None THEN selected \in SchoolIds ELSE selected = url
  /\ seenUrl = None /\ seenSelected = None /\ seenList = "none"

\* Mutant: the dependencies the linter asks for.
AdoptsOnAnyChange == url # None /\ url # selected /\ (url # seenUrl \/ selected # seenSelected)
(* Effect 1: a school_id that arrives via the URL is adopted.               *)
Adopts == url # seenUrl /\ url # None /\ url # selected

(* Effect 2: with a list, a choice that is not accessible gives way to the  *)
(* first school.                                                            *)
FallsBack ==
  /\ selected # seenSelected \/ list # seenList
  /\ list = "loaded" /\ selected \notin Accessible

(* Effect 3: the choice is mirrored into the URL.                           *)
Mirrors ==
  /\ selected # seenSelected \/ url # seenUrl \/ list # seenList
  /\ IsAccessible(selected) /\ url # selected

SchoolChanged == url # seenUrl \/ selected # seenSelected \/ list # seenList

(* The provider's effects of one render.                                    *)
SchoolEffects ==
  /\ selected' = IF FallsBack THEN Schools[1] ELSE IF Adopts THEN url ELSE selected
  /\ nav' = IF Mirrors THEN selected ELSE nav
  /\ seenUrl' = url /\ seenSelected' = selected /\ seenList' = list
  /\ UNCHANGED <<list, url, moves, crossed>>

ListAnswers ==
  /\ list = "loading" /\ list' \in {"loaded", "failed"}
  /\ UNCHANGED <<url, nav, selected, seenUrl, seenSelected, seenList, moves, crossed>>

ReplaceLands ==
  /\ nav # None
  /\ url' = nav /\ nav' = None
  /\ UNCHANGED <<list, selected, seenUrl, seenSelected, seenList, moves, crossed>>

(* The switcher records the intent.  Back to the URL's school while the     *)
(* replace to another one is under way, nothing supersedes that replace.    *)
Switch(s) ==
  /\ list = "loaded" /\ moves < MaxMoves /\ s \in Accessible \ {selected}
  /\ selected' = s /\ moves' = moves + 1
  /\ crossed' = (crossed \/ (nav # None /\ s = url))
  /\ UNCHANGED <<list, url, nav, seenUrl, seenSelected, seenList>>

(* A link of the app, or the browser's Back: the URL changes under the      *)
(* provider, to one without a school or with one, and a replace under way   *)
(* is dropped.                                                              *)
Navigate(u) ==
  /\ moves < MaxMoves /\ u \in SchoolIds \ {url}
  /\ url' = u /\ nav' = None /\ moves' = moves + 1
  /\ crossed' = (crossed \/ u \notin {None, selected})
  /\ UNCHANGED <<list, selected, seenUrl, seenSelected, seenList>>

-----------------------------------------------------------------------------
(* The switcher and links settle: URL, choice and exposed school come to    *)
(* agree on an accessible school, whatever switches, links and replaces     *)
(* overlap, as long as no move crosses: a Back or a link that brings        *)
(* another school than the chosen one, or a switch back before the replace  *)
(* has landed.  (After a crossing move effects 1 and 3 of one render send   *)
(* choice and URL past each other, and keep doing so.)                      *)
Settled == IsAccessible(selected) /\ url = selected /\ School = selected
SwitchSettles == [](~crossed /\ list # "failed") => <>[]Settled
=============================================================================

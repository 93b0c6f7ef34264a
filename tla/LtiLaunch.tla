------------------------------ MODULE LtiLaunch ------------------------------
(* From a click in the learning platform to a session of the app.  A launch *)
(* stores a state; the platform posts it back with a signed token, possibly *)
(* twice; the backend consumes the state, provisions the account and the    *)
(* membership in one transaction, mints a ticket in another, and the bridge *)
(* of the front end exchanges the ticket and a magic link for a session.    *)
(* Administrators grant, revoke and disable meanwhile.  Requests are READ   *)
(* COMMITTED transactions; Postgres lets the later of two writers of one    *)
(* unique key wait and then fail.                                           *)
EXTENDS Naturals, FiniteSets

CONSTANTS
  Launch, Person, School, User,
  PersonOf, SchoolOf, Staff,  \* who launches, into which school, as staff
  Post, LaunchOf,             \* posts of the token to /lti/launch
  Visit, TicketOf,            \* requests of the bridge, by the post whose ticket they bring
  Managed, Disabled,          \* schools that administrators grant, and unbind
  None

ASSUME LaunchAssumption ==
  /\ PersonOf \in [Launch -> Person] /\ SchoolOf \in [Launch -> School] /\ Staff \subseteq Launch
  /\ LaunchOf \in [Post -> Launch] /\ TicketOf \in [Visit -> Post]
  /\ Managed \subseteq School /\ Disabled \subseteq School
  /\ None \notin User \cup School \cup Visit

VARIABLES
  state,      \* lti_launch_session of each launch
  post,       \* the request of each post: where it is and what it has read
  identity,   \* lti_user_identity
  account,    \* auth.users by synthetic email
  member,     \* user_schools
  primary,    \* those of them with is_primary
  active,     \* schools whose deployment binding is_active
  ticket,     \* lti_handoff_ticket of each post
  visit,      \* the request of each visit to the bridge
  link,       \* the one outstanding magic link of each person
  faulty      \* persons one of whose bridge requests met a failing service

ltiVars == <<state, post, identity, account, member, primary, active, ticket, visit, link, faulty>>
rows == <<identity, account, member, primary>>
bridge == <<ticket, visit, link, faulty>>

PostState == {"idle", "checked", "claimed", "new", "write", "mint", "redirected", "failed"}
VisitState == {"idle", "consumed", "linked", "session", "failed"}
Sender(p) == PersonOf[LaunchOf[p]]
Visitor(v) == Sender(TicketOf[v])

LtiInit ==
  /\ state = [l \in Launch |-> "none"]
  /\ post = [p \in Post |-> [pc |-> "idle", user |-> None, school |-> None]]
  /\ identity = [q \in Person |-> None] /\ account = [q \in Person |-> {}]
  /\ member = {} /\ primary = {} /\ active = School
  /\ ticket = [p \in Post |-> "none"]
  /\ visit = [v \in Visit |-> "idle"]
  /\ link = [q \in Person |-> None] /\ faulty = {}

Goes(p, pc) == post' = [post EXCEPT ![p].pc = pc]
-----------------------------------------------------------------------------
(* /lti/login and /lti/launch                                               *)

StartLogin(l) ==
  /\ state[l] = "none" /\ state' = [state EXCEPT ![l] = "issued"]
  /\ UNCHANGED <<post, rows, active, bridge>>

\* The state times out; the reaper may delete the row, which reads the same.
StateExpires(l) ==
  /\ state[l] = "issued" /\ state' = [state EXCEPT ![l] = "expired"]
  /\ UNCHANGED <<post, rows, active, bridge>>

\* _consume_state reads the row, and then marks it whatever it is by then.
CheckState(p) ==
  /\ post[p].pc = "idle" /\ state[LaunchOf[p]] # "none"
  /\ Goes(p, IF state[LaunchOf[p]] = "issued" THEN "checked" ELSE "failed")
  /\ UNCHANGED <<state, rows, active, bridge>>

ConsumeState(p) ==
  /\ post[p].pc = "checked" /\ Goes(p, "claimed")
  /\ state' = [state EXCEPT ![LaunchOf[p]] = "consumed"]
  /\ UNCHANGED <<rows, active, bridge>>

\* The token does not verify: the state is spent all the same.
TokenRefused(p) ==
  /\ post[p].pc = "claimed" /\ Goes(p, "failed")
  /\ UNCHANGED <<state, rows, active, bridge>>

\* provision reads the binding and the identity; a disabled binding is no school.
Resolve(p) ==
  LET s == SchoolOf[LaunchOf[p]]
      u == identity[Sender(p)]
  IN /\ post[p].pc = "claimed"
     /\ post' = [post EXCEPT ![p] = [pc |-> IF u = None THEN "new" ELSE "write", user |-> u,
                                     school |-> IF s \in active THEN s ELSE None]]
     /\ UNCHANGED <<state, rows, active, bridge>>

\* _create_auth_user reuses an account with the email, or will insert one.
FindAccount(p) ==
  /\ post[p].pc = "new"
  /\ post' = [post EXCEPT ![p].pc = "write", ![p].user =
       IF account[Sender(p)] = {} THEN None ELSE CHOOSE u \in account[Sender(p)] : TRUE]
  /\ UNCHANGED <<state, rows, active, bridge>>

\* Mutant: nothing keeps two accounts of one email apart.
EmailNeverTaken(p) == FALSE

\* The unique key on the email, for an account that has come since the look.
EmailTaken(p) == post[p].user = None /\ account[Sender(p)] # {}

\* Membership is for staff of a school with a binding.  A new row is primary,
\* and the index on primaries refuses a second one of the user.
GrantsMembership(p) == post[p].school # None /\ LaunchOf[p] \in Staff
Joined(p, u) == IF GrantsMembership(p) THEN member \cup {<<u, post[p].school>>} ELSE member
\* Mutant: the school of the launch becomes the primary one.
PromotedAlways(p, u) ==
  IF GrantsMembership(p) THEN {x \in primary : x[1] # u} \cup {<<u, post[p].school>>}
  ELSE primary
Promoted(p, u) ==
  IF Joined(p, u) = member THEN primary ELSE primary \cup {<<u, post[p].school>>}
OnePrimary(S) == \A x, y \in S : x[1] = y[1] => x = y

\* The inserts of provision and their commit.  Ids do not run out; a finite
\* User is a bound of the model.
Users == UNION {account[q] : q \in Person}
Write(p) ==
  /\ post[p].pc = "write" /\ (post[p].user = None => Users # User)
  /\ LET u == IF post[p].user = None THEN CHOOSE n \in User : n \notin Users ELSE post[p].user
     IN IF EmailTaken(p) \/ ~OnePrimary(Promoted(p, u))
        THEN Goes(p, "failed") /\ UNCHANGED rows
        ELSE /\ account' = [account EXCEPT ![Sender(p)] = @ \cup {u}]
             /\ identity' = [identity EXCEPT ![Sender(p)] = IF @ = None THEN u ELSE @]
             /\ member' = Joined(p, u) /\ primary' = Promoted(p, u)
             /\ post' = [post EXCEPT ![p].pc = "mint", ![p].user = u]
  /\ UNCHANGED <<state, active, bridge>>

\* The ticket is a transaction of its own.
Mint(p) ==
  /\ post[p].pc = "mint"
  /\ \/ Goes(p, "redirected") /\ ticket' = [ticket EXCEPT ![p] = "fresh"]
     \/ Goes(p, "failed") /\ UNCHANGED ticket
  /\ UNCHANGED <<state, rows, active, visit, link, faulty>>
-----------------------------------------------------------------------------
(* /api/lti/bridge                                                          *)

TicketExpires(p) ==
  /\ ticket[p] = "fresh" /\ ticket' = [ticket EXCEPT ![p] = "expired"]
  /\ UNCHANGED <<state, post, rows, active, visit, link, faulty>>

\* Mutant: the update does not ask whether the ticket is consumed or too old.
UsableIfMinted(p) == ticket[p] # "none"
Usable(p) == ticket[p] = "fresh"
ConsumeTicket(v) ==
  /\ visit[v] = "idle" /\ post[TicketOf[v]].pc = "redirected"
  /\ IF Usable(TicketOf[v])
     THEN /\ ticket' = [ticket EXCEPT ![TicketOf[v]] = "used"]
          /\ visit' = [visit EXCEPT ![v] = "consumed"]
     ELSE visit' = [visit EXCEPT ![v] = "failed"] /\ UNCHANGED ticket
  /\ UNCHANGED <<state, post, rows, active, link, faulty>>

\* A new link takes the place of the one before it.
GenerateLink(v) ==
  /\ visit[v] = "consumed" /\ visit' = [visit EXCEPT ![v] = "linked"]
  /\ link' = [link EXCEPT ![Visitor(v)] = v]
  /\ UNCHANGED <<state, post, rows, active, ticket, faulty>>

\* Mutant: a refused link voids the good one.
VerifyOtpBurns(v) ==
  /\ visit[v] = "linked"
  /\ visit' = [visit EXCEPT ![v] = IF link[Visitor(v)] = v THEN "session" ELSE "failed"]
  /\ link' = [link EXCEPT ![Visitor(v)] = None]
  /\ UNCHANGED <<state, post, rows, active, ticket, faulty>>

VerifyOtp(v) ==
  /\ visit[v] = "linked"
  /\ IF link[Visitor(v)] = v
     THEN visit' = [visit EXCEPT ![v] = "session"] /\ link' = [link EXCEPT ![Visitor(v)] = None]
     ELSE visit' = [visit EXCEPT ![v] = "failed"] /\ UNCHANGED link
  /\ UNCHANGED <<state, post, rows, active, ticket, faulty>>

\* The auth service fails one of the calls: before the link is used, or after,
\* when the assurance check signs the new session out again.
BridgeFails(v) ==
  /\ visit[v] \in {"consumed", "linked"} /\ visit' = [visit EXCEPT ![v] = "failed"]
  /\ faulty' = faulty \cup {Visitor(v)}
  /\ \/ UNCHANGED link
     \/ /\ visit[v] = "linked" /\ link[Visitor(v)] = v
        /\ link' = [link EXCEPT ![Visitor(v)] = None]
  /\ UNCHANGED <<state, post, rows, active, ticket>>
-----------------------------------------------------------------------------
(* Administrators                                                           *)

\* A primary grant demotes the primary there is; the two are one transaction.
Grant(u, s, asPrimary) ==
  /\ u \in Users
  /\ member' = member \cup {<<u, s>>}
  /\ primary' = IF asPrimary THEN {x \in primary : x[1] # u} \cup {<<u, s>>}
                ELSE primary \ {<<u, s>>}
  /\ UNCHANGED <<state, post, identity, account, active, bridge>>

\* Mutant: the primary is left behind.
RevokeMembership(u, s) ==
  /\ <<u, s>> \in member
  /\ member' = member \ {<<u, s>>}
  /\ UNCHANGED <<state, post, identity, account, primary, active, bridge>>

Revoke(u, s) ==
  /\ <<u, s>> \in member
  /\ member' = member \ {<<u, s>>} /\ primary' = primary \ {<<u, s>>}
  /\ UNCHANGED <<state, post, identity, account, active, bridge>>

SetBinding(s, on) ==
  /\ active' = IF on THEN active \cup {s} ELSE active \ {s}
  /\ UNCHANGED <<state, post, rows, bridge>>
-----------------------------------------------------------------------------
LaunchStep(p) ==
  \/ CheckState(p) \/ ConsumeState(p) \/ TokenRefused(p) \/ Resolve(p) \/ FindAccount(p)
  \/ Write(p) \/ Mint(p)
BridgeStep(v) == ConsumeTicket(v) \/ GenerateLink(v) \/ VerifyOtp(v) \/ BridgeFails(v)
AdminStep ==
  \/ \E u \in User, s \in Managed : Revoke(u, s) \/ \E b \in BOOLEAN : Grant(u, s, b)
  \/ \E s \in Disabled, b \in BOOLEAN : SetBinding(s, b)
Timeout == (\E l \in Launch : StateExpires(l)) \/ \E p \in Post : TicketExpires(p)

LtiNext ==
  \/ \E l \in Launch : StartLogin(l)
  \/ \E p \in Post : LaunchStep(p)
  \/ \E v \in Visit : BridgeStep(v)
  \/ AdminStep \/ Timeout

\* Requests that the backend or the bridge has begun go on; nobody has to
\* launch, post or visit.
LtiSpec ==
  /\ LtiInit /\ [][LtiNext]_ltiVars
  /\ \A v \in Visit : WF_ltiVars(visit[v] # "idle" /\ BridgeStep(v))
-----------------------------------------------------------------------------
\* The rows of a launch fit together: primaries are memberships, and a request
\* carries a user and a school or none.
LtiTypeOK ==
  /\ state \in [Launch -> {"none", "issued", "consumed", "expired"}]
  /\ post \in [Post -> [pc : PostState, user : User \cup {None}, school : School \cup {None}]]
  /\ identity \in [Person -> User \cup {None}] /\ account \in [Person -> SUBSET User]
  /\ primary \subseteq member /\ member \subseteq User \X School /\ active \subseteq School
  /\ ticket \in [Post -> {"none", "fresh", "used", "expired"}]
  /\ visit \in [Visit -> VisitState] /\ link \in [Person -> Visit \cup {None}]
  /\ faulty \subseteq Person

\* First launches of one person in several tabs leave one account, the one
\* that the identity names, and never an account without an identity.
OneAccountPerPerson ==
  \A q \in Person : account[q] = IF identity[q] = None THEN {} ELSE {identity[q]}

\* "Single-use": of the visits that bring one ticket, reloads and prefetches
\* included, one at most gets past it.
Served(p) == {v \in Visit : TicketOf[v] = p /\ visit[v] \in {"consumed", "linked", "session"}}
TicketOpensOneSession == \A p \in Post : Cardinality(Served(p)) <= 1

\* A launch may add a membership to the ones there are but takes none away
\* and moves nobody's primary school, wherever the person launched before and
\* whatever an administrator has granted since.
LaunchKeepsMemberships ==
  [][(\E p \in Post : post'[p] # post[p]) =>
        /\ member \subseteq member' /\ primary \subseteq primary'
        /\ OnePrimary(primary')]_ltiVars

\* Tabs of one person take each other's magic link away, but the last link
\* stays good: a person with a consumed ticket ends up with a session, unless
\* the auth service failed a request of theirs.
OneTabGetsIn ==
  \A q \in Person :
    (\E v \in Visit : Visitor(v) = q /\ visit[v] = "consumed")
      ~> (q \in faulty \/ \E v \in Visit : Visitor(v) = q /\ visit[v] = "session")
=============================================================================

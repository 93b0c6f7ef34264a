-------------------------- MODULE LtiLaunchProofs --------------------------
(***************************************************************************)
(* What TLAPS proves of LtiLaunch for every set of people, schools, posts   *)
(* of a token and visits to the bridge: one account per person, one session *)
(* per ticket, and launches that only add memberships.                      *)
(***************************************************************************)
EXTENDS LtiLaunch, FiniteSetTheorems, TLAPS

(***************************************************************************)
(* The inductive invariant.  A post that is about to write either has read  *)
(* the account the identity names or found none, and its ticket is minted   *)
(* by its last step.                                                        *)
(***************************************************************************)
PostsFit ==
  \A p \in Post :
    /\ post[p].pc = "write" /\ post[p].user # None => identity[Sender(p)] = post[p].user
    /\ ticket[p] # "none" => post[p].pc = "redirected"
Past == {"consumed", "linked", "session"}
TicketsFit ==
  \A v \in Visit : visit[v] \in Past =>
    /\ ticket[TicketOf[v]] = "used"
    /\ \A w \in Visit : visit[w] \in Past /\ TicketOf[w] = TicketOf[v] => w = v
LtiInv ==
  /\ LtiTypeOK
  /\ OneAccountPerPerson
  /\ PostsFit
  /\ TicketsFit
  /\ OnePrimary(primary)

\* A step of a post moves that post alone.
LEMMA PostMoves ==
    ASSUME LtiTypeOK, NEW p \in Post, NEW pc \in PostState, Goes(p, pc)
    PROVE  /\ post' \in [Post -> [pc : PostState, user : User \cup {None}, school : School \cup {None}]]
           /\ post'[p].pc = pc /\ post'[p].user = post[p].user
           /\ post'[p].school = post[p].school
           /\ \A o \in Post \ {p} : post'[o] = post[o]
  BY DEF LtiTypeOK, Goes

\* The same of a post that has read something.
LEMMA PostReads ==
    ASSUME LtiTypeOK, NEW p \in Post,
           NEW m \in [pc : PostState, user : User \cup {None}, school : School \cup {None}],
           post' = [post EXCEPT ![p] = m]
    PROVE  /\ post' \in [Post -> [pc : PostState, user : User \cup {None}, school : School \cup {None}]]
           /\ post'[p] = m
           /\ \A o \in Post \ {p} : post'[o] = post[o]
  BY DEF LtiTypeOK

LEMMA LtiInitInv == LtiInit => LtiInv
  <1> SUFFICES ASSUME LtiInit PROVE LtiInv
    OBVIOUS
  <1>1. LtiTypeOK
    BY DEF LtiInit, LtiTypeOK, PostState, VisitState
  <1>2. OneAccountPerPerson /\ OnePrimary(primary)
    BY DEF LtiInit, OneAccountPerPerson, OnePrimary
  <1>3. PostsFit /\ TicketsFit
    BY DEF LtiInit, PostsFit, TicketsFit, Past
  <1> QED BY <1>1, <1>2, <1>3 DEF LtiInv

\* Steps of a post before it writes.
LEMMA ReadsKeepInv ==
    ASSUME LtiInv, NEW p \in Post, UNCHANGED <<identity, account, member, primary, active, bridge>>,
           state' \in [Launch -> {"none", "issued", "consumed", "expired"}],
           post' \in [Post -> [pc : PostState, user : User \cup {None}, school : School \cup {None}]],
           \A o \in Post \ {p} : post'[o] = post[o],
           post[p].pc # "redirected",
           post'[p].pc = "write" => post'[p].user \in {None, identity[Sender(p)]}
    PROVE  LtiInv'
  <1>1. LtiTypeOK'
    BY DEF LtiInv, LtiTypeOK, bridge
  <1>2. PostsFit'
    BY DEF LtiInv, PostsFit, bridge, Sender
  <1>3. OneAccountPerPerson' /\ TicketsFit' /\ OnePrimary(primary)'
    BY DEF LtiInv, OneAccountPerPerson, TicketsFit, bridge, OnePrimary
  <1> QED BY <1>1, <1>2, <1>3 DEF LtiInv

\* Provisioning writes an account where there was none, and a membership.
LEMMA WriteKeepsInv ==
    ASSUME LtiInv, NEW p \in Post, Write(p)
    PROVE  LtiInv' /\ member \subseteq member' /\ primary \subseteq primary'
  <1> DEFINE u == IF post[p].user = None THEN CHOOSE n \in User : n \notin Users
                  ELSE post[p].user
  <1>1. /\ post[p].pc = "write" /\ (post[p].user = None => Users # User)
        /\ UNCHANGED <<state, active, bridge>>
        /\ \/ Goes(p, "failed") /\ UNCHANGED rows
           \/ /\ ~EmailTaken(p) /\ OnePrimary(Promoted(p, u))
              /\ account' = [account EXCEPT ![Sender(p)] = @ \cup {u}]
              /\ identity' = [identity EXCEPT ![Sender(p)] = IF @ = None THEN u ELSE @]
              /\ member' = Joined(p, u) /\ primary' = Promoted(p, u)
              /\ post' = [post EXCEPT ![p].pc = "mint", ![p].user = u]
    BY DEF Write
  <1>2. /\ post[p] \in [pc : PostState, user : User \cup {None}, school : School \cup {None}]
        /\ Sender(p) \in Person /\ LtiTypeOK /\ None \notin User \cup School
    BY LaunchAssumption DEF LtiInv, LtiTypeOK, Sender
  <1>3. Users \subseteq User
    BY <1>2 DEF Users, LtiTypeOK
  <1>4. u \in User /\ (post[p].user = None => u \notin Users)
    <2>1. CASE post[p].user = None
      <3>1. \E n \in User : n \notin Users
        BY <1>1, <1>3, <2>1
      <3> QED BY <2>1, <3>1
    <2>2. CASE post[p].user # None
      BY <1>2, <2>2
    <2> QED BY <2>1, <2>2
  <1> HIDE DEF u
  <1>5. CASE Goes(p, "failed") /\ UNCHANGED rows
    <2>1. /\ post' \in [Post -> [pc : PostState, user : User \cup {None}, school : School \cup {None}]]
          /\ post'[p].pc = "failed" /\ \A o \in Post \ {p} : post'[o] = post[o]
      BY <1>2, <1>5, PostMoves DEF PostState
    <2>2. LtiInv'
      BY <1>1, <1>2, <1>5, <2>1, ReadsKeepInv DEF rows, LtiTypeOK
    <2> QED BY <1>5, <2>2 DEF rows
  <1>6. CASE /\ ~EmailTaken(p) /\ OnePrimary(Promoted(p, u))
             /\ account' = [account EXCEPT ![Sender(p)] = @ \cup {u}]
             /\ identity' = [identity EXCEPT ![Sender(p)] = IF @ = None THEN u ELSE @]
             /\ member' = Joined(p, u) /\ primary' = Promoted(p, u)
             /\ post' = [post EXCEPT ![p].pc = "mint", ![p].user = u]
    <2>1. /\ post' \in [Post -> [pc : PostState, user : User \cup {None}, school : School \cup {None}]]
          /\ post'[p].pc = "mint" /\ \A o \in Post \ {p} : post'[o] = post[o]
      BY <1>2, <1>4, <1>6 DEF LtiTypeOK, PostState
    <2>2. GrantsMembership(p) => post[p].school \in School
      BY <1>2 DEF GrantsMembership
    <2>3. /\ member \subseteq member' /\ member' \subseteq User \X School
          /\ primary \subseteq primary' /\ primary' \subseteq member'
      BY <1>2, <1>4, <1>6, <2>2 DEF LtiTypeOK, Joined, Promoted
    <2>4. identity[Sender(p)] \in {None, u}
          /\ (identity[Sender(p)] # None => account[Sender(p)] = {u})
          /\ (identity[Sender(p)] = None => account[Sender(p)] = {})
      <3>1. account[Sender(p)] = IF identity[Sender(p)] = None THEN {} ELSE {identity[Sender(p)]}
        BY <1>2 DEF LtiInv, OneAccountPerPerson
      <3>2. CASE post[p].user = None
        <4>1. account[Sender(p)] = {}
          BY <1>6, <3>2 DEF EmailTaken
        <4> QED BY <3>1, <4>1
      <3>3. CASE post[p].user # None
        <4>1. identity[Sender(p)] = post[p].user
          BY <1>1, <3>3 DEF LtiInv, PostsFit
        <4>2. u = post[p].user
          BY <3>3 DEF u
        <4> QED BY <3>1, <3>3, <4>1, <4>2
      <3> QED BY <3>2, <3>3
    <2>5. /\ identity'[Sender(p)] = u /\ account'[Sender(p)] = {u}
          /\ \A q \in Person \ {Sender(p)} : identity'[q] = identity[q] /\ account'[q] = account[q]
      BY <1>2, <1>6, <2>4 DEF LtiTypeOK
    <2>6. /\ identity' \in [Person -> User \cup {None}]
          /\ account' \in [Person -> SUBSET User]
      BY <1>2, <1>4, <1>6 DEF LtiTypeOK
    <2>7. LtiTypeOK'
      BY <1>1, <1>2, <2>1, <2>3, <2>6 DEF LtiTypeOK, bridge
    <2>8. OneAccountPerPerson'
      BY <1>2, <1>4, <2>5 DEF LtiInv, OneAccountPerPerson
    <2>9. PostsFit'
      <3> SUFFICES ASSUME NEW o \in Post
                   PROVE  /\ post'[o].pc = "write" /\ post'[o].user # None
                               => identity'[Sender(o)] = post'[o].user
                          /\ ticket'[o] # "none" => post'[o].pc = "redirected"
        BY DEF PostsFit, Sender
      <3>1. ticket'[o] = ticket[o]
        BY <1>1 DEF bridge
      <3>2. CASE o = p
        BY <1>1, <2>1, <3>1, <3>2 DEF LtiInv, PostsFit
      <3>3. CASE o # p
        <4>1. post'[o] = post[o] /\ Sender(o) \in Person
          BY <2>1, <3>3, LaunchAssumption DEF Sender
        <4>2. identity[Sender(o)] # None => identity'[Sender(o)] = identity[Sender(o)]
          BY <2>4, <2>5, <4>1
        <4> QED BY <3>1, <4>1, <4>2 DEF LtiInv, PostsFit
      <3> QED BY <3>2, <3>3
    <2>10. TicketsFit'
      BY <1>1 DEF LtiInv, TicketsFit, bridge
    <2>11. OnePrimary(primary)'
      BY <1>6 DEF OnePrimary
    <2> QED BY <2>3, <2>7, <2>8, <2>9, <2>10, <2>11 DEF LtiInv
  <1> QED BY <1>1, <1>5, <1>6

\* A post.
LEMMA LaunchKeepsInv ==
    ASSUME LtiInv, NEW p \in Post, LaunchStep(p)
    PROVE  LtiInv' /\ (member \subseteq member' /\ primary \subseteq primary')
  <1>1. /\ LtiTypeOK /\ LaunchOf[p] \in Launch
        /\ post[p] \in [pc : PostState, user : User \cup {None}, school : School \cup {None}]
    BY LaunchAssumption DEF LtiInv, LtiTypeOK
  <1>2. ASSUME NEW pc \in PostState \ {"write"}, Goes(p, pc), post[p].pc # "redirected",
               state' \in [Launch -> {"none", "issued", "consumed", "expired"}],
               UNCHANGED <<rows, active, bridge>>
        PROVE  LtiInv' /\ (member \subseteq member' /\ primary \subseteq primary')
    <2>1. LtiInv'
      BY <1>1, <1>2, PostMoves, ReadsKeepInv DEF rows
    <2> QED BY <1>2, <2>1 DEF rows
  <1>3. CASE CheckState(p)
    <2>1. /\ post[p].pc # "redirected" /\ UNCHANGED <<state, rows, active, bridge>>
          /\ Goes(p, "checked") \/ Goes(p, "failed")
      BY <1>3 DEF CheckState
    <2> QED BY <1>1, <1>2, <2>1 DEF PostState, LtiTypeOK
  <1>4. CASE ConsumeState(p)
    <2>1. state' \in [Launch -> {"none", "issued", "consumed", "expired"}]
      BY <1>1, <1>4 DEF ConsumeState, LtiTypeOK
    <2> QED BY <1>2, <1>4, <2>1 DEF ConsumeState, PostState
  <1>5. CASE TokenRefused(p)
    BY <1>1, <1>2, <1>5 DEF TokenRefused, PostState, LtiTypeOK
  <1>6. ASSUME NEW m \in [pc : PostState, user : User \cup {None}, school : School \cup {None}],
               post' = [post EXCEPT ![p] = m], post[p].pc # "redirected",
               m.pc = "write" => m.user \in {None, identity[Sender(p)]},
               UNCHANGED <<state, rows, active, bridge>>
        PROVE  LtiInv' /\ (member \subseteq member' /\ primary \subseteq primary')
    <2>1. LtiInv'
      BY <1>1, <1>6, PostReads, ReadsKeepInv DEF rows, LtiTypeOK
    <2> QED BY <1>6, <2>1 DEF rows
  <1>7. CASE Resolve(p)
    <2> DEFINE s == SchoolOf[LaunchOf[p]]
               m == [pc |-> IF identity[Sender(p)] = None THEN "new" ELSE "write",
                     user |-> identity[Sender(p)],
                     school |-> IF s \in active THEN s ELSE None]
    <2>1. s \in School /\ Sender(p) \in Person
      BY <1>1, LaunchAssumption DEF Sender
    <2>2. identity[Sender(p)] \in User \cup {None}
      BY <1>1, <2>1 DEF LtiTypeOK
    <2>3. /\ m \in [pc : PostState, user : User \cup {None}, school : School \cup {None}]
          /\ m.user = identity[Sender(p)]
      BY <2>1, <2>2 DEF PostState
    <2>4. /\ post' = [post EXCEPT ![p] = m] /\ post[p].pc # "redirected"
          /\ UNCHANGED <<state, rows, active, bridge>>
      BY <1>7 DEF Resolve
    <2> HIDE DEF m
    <2> QED BY <1>6, <2>3, <2>4
  <1>8. CASE FindAccount(p)
    <2> DEFINE found == IF account[Sender(p)] = {} THEN None
                        ELSE CHOOSE n \in account[Sender(p)] : TRUE
    <2>1. Sender(p) \in Person
      BY <1>1, LaunchAssumption DEF Sender
    <2>2. found \in User \cup {None} /\ found \in {None, identity[Sender(p)]}
      <3>1. account[Sender(p)] = IF identity[Sender(p)] = None THEN {} ELSE {identity[Sender(p)]}
        BY <2>1 DEF LtiInv, OneAccountPerPerson
      <3>2. account[Sender(p)] \subseteq User
        BY <1>1, <2>1 DEF LtiTypeOK
      <3> QED BY <3>1, <3>2
    <2>3. /\ post' = [post EXCEPT ![p].pc = "write", ![p].user = found]
          /\ post[p].pc = "new" /\ UNCHANGED <<state, rows, active, bridge>>
      BY <1>8 DEF FindAccount
    <2> HIDE DEF found
    <2>4. /\ post' \in [Post -> [pc : PostState, user : User \cup {None}, school : School \cup {None}]]
          /\ post'[p].user = found /\ \A o \in Post \ {p} : post'[o] = post[o]
      BY <1>1, <2>2, <2>3 DEF LtiTypeOK, PostState
    <2>5. LtiInv'
      BY <1>1, <2>2, <2>3, <2>4, ReadsKeepInv DEF rows, LtiTypeOK
    <2> QED BY <2>3, <2>5 DEF rows
  <1>9. CASE Mint(p)
    <2>1. post[p].pc = "mint" /\ UNCHANGED <<state, rows, active, visit, link, faulty>>
      BY <1>9 DEF Mint
    <2>2. CASE Goes(p, "failed") /\ UNCHANGED ticket
      BY <1>1, <1>2, <2>1, <2>2 DEF PostState, LtiTypeOK, bridge
    <2>3. CASE Goes(p, "redirected") /\ ticket' = [ticket EXCEPT ![p] = "fresh"]
      <3>1. /\ post' \in [Post -> [pc : PostState, user : User \cup {None}, school : School \cup {None}]]
            /\ post'[p].pc = "redirected" /\ \A o \in Post \ {p} : post'[o] = post[o]
        BY <1>1, <2>3, PostMoves DEF PostState
      <3>2. /\ ticket' \in [Post -> {"none", "fresh", "used", "expired"}]
            /\ \A o \in Post \ {p} : ticket'[o] = ticket[o]
        BY <1>1, <2>3 DEF LtiTypeOK
      <3>3. ticket[p] = "none"
        BY <1>1, <2>1 DEF LtiInv, PostsFit
      <3>4. LtiTypeOK'
        BY <1>1, <2>1, <3>1, <3>2 DEF LtiTypeOK, rows
      <3>5. PostsFit'
        BY <2>1, <3>1, <3>2 DEF LtiInv, PostsFit, rows, Sender
      <3>6. TicketsFit'
        <4>1. \A v \in Visit : visit[v] \in Past => TicketOf[v] \in Post \ {p}
          BY <3>3, LaunchAssumption DEF LtiInv, TicketsFit
        <4> QED BY <2>1, <3>2, <4>1 DEF LtiInv, TicketsFit
      <3>7. OneAccountPerPerson' /\ OnePrimary(primary)'
        BY <2>1 DEF LtiInv, OneAccountPerPerson, OnePrimary, rows
      <3> QED BY <2>1, <3>4, <3>5, <3>6, <3>7 DEF LtiInv, rows
    <2> QED BY <1>9, <2>2, <2>3 DEF Mint
  <1> QED
    BY <1>3, <1>4, <1>5, <1>7, <1>8, <1>9, WriteKeepsInv DEF LaunchStep

\* A visit, an administrator and the clock leave accounts and posts alone.
LEMMA BridgeKeepsInv ==
    ASSUME LtiInv, NEW v \in Visit, BridgeStep(v)
    PROVE  LtiInv' /\ post' = post
  <1>1. LtiTypeOK /\ TicketOf[v] \in Post /\ Visitor(v) \in Person
    BY LaunchAssumption DEF LtiInv, Visitor, Sender
  <1>2. UNCHANGED <<state, post, rows, active>>
    BY DEF BridgeStep, ConsumeTicket, GenerateLink, VerifyOtp, BridgeFails
  <1>3. ASSUME LtiTypeOK', TicketsFit',
               \A p \in Post : ticket'[p] # "none" => ticket[p] # "none" PROVE LtiInv'
    <2>1. PostsFit'
      BY <1>2, <1>3 DEF LtiInv, PostsFit, rows, Sender
    <2>2. OneAccountPerPerson' /\ OnePrimary(primary)'
      BY <1>2 DEF LtiInv, OneAccountPerPerson, OnePrimary, rows
    <2> QED BY <1>3, <2>1, <2>2 DEF LtiInv
  <1>4. CASE ConsumeTicket(v)
    <2>1. CASE Usable(TicketOf[v])
      <3>1. /\ ticket' = [ticket EXCEPT ![TicketOf[v]] = "used"]
            /\ visit' = [visit EXCEPT ![v] = "consumed"]
            /\ UNCHANGED <<link, faulty>>
        BY <1>4, <2>1 DEF ConsumeTicket
      <3>2. LtiTypeOK'
        BY <1>1, <1>2, <3>1 DEF LtiTypeOK, VisitState, rows
      <3>3. \A w \in Visit : visit[w] \in Past => TicketOf[w] # TicketOf[v]
        BY <2>1 DEF LtiInv, TicketsFit, Usable
      <3>4. /\ ticket'[TicketOf[v]] = "used"
            /\ \A p \in Post \ {TicketOf[v]} : ticket'[p] = ticket[p]
            /\ \A w \in Visit \ {v} : visit'[w] = visit[w]
        BY <1>1, <3>1 DEF LtiTypeOK
      <3>5. TicketsFit'
        BY <3>3, <3>4, LaunchAssumption DEF LtiInv, TicketsFit
      <3>6. \A p \in Post : ticket'[p] # "none" => ticket[p] # "none"
        BY <2>1, <3>4 DEF Usable
      <3> QED BY <1>2, <1>3, <3>2, <3>5, <3>6
    <2>2. CASE ~Usable(TicketOf[v])
      <3>1. visit' = [visit EXCEPT ![v] = "failed"] /\ UNCHANGED <<ticket, link, faulty>>
        BY <1>4, <2>2 DEF ConsumeTicket
      <3>2. LtiTypeOK'
        BY <1>1, <1>2, <3>1 DEF LtiTypeOK, VisitState, rows
      <3>3. TicketsFit'
        BY <1>1, <3>1 DEF LtiInv, LtiTypeOK, TicketsFit, Past
      <3> QED BY <1>2, <1>3, <3>1, <3>2, <3>3
    <2> QED BY <2>1, <2>2
  <1>5. ASSUME NEW to \in VisitState, visit[v] \in Past, visit' = [visit EXCEPT ![v] = to],
               UNCHANGED ticket, link' \in [Person -> Visit \cup {None}], faulty' \subseteq Person
        PROVE  LtiInv'
    <2>1. LtiTypeOK'
      BY <1>1, <1>2, <1>5 DEF LtiTypeOK, rows
    <2>2. \A w \in Visit : visit'[w] \in Past => visit[w] \in Past
      BY <1>1, <1>5 DEF LtiTypeOK
    <2>3. TicketsFit'
      BY <1>5, <2>2 DEF LtiInv, TicketsFit
    <2> QED BY <1>3, <1>5, <2>1, <2>3
  <1>6. CASE GenerateLink(v)
    BY <1>1, <1>5, <1>6 DEF GenerateLink, VisitState, Past, LtiTypeOK
  <1>7. CASE VerifyOtp(v)
    BY <1>1, <1>5, <1>7 DEF VerifyOtp, VisitState, Past, LtiTypeOK
  <1>8. CASE BridgeFails(v)
    BY <1>1, <1>5, <1>8 DEF BridgeFails, VisitState, Past, LtiTypeOK
  <1> QED BY <1>2, <1>4, <1>6, <1>7, <1>8 DEF BridgeStep

LEMMA AdminKeepsInv ==
    ASSUME LtiInv, AdminStep
    PROVE  LtiInv' /\ post' = post
  <1>1. LtiTypeOK /\ UNCHANGED <<state, post, identity, account, bridge>>
    BY DEF LtiInv, AdminStep, Revoke, Grant, SetBinding, rows
  <1>2. OneAccountPerPerson' /\ PostsFit' /\ TicketsFit'
    BY <1>1 DEF LtiInv, OneAccountPerPerson, PostsFit, TicketsFit, bridge, Sender
  <1>3. ASSUME NEW u \in User, NEW s \in Managed, Revoke(u, s) PROVE LtiInv'
    <2>1. LtiTypeOK' /\ OnePrimary(primary)'
      BY <1>1, <1>3 DEF LtiTypeOK, bridge, Revoke, LtiInv, OnePrimary
    <2> QED BY <1>2, <2>1 DEF LtiInv
  <1>4. ASSUME NEW u \in User, NEW s \in Managed, NEW b \in BOOLEAN, Grant(u, s, b) PROVE LtiInv'
    <2>1. s \in School
      BY LaunchAssumption
    <2>2. LtiTypeOK'
      BY <1>1, <1>4, <2>1 DEF LtiTypeOK, bridge, Grant
    <2>3. OnePrimary(primary)'
      BY <1>4 DEF Grant, LtiInv, OnePrimary
    <2> QED BY <1>2, <2>2, <2>3 DEF LtiInv
  <1>5. ASSUME NEW s \in Disabled, NEW b \in BOOLEAN, SetBinding(s, b) PROVE LtiInv'
    <2>1. LtiTypeOK' /\ OnePrimary(primary)'
      BY <1>1, <1>5, LaunchAssumption DEF LtiTypeOK, bridge, rows, SetBinding, LtiInv, OnePrimary
    <2> QED BY <1>2, <2>1 DEF LtiInv
  <1> QED BY <1>1, <1>3, <1>4, <1>5 DEF AdminStep

LEMMA TimeKeepsInv ==
    ASSUME LtiInv, Timeout \/ \E l \in Launch : StartLogin(l)
    PROVE  LtiInv' /\ post' = post
  <1>1. LtiTypeOK /\ UNCHANGED <<post, rows, active, visit, link, faulty>>
    BY DEF LtiInv, Timeout, StateExpires, TicketExpires, StartLogin, bridge
  <1>2. state' \in [Launch -> {"none", "issued", "consumed", "expired"}]
    BY <1>1 DEF LtiTypeOK, Timeout, StateExpires, TicketExpires, StartLogin
  <1>3. /\ ticket' \in [Post -> {"none", "fresh", "used", "expired"}]
        /\ \A p \in Post : ticket'[p] = ticket[p] \/ (ticket[p] = "fresh" /\ ticket'[p] = "expired")
    BY <1>1 DEF LtiTypeOK, Timeout, StateExpires, TicketExpires, StartLogin, bridge
  <1>4. LtiTypeOK'
    BY <1>1, <1>2, <1>3 DEF LtiTypeOK, rows
  <1>5. PostsFit'
    BY <1>1, <1>3 DEF LtiInv, PostsFit, rows, Sender
  <1>6. TicketsFit'
    BY <1>1, <1>3, LaunchAssumption DEF LtiInv, TicketsFit
  <1>7. OneAccountPerPerson' /\ OnePrimary(primary)'
    BY <1>1 DEF LtiInv, OneAccountPerPerson, OnePrimary, rows
  <1> QED BY <1>1, <1>4, <1>5, <1>6, <1>7 DEF LtiInv

THEOREM LtiInductive == LtiInv /\ [LtiNext]_ltiVars => LtiInv'
  <1> SUFFICES ASSUME LtiInv, [LtiNext]_ltiVars PROVE LtiInv'
    OBVIOUS
  <1>1. CASE UNCHANGED ltiVars
    BY <1>1 DEF ltiVars, LtiInv, LtiTypeOK, OneAccountPerPerson, PostsFit, TicketsFit,
                OnePrimary, Sender
  <1> QED BY <1>1, LaunchKeepsInv, BridgeKeepsInv, AdminKeepsInv, TimeKeepsInv DEF LtiNext

\* The rows of launches always fit together.
THEOREM LtiRowsAreTyped == LtiSpec => []LtiTypeOK
  <1>1. LtiInv => LtiTypeOK
    BY DEF LtiInv
  <1> QED BY <1>1, LtiInitInv, LtiInductive, PTL DEF LtiSpec

\* However many tabs launch a person for the first time, one account is left,
\* and the identity names it.
THEOREM OneAccountEach == LtiSpec => []OneAccountPerPerson
  <1>1. LtiInv => OneAccountPerPerson
    BY DEF LtiInv
  <1> QED BY <1>1, LtiInitInv, LtiInductive, PTL DEF LtiSpec

\* Of all the visits that bring one ticket at most one gets past it.
THEOREM TicketsAreSingleUse == LtiSpec => []TicketOpensOneSession
  <1>1. LtiInv => TicketOpensOneSession
    <2> SUFFICES ASSUME LtiInv, NEW p \in Post PROVE Cardinality(Served(p)) <= 1
      BY DEF TicketOpensOneSession
    <2>1. \A v, w \in Served(p) : v = w
      BY DEF Served, LtiInv, TicketsFit, Past
    <2>2. CASE Served(p) = {}
      BY <2>2, FS_EmptySet
    <2>3. CASE Served(p) # {}
      <3>1. PICK v : Served(p) = {v}
        BY <2>1, <2>3
      <3> QED BY <3>1, FS_Singleton
    <2> QED BY <2>2, <2>3
  <1> QED BY <1>1, LtiInitInv, LtiInductive, PTL DEF LtiSpec

\* A launch takes no membership away and moves no primary school, for any
\* interleaving with other launches and with administrators.
THEOREM LaunchesOnlyAdd == LtiSpec => LaunchKeepsMemberships
  <1> DEFINE Kept == (\E p \in Post : post'[p] # post[p]) =>
               /\ member \subseteq member' /\ primary \subseteq primary'
               /\ OnePrimary(primary')
  <1>1. LtiInv /\ [LtiNext]_ltiVars => [Kept]_ltiVars
    <2> SUFFICES ASSUME LtiInv, LtiNext, NEW p \in Post, post'[p] # post[p]
                 PROVE  /\ member \subseteq member' /\ primary \subseteq primary'
                        /\ OnePrimary(primary')
      BY DEF ltiVars
    <2>1. PICK o \in Post : LaunchStep(o)
      BY BridgeKeepsInv, AdminKeepsInv, TimeKeepsInv DEF LtiNext
    <2>2. LtiInv' /\ (member \subseteq member' /\ primary \subseteq primary')
      BY <2>1, LaunchKeepsInv
    <2> QED BY <2>2 DEF LtiInv, OnePrimary
  <1> HIDE DEF Kept
  <1>2. LtiSpec => [][Kept]_ltiVars
    BY <1>1, LtiInitInv, LtiInductive, PTL DEF LtiSpec
  <1> QED BY <1>2 DEF LaunchKeepsMemberships, Kept

(***************************************************************************)
(* Who gets in.  The tabs of a person take each other's magic link away,    *)
(* but as long as no service fails somebody has it: a used ticket means a   *)
(* session, the one good link, or a request that will generate it.          *)
(***************************************************************************)
Admitted(q) ==
  \E v \in Visit : /\ Visitor(v) = q
                   /\ \/ visit[v] \in {"consumed", "session"}
                      \/ visit[v] = "linked" /\ link[q] = v
LinkIsHeld == \A p \in Post : ticket[p] = "used" => Sender(p) \in faulty \/ Admitted(Sender(p))

\* When no bridge request of a person is under way and one of the person's tickets was
\* used, the person has a session, unless a service failed one of the requests.
UnderWay(q) == \E v \in Visit : Visitor(v) = q /\ visit[v] \in {"consumed", "linked"}
SomeTabGotIn ==
  \A p \in Post :
    ticket[p] = "used" /\ ~UnderWay(Sender(p)) =>
      \/ Sender(p) \in faulty
      \/ \E v \in Visit : Visitor(v) = Sender(p) /\ visit[v] = "session"

\* A request of the bridge moves its own visit, and the link of its own person only.
LEMMA BridgeKeepsLink ==
    ASSUME LtiTypeOK, LinkIsHeld, NEW v \in Visit, BridgeStep(v)
    PROVE  LinkIsHeld'
  <1> DEFINE q == Visitor(v)
  <1>1. /\ visit \in [Visit -> VisitState] /\ link \in [Person -> Visit \cup {None}]
        /\ q \in Person /\ TicketOf[v] \in Post
        /\ \A p \in Post : Sender(p) \in Person
    BY LaunchAssumption DEF LtiTypeOK, Visitor, Sender
  <1>2. ASSUME NEW p \in Post, ticket'[p] = "used", ticket[p] # "used"
        PROVE  Admitted(Sender(p))'
    <2>1. ConsumeTicket(v) /\ p = TicketOf[v] /\ visit'[v] = "consumed"
      BY <1>1, <1>2 DEF BridgeStep, ConsumeTicket, GenerateLink, VerifyOtp, BridgeFails, LtiTypeOK
    <2> QED BY <1>1, <2>1 DEF Admitted, Visitor
  <1>3. ASSUME NEW p \in Post, ticket[p] = "used"
        PROVE  Sender(p) \in faulty' \/ Admitted(Sender(p))'
    <2>1. faulty \subseteq faulty'
      BY DEF BridgeStep, ConsumeTicket, GenerateLink, VerifyOtp, BridgeFails
    <2>2. CASE Sender(p) \in faulty
      BY <2>1, <2>2
    <2>3. CASE Sender(p) \notin faulty
      <3>1. PICK u \in Visit : /\ Visitor(u) = Sender(p)
                               /\ \/ visit[u] \in {"consumed", "session"}
                                  \/ visit[u] = "linked" /\ link[Sender(p)] = u
        BY <1>3, <2>3 DEF LinkIsHeld, Admitted
      <3>2. CASE ConsumeTicket(v)
        <4>1. u # v /\ visit'[u] = visit[u] /\ link' = link
          BY <1>1, <3>1, <3>2 DEF ConsumeTicket
        <4> QED BY <3>1, <4>1 DEF Admitted
      <3>3. CASE GenerateLink(v)
        <4>1. /\ visit'[v] = "linked" /\ link'[q] = v
              /\ Sender(p) # q => link'[Sender(p)] = link[Sender(p)]
              /\ u # v => visit'[u] = visit[u]
          BY <1>1, <3>3 DEF GenerateLink
        <4>2. CASE Sender(p) = q
          BY <4>1, <4>2 DEF Admitted
        <4>3. CASE Sender(p) # q
          BY <3>1, <4>1, <4>3 DEF Admitted
        <4> QED BY <4>2, <4>3
      <3>4. CASE VerifyOtp(v)
        <4>1. CASE link[q] = v
          <5>1. /\ visit'[v] = "session"
                /\ Sender(p) # q => link'[Sender(p)] = link[Sender(p)]
                /\ u # v => visit'[u] = visit[u]
            BY <1>1, <3>4, <4>1 DEF VerifyOtp
          <5>2. CASE Sender(p) = q
            BY <5>1, <5>2 DEF Admitted
          <5>3. CASE Sender(p) # q
            BY <3>1, <5>1, <5>3 DEF Admitted
          <5> QED BY <5>2, <5>3
        <4>2. CASE link[q] # v
          <5>1. u # v /\ visit'[u] = visit[u] /\ link' = link
            BY <1>1, <3>1, <3>4, <4>2 DEF VerifyOtp
          <5> QED BY <3>1, <5>1 DEF Admitted
        <4> QED BY <4>1, <4>2
      <3>5. CASE BridgeFails(v)
        <4>1. CASE Sender(p) = q
          BY <3>5, <4>1 DEF BridgeFails
        <4>2. CASE Sender(p) # q
          <5>1. u # v /\ visit'[u] = visit[u] /\ link'[Sender(p)] = link[Sender(p)]
            BY <1>1, <3>1, <3>5, <4>2 DEF BridgeFails
          <5> QED BY <3>1, <5>1 DEF Admitted
        <4> QED BY <4>1, <4>2
      <3> QED BY <3>2, <3>3, <3>4, <3>5 DEF BridgeStep
    <2> QED BY <2>2, <2>3
  <1> QED BY <1>2, <1>3 DEF LinkIsHeld, Sender

LEMMA LinkStaysHeld == LtiTypeOK /\ LinkIsHeld /\ [LtiNext]_ltiVars => LinkIsHeld'
  <1> SUFFICES ASSUME LtiTypeOK, LinkIsHeld, [LtiNext]_ltiVars PROVE LinkIsHeld'
    OBVIOUS
  <1>1. CASE \E v \in Visit : BridgeStep(v)
    BY <1>1, BridgeKeepsLink
  <1>2. CASE ~ \E v \in Visit : BridgeStep(v)
    <2>1. UNCHANGED <<visit, link, faulty>>
      BY <1>2 DEF LtiNext, ltiVars, LaunchStep, AdminStep, Timeout, StartLogin, StateExpires,
                  CheckState, ConsumeState, TokenRefused, Resolve, FindAccount, Write, Mint,
                  TicketExpires, Grant, Revoke, SetBinding, bridge
    <2>2. \A p \in Post : ticket'[p] = "used" => ticket[p] = "used"
      BY <1>2 DEF LtiNext, ltiVars, LaunchStep, AdminStep, Timeout, StartLogin, StateExpires,
                  CheckState, ConsumeState, TokenRefused, Resolve, FindAccount, Write, Mint,
                  TicketExpires, Grant, Revoke, SetBinding, bridge, LtiTypeOK
    <2> QED BY <2>1, <2>2 DEF LinkIsHeld, Admitted
  <1> QED BY <1>1, <1>2

\* Whoever brought a good ticket ends with a session once the requests are over, however
\* the tabs interleave: the safety half of OneTabGetsIn.
THEOREM OneTabAlwaysGotIn == LtiSpec => []SomeTabGotIn
  <1>1. LtiInit => LinkIsHeld
    BY DEF LtiInit, LinkIsHeld
  <1>2. LtiTypeOK /\ LinkIsHeld => SomeTabGotIn
    BY DEF LinkIsHeld, Admitted, SomeTabGotIn, UnderWay
  <1> QED BY <1>1, <1>2, LinkStaysHeld, LtiRowsAreTyped, PTL DEF LtiSpec
=============================================================================

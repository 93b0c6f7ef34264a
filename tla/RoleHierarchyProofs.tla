------------------------ MODULE RoleHierarchyProofs ------------------------
(***************************************************************************)
(* What TLAPS proves of RoleHierarchy for every set of roles, users and     *)
(* requests: the types, that there is one super admin and, as long as one   *)
(* page of the role list shows every role there may be, that custom ranks   *)
(* are contiguous and that a reorder leaves the roles above its caller.     *)
(***************************************************************************)
EXTENDS RoleHierarchy, FiniteSetTheorems, FunctionTheorems, TLAPS

(***************************************************************************)
(* Numbers and ranks                                                        *)
(***************************************************************************)

\* A set of ranks that is not empty has a least one.
LEMMA LeastNatural ==
    ASSUME NEW T \in SUBSET Nat, T # {}
    PROVE  \E x \in T : \A y \in T : x <= y
  <1> DEFINE Below == {p \in Nat \X Nat : p[1] < p[2]}
  <1>1. IsWellFoundedOn(Below, Nat)
    BY NatLessThanWellFounded DEF OpToRel
  <1> HIDE DEF Below
  <1>2. PICK x \in T : \A y \in T : <<y, x>> \notin Below
    BY <1>1, WFMin
  <1>3. \A y \in T : ~(y < x)
    BY <1>2 DEF Below
  <1>4. \A y \in T : x <= y
    BY <1>3
  <1> QED BY <1>4

\* There are finitely many custom roles at any time.
LEMMA CustomIsNat ==
    ASSUME RoleTypeOK
    PROVE  IsFiniteSet(Live) /\ Custom \in Nat
  <1>1. Live \in SUBSET Role
    BY DEF RoleTypeOK
  <1> QED BY <1>1, RolesAssumption, FS_Subset, FS_CardinalityType DEF Custom

\* The rank of a role that is there, and of a user, is a number.
LEMMA RankIsNat ==
    ASSUME RoleTypeOK, NEW r \in Live \cup {"super_admin", "user"}
    PROVE  RankOf(r) \in Nat
  BY RanksAssumption DEF RoleTypeOK, RankOf, Live

LEMMA EffectiveRankIsNat ==
    ASSUME RoleTypeOK, NEW u \in User
    PROVE  EffectiveRank(u) \in Nat
  <1>1. CASE held[u] = {}
    BY <1>1, RanksAssumption DEF EffectiveRank
  <1>2. CASE held[u] # {}
    <2> DEFINE T == {RankOf(r) : r \in held[u]}
    <2>1. held[u] \subseteq Live \cup {"super_admin", "user"}
      BY DEF RoleTypeOK
    <2>2. T \in SUBSET Nat /\ T # {}
      BY <1>2, <2>1, RankIsNat
    <2>3. \E n \in T : \A m \in T : n <= m
      BY <2>2, LeastNatural
    <2>4. \E n \in T : \A r \in held[u] : n <= RankOf(r)
      BY <2>3
    <2>5. EffectiveRank(u) = CHOOSE n \in T : \A r \in held[u] : n <= RankOf(r)
      BY <1>2 DEF EffectiveRank
    <2> HIDE DEF T
    <2>6. EffectiveRank(u) \in T
      BY <2>4, <2>5
    <2> QED BY <2>2, <2>6
  <1> QED BY <1>1, <1>2

(***************************************************************************)
(* Requests: one that writes ranks holds the lock from its first read, so   *)
(* what a creation has read of the custom roles is still so at its commit.  *)
(***************************************************************************)
WritesRanks(m) == m # Nobody /\ m.op \in {"create", "reorder"}
LockHeld == \A q \in Req : WritesRanks(req[q]) => rankLock = q
CreateFits ==
  \A q \in Req : (req[q] # Nobody /\ req[q].op = "create") =>
    /\ req[q].role \in made \ Live
    /\ req[q].at = Custom + 1 /\ Custom < MaxCustom
TypeInv ==
  /\ RoleTypeOK
  /\ DOMAIN req = Req
  /\ LockHeld
  /\ CreateFits

\* A request that begins or ends is the only one that changes.
LEMMA RequestMoves ==
    ASSUME DOMAIN req = Req, NEW q \in Req, NEW m, req' = [req EXCEPT ![q] = m]
    PROVE  /\ DOMAIN req' = Req
           /\ req'[q] = m
           /\ \A p \in Req \ {q} : req'[p] = req[p]
  OBVIOUS

\* Steps that touch no rank and neither begin nor end a request that does
\* leave the lock and the creations alone.
LEMMA RanksUntouched ==
    ASSUME TypeInv, UNCHANGED <<rank, made, rankLock>>, DOMAIN req' = Req,
           \A p \in Req : WritesRanks(req'[p]) => req'[p] = req[p]
    PROVE  LockHeld' /\ CreateFits'
  <1>1. Live' = Live /\ Custom' = Custom
    BY DEF Live, Custom
  <1>2. \A p \in Req : (req'[p] # Nobody /\ req'[p].op = "create") => WritesRanks(req'[p])
    BY DEF WritesRanks
  <1>3. LockHeld'
    BY DEF TypeInv, LockHeld
  <1>4. CreateFits'
    BY <1>1, <1>2 DEF TypeInv, CreateFits
  <1> QED BY <1>3, <1>4

\* A request only reads and validates at first.
LEMMA BeginningsOnlyRead == RequestBegins => UNCHANGED <<rank, held, users, signup>>
  <1>1. \A q \in Req, a \in User, r \in Role :
          BeginCreate(q, a, r) \/ BeginDelete(q, a, r) => UNCHANGED <<rank, held, users, signup>>
    BY DEF BeginCreate, BeginDelete
  <1>2. \A q \in Req, a \in User : BeginReorder(q, a) => UNCHANGED <<rank, held, users, signup>>
    BY DEF BeginReorder
  <1>3. \A q \in Req, a \in User, u \in User, r \in AnyRole :
          BeginAssign(q, a, u, r) \/ BeginRemove(q, a, u, r)
            => UNCHANGED <<rank, held, users, signup>>
    BY DEF BeginAssign, BeginRemove
  <1> QED BY <1>1, <1>2, <1>3 DEF RequestBegins

\* Initially nobody has registered and nothing is in flight.
LEMMA TypeInit == RoleInit => TypeInv
  <1> SUFFICES ASSUME RoleInit PROVE TypeInv
    OBVIOUS
  <1>1. Live = {}
    BY DEF RoleInit, Live
  <1>2. RoleTypeOK
    BY <1>1, RanksAssumption DEF RoleInit, RoleTypeOK
  <1>3. DOMAIN req = Req /\ LockHeld /\ CreateFits
    BY DEF RoleInit, LockHeld, CreateFits, WritesRanks
  <1> QED BY <1>2, <1>3 DEF TypeInv

\* Sign-ups and tokens leave the requests and the ranks alone.
LEMMA SignUpsKeepTypes ==
    ASSUME TypeInv, NEW u \in User,
           SignUp(u) \/ CommitSignUp(u) \/ AbortSignUp(u) \/ IssueToken(u)
    PROVE  TypeInv'
  <1>1. UNCHANGED <<rank, made, rankLock, req>>
    BY DEF SignUp, CommitSignUp, AbortSignUp, IssueToken
  <1>2. DOMAIN req' = Req /\ LockHeld' /\ CreateFits'
    BY <1>1, RanksUntouched DEF TypeInv
  <1>3. Live' = Live
    BY <1>1 DEF Live
  <1>4. RoleTypeOK'
    <2>1. CASE SignUp(u)
      BY <1>1, <1>3, <2>1 DEF TypeInv, RoleTypeOK, SignUp
    <2>2. CASE CommitSignUp(u)
      BY <1>1, <1>3, <2>2 DEF TypeInv, RoleTypeOK, CommitSignUp
    <2>3. CASE AbortSignUp(u)
      BY <1>1, <1>3, <2>3 DEF TypeInv, RoleTypeOK, AbortSignUp
    <2>4. CASE IssueToken(u)
      <3>1. EffectiveRank(u) \in Nat
        BY EffectiveRankIsNat DEF TypeInv
      <3> QED BY <1>1, <1>3, <2>4, <3>1 DEF TypeInv, RoleTypeOK, IssueToken
    <2> QED BY <2>1, <2>2, <2>3, <2>4
  <1> QED BY <1>2, <1>4 DEF TypeInv

\* A request that begins carries what its kind needs.
LEMMA BegunRequest ==
    ASSUME TypeInv, NEW q \in Req, NEW m, Starts(q, m), RequestOK(m),
           UNCHANGED <<rank, held, users, claims, signup>>,
           made \subseteq made', made' \subseteq Role, rankLock' \in {rankLock, q}
    PROVE  RoleTypeOK'
  <1>1. \A p \in Req : req'[p] # Nobody => RequestOK(req'[p])
    BY DEF TypeInv, RoleTypeOK, Starts
  <1>2. Live' = Live
    BY DEF Live
  <1> QED BY <1>1, <1>2 DEF TypeInv, RoleTypeOK

\* A request ends by leaving its slot free.
LEMMA EndedRequest ==
    ASSUME TypeInv, NEW q \in Req, Ends(q)
    PROVE  /\ DOMAIN req' = Req /\ req'[q] = Nobody
           /\ \A p \in Req \ {q} : req'[p] = req[p]
           /\ \A p \in Req : req'[p] # Nobody => RequestOK(req'[p])
  BY DEF TypeInv, RoleTypeOK, Ends

\* The beginnings.
LEMMA BeginningsKeepTypes ==
    ASSUME TypeInv, RequestBegins
    PROVE  TypeInv'
  <1>1. PICK q \in Req, a \in User :
          \/ \E r \in Role : BeginCreate(q, a, r) \/ BeginDelete(q, a, r)
          \/ BeginReorder(q, a)
          \/ \E u \in User, r \in AnyRole : BeginAssign(q, a, u, r) \/ BeginRemove(q, a, u, r)
    BY DEF RequestBegins
  <1>2. claims[a] \in Nat /\ DOMAIN req = Req
    BY DEF TypeInv, RoleTypeOK
  <1>3. IsFiniteSet(Live) /\ Custom \in Nat
    BY CustomIsNat DEF TypeInv
  <1>4. ASSUME NEW r \in Role, BeginCreate(q, a, r) PROVE TypeInv'
    <2> DEFINE m == [op |-> "create", by |-> claims[a], role |-> r, at |-> Custom + 1]
    <2>1. /\ Starts(q, m) /\ r \notin made /\ Custom < MaxCustom
          /\ rankLock = Nobody /\ rankLock' = q /\ made' = made \cup {r}
          /\ UNCHANGED <<rank, held, users, claims, signup>>
      BY <1>4 DEF BeginCreate, RankLockFree
    <2>2. RequestOK(m)
      BY <1>2, <1>3 DEF RequestOK
    <2>3. m.op = "create" /\ m.role = r /\ m.at = Custom + 1
      OBVIOUS
    <2> HIDE DEF m
    <2>4. RoleTypeOK'
      <3>1. made \subseteq Role
        BY DEF TypeInv, RoleTypeOK
      <3> QED BY <2>1, <2>2, <3>1, BegunRequest
    <2>5. DOMAIN req' = Req /\ req'[q] = m /\ \A p \in Req \ {q} : req'[p] = req[p]
      BY <1>2, <2>1, RequestMoves DEF Starts
    <2>6. \A p \in Req : ~WritesRanks(req[p])
      BY <2>1, NobodyAssumption DEF TypeInv, LockHeld
    <2>7. LockHeld'
      BY <2>1, <2>5, <2>6 DEF LockHeld
    <2>8. Live' = Live /\ Custom' = Custom /\ Live \subseteq made
      BY <2>1 DEF Live, Custom, TypeInv, RoleTypeOK
    <2>9. CreateFits'
      <3> SUFFICES ASSUME NEW p \in Req, req'[p] # Nobody, req'[p].op = "create"
                   PROVE  /\ req'[p].role \in made' \ Live'
                          /\ req'[p].at = Custom' + 1 /\ Custom' < MaxCustom
        BY DEF CreateFits
      <3>1. p = q
        BY <2>5, <2>6 DEF WritesRanks
      <3> QED BY <2>1, <2>3, <2>5, <2>8, <3>1
    <2> QED BY <2>4, <2>5, <2>7, <2>9 DEF TypeInv
  <1>5. ASSUME BeginReorder(q, a) PROVE TypeInv'
    <2>1. PICK S \in SUBSET (Live \cup {"super_admin", "user"}) :
            \E to \in Bijections(S \cap Live, 1..Cardinality(S \cap Live)) :
              Starts(q, [op |-> "reorder", by |-> claims[a], to |-> to])
      BY <1>5 DEF BeginReorder
    <2>2. PICK to \in Bijections(S \cap Live, 1..Cardinality(S \cap Live)) :
            Starts(q, [op |-> "reorder", by |-> claims[a], to |-> to])
      BY <2>1
    <2> DEFINE m == [op |-> "reorder", by |-> claims[a], to |-> to]
    <2>3. RequestOK(m)
      <3>1. S \cap Live \subseteq Role
        BY DEF TypeInv, RoleTypeOK
      <3>2. Cardinality(S \cap Live) \in Nat
        BY <1>3, FS_Intersection, FS_CardinalityType
      <3>3. DOMAIN to \subseteq Role /\ to \in [DOMAIN to -> Nat]
        BY <3>1, <3>2 DEF Bijections
      <3> QED BY <1>2, <3>3 DEF RequestOK
    <2>4. m.op = "reorder"
      OBVIOUS
    <2> HIDE DEF m
    <2>5. /\ Starts(q, m) /\ rankLock = Nobody /\ rankLock' = q
          /\ UNCHANGED <<rank, made, held, users, claims, signup>>
      BY <1>5, <2>2 DEF BeginReorder, RankLockFree, m
    <2>6. RoleTypeOK'
      <3>1. made \subseteq Role
        BY DEF TypeInv, RoleTypeOK
      <3> QED BY <2>3, <2>5, <3>1, BegunRequest
    <2>7. DOMAIN req' = Req /\ req'[q] = m /\ \A p \in Req \ {q} : req'[p] = req[p]
      BY <1>2, <2>5, RequestMoves DEF Starts
    <2>8. \A p \in Req : ~WritesRanks(req[p])
      BY <2>5, NobodyAssumption DEF TypeInv, LockHeld
    <2>9. LockHeld'
      BY <2>5, <2>7, <2>8 DEF LockHeld
    <2>10. CreateFits'
      BY <2>4, <2>7, <2>8 DEF CreateFits, WritesRanks
    <2> QED BY <2>6, <2>7, <2>9, <2>10 DEF TypeInv
  <1>6. ASSUME NEW m, Starts(q, m), RequestOK(m), ~WritesRanks(m),
               UNCHANGED <<rank, made, held, users, claims, signup, rankLock>>
        PROVE  TypeInv'
    <2>1. made \subseteq Role
      BY DEF TypeInv, RoleTypeOK
    <2>2. RoleTypeOK'
      BY <1>6, <2>1, BegunRequest
    <2>3. DOMAIN req' = Req /\ req'[q] = m /\ \A p \in Req \ {q} : req'[p] = req[p]
      BY <1>2, <1>6, RequestMoves DEF Starts
    <2>4. LockHeld' /\ CreateFits'
      BY <1>6, <2>3, RanksUntouched
    <2> QED BY <2>2, <2>3, <2>4 DEF TypeInv
  <1>7. ASSUME NEW r \in Role, BeginDelete(q, a, r) PROVE TypeInv'
    <2> DEFINE m == [op |-> "delete", by |-> claims[a], role |-> r]
    <2>1. RequestOK(m) /\ ~WritesRanks(m)
      BY <1>2 DEF RequestOK, WritesRanks
    <2>2. Starts(q, m) /\ UNCHANGED <<rank, made, held, users, claims, signup, rankLock>>
      BY <1>7 DEF BeginDelete
    <2> QED BY <1>6, <2>1, <2>2
  <1>8. ASSUME NEW u \in User, NEW r \in AnyRole, BeginAssign(q, a, u, r) PROVE TypeInv'
    <2> DEFINE m == [op |-> "assign", by |-> claims[a], user |-> u, role |-> r]
    <2>1. RequestOK(m) /\ ~WritesRanks(m)
      BY <1>2 DEF RequestOK, WritesRanks
    <2>2. Starts(q, m) /\ UNCHANGED <<rank, made, held, users, claims, signup, rankLock>>
      BY <1>8 DEF BeginAssign
    <2> QED BY <1>6, <2>1, <2>2
  <1>9. ASSUME NEW u \in User, NEW r \in AnyRole, BeginRemove(q, a, u, r) PROVE TypeInv'
    <2> DEFINE m == [op |-> "remove", by |-> claims[a], user |-> u, role |-> r]
    <2>1. RequestOK(m) /\ ~WritesRanks(m)
      BY <1>2 DEF RequestOK, WritesRanks
    <2>2. Starts(q, m) /\ UNCHANGED <<rank, made, held, users, claims, signup, rankLock>>
      BY <1>9 DEF BeginRemove
    <2> QED BY <1>6, <2>1, <2>2
  <1> QED BY <1>1, <1>4, <1>5, <1>7, <1>8, <1>9

\* Two requests never write ranks at once.
LEMMA OneWriter ==
    ASSUME TypeInv, NEW q \in Req, WritesRanks(req[q])
    PROVE  rankLock = q /\ \A p \in Req \ {q} : ~WritesRanks(req[p])
  BY DEF TypeInv, LockHeld

\* The lock is given back by the one that holds it.
LEMMA LockGivenBack ==
    ASSUME TypeInv, NEW q \in Req, Ends(q), Release(q)
    PROVE  LockHeld' /\ rankLock' \in Req \cup {Nobody}
  <1>1. req'[q] = Nobody /\ \A p \in Req \ {q} : req'[p] = req[p]
    BY EndedRequest
  <1>2. \A p \in Req : WritesRanks(req'[p]) => p # q /\ rankLock = p
    BY <1>1 DEF TypeInv, LockHeld, WritesRanks
  <1>3. LockHeld'
    BY <1>2 DEF LockHeld, Release
  <1>4. rankLock' \in Req \cup {Nobody}
    BY DEF Release, TypeInv, RoleTypeOK
  <1> QED BY <1>3, <1>4

\* When no request in flight writes ranks there is no creation to fit.
LEMMA NoneToFit ==
    ASSUME \A p \in Req : ~WritesRanks(req'[p])
    PROVE  CreateFits'
  BY DEF CreateFits, WritesRanks

\* The commit of a creation adds its role, that of a reorder no role.
LEMMA CreateKeepsTypes ==
    ASSUME TypeInv, NEW q \in Req, CommitCreate(q)
    PROVE  TypeInv'
  <1> DEFINE n == req[q].role
  <1>1. /\ req[q] # Nobody /\ req[q].op = "create"
        /\ rank' = [r \in Live \cup {n} |-> IF r = n THEN req[q].at ELSE rank[r]]
        /\ Ends(q) /\ Release(q)
        /\ UNCHANGED <<made, held, users, claims, signup>>
    BY DEF CommitCreate
  <1>2. n \in made /\ req[q].at \in Nat
    BY <1>1, CustomIsNat DEF TypeInv, CreateFits
  <1> HIDE DEF n
  <1>3. Live' = Live \cup {n}
    BY <1>1 DEF Live
  <1>4. rank' \in [Live' -> Nat]
    BY <1>1, <1>2, <1>3 DEF TypeInv, RoleTypeOK
  <1>5. WritesRanks(req[q])
    BY <1>1 DEF WritesRanks
  <1>6. \A p \in Req : ~WritesRanks(req'[p])
    BY <1>1, <1>5, OneWriter, EndedRequest DEF WritesRanks
  <1>7. LockHeld' /\ rankLock' \in Req \cup {Nobody}
    BY <1>1, LockGivenBack
  <1>8. DOMAIN req' = Req /\ \A p \in Req : req'[p] # Nobody => RequestOK(req'[p])
    BY <1>1, EndedRequest
  <1>9. RoleTypeOK'
    BY <1>1, <1>2, <1>3, <1>4, <1>7, <1>8 DEF TypeInv, RoleTypeOK
  <1> QED BY <1>6, <1>7, <1>8, <1>9, NoneToFit DEF TypeInv

LEMMA ReorderKeepsTypes ==
    ASSUME TypeInv, NEW q \in Req, CommitReorder(q)
    PROVE  TypeInv'
  <1> DEFINE to == req[q].to
  <1>1. /\ req[q] # Nobody /\ req[q].op = "reorder"
        /\ rank' = [r \in Live |-> IF r \in DOMAIN to THEN to[r] ELSE rank[r]]
        /\ Ends(q) /\ Release(q)
        /\ UNCHANGED <<made, held, users, claims, signup>>
    BY DEF CommitReorder
  <1>2. to \in [DOMAIN to -> Nat]
    BY <1>1 DEF TypeInv, RoleTypeOK, RequestOK
  <1> HIDE DEF to
  <1>3. Live' = Live
    BY <1>1 DEF Live
  <1>4. rank' \in [Live' -> Nat]
    BY <1>1, <1>2, <1>3 DEF TypeInv, RoleTypeOK
  <1>5. WritesRanks(req[q])
    BY <1>1 DEF WritesRanks
  <1>6. \A p \in Req : ~WritesRanks(req'[p])
    BY <1>1, <1>5, OneWriter, EndedRequest DEF WritesRanks
  <1>7. LockHeld' /\ rankLock' \in Req \cup {Nobody}
    BY <1>1, LockGivenBack
  <1>8. DOMAIN req' = Req /\ \A p \in Req : req'[p] # Nobody => RequestOK(req'[p])
    BY <1>1, EndedRequest
  <1>9. RoleTypeOK'
    BY <1>1, <1>3, <1>4, <1>7, <1>8 DEF TypeInv, RoleTypeOK
  <1> QED BY <1>6, <1>7, <1>8, <1>9, NoneToFit DEF TypeInv

\* A delete finds the lock free, so nobody is in the middle of ranks, and
\* nobody keeps the role.
LEMMA DeleteKeepsTypes ==
    ASSUME TypeInv, NEW q \in Req, CommitDelete(q)
    PROVE  TypeInv'
  <1> DEFINE left == Live \ {req[q].role}
  <1>1. PICK to \in Bijections(left, 1..Cardinality(left)) : rank' = to
    BY DEF CommitDelete
  <1>2. Cardinality(left) \in Nat
    BY CustomIsNat, FS_Difference, FS_CardinalityType DEF TypeInv
  <1>3. rank' \in [left -> Nat] /\ Live' = left
    BY <1>1, <1>2 DEF Bijections, Live
  <1>4. /\ held' = [u \in User |-> held[u] \ {req[q].role}]
        /\ rankLock = Nobody /\ Ends(q)
        /\ UNCHANGED <<made, users, claims, signup, rankLock>>
    BY DEF CommitDelete, RankLockFree
  <1>5. \A p \in Req : ~WritesRanks(req'[p])
    BY <1>4, EndedRequest, NobodyAssumption DEF TypeInv, LockHeld, WritesRanks
  <1>6. held' \in [User -> SUBSET (Live' \cup {"super_admin", "user"})]
    BY <1>3, <1>4 DEF TypeInv, RoleTypeOK
  <1>7. DOMAIN req' = Req /\ \A p \in Req : req'[p] # Nobody => RequestOK(req'[p])
    BY <1>4, EndedRequest
  <1>8. RoleTypeOK'
    BY <1>3, <1>4, <1>6, <1>7 DEF TypeInv, RoleTypeOK
  <1>9. LockHeld'
    BY <1>5 DEF LockHeld
  <1> QED BY <1>5, <1>7, <1>8, <1>9, NoneToFit DEF TypeInv

LEMMA EndsKeepTypes ==
    ASSUME TypeInv, NEW q \in Req, RequestEnds(q)
    PROVE  TypeInv'
  <1>1. ASSUME Ends(q), UNCHANGED <<rank, made, rankLock>> PROVE LockHeld' /\ CreateFits'
    <2>1. DOMAIN req' = Req /\ \A p \in Req : WritesRanks(req'[p]) => req'[p] = req[p]
      BY <1>1, EndedRequest DEF WritesRanks
    <2> QED BY <1>1, <2>1, RanksUntouched
  <1>2. Ends(q) => DOMAIN req' = Req /\ \A p \in Req : req'[p] # Nobody => RequestOK(req'[p])
    BY EndedRequest
  <1>3. CASE CommitAssign(q)
    <2>1. Ends(q) /\ UNCHANGED <<rank, made, users, claims, signup, rankLock>> /\ Live' = Live
      BY <1>3 DEF CommitAssign, Live
    <2>2. held' \in [User -> SUBSET (Live \cup {"super_admin", "user"})]
      BY <1>3 DEF CommitAssign, TypeInv, RoleTypeOK
    <2>3. RoleTypeOK'
      BY <1>2, <2>1, <2>2 DEF TypeInv, RoleTypeOK
    <2> QED BY <1>1, <1>2, <2>1, <2>3 DEF TypeInv
  <1>4. CASE CommitRemove(q)
    <2>1. Ends(q) /\ UNCHANGED <<rank, made, users, claims, signup, rankLock>> /\ Live' = Live
      BY <1>4 DEF CommitRemove, Live
    <2>2. held' \in [User -> SUBSET (Live \cup {"super_admin", "user"})]
      BY <1>4 DEF CommitRemove, TypeInv, RoleTypeOK
    <2>3. RoleTypeOK'
      BY <1>2, <2>1, <2>2 DEF TypeInv, RoleTypeOK
    <2> QED BY <1>1, <1>2, <2>1, <2>3 DEF TypeInv
  <1>5. CASE Rollback(q)
    <2>1. /\ Ends(q) /\ Release(q) /\ Live' = Live /\ Custom' = Custom
          /\ UNCHANGED <<rank, made, held, users, claims, signup>>
      BY <1>5 DEF Rollback, Live, Custom
    <2>2. LockHeld' /\ rankLock' \in Req \cup {Nobody}
      BY <2>1, LockGivenBack
    <2>3. RoleTypeOK'
      BY <1>2, <2>1, <2>2 DEF TypeInv, RoleTypeOK
    <2>4. CreateFits'
      BY <2>1, EndedRequest DEF TypeInv, CreateFits
    <2> QED BY <1>2, <2>1, <2>2, <2>3, <2>4 DEF TypeInv
  <1> QED
    BY <1>3, <1>4, <1>5, CreateKeepsTypes, ReorderKeepsTypes, DeleteKeepsTypes DEF RequestEnds

\* The types are inductive together with what a creation has read.
THEOREM TypeInductive == TypeInv /\ [RoleNext]_roleVars => TypeInv'
  <1> SUFFICES ASSUME TypeInv, [RoleNext]_roleVars PROVE TypeInv'
    OBVIOUS
  <1>1. CASE \E u \in User : SignUp(u) \/ CommitSignUp(u) \/ AbortSignUp(u) \/ IssueToken(u)
    BY <1>1, SignUpsKeepTypes
  <1>2. CASE RequestBegins
    BY <1>2, BeginningsKeepTypes
  <1>3. CASE \E q \in Req : RequestEnds(q)
    BY <1>3, EndsKeepTypes
  <1>4. CASE UNCHANGED roleVars
    BY <1>4 DEF roleVars, TypeInv, RoleTypeOK, LockHeld, CreateFits, Live, Custom
  <1> QED BY <1>1, <1>2, <1>3, <1>4 DEF RoleNext

\* Nobody ever holds a role that is not there, and every request carries what
\* its commit needs, however requests and deletes overlap.
THEOREM RolesAreTyped == RoleSpec => []RoleTypeOK
  <1>1. TypeInv => RoleTypeOK
    BY DEF TypeInv
  <1> QED BY <1>1, TypeInit, TypeInductive, PTL DEF RoleSpec

(***************************************************************************)
(* Ranks.  BaseRepository.list shows ListLimit rows at most, and a reorder  *)
(* numbers only the roles it is shown.  MaxCustom lets the table outgrow    *)
(* the page, so the theorems about ranks are about the behaviours in which  *)
(* it has not: they say nothing of the constants, and fail once it has.     *)
(***************************************************************************)
FitsOnAPage == Custom + 2 <= ListLimit

ReorderFits ==
  \A q \in Req : (req[q] # Nobody /\ req[q].op = "reorder") =>
    /\ req[q].to \in Bijections(Live, 1..Custom)
    /\ \A r \in Live : rank[r] <= req[q].by => req[q].to[r] = rank[r]
RankInv ==
  /\ TypeInv
  /\ RanksContiguous
  /\ Custom <= MaxCustom
  /\ ReorderFits

\* A numbering of a set without gaps gives an element the number of those
\* below it, and one.
LEMMA NumberIsCount ==
    ASSUME NEW S, IsFiniteSet(S), NEW f \in Bijections(S, 1..Cardinality(S)), NEW a \in S
    PROVE  Cardinality({x \in S : f[x] < f[a]}) = f[a] - 1
  <1> DEFINE T == {x \in S : f[x] < f[a]}
             h == [x \in T |-> f[x]]
  <1>1. Cardinality(S) \in Nat /\ IsFiniteSet(T)
    BY FS_CardinalityType, FS_Subset
  <1>2. f[a] \in 1..Cardinality(S)
    BY DEF Bijections
  <1>3. h \in Bijection(T, 1..(f[a] - 1))
    <2>1. h \in [T -> 1..(f[a] - 1)]
      BY <1>1, <1>2 DEF Bijections
    <2>2. \A x, y \in T : h[x] = h[y] => x = y
      BY DEF Bijections
    <2>3. \A n \in 1..(f[a] - 1) : \E x \in T : h[x] = n
      <3> SUFFICES ASSUME NEW n \in 1..(f[a] - 1) PROVE \E x \in T : h[x] = n
        OBVIOUS
      <3>1. n \in 1..Cardinality(S) /\ n < f[a]
        BY <1>1, <1>2
      <3>2. PICK x \in S : f[x] = n
        BY <3>1 DEF Bijections
      <3> QED BY <3>1, <3>2
    <2> HIDE DEF h, T
    <2> QED BY <2>1, <2>2, <2>3, Fun_IsBij
  <1>4. ExistsBijection(T, 1..(f[a] - 1))
    BY <1>3 DEF ExistsBijection
  <1>5. Cardinality(1..(f[a] - 1)) = Cardinality(T)
    BY <1>1, <1>4, FS_Bijection
  <1>6. Cardinality(1..(f[a] - 1)) = f[a] - 1
    <2> DEFINE k == f[a] - 1
    <2>1. k \in Nat
      BY <1>1, <1>2
    <2> HIDE DEF k
    <2>2. Cardinality(1..k) = IF 1 > k THEN 0 ELSE k - 1 + 1
      BY <2>1, FS_Interval
    <2> QED BY <2>1, <2>2 DEF k
  <1> QED BY <1>5, <1>6

\* A page that is long enough shows every custom role.
LEMMA WholePage ==
    ASSUME TypeInv, FitsOnAPage,
           NEW S \in SUBSET (Live \cup {"super_admin", "user"}), Listed(S)
    PROVE  S \cap Live = Live
  <1> DEFINE All == Live \cup {"super_admin", "user"}
             Some == Live \cup {"super_admin"}
  <1>1. IsFiniteSet(Live) /\ Custom \in Nat /\ Live \subseteq Role
    BY CustomIsNat DEF TypeInv, RoleTypeOK
  <1>2. IsFiniteSet(Some) /\ Cardinality(Some) = Custom + 1
    BY <1>1, RolesAssumption, FS_AddElement DEF Custom
  <1>3. "user" \notin Some /\ All = Some \cup {"user"}
    BY <1>1, RolesAssumption
  <1>4. IsFiniteSet(All) /\ Cardinality(All) = Custom + 2
    <2>1. IsFiniteSet(Some \cup {"user"}) /\ Cardinality(Some \cup {"user"}) = Cardinality(Some) + 1
      BY <1>2, <1>3, FS_AddElement
    <2> QED BY <1>1, <1>2, <1>3, <2>1
  <1>5. Cardinality(S) = Custom + 2
    BY <1>1, ListAssumption DEF Listed, FitsOnAPage
  <1> HIDE DEF All
  <1>6. S \in SUBSET All
    BY DEF All
  <1>7. S = All
    BY <1>4, <1>5, <1>6, FS_Subset
  <1> QED BY <1>7 DEF All

\* The new ranks a reorder computes leave the roles above its caller.
LEMMA SeniorsKeepRanks ==
    ASSUME TypeInv, RanksContiguous, NEW S, S \cap Live = Live,
           NEW by \in Nat, NEW to, NewRanks(S, by, to)
    PROVE  /\ to \in Bijections(Live, 1..Custom)
           /\ \A r \in Live : rank[r] <= by => to[r] = rank[r]
  <1>1. IsFiniteSet(Live) /\ Custom \in Nat /\ Custom = Cardinality(Live)
    BY CustomIsNat DEF TypeInv, Custom
  <1>2. to \in Bijections(Live, 1..Custom) /\ rank \in Bijections(Live, 1..Custom)
    BY <1>1 DEF NewRanks, RanksContiguous
  <1>3. /\ \A f, g \in Live : rank[f] <= by /\ rank[g] <= by /\ rank[f] < rank[g] => to[f] < to[g]
        /\ \A f, g \in Live : rank[f] <= by /\ ~(rank[g] <= by) => to[f] < to[g]
    BY DEF NewRanks
  <1>4. \A r \in Live : rank[r] \in Nat /\ to[r] \in Nat
    BY <1>1, <1>2 DEF Bijections
  <1>5. ASSUME NEW r \in Live, rank[r] <= by PROVE to[r] = rank[r]
    <2>1. \A x \in Live : to[x] < to[r] <=> rank[x] < rank[r]
      <3> SUFFICES ASSUME NEW x \in Live PROVE to[x] < to[r] <=> rank[x] < rank[r]
        OBVIOUS
      <3>1. CASE ~(rank[x] <= by)
        BY <1>3, <1>4, <1>5, <3>1
      <3>2. CASE rank[x] <= by
        <4>1. rank[x] = rank[r] => x = r
          BY <1>2 DEF Bijections
        <4> QED BY <1>3, <1>4, <1>5, <3>2, <4>1
      <3> QED BY <3>1, <3>2
    <2>2. {x \in Live : to[x] < to[r]} = {x \in Live : rank[x] < rank[r]}
      BY <2>1
    <2>3. Cardinality({x \in Live : to[x] < to[r]}) = to[r] - 1
      BY <1>1, <1>2, NumberIsCount
    <2>4. Cardinality({x \in Live : rank[x] < rank[r]}) = rank[r] - 1
      BY <1>1, <1>2, NumberIsCount
    <2>5. to[r] - 1 = rank[r] - 1
      BY <2>2, <2>3, <2>4, Zenon
    <2> QED BY <1>4, <2>5
  <1> QED BY <1>2, <1>5

\* Adding a role at the bottom, and exchanging the order, leave no gap.
LEMMA CreateKeepsRanks ==
    ASSUME RankInv, NEW q \in Req, CommitCreate(q)
    PROVE  RanksContiguous' /\ Custom' = Custom + 1
  <1> DEFINE n == req[q].role
  <1>1. /\ rank' = [r \in Live \cup {n} |-> IF r = n THEN Custom + 1 ELSE rank[r]]
        /\ n \notin Live
    BY DEF RankInv, TypeInv, CreateFits, CommitCreate
  <1> HIDE DEF n
  <1>2. Live' = Live \cup {n}
    BY <1>1 DEF Live
  <1>3. IsFiniteSet(Live) /\ Custom \in Nat
    BY CustomIsNat DEF RankInv, TypeInv
  <1>4. Custom' = Custom + 1
    BY <1>1, <1>2, <1>3, FS_AddElement DEF Custom
  <1>5. rank \in Bijections(Live, 1..Custom)
    BY DEF RankInv, RanksContiguous
  <1>6. rank' \in Bijections(Live', 1..(Custom + 1))
    <2>1. \A r \in Live : rank[r] \in 1..Custom /\ rank'[r] = rank[r]
      BY <1>1, <1>5 DEF Bijections
    <2>2. rank'[n] = Custom + 1 /\ DOMAIN rank' = Live \cup {n}
      BY <1>1
    <2>3. rank' \in [Live' -> 1..(Custom + 1)]
      BY <1>1, <1>2, <1>3, <2>1
    <2>4. \A a, b \in Live' : rank'[a] = rank'[b] => a = b
      BY <1>2, <1>3, <1>5, <2>1, <2>2 DEF Bijections
    <2>5. \A t \in 1..(Custom + 1) : \E a \in Live' : rank'[a] = t
      <3> SUFFICES ASSUME NEW t \in 1..(Custom + 1) PROVE \E a \in Live' : rank'[a] = t
        OBVIOUS
      <3>1. CASE t = Custom + 1
        BY <1>2, <2>2, <3>1
      <3>2. CASE t # Custom + 1
        <4>1. t \in 1..Custom
          BY <1>3, <3>2
        <4>2. PICK a \in Live : rank[a] = t
          BY <1>5, <4>1 DEF Bijections
        <4> QED BY <1>2, <2>1, <4>2
      <3> QED BY <3>1, <3>2
    <2> QED BY <2>3, <2>4, <2>5 DEF Bijections
  <1> QED BY <1>4, <1>6 DEF RanksContiguous

LEMMA ReorderKeepsRanks ==
    ASSUME RankInv, NEW q \in Req, CommitReorder(q)
    PROVE  /\ RanksContiguous' /\ Custom' = Custom
           /\ \A r \in Live : rank[r] <= req[q].by => rank'[r] = rank[r]
  <1> DEFINE to == req[q].to
  <1>1. /\ to \in Bijections(Live, 1..Custom)
        /\ \A r \in Live : rank[r] <= req[q].by => to[r] = rank[r]
    BY DEF RankInv, ReorderFits, CommitReorder
  <1>2. rank' = [r \in Live |-> IF r \in DOMAIN to THEN to[r] ELSE rank[r]]
    BY DEF CommitReorder
  <1> HIDE DEF to
  <1>3. to \in [Live -> 1..Custom]
    BY <1>1 DEF Bijections
  <1>4. rank' = to
    BY <1>2, <1>3
  <1>5. Live' = Live /\ Custom' = Custom
    BY <1>2 DEF Live, Custom
  <1> QED BY <1>1, <1>4, <1>5 DEF RanksContiguous

LEMMA DeleteKeepsRanks ==
    ASSUME RankInv, NEW q \in Req, CommitDelete(q)
    PROVE  RanksContiguous' /\ Custom' <= Custom /\ Custom' \in Nat
  <1> DEFINE left == Live \ {req[q].role}
  <1>1. PICK to \in Bijections(left, 1..Cardinality(left)) : rank' = to
    BY DEF CommitDelete
  <1>2. Live' = left
    BY <1>1 DEF Bijections, Live
  <1>3. RanksContiguous'
    BY <1>1, <1>2 DEF RanksContiguous, Custom
  <1>4. IsFiniteSet(Live) /\ left \in SUBSET Live
    BY CustomIsNat DEF RankInv, TypeInv
  <1> QED BY <1>2, <1>3, <1>4, FS_Subset, FS_CardinalityType DEF Custom

\* Reorders in flight fit as long as no rank moves.
LEMMA ReordersStillFit ==
    ASSUME RankInv, UNCHANGED rank,
           \A p \in Req : (req'[p] # Nobody /\ req'[p].op = "reorder") => req'[p] = req[p]
    PROVE  RanksContiguous' /\ Custom' = Custom /\ ReorderFits'
  <1>1. Live' = Live /\ Custom' = Custom
    BY DEF Live, Custom
  <1>2. \A p \in Req : (req'[p] # Nobody /\ req'[p].op = "reorder") =>
          /\ req'[p].to \in Bijections(Live, 1..Custom)
          /\ \A r \in Live : rank[r] <= req'[p].by => req'[p].to[r] = rank[r]
    BY DEF RankInv, ReorderFits
  <1> QED BY <1>1, <1>2 DEF RankInv, RanksContiguous, ReorderFits

LEMMA RankInit == RoleInit => RankInv
  <1> SUFFICES ASSUME RoleInit PROVE RankInv
    OBVIOUS
  <1>1. Live = {} /\ Custom = 0
    BY FS_EmptySet DEF RoleInit, Live, Custom
  <1>2. RanksContiguous
    BY <1>1 DEF RanksContiguous, Bijections, RoleInit
  <1>3. Custom <= MaxCustom
    BY <1>1, RanksAssumption
  <1>4. ReorderFits
    BY DEF RoleInit, ReorderFits
  <1> QED BY <1>2, <1>3, <1>4, TypeInit DEF RankInv

THEOREM RanksInductive ==
    ASSUME FitsOnAPage, RankInv, [RoleNext]_roleVars
    PROVE  RankInv'
  <1>1. TypeInv /\ TypeInv'
    BY TypeInductive DEF RankInv
  <1>2. DOMAIN req = Req /\ Custom \in Nat /\ Custom' \in Nat
    <2>1. DOMAIN req = Req /\ Custom \in Nat
      BY <1>1, CustomIsNat DEF TypeInv
    <2>2. Live' \in SUBSET Role
      BY <1>1 DEF TypeInv, RoleTypeOK
    <2>3. Custom' \in Nat
      BY <2>2, RolesAssumption, FS_Subset, FS_CardinalityType DEF Custom
    <2> QED BY <2>1, <2>3
  <1>3. ASSUME UNCHANGED rank,
               \A p \in Req : (req'[p] # Nobody /\ req'[p].op = "reorder") => req'[p] = req[p]
        PROVE  RankInv'
    BY <1>1, <1>3, ReordersStillFit DEF RankInv
  <1>4. CASE \E u \in User : SignUp(u) \/ CommitSignUp(u) \/ AbortSignUp(u) \/ IssueToken(u)
    BY <1>3, <1>4 DEF SignUp, CommitSignUp, AbortSignUp, IssueToken
  <1>5. CASE RequestBegins
    <2>1. PICK q \in Req, a \in User :
            \/ \E r \in Role : BeginCreate(q, a, r) \/ BeginDelete(q, a, r)
            \/ BeginReorder(q, a)
            \/ \E u \in User, r \in AnyRole : BeginAssign(q, a, u, r) \/ BeginRemove(q, a, u, r)
      BY <1>5 DEF RequestBegins
    <2>2. ASSUME NEW m, Starts(q, m), m.op # "reorder", UNCHANGED rank PROVE RankInv'
      BY <1>2, <1>3, <2>2 DEF Starts
    <2>3. CASE \E r \in Role : BeginCreate(q, a, r) \/ BeginDelete(q, a, r)
      BY <2>2, <2>3 DEF BeginCreate, BeginDelete
    <2>4. CASE \E u \in User, r \in AnyRole : BeginAssign(q, a, u, r) \/ BeginRemove(q, a, u, r)
      BY <2>2, <2>4 DEF BeginAssign, BeginRemove
    <2>5. CASE BeginReorder(q, a)
      <3>1. PICK S \in SUBSET (Live \cup {"super_admin", "user"}) :
              /\ Listed(S)
              /\ \E to \in Bijections(S \cap Live, 1..Cardinality(S \cap Live)) :
                   /\ NewRanks(S, claims[a], to)
                   /\ Starts(q, [op |-> "reorder", by |-> claims[a], to |-> to])
        BY <2>5 DEF BeginReorder
      <3>2. PICK to \in Bijections(S \cap Live, 1..Cardinality(S \cap Live)) :
              /\ NewRanks(S, claims[a], to)
              /\ Starts(q, [op |-> "reorder", by |-> claims[a], to |-> to])
        BY <3>1
      <3>3. S \cap Live = Live
        BY <1>1, <3>1, WholePage DEF RankInv
      <3>4. claims[a] \in Nat
        BY <1>1 DEF TypeInv, RoleTypeOK
      <3>5. /\ to \in Bijections(Live, 1..Custom)
            /\ \A r \in Live : rank[r] <= claims[a] => to[r] = rank[r]
        BY <1>1, <3>2, <3>3, <3>4, SeniorsKeepRanks DEF RankInv
      <3> DEFINE m == [op |-> "reorder", by |-> claims[a], to |-> to]
      <3>6. m.to = to /\ m.by = claims[a]
        OBVIOUS
      <3> HIDE DEF m
      <3>7. req'[q] = m /\ \A p \in Req \ {q} : req'[p] = req[p]
        BY <1>2, <3>2, RequestMoves DEF Starts, m
      <3>8. UNCHANGED rank /\ Live' = Live /\ Custom' = Custom
        BY <2>5 DEF BeginReorder, Live, Custom
      <3>9. \A p \in Req : (req'[p] # Nobody /\ req'[p].op = "reorder") =>
              /\ req'[p].to \in Bijections(Live, 1..Custom)
              /\ \A r \in Live : rank[r] <= req'[p].by => req'[p].to[r] = rank[r]
        BY <3>5, <3>6, <3>7 DEF RankInv, ReorderFits
      <3>10. ReorderFits'
        BY <3>8, <3>9 DEF ReorderFits
      <3>11. RanksContiguous' /\ Custom' <= MaxCustom
        BY <3>8 DEF RankInv, RanksContiguous
      <3> QED BY <1>1, <3>10, <3>11 DEF RankInv
    <2> QED BY <2>1, <2>3, <2>4, <2>5
  <1>6. ASSUME NEW q \in Req, RequestEnds(q) PROVE RankInv'
    <2>1. ASSUME \A p \in Req : ~WritesRanks(req'[p]) PROVE ReorderFits'
      BY <2>1 DEF ReorderFits, WritesRanks
    <2>2. ASSUME Ends(q), WritesRanks(req[q]) PROVE \A p \in Req : ~WritesRanks(req'[p])
      BY <1>1, <2>2, OneWriter, EndedRequest DEF WritesRanks
    <2>3. CASE CommitCreate(q)
      <3>1. Ends(q) /\ WritesRanks(req[q])
        BY <2>3 DEF CommitCreate, WritesRanks
      <3>2. RanksContiguous' /\ Custom' = Custom + 1
        BY <2>3, CreateKeepsRanks
      <3>3. Custom < MaxCustom
        BY <1>1, <2>3 DEF CommitCreate, TypeInv, CreateFits
      <3> QED BY <1>1, <1>2, <2>1, <2>2, <3>1, <3>2, <3>3, RanksAssumption DEF RankInv
    <2>4. CASE CommitReorder(q)
      <3>1. Ends(q) /\ WritesRanks(req[q])
        BY <2>4 DEF CommitReorder, WritesRanks
      <3> QED BY <1>1, <2>1, <2>2, <2>4, <3>1, ReorderKeepsRanks DEF RankInv
    <2>5. CASE CommitDelete(q)
      <3>1. \A p \in Req : ~WritesRanks(req'[p])
        BY <1>1, <2>5, EndedRequest, NobodyAssumption
           DEF CommitDelete, RankLockFree, TypeInv, LockHeld, WritesRanks
      <3>2. RanksContiguous' /\ Custom' <= Custom
        BY <2>5, DeleteKeepsRanks
      <3> QED BY <1>1, <1>2, <2>1, <3>1, <3>2, RanksAssumption DEF RankInv
    <2>6. CASE CommitAssign(q) \/ CommitRemove(q) \/ Rollback(q)
      <3>1. Ends(q) /\ UNCHANGED rank
        BY <2>6 DEF CommitAssign, CommitRemove, Rollback
      <3> QED BY <1>1, <1>3, <3>1, EndedRequest
    <2> QED BY <1>6, <2>3, <2>4, <2>5, <2>6 DEF RequestEnds
  <1>7. CASE UNCHANGED roleVars
    BY <1>3, <1>7 DEF roleVars
  <1> QED BY <1>4, <1>5, <1>6, <1>7 DEF RoleNext

\* "The contiguous 1..N invariant" for any number of administrators, roles and
\* overlapping requests and whatever the limits, in every behaviour whose roles, the two
\* of the system included, never outgrow a page of the list.
THEOREM RanksAreContiguous == RoleSpec /\ []FitsOnAPage => []RanksContiguous
  <1>1. FitsOnAPage /\ RankInv /\ [RoleNext]_roleVars => RankInv'
    BY RanksInductive
  <1>2. RankInv => RanksContiguous
    BY DEF RankInv
  <1> QED BY <1>1, <1>2, RankInit, PTL DEF RoleSpec

\* "Seniors stay frozen": a reorder moves no role that its caller does not
\* outrank, however old the caller's token is, in every such behaviour.
THEOREM SeniorsAreFrozen == RoleSpec /\ []FitsOnAPage => SeniorsStayFrozen
  <1> DEFINE Frozen == \A q \in Req :
       (req[q] # Nobody /\ req[q].op = "reorder" /\ rank' # rank /\ req'[q] # req[q])
         => \A r \in Live : rank[r] <= req[q].by => rank'[r] = rank[r]
  <1>1. FitsOnAPage /\ RankInv /\ [RoleNext]_roleVars => RankInv'
    BY RanksInductive
  <1>2. RankInv /\ [RoleNext]_roleVars => [Frozen]_roleVars
    <2> SUFFICES ASSUME RankInv, RoleNext, NEW q \in Req, req[q] # Nobody,
                        req[q].op = "reorder", rank' # rank, req'[q] # req[q]
                 PROVE  \A r \in Live : rank[r] <= req[q].by => rank'[r] = rank[r]
      BY DEF roleVars
    <2>1. DOMAIN req = Req /\ TypeInv
      BY DEF RankInv, TypeInv
    <2>2. PICK p \in Req : RequestEnds(p)
      BY BeginningsOnlyRead DEF RoleNext, SignUp, CommitSignUp, AbortSignUp, IssueToken
    <2>3. p = q
      <3>1. Ends(p)
        BY <2>2 DEF RequestEnds, CommitCreate, CommitReorder, CommitDelete, CommitAssign,
                    CommitRemove, Rollback
      <3> QED BY <2>1, <3>1, EndedRequest
    <2>4. CommitReorder(q)
      BY <2>2, <2>3 DEF RequestEnds, CommitCreate, CommitDelete, CommitAssign, CommitRemove, Rollback
    <2> QED BY <2>4, ReorderKeepsRanks
  <1> HIDE DEF Frozen
  <1>3. RoleSpec /\ []FitsOnAPage => [][Frozen]_roleVars
    BY <1>1, <1>2, RankInit, PTL DEF RoleSpec
  <1> QED BY <1>3 DEF SeniorsStayFrozen, Frozen

(***************************************************************************)
(* The super admin                                                          *)
(***************************************************************************)

\* The trigger's lock lets one sign-up at a time decide, and its decision is
\* still right when it commits; no request names the role.
SignupsFit ==
  /\ \A u, v \in User : signup[u] # {} /\ signup[v] # {} => u = v
  /\ \A u \in User : signup[u] # {} =>
       /\ u \notin users
       /\ signup[u] = IF \E v \in User : IsSuper(v) THEN {"user"} ELSE {"super_admin"}
StrangersHoldNothing == \A u \in User \ users : held[u] = {}
GiftsFit ==
  \A q \in Req : (req[q] # Nobody /\ req[q].op \in {"assign", "remove", "delete"}) =>
    /\ req[q].role # "super_admin"
    /\ req[q].op # "delete" => req[q].user \in users
SuperInv ==
  /\ TypeInv
  /\ SignupsFit
  /\ StrangersHoldNothing
  /\ GiftsFit
  /\ OneSuperAdmin

\* Requests leave the super admin and the sign-ups alone.
LEMMA SuperStays ==
    ASSUME SuperInv, UNCHANGED <<users, signup>>, GiftsFit',
           \A u \in User : IsSuper(u)' <=> IsSuper(u),
           \A u \in User \ users : held'[u] = {}
    PROVE  SignupsFit' /\ StrangersHoldNothing' /\ OneSuperAdmin'
  BY DEF SuperInv, SignupsFit, StrangersHoldNothing, OneSuperAdmin

LEMMA SuperInit == RoleInit => SuperInv
  <1> SUFFICES ASSUME RoleInit PROVE SuperInv
    OBVIOUS
  <1>1. SignupsFit /\ StrangersHoldNothing /\ OneSuperAdmin
    BY DEF RoleInit, SignupsFit, StrangersHoldNothing, OneSuperAdmin
  <1>2. GiftsFit
    BY DEF RoleInit, GiftsFit
  <1> QED BY <1>1, <1>2, TypeInit DEF SuperInv

LEMMA SignUpKeepsSuper ==
    ASSUME SuperInv, NEW u \in User, SignUp(u)
    PROVE  SignupsFit' /\ StrangersHoldNothing' /\ OneSuperAdmin' /\ GiftsFit'
  <1>1. \A v \in User : signup[v] = {}
    BY DEF SignUp, SignupLockFree
  <1>2. /\ u \notin users
        /\ signup' = [signup EXCEPT ![u] =
             IF \E v \in User : IsSuper(v) THEN {"user"} ELSE {"super_admin"}]
        /\ UNCHANGED <<rank, made, held, users, claims, rankLock, req>>
    BY DEF SignUp
  <1>3. DOMAIN signup = User
    BY DEF SuperInv, TypeInv, RoleTypeOK
  <1>4. SignupsFit'
    BY <1>1, <1>2, <1>3 DEF SignupsFit, IsSuper
  <1>5. StrangersHoldNothing' /\ OneSuperAdmin' /\ GiftsFit'
    BY <1>2 DEF SuperInv, StrangersHoldNothing, OneSuperAdmin, GiftsFit, IsSuper
  <1> QED BY <1>4, <1>5

LEMMA CommitSignUpKeepsSuper ==
    ASSUME SuperInv, NEW u \in User, CommitSignUp(u)
    PROVE  SignupsFit' /\ StrangersHoldNothing' /\ OneSuperAdmin' /\ GiftsFit'
  <1>1. /\ signup[u] # {} /\ u \notin users
        /\ users' = users \cup {u}
        /\ held' = [held EXCEPT ![u] = signup[u]]
        /\ signup' = [signup EXCEPT ![u] = {}]
        /\ req' = req
    BY DEF CommitSignUp, SuperInv, SignupsFit
  <1>2. DOMAIN signup = User /\ DOMAIN held = User /\ users \subseteq User
    BY DEF SuperInv, TypeInv, RoleTypeOK
  <1>3. \A v \in User : signup'[v] = {}
    BY <1>1, <1>2 DEF SuperInv, SignupsFit
  <1>4. SignupsFit'
    BY <1>3 DEF SignupsFit
  <1>5. held'[u] = signup[u] /\ \A v \in User \ {u} : held'[v] = held[v]
    BY <1>1, <1>2
  <1>6. StrangersHoldNothing'
    BY <1>1, <1>5 DEF SuperInv, StrangersHoldNothing
  <1>7. GiftsFit'
    BY <1>1 DEF SuperInv, GiftsFit
  <1>8. OneSuperAdmin'
    <2>1. ~IsSuper(u)
      BY <1>1 DEF SuperInv, StrangersHoldNothing, IsSuper
    <2>2. CASE \E v \in User : IsSuper(v)
      <3>1. signup[u] = {"user"}
        BY <1>1, <2>2 DEF SuperInv, SignupsFit
      <3>2. users # {}
        BY <2>2 DEF SuperInv, StrangersHoldNothing, IsSuper
      <3>3. PICK w \in users : \A v \in User : IsSuper(v) <=> v = w
        BY <3>2 DEF SuperInv, OneSuperAdmin
      <3>4. \A v \in User : IsSuper(v)' <=> v = w
        BY <1>2, <1>5, <2>1, <3>1, <3>3 DEF IsSuper
      <3> QED BY <1>1, <3>4 DEF OneSuperAdmin
    <2>3. CASE ~\E v \in User : IsSuper(v)
      <3>1. signup[u] = {"super_admin"}
        BY <1>1, <2>3 DEF SuperInv, SignupsFit
      <3>2. \A v \in User : IsSuper(v)' <=> v = u
        BY <1>5, <2>3, <3>1 DEF IsSuper
      <3> QED BY <1>1, <3>2 DEF OneSuperAdmin
    <2> QED BY <2>2, <2>3
  <1> QED BY <1>4, <1>6, <1>7, <1>8

\* Requests.
LEMMA BeginningsKeepSuper ==
    ASSUME SuperInv, RequestBegins
    PROVE  SignupsFit' /\ StrangersHoldNothing' /\ OneSuperAdmin' /\ GiftsFit'
  <1>1. UNCHANGED <<held, users, signup>>
    BY BeginningsOnlyRead
  <1>2. DOMAIN req = Req
    BY DEF SuperInv, TypeInv
  <1>3. ASSUME NEW q \in Req, NEW m, Starts(q, m),
               m.op \in {"assign", "remove", "delete"} =>
                 /\ m.role # "super_admin"
                 /\ m.op # "delete" => m.user \in users
        PROVE  GiftsFit'
    <2>1. req'[q] = m /\ \A p \in Req \ {q} : req'[p] = req[p]
      BY <1>2, <1>3 DEF Starts
    <2> QED BY <1>1, <1>3, <2>1 DEF SuperInv, GiftsFit
  <1>4. "super_admin" \notin Live
    BY RolesAssumption DEF SuperInv, TypeInv, RoleTypeOK
  <1>5. GiftsFit'
    <2>1. ASSUME NEW q \in Req, NEW a \in User, NEW r \in Role, BeginCreate(q, a, r)
          PROVE  GiftsFit'
      BY <1>3, <2>1 DEF BeginCreate
    <2>2. ASSUME NEW q \in Req, NEW a \in User, NEW r \in Role, BeginDelete(q, a, r)
          PROVE  GiftsFit'
      BY <1>3, <1>4, <2>2 DEF BeginDelete
    <2>3. ASSUME NEW q \in Req, NEW a \in User, BeginReorder(q, a)
          PROVE  GiftsFit'
      <3>1. PICK to : Starts(q, [op |-> "reorder", by |-> claims[a], to |-> to])
        BY <2>3 DEF BeginReorder
      <3> QED BY <1>3, <3>1
    <2>4. ASSUME NEW q \in Req, NEW a \in User, NEW u \in User, NEW r \in AnyRole,
                 BeginAssign(q, a, u, r)
          PROVE  GiftsFit'
      BY <1>3, <1>4, <2>4 DEF BeginAssign
    <2>5. ASSUME NEW q \in Req, NEW a \in User, NEW u \in User, NEW r \in AnyRole,
                 BeginRemove(q, a, u, r)
          PROVE  GiftsFit'
      BY <1>3, <1>4, <2>5 DEF BeginRemove
    <2> QED BY <2>1, <2>2, <2>3, <2>4, <2>5 DEF RequestBegins
  <1>6. \A u \in User : IsSuper(u)' <=> IsSuper(u)
    BY <1>1 DEF IsSuper
  <1>7. \A u \in User \ users : held'[u] = {}
    BY <1>1 DEF SuperInv, StrangersHoldNothing
  <1> QED BY <1>1, <1>5, <1>6, <1>7, SuperStays

LEMMA EndsKeepSuper ==
    ASSUME SuperInv, NEW q \in Req, RequestEnds(q)
    PROVE  SignupsFit' /\ StrangersHoldNothing' /\ OneSuperAdmin' /\ GiftsFit'
  <1>1. Ends(q) /\ UNCHANGED <<users, signup>>
    BY DEF RequestEnds, CommitCreate, CommitReorder, CommitDelete, CommitAssign, CommitRemove,
           Rollback
  <1>2. DOMAIN held = User /\ TypeInv
    BY DEF SuperInv, TypeInv, RoleTypeOK
  <1>3. GiftsFit'
    BY <1>1, <1>2, EndedRequest DEF SuperInv, GiftsFit
  <1>4. /\ \A u \in User : IsSuper(u)' <=> IsSuper(u)
        /\ \A u \in User \ users : held'[u] = {}
    <2>1. \A u \in User \ users : held[u] = {}
      BY DEF SuperInv, StrangersHoldNothing
    <2>2. CASE CommitCreate(q) \/ CommitReorder(q) \/ Rollback(q)
      BY <2>1, <2>2 DEF CommitCreate, CommitReorder, Rollback, IsSuper
    <2>3. CASE CommitDelete(q)
      <3>1. req[q].role # "super_admin" /\ held' = [u \in User |-> held[u] \ {req[q].role}]
        BY <2>3 DEF CommitDelete, SuperInv, GiftsFit
      <3> QED BY <2>1, <3>1 DEF IsSuper
    <2>4. CASE CommitAssign(q) \/ CommitRemove(q)
      <3>1. req[q].role # "super_admin" /\ req[q].user \in users
        BY <2>4 DEF CommitAssign, CommitRemove, SuperInv, GiftsFit
      <3>2. \/ held' = [held EXCEPT ![req[q].user] = @ \cup {req[q].role}]
            \/ held' = [held EXCEPT ![req[q].user] = @ \ {req[q].role}]
        BY <2>4 DEF CommitAssign, CommitRemove
      <3> QED BY <1>2, <2>1, <3>1, <3>2 DEF IsSuper
    <2> QED BY <2>2, <2>3, <2>4 DEF RequestEnds
  <1> QED BY <1>1, <1>3, <1>4, SuperStays

THEOREM SuperInductive == SuperInv /\ [RoleNext]_roleVars => SuperInv'
  <1> SUFFICES ASSUME SuperInv, [RoleNext]_roleVars PROVE SuperInv'
    OBVIOUS
  <1>1. TypeInv'
    BY TypeInductive DEF SuperInv
  <1> DEFINE Rest == SignupsFit /\ StrangersHoldNothing /\ OneSuperAdmin /\ GiftsFit
  <1>2. CASE \E u \in User : AbortSignUp(u) \/ IssueToken(u)
    <2>1. UNCHANGED <<held, users, req>>
      BY <1>2 DEF AbortSignUp, IssueToken
    <2>2. \A v \in User : signup'[v] \in {signup[v], {}}
      BY <1>2 DEF AbortSignUp, IssueToken, SuperInv, TypeInv, RoleTypeOK
    <2>3. SignupsFit'
      BY <2>1, <2>2 DEF SuperInv, SignupsFit, IsSuper
    <2>4. StrangersHoldNothing' /\ OneSuperAdmin' /\ GiftsFit'
      BY <2>1 DEF SuperInv, StrangersHoldNothing, OneSuperAdmin, GiftsFit, IsSuper
    <2> QED BY <1>1, <2>3, <2>4 DEF SuperInv
  <1>3. CASE \E u \in User : SignUp(u) \/ CommitSignUp(u)
    BY <1>1, <1>3, SignUpKeepsSuper, CommitSignUpKeepsSuper DEF SuperInv
  <1>4. CASE RequestBegins
    BY <1>1, <1>4, BeginningsKeepSuper DEF SuperInv
  <1>5. CASE \E q \in Req : RequestEnds(q)
    BY <1>1, <1>5, EndsKeepSuper DEF SuperInv
  <1>6. CASE UNCHANGED roleVars
    BY <1>1, <1>6 DEF roleVars, SuperInv, SignupsFit, StrangersHoldNothing, GiftsFit,
                      OneSuperAdmin, IsSuper
  <1> QED BY <1>2, <1>3, <1>4, <1>5, <1>6 DEF RoleNext

\* "First user (and ONLY first user) becomes super_admin", for any number of
\* users and of sign-ups and requests at once.
THEOREM OneSuperAdminHolds == RoleSpec => []OneSuperAdmin
  <1>1. SuperInv => OneSuperAdmin
    BY DEF SuperInv
  <1> QED BY <1>1, SuperInit, SuperInductive, PTL DEF RoleSpec
=============================================================================

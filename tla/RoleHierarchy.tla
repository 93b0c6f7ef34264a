--------------------------- MODULE RoleHierarchy ---------------------------
(* The roles of the platform and who holds them.                            *)
(*                                                                          *)
(* Custom roles carry a rank, 1 the most senior; super_admin has rank 0 and *)
(* user a rank below every custom one.  Administrators create, reorder and  *)
(* delete custom roles and give and take roles; each request is one         *)
(* READ COMMITTED transaction that reads and validates first and writes     *)
(* later, under the rank that the caller's token had when it was issued.    *)
(* Writers of ranks hold an advisory lock from their reads to their commit. *)
(* The permission that an endpoint demands besides the rank is left out:    *)
(* every registered user may try every request.                             *)
EXTENDS Naturals, FiniteSets

CONSTANTS
  Role,        \* ids a custom role can be given, used once each
  User,        \* rows auth.users can hold
  Req,         \* requests that can be in flight at once
  MaxCustom,   \* MAX_CUSTOM_ROLES
  ListLimit,   \* rows BaseRepository.list returns at most
  UserRank,    \* USER_ROLE_RANK
  NoRoleRank,  \* NO_ROLE_RANK
  Nobody       \* no holder of a lock, no request

ASSUME RolesAssumption == IsFiniteSet(Role) /\ "super_admin" \notin Role /\ "user" \notin Role
ASSUME RanksAssumption ==
  MaxCustom \in Nat /\ UserRank \in Nat /\ NoRoleRank \in Nat /\ MaxCustom < UserRank
ASSUME ListAssumption == ListLimit \in Nat
ASSUME NobodyAssumption == Nobody \notin Req

VARIABLES
  rank,      \* the custom roles there are, each with its hierarchy_rank
  made,      \* the ids ever given to a custom role
  held,      \* user_roles: what each user holds
  users,     \* the rows of auth.users
  claims,    \* the rank in each user's current token
  signup,    \* roles decided for users whose insert is not committed yet
  rankLock,  \* holder of ROLES_RANK_LOCK
  req        \* requests in flight

roleVars == <<rank, made, held, users, claims, signup, rankLock, req>>

AnyRole == Role \cup {"super_admin", "user"}
Live == DOMAIN rank
Custom == Cardinality(Live)
RankOf(r) ==
  CASE r = "super_admin" -> 0
    [] r = "user" -> UserRank
    [] OTHER -> rank[r]

\* MIN(rank) over the roles a user holds; none reads as the most junior.
EffectiveRank(u) ==
  IF held[u] = {} THEN NoRoleRank
  ELSE CHOOSE n \in {RankOf(r) : r \in held[u]} : \A r \in held[u] : n <= RankOf(r)

IsSuper(u) == "super_admin" \in held[u]
Outranks(actorRank, targetRank) == actorRank < targetRank

Bijections(S, T) ==
  {f \in [S -> T] : (\A a, b \in S : f[a] = f[b] => a = b) /\ \A t \in T : \E a \in S : f[a] = t}
KeepsOrder(f) == \A a, b \in DOMAIN f : rank[a] < rank[b] => f[a] < f[b]

\* What a request in flight carries besides its kind.
RequestOK(m) ==
  /\ m.by \in Nat
  /\ \/ m.op = "create" /\ m.role \in Role /\ m.at \in Nat
     \/ m.op = "reorder" /\ DOMAIN m.to \subseteq Role /\ m.to \in [DOMAIN m.to -> Nat]
     \/ m.op = "delete" /\ m.role \in Role
     \/ m.op \in {"assign", "remove"} /\ m.user \in User /\ m.role \in AnyRole

RoleInit ==
  /\ rank = [r \in {} |-> 0]
  /\ made = {}
  /\ held = [u \in User |-> {}]
  /\ users = {}
  /\ claims = [u \in User |-> NoRoleRank]
  /\ signup = [u \in User |-> {}]
  /\ rankLock = Nobody
  /\ req = [q \in Req |-> Nobody]
-----------------------------------------------------------------------------
(* Sign-up: the trigger on auth.users                                       *)

\* Mutant: the trigger counts without its lock.
SignupUnlocked == TRUE
SignupLockFree == \A u \in User : signup[u] = {}

\* handle_new_user takes its lock, counts the holders of super_admin and
\* decides; the lock is held until the inserting transaction ends.
SignUp(u) ==
  /\ u \notin users /\ SignupLockFree
  /\ signup' = [signup EXCEPT ![u] =
       IF \E v \in User : IsSuper(v) THEN {"user"} ELSE {"super_admin"}]
  /\ UNCHANGED <<rank, made, held, users, claims, rankLock, req>>

CommitSignUp(u) ==
  /\ signup[u] # {}
  /\ users' = users \cup {u}
  /\ held' = [held EXCEPT ![u] = signup[u]]
  /\ signup' = [signup EXCEPT ![u] = {}]
  /\ UNCHANGED <<rank, made, claims, rankLock, req>>

AbortSignUp(u) ==
  /\ signup[u] # {}
  /\ signup' = [signup EXCEPT ![u] = {}]
  /\ UNCHANGED <<rank, made, held, users, claims, rankLock, req>>

\* A token is issued with the rank of the moment and is not reissued when
\* that rank changes.
IssueToken(u) ==
  /\ u \in users
  /\ claims' = [claims EXCEPT ![u] = EffectiveRank(u)]
  /\ UNCHANGED <<rank, made, held, users, signup, rankLock, req>>
-----------------------------------------------------------------------------
(* Requests that move ranks                                                 *)

\* Mutant: nobody waits for the rank lock.
RankLockUnheeded == TRUE
RankLockFree == rankLock = Nobody
Starts(q, r) == req[q] = Nobody /\ req' = [req EXCEPT ![q] = r]
Ends(q) == req' = [req EXCEPT ![q] = Nobody]
Release(q) == rankLock' = IF rankLock = q THEN Nobody ELSE rankLock

\* A new role goes to the bottom of the custom ones.
BeginCreate(q, a, r) ==
  /\ a \in users /\ r \notin made
  /\ RankLockFree /\ rankLock' = q
  /\ Custom < MaxCustom
  /\ Outranks(claims[a], Custom + 1)
  /\ Starts(q, [op |-> "create", by |-> claims[a], role |-> r, at |-> Custom + 1])
  /\ made' = made \cup {r}
  /\ UNCHANGED <<rank, held, users, claims, signup>>

CommitCreate(q) ==
  /\ req[q] # Nobody /\ req[q].op = "create"
  /\ rank' = [r \in Live \cup {req[q].role} |-> IF r = req[q].role THEN req[q].at ELSE rank[r]]
  /\ Ends(q) /\ Release(q)
  /\ UNCHANGED <<made, held, users, claims, signup>>

\* What one page of the role list shows, in no particular order: the two
\* system roles may be on it or not.
Listed(S) ==
  /\ S \subseteq Live \cup {"super_admin", "user"}
  /\ Cardinality(S) = IF Custom + 2 <= ListLimit THEN Custom + 2 ELSE ListLimit

\* Mutant: juniors may be moved above the roles the caller does not outrank.
NewRanksAnywhere(S, by, to) ==
  LET customs == S \cap Live
      frozen == {r \in customs : rank[r] <= by}
  IN /\ to \in Bijections(customs, 1..Cardinality(customs))
     /\ \A f, g \in frozen : rank[f] < rank[g] => to[f] < to[g]

\* The caller names all the custom roles on the page that are junior to it,
\* in the order wanted; the others on the page keep their order above them.
NewRanks(S, by, to) ==
  LET customs == S \cap Live
      frozen == {r \in customs : rank[r] <= by}
  IN /\ to \in Bijections(customs, 1..Cardinality(customs))
     /\ \A f, g \in frozen : rank[f] < rank[g] => to[f] < to[g]
     /\ \A f \in frozen : \A m \in customs \ frozen : to[f] < to[m]

BeginReorder(q, a) ==
  /\ a \in users
  /\ RankLockFree /\ rankLock' = q
  /\ \E S \in SUBSET (Live \cup {"super_admin", "user"}) :
       /\ Listed(S)
       /\ \E to \in Bijections(S \cap Live, 1..Cardinality(S \cap Live)) :
            /\ NewRanks(S, claims[a], to)
            /\ Starts(q, [op |-> "reorder", by |-> claims[a], to |-> to])
  /\ UNCHANGED <<rank, made, held, users, claims, signup>>

CommitReorder(q) ==
  /\ req[q] # Nobody /\ req[q].op = "reorder"
  /\ rank' = [r \in Live |-> IF r \in DOMAIN req[q].to THEN req[q].to[r] ELSE rank[r]]
  /\ Ends(q) /\ Release(q)
  /\ UNCHANGED <<made, held, users, claims, signup>>

\* delete_role looks the role up and checks it before it has the lock.
BeginDelete(q, a, r) ==
  /\ a \in users /\ r \in Live
  /\ Outranks(claims[a], rank[r])
  /\ Starts(q, [op |-> "delete", by |-> claims[a], role |-> r])
  /\ UNCHANGED <<rank, made, held, users, claims, signup, rankLock>>

\* Then lock, delete, close the gap and commit.  Nothing else writes ranks
\* while the lock is held, so this is one step.  A role that another request
\* has deleted by then only draws a warning.
CommitDelete(q) ==
  /\ req[q] # Nobody /\ req[q].op = "delete"
  /\ RankLockFree
  /\ LET left == Live \ {req[q].role}
     IN \E to \in Bijections(left, 1..Cardinality(left)) :
          /\ KeepsOrder(to)
          /\ rank' = to
  /\ held' = [u \in User |-> held[u] \ {req[q].role}]
  /\ Ends(q)
  /\ UNCHANGED <<made, users, claims, signup, rankLock>>
-----------------------------------------------------------------------------
(* Requests that give and take roles                                        *)

BeginAssign(q, a, u, r) ==
  /\ a \in users /\ u \in users /\ r \in Live \cup {"user"}
  /\ ~IsSuper(u)
  /\ Outranks(claims[a], EffectiveRank(u))
  /\ Outranks(claims[a], RankOf(r))
  /\ r \notin held[u]
  /\ Starts(q, [op |-> "assign", by |-> claims[a], user |-> u, role |-> r])
  /\ UNCHANGED <<rank, made, held, users, claims, signup, rankLock>>

\* Mutant: the role may be gone by now.
CommitAssignUnchecked(q) ==
  /\ req[q] # Nobody /\ req[q].op = "assign"
  /\ req[q].role \notin held[req[q].user]
  /\ held' = [held EXCEPT ![req[q].user] = @ \cup {req[q].role}]
  /\ Ends(q)
  /\ UNCHANGED <<rank, made, users, claims, signup, rankLock>>

\* The foreign key wants the role to be there still, the unique key wants the
\* pair not to be.
CommitAssign(q) ==
  /\ req[q] # Nobody /\ req[q].op = "assign"
  /\ req[q].role \in Live \cup {"user"}
  /\ req[q].role \notin held[req[q].user]
  /\ held' = [held EXCEPT ![req[q].user] = @ \cup {req[q].role}]
  /\ Ends(q)
  /\ UNCHANGED <<rank, made, users, claims, signup, rankLock>>

\* Of its own roles an actor may take neither the only one nor the most
\* senior one.
MayTakeFrom(a, u, r) ==
  a = u => /\ Cardinality(held[u]) # 1
           /\ RankOf(r) # EffectiveRank(u)

BeginRemove(q, a, u, r) ==
  /\ a \in users /\ u \in users /\ r \in Live \cup {"user"}
  /\ ~IsSuper(u)
  /\ Outranks(claims[a], EffectiveRank(u))
  /\ MayTakeFrom(a, u, r)
  /\ Outranks(claims[a], RankOf(r))
  /\ Starts(q, [op |-> "remove", by |-> claims[a], user |-> u, role |-> r])
  /\ UNCHANGED <<rank, made, held, users, claims, signup, rankLock>>

CommitRemove(q) ==
  /\ req[q] # Nobody /\ req[q].op = "remove"
  /\ held' = [held EXCEPT ![req[q].user] = @ \ {req[q].role}]
  /\ Ends(q)
  /\ UNCHANGED <<rank, made, users, claims, signup, rankLock>>

\* Any error, a lost connection included, rolls the transaction back and
\* frees its lock.
Rollback(q) ==
  /\ req[q] # Nobody
  /\ Ends(q) /\ Release(q)
  /\ UNCHANGED <<rank, made, held, users, claims, signup>>
-----------------------------------------------------------------------------
RequestBegins ==
  \E q \in Req, a \in User :
    \/ \E r \in Role : BeginCreate(q, a, r) \/ BeginDelete(q, a, r)
    \/ BeginReorder(q, a)
    \/ \E u \in User, r \in AnyRole : BeginAssign(q, a, u, r) \/ BeginRemove(q, a, u, r)
RequestEnds(q) ==
  \/ CommitCreate(q) \/ CommitReorder(q) \/ CommitDelete(q)
  \/ CommitAssign(q) \/ CommitRemove(q) \/ Rollback(q)
RoleNext ==
  \/ \E u \in User : SignUp(u) \/ CommitSignUp(u) \/ AbortSignUp(u) \/ IssueToken(u)
  \/ RequestBegins
  \/ \E q \in Req : RequestEnds(q)

RoleSpec == RoleInit /\ [][RoleNext]_roleVars
-----------------------------------------------------------------------------
\* Every custom role has a rank, nobody holds a role that is not there (an
\* assignment and a delete that overlap included), and a request carries what
\* its step needs.
RoleTypeOK ==
  /\ made \subseteq Role /\ Live \subseteq made
  /\ rank \in [Live -> Nat]
  /\ users \subseteq User
  /\ held \in [User -> SUBSET (Live \cup {"super_admin", "user"})]
  /\ claims \in [User -> Nat]
  /\ signup \in [User -> SUBSET {"super_admin", "user"}]
  /\ \A q \in Req : req[q] # Nobody => RequestOK(req[q])
  /\ rankLock \in Req \cup {Nobody}

\* "The contiguous 1..N invariant": however creations, reorders and deletions
\* of several administrators overlap, the committed ranks of the N custom
\* roles are exactly 1..N, one each (role_service.py, role_repository.py).
RanksContiguous == rank \in Bijections(Live, 1..Custom)

\* "Seniors stay frozen": a reorder leaves the rank of every role that its
\* caller does not outrank as it was, whatever was committed between the
\* token and the reorder.
SeniorsStayFrozen ==
  [][\A q \in Req :
       (req[q] # Nobody /\ req[q].op = "reorder" /\ rank' # rank /\ req'[q] # req[q])
         => \A r \in Live : rank[r] <= req[q].by => rank'[r] = rank[r]]_roleVars

\* "First user (and ONLY first user) becomes super_admin": one user holds the
\* role from the first registration on, though sign-ups overlap and requests
\* give and take roles.
OneSuperAdmin ==
  users # {} => \E u \in users : \A v \in User : IsSuper(v) <=> v = u
=============================================================================

------------------------------ MODULE UserAdmin ------------------------------
(***************************************************************************)
(* The administration of accounts from the user console: the Next.js        *)
(* routes (src/frontend/src/app/api/users: bulk, invite, ban, unban,        *)
(* delete, reset-password, resend-verification) that act on the accounts of *)
(* the authentication service, and the console's two-step invitation        *)
(* (lib/services/users.service.ts), whose second step is FastAPI's          *)
(* bulk/provision.                                                          *)
(*                                                                          *)
(* A route is a script of awaited calls for every target; mapPool runs the  *)
(* scripts of one request on a few workers that share a cursor.  Calls of   *)
(* different targets, requests and administrators interleave, users log in  *)
(* in between, a call may fail, its answer may be lost after it took        *)
(* effect, and the bare fetch of revokeAllUserSessions may throw.           *)
(***************************************************************************)
EXTENDS Naturals, Sequences, FiniteSets

CONSTANTS
  Users,        \* account ids
  Admins,       \* the accounts that may use the console
  Supers,       \* the accounts whose app_metadata say super_admin
  Present,      \* the accounts there are before the first request
  Requests,     \* the requests of a run, numbered as they are sent (a bound)
  Lists,        \* the lists of ids or addresses each may send (within MAX_TARGETS, MAX_EMAILS)
  Concurrency   \* CONCURRENCY / INVITE_CONCURRENCY

VARIABLES
  account,   \* auth.users and auth.sessions: there, confirmed, banned, signed in
  granted,   \* what bulk/provision has committed: <<account, "role" or "schools">>
  req        \* the requests, from the console's call to what it shows

vars == <<account, granted, req>>

Workers == 1 .. Concurrency
Unsent == [route |-> "none"]

(* The awaited calls a route makes for one target, in the order of its code. *)
(* The first lookup is the live super-admin check (authorizeAdminAction, or   *)
(* applyAction's own for the bulk route).  The audit entry that follows is    *)
(* left out: recordAuditLog never throws and nothing here reads it.           *)
BulkScript ==
  [ban |-> <<"lookup", "ban", "revoke">>, unban |-> <<"lookup", "unban">>,
   delete |-> <<"lookup", "delete">>, resend |-> <<"lookup", "mail">>]
\* Mutant: the sessions are revoked before the ban.
RevokeFirst == <<"lookup", "revoke", "ban">>
BanScript == <<"lookup", "ban", "revoke">>
UnbanScript == <<"lookup", "unban">>
DeleteScript == <<"lookup", "revoke", "delete">>
ResetScript == <<"lookup", "mail", "revoke">>
ResendScript == <<"lookup", "mail">>
InviteScript == <<"invite">>

UserScript ==
  [ban |-> BanScript, unban |-> UnbanScript, delete |-> DeleteScript, reset |-> ResetScript,
   resend |-> ResendScript, invite |-> InviteScript]
Script(route, action) == IF route = "bulk" THEN BulkScript[action] ELSE UserScript[action]

Routes ==
  ({"bulk"} \X {"ban", "unban", "delete", "resend"})
    \cup ({"user"} \X {"ban", "unban", "delete", "resend", "reset"})
    \cup {<<"invite", "invite">>}

ASSUME UserAdminAssumption ==
  /\ Admins \subseteq Users /\ Supers \subseteq Users /\ Present \subseteq Users
  /\ Admins \subseteq Present
  /\ Requests \subseteq Nat
  /\ Lists \in [Requests -> SUBSET (Seq(Users) \ {<<>>})] /\ Concurrency \in Nat \ {0}

(* The positions of a list whose ids a request goes on with: the first       *)
(* occurrence of each (new Set), in the bulk route without the caller's own. *)
Kept(route, ids, a) ==
  {k \in DOMAIN ids : /\ \A j \in 1 .. k - 1 : ids[j] # ids[k]
                      /\ route = "bulk" => ids[k] # a}

(* The targets of a request, in the order of the list: there is one such    *)
(* sequence.                                                                *)
Targets(route, ids, a) ==
  LET kept == Kept(route, ids, a)
      InOrder(f) == \A j, k \in DOMAIN f : j < k => f[j] < f[k]
  IN {[k \in DOMAIN f |-> ids[f[k]]] : f \in {g \in [1 .. Cardinality(kept) -> kept] : InOrder(g)}}

(* mapPool starts its workers on the first targets.                         *)
NewRequest(route, action, targets, a, schools) ==
  LET busy(w) == w <= Len(targets)
  IN [route |-> route, action |-> action, by |-> a, ids |-> targets,
      at |-> [w \in Workers |-> IF busy(w) THEN w ELSE 0],
      pc |-> [w \in Workers |-> 1],
      next |-> 1 + (IF Concurrency < Len(targets) THEN Concurrency ELSE Len(targets)),
      res |-> [k \in DOMAIN targets |-> "none"],
      times |-> [k \in DOMAIN targets |-> 0],
      prov |-> [k \in DOMAIN targets |-> "none"], schools |-> schools, flushed |-> {}, dead |-> FALSE,
      shown |-> [k \in DOMAIN targets |-> "none"],
      answer |-> "pending"]

Sent(i) == req[i] # Unsent
Waiting(a) == \E i \in Requests : Sent(i) /\ req[i].by = a /\ req[i].answer \in {"pending", "provision"}

Init ==
  /\ account = [u \in Users |-> [there |-> u \in Present, joined |-> u \in Present,
                                 banned |-> FALSE,
                                 session |-> IF u \in Admins THEN "live" ELSE "none"]]
  /\ granted = {}
  /\ req = [i \in Requests |-> Unsent]

(* The console sends one request at a time; the caller needs a session.     *)
Send(i, a) ==
  /\ ~Sent(i) /\ (\A j \in Requests : j < i => Sent(j)) /\ ~Waiting(a)
  /\ account[a].session # "none"
  /\ \E call \in Routes, ids \in Lists[i], schools \in BOOLEAN :
       \E targets \in Targets(call[1], ids, a) :
         /\ call[1] = "user" => Len(ids) = 1
         /\ schools => call[1] = "invite"
         /\ req' = [req EXCEPT ![i] = NewRequest(call[1], call[2], targets, a, schools)]
  /\ UNCHANGED <<account, granted>>

-----------------------------------------------------------------------------
(* One worker of one request.                                               *)

Target(i, w) == req[i].ids[req[i].at[w]]
Runs(i, w, step) ==
  /\ Sent(i) /\ req[i].at[w] # 0
  /\ Script(req[i].route, req[i].action)[req[i].pc[w]] = step

Counts(r, w) == [r EXCEPT !.times[r.at[w]] = @ + 1]
\* Mutant: the cursor is not checked against the end of the list.
FilesPastEnd(r, w, result) ==
  [r EXCEPT !.res[r.at[w]] = result, !.at[w] = r.next, !.pc[w] = 1, !.next = @ + 1]
\* Mutant: the cursor is read, and advanced by another worker only.
FilesStaleCursor(r, w, result) ==
  [r EXCEPT !.res[r.at[w]] = result, !.at[w] = IF r.next <= Len(r.ids) THEN r.next ELSE 0,
            !.pc[w] = 1, !.next = IF r.next <= Len(r.ids) /\ w = 1 THEN @ + 1 ELSE @]
(* The script ends: the result is filed and the worker takes the next       *)
(* target of the shared cursor, without a step in between.                  *)
Files(r, w, result) ==
  LET more == r.next <= Len(r.ids)
  IN [r EXCEPT !.res[r.at[w]] = result,
               !.at[w] = IF more THEN r.next ELSE 0,
               !.pc[w] = 1,
               !.next = IF more THEN @ + 1 ELSE @]
Goes(r, w) ==
  IF r.pc[w] < Len(Script(r.route, r.action)) THEN [r EXCEPT !.pc[w] = @ + 1] ELSE Files(r, w, "ok")
(* A call throws: the rejected worker rejects Promise.all, which answers    *)
(* 500 at once while the other workers carry on.                            *)
Throws(r, w) ==
  [r EXCEPT !.at[w] = 0, !.pc[w] = 1,
            !.answer = IF @ = "pending" THEN "error" ELSE @]

LookUp(i, w) ==
  /\ Runs(i, w, "lookup")
  /\ LET u == Target(i, w)
     IN \/ /\ account[u].there /\ u \notin Supers
           /\ req' = [req EXCEPT ![i] = Goes(@, w)]
        \/ req' = [req EXCEPT ![i] = Files(@, w, "failed")]   \* not found, super admin, error
  /\ UNCHANGED <<account, granted>>

(* What the administrative call does to the account.                        *)
Effect(step, acc) ==
  CASE step = "ban"    -> [acc EXCEPT !.banned = TRUE]
    [] step = "unban"  -> [acc EXCEPT !.banned = FALSE]
    [] step = "delete" -> [there |-> FALSE, joined |-> FALSE, banned |-> FALSE, session |-> "none"]
    [] step = "invite" -> [acc EXCEPT !.there = TRUE]
    [] OTHER           -> acc

(* A role that is flushed and not committed keeps its account from being    *)
(* deleted: the new row holds a lock on it.                                 *)
Locked(u) == \E j \in Requests : Sent(j) /\ <<u, "role">> \in req[j].flushed
(* An invitation is refused for a confirmed address only.                   *)
Allowed(step, u) ==
  CASE step = "invite" -> ~account[u].joined
    [] step = "delete" -> account[u].there /\ ~Locked(u)
    [] OTHER           -> account[u].there
(* With an account go its roles and memberships.                            *)
Without(step, u) == IF step = "delete" THEN {g \in granted : g[1] # u} ELSE granted
(* A session nobody will come to revoke: the ban was taken for failed, or   *)
(* the revocation was.                                                      *)
Spare(acc) == [acc EXCEPT !.session = IF @ = "live" THEN "spared" ELSE @]

Call(i, w, step) ==
  /\ Runs(i, w, step)
  /\ LET u == Target(i, w)
         done == Effect(step, account[u])
     IN \/ /\ Allowed(step, u)
           /\ account' = [account EXCEPT ![u] = done]
           /\ granted' = Without(step, u)
           /\ req' = [req EXCEPT ![i] = Goes(Counts(@, w), w)]
        \/ /\ Allowed(step, u)                      \* the answer is lost
           /\ account' = [account EXCEPT ![u] = IF step = "ban" THEN Spare(done) ELSE done]
           /\ granted' = Without(step, u)
           /\ req' = [req EXCEPT ![i] = Files(Counts(@, w), w, "failed")]
        \/ /\ req' = [req EXCEPT ![i] =
                 Files(@, w, IF step = "invite" /\ account[u].joined THEN "exists" ELSE "failed")]
           /\ UNCHANGED <<account, granted>>

Revoke(i, w) ==
  /\ Runs(i, w, "revoke")
  /\ LET u == Target(i, w)
     IN \/ /\ account' = [account EXCEPT ![u].session = "none"]
           /\ req' = [req EXCEPT ![i] = Goes(@, w)]
        \/ /\ account' = [account EXCEPT ![u] = Spare(@)]    \* a status that is only logged
           /\ req' = [req EXCEPT ![i] = Goes(@, w)]
        \/ /\ account' = [account EXCEPT ![u] = Spare(@)]
           /\ req' = [req EXCEPT ![i] = Throws(@, w)]
  /\ UNCHANGED granted

Work(i) ==
  \E w \in Workers :
    \/ LookUp(i, w) \/ Revoke(i, w)
    \/ \E step \in {"ban", "unban", "delete", "mail", "invite"} : Call(i, w, step)

-----------------------------------------------------------------------------
(* The answer, and the second step of an invitation.                        *)

Invited(r) == {k \in DOMAIN r.ids : r.res[k] = "ok"}

\* Mutant: no answer when a target has failed.
ReturnedOk(i) ==
  Sent(i) /\ req[i].answer = "pending" /\ \A k \in DOMAIN req[i].res : req[i].res[k] = "ok"
(* Promise.all: every worker has run out of targets.                        *)
Returned(i) ==
  Sent(i) /\ req[i].answer = "pending" /\ \A w \in Workers : req[i].at[w] = 0
(* All workers have returned: the results go back, or are lost on the way.  *)
(* A role was chosen in the dialog, so the invited accounts are provisioned.*)
Answer(i) ==
  /\ Returned(i)
  /\ \E lost \in BOOLEAN :
       req' = [req EXCEPT ![i].answer =
                 IF lost THEN "error"
                 ELSE IF req[i].route = "invite" /\ Invited(req[i]) # {} THEN "provision"
                 ELSE "results"]
  /\ UNCHANGED <<account, granted>>

(* bulk/provision: the invited accounts one after another, in one database  *)
(* session, whether or not the console still waits.                         *)
Ended(r, k) == r.prov[k] \in {"ok", "failed"}
Turn(i, k) ==
  /\ Sent(i) /\ req[i].route = "invite" /\ req[i].answer \in {"provision", "results"}
  /\ k \in Invited(req[i]) /\ ~Ended(req[i], k)
  /\ \A j \in Invited(req[i]) : j < k => Ended(req[i], j)

(* A role the account has not got yet is flushed; the commit comes with the *)
(* next one of the session.                                                 *)
AssignRole(i, k) ==
  LET u == req[i].ids[k]
  IN /\ Turn(i, k) /\ req[i].prov[k] = "none" /\ ~req[i].dead /\ account[u].there
     /\ req' = [req EXCEPT ![i].flushed = @ \cup ({<<u, "role">>} \ granted),
                           ![i].prov[k] = IF req[i].schools THEN "role" ELSE "ok"]
     /\ UNCHANGED <<account, granted>>

(* Every school is a commit of its own, so the last ones may be refused.    *)
GrantSchools(i, k) ==
  LET u == req[i].ids[k]
  IN /\ Turn(i, k) /\ req[i].prov[k] = "role" /\ ~req[i].dead /\ account[u].there
     /\ \E all \in BOOLEAN :
          /\ granted' = granted \cup req[i].flushed \cup (IF all THEN {<<u, "schools">>} ELSE {})
          /\ req' = [req EXCEPT ![i].flushed = {}, ![i].prov[k] = IF all THEN "ok" ELSE "failed"]
     /\ UNCHANGED account

(* A rank or a school is refused before anything is written; or a statement *)
(* fails (the account is gone): the session is of no more use, and what it  *)
(* had flushed for the accounts before this one is lost as well.            *)
AssignmentFails(i, k) ==
  /\ Turn(i, k)
  /\ \/ ~req[i].dead /\ req' = [req EXCEPT ![i].prov[k] = "failed"]
     \/ req' = [req EXCEPT ![i].prov[k] = "failed", ![i].flushed = {}, ![i].dead = TRUE]
  /\ UNCHANGED <<account, granted>>

(* The session is closed after the response, with a commit or without.      *)
CloseSession(i) ==
  /\ Sent(i) /\ req[i].flushed # {} /\ \A k \in Invited(req[i]) : Ended(req[i], k)
  /\ granted' \in {granted, granted \cup req[i].flushed}
  /\ req' = [req EXCEPT ![i].flushed = {}]
  /\ UNCHANGED account

Provision(i) ==
  /\ Sent(i)
  /\ \/ \E k \in DOMAIN req[i].ids : AssignRole(i, k) \/ GrantSchools(i, k) \/ AssignmentFails(i, k)
     \/ CloseSession(i)

\* Mutant: a failed second step is not told.
ShownAlways(r, failed) == [k \in DOMAIN r.ids |-> IF k \in Invited(r) THEN "ok" ELSE "none"]
(* The client joins the two lists; when the call fails, every invited       *)
(* account is shown as not provisioned.                                     *)
ShownAs(r, failed) ==
  [k \in DOMAIN r.ids |-> CASE k \notin Invited(r) -> "none"
                           [] failed -> "failed"
                           [] OTHER  -> r.prov[k]]

ShowInvited(i) ==
  /\ Sent(i) /\ req[i].answer = "provision"
  /\ \E failed \in BOOLEAN :
       /\ failed \/ \A k \in Invited(req[i]) : Ended(req[i], k)
       /\ req' = [req EXCEPT ![i].answer = "results", ![i].shown = ShownAs(req[i], failed)]
  /\ UNCHANGED <<account, granted>>

(* A user signs in, or follows an invitation or recovery link; the service  *)
(* refuses a banned account.                                                *)
SignIn(u) ==
  /\ account[u].there /\ ~account[u].banned /\ account[u].session # "live"
  /\ account' = [account EXCEPT ![u].session = "live", ![u].joined = TRUE]
  /\ UNCHANGED <<granted, req>>

Next ==
  \/ \E i \in Requests :
       \/ \E a \in Admins : Send(i, a)
       \/ Work(i) \/ Answer(i) \/ Provision(i) \/ ShowInvited(i)
  \/ \E u \in Users : SignIn(u)

Spec == Init /\ [][Next]_vars

(* Every awaited call returns or throws, and the handlers run on.  Of       *)
(* bulk/provision nothing is asked: the call may never arrive.              *)
FairSpec ==
  /\ Spec
  /\ \A i \in Requests : WF_vars(Work(i) \/ Answer(i) \/ ShowInvited(i))

-----------------------------------------------------------------------------
(* Properties.                                                              *)

(* The types of the accounts and of the requests.                           *)
UserAdminTypeOK ==
  /\ account \in [Users -> [there : BOOLEAN, joined : BOOLEAN, banned : BOOLEAN,
                            session : {"none", "live", "spared"}]]
  /\ granted \subseteq {u \in Users : account[u].there} \X {"role", "schools"}
  /\ \A i \in Requests : Sent(i) =>
       /\ req[i].ids \in Seq(Users) /\ req[i].by \in Admins
       /\ req[i].at \in [Workers -> 0 .. Len(req[i].ids)]
       /\ req[i].next \in 1 .. Len(req[i].ids) + 1
       /\ req[i].answer \in {"pending", "provision", "results", "error"}

(* A banned account has no live session once its ban is done, although      *)
(* users sign in and other administrators unban and ban between any two     *)
(* calls: such a session exists only while a ban of this account is about   *)
(* to revoke it, or was spared because a call failed (ban before            *)
(* revokeAllUserSessions in both ban routes).                               *)
BannedIsSignedOut ==
  \A u \in Users : account[u].banned /\ account[u].session = "live" =>
    \E i \in Requests, w \in Workers :
      Runs(i, w, "revoke") /\ req[i].action = "ban" /\ Target(i, w) = u

(* No target of a request is handled twice or by two workers at once,       *)
(* although the workers share one cursor and a rejected one leaves the      *)
(* others running; and an answer with results has one for every target,     *)
(* with success only where the call took effect (mapPool, applyAction).     *)
AnswerIsWhole ==
  \A i \in Requests : Sent(i) =>
    /\ \A k \in DOMAIN req[i].ids : req[i].times[k] <= 1
    /\ \A v, w \in Workers : req[i].at[v] = req[i].at[w] /\ v # w => req[i].at[w] = 0
    /\ req[i].answer \in {"provision", "results"} =>
         \A k \in DOMAIN req[i].ids :
           req[i].res[k] # "none" /\ (req[i].res[k] = "ok" => req[i].times[k] = 1)

(* What the dialog shows as invited and set up has its role and schools,    *)
(* although the two steps, their answers, the commits of each account and   *)
(* other administrators' requests interleave; unless a later deletion took  *)
(* the account away.  An invitation without schools has no commit before    *)
(* its answer: of its roles the dialog knows nothing.                       *)
ShownIsProvisioned ==
  \A i \in Requests : Sent(i) => \A k \in DOMAIN req[i].ids :
    req[i].answer = "results" /\ k \in Invited(req[i]) /\ req[i].schools =>
      \/ req[i].shown[k] = "failed"
      \/ {req[i].ids[k]} \X {"role", "schools"} \subseteq granted
      \/ \E j \in Requests : /\ Sent(j) /\ req[j].action = "delete"
                             /\ \E n \in DOMAIN req[j].ids : req[j].ids[n] = req[i].ids[k]

(* The console gets its answer: every request it sent is answered, with an  *)
(* error if it must be, and its busy flag is taken back, so that there      *)
(* comes a moment when no administrator waits.                              *)
ConsoleIsReleased == []<>(\A a \in Admins : ~Waiting(a))
=============================================================================

--------------------------- MODULE UserAdminProofs ---------------------------
(***************************************************************************)
(* What TLAPS proves of UserAdmin for every set of accounts, administrators *)
(* and requests, all lists of targets and every number of workers: the      *)
(* types; that an answer has every target once; that a banned account is    *)
(* signed out; and that what the dialog shows as set up is provisioned.     *)
(***************************************************************************)
EXTENDS UserAdmin, FiniteSetTheorems, SequenceTheorems, TLAPS

(***************************************************************************)
(* The scripts                                                              *)
(***************************************************************************)
Calls == {"ban", "unban", "delete", "mail", "invite"}

\* Where the script of a route has its one call that counts.
CallAt(route, action) ==
    IF action = "invite" THEN 1 ELSE IF route = "user" /\ action = "delete" THEN 3 ELSE 2

(***************************************************************************)
(* The inductive invariant of one request                                   *)
(***************************************************************************)
Results == {"none", "ok", "failed", "exists"}
Shown == {"none", "ok", "failed"}
Rolled == Shown \cup {"role"}
Parts == {"role", "schools"}
Requested(n) ==
    [route : {"bulk", "user", "invite"},
     action : {"ban", "unban", "delete", "resend", "reset", "invite"},
     by : Admins, ids : {s \in Seq(Users) : Len(s) = n},
     at : [Workers -> 0..n], pc : [Workers -> Nat], next : 1..(n + 1),
     res : [1..n -> Results], times : [1..n -> 0..1],
     prov : [1..n -> Rolled], shown : [1..n -> Shown],
     schools : BOOLEAN, flushed : SUBSET (Users \X {"role"}), dead : BOOLEAN,
     answer : {"pending", "provision", "results", "error"}]

Due(r, w) == IF CallAt(r.route, r.action) < r.pc[w] THEN 1 ELSE 0

\* What holds of a request whoever's turn it is: no two workers share a target, what lies
\* past the cursor is untouched, what lies before it is filed or in a worker's hands unless
\* the request is lost, and the call of a target was made once when its result is filed.
\* Worker u is in the middle of its step: its call may be made and not yet stepped over.
FitsBut(r, u) ==
    LET n == Len(r.ids)
    IN /\ r \in Requested(n) /\ <<r.route, r.action>> \in Routes /\ (r.schools => r.route = "invite")
       /\ \A w \in Workers : r.pc[w] \in 1..Len(Script(r.route, r.action)) /\ r.at[w] < r.next
       /\ \A v, w \in Workers : r.at[v] = r.at[w] /\ v # w => r.at[w] = 0
       /\ \A k \in 1..n : r.next <= k => r.res[k] = "none" /\ r.times[k] = 0
       /\ \A w \in Workers : r.at[w] # 0 => r.res[r.at[w]] = "none"
       /\ \A w \in Workers : w # u /\ r.at[w] # 0 => r.times[r.at[w]] = Due(r, w)
       /\ \A k \in 1..n : r.res[k] = "ok" => r.times[k] = 1
       /\ r.answer # "error" =>
            /\ \A k \in 1..n : k < r.next => r.res[k] # "none" \/ \E w \in Workers : r.at[w] = k
            /\ \A w \in Workers : r.at[w] = 0 => r.next = n + 1
       /\ r.answer \in {"provision", "results"} => \A w \in Workers : r.at[w] = 0
       /\ \A k \in 1..n : r.shown[k] = "ok" => r.prov[k] = "ok"
       /\ r.route = "invite" /\ r.answer = "results" =>
            \A k \in 1..n : r.res[k] = "ok" => r.shown[k] \in {"ok", "failed"}
Fits(r) == \A w \in Workers : FitsBut(r, w) /\ (r.at[w] # 0 => r.times[r.at[w]] = Due(r, w))

Accounts == [there : BOOLEAN, joined : BOOLEAN, banned : BOOLEAN,
             session : {"none", "live", "spared"}]

\* The accounts whose deletion was asked for.
Deleted ==
    {u \in Users :
       \E j \in Requests : /\ Sent(j) /\ req[j].action = "delete"
                           /\ \E n \in DOMAIN req[j].ids : req[j].ids[n] = u}

\* The accounts that are banned and have a live session, and those whose sessions a worker
\* is about to revoke after a ban.
BannedLive == {u \in Users : account[u].banned /\ account[u].session = "live"}
Revoking(u, i, w) == Runs(i, w, "revoke") /\ req[i].action = "ban" /\ Target(i, w) = u
BeingRevoked == {u \in Users : \E i \in Requests, w \in Workers : Revoking(u, i, w)}

\* What is committed, and what is flushed, is of accounts that are there.
There == {u \in Users : account[u].there}
RowsHaveAccounts ==
    /\ granted \subseteq There \X Parts
    /\ \A i \in Requests : Sent(i) => req[i].flushed \subseteq There \X {"role"}

TypeInv ==
    /\ account \in [Users -> Accounts] /\ RowsHaveAccounts
    /\ DOMAIN req = Requests /\ \A i \in Requests : Sent(i) => Fits(req[i])

\* An account whose role is in and whose schools are still to come is the one whose turn it
\* is, and its role is committed or waits in the same session for the commit of a school.
RoleIsKept(i, k) ==
    req[i].prov[k] = "role" =>
      /\ req[i].answer \in {"provision", "results"} /\ k \in Invited(req[i])
      /\ \A j \in Invited(req[i]) : j < k => Ended(req[i], j)
      /\ <<req[i].ids[k], "role">> \in granted \cup req[i].flushed \/ req[i].ids[k] \in Deleted

\* What was provisioned stays granted unless a deletion takes it away.
SchoolsAreKept(i, k) ==
    req[i].schools /\ req[i].prov[k] = "ok" =>
      (\A part \in Parts : <<req[i].ids[k], part>> \in granted) \/ req[i].ids[k] \in Deleted

ProvisionedIsGranted ==
    \A i \in Requests : Sent(i) => \A k \in 1..Len(req[i].ids) : RoleIsKept(i, k) /\ SchoolsAreKept(i, k)

(***************************************************************************)
(* Lemmas about scripts, targets and the records of requests                *)
(***************************************************************************)
\* Every script has one call that counts, looks up before it and never ends with the
\* look-up; a ban is followed by its revocation; and a script deletes only where that is
\* what was asked for.
LEMMA ScriptFacts ==
    ASSUME NEW route, NEW action, <<route, action>> \in Routes
    PROVE  LET sc == Script(route, action)
           IN /\ Len(sc) \in 1..3 /\ CallAt(route, action) \in 1..Len(sc)
              /\ \A p \in 1..Len(sc) :
                   /\ sc[p] \in Calls <=> p = CallAt(route, action)
                   /\ sc[p] = "lookup" => p < Len(sc) /\ p # CallAt(route, action)
                   /\ sc[p] = "ban" => p < Len(sc) /\ sc[p + 1] = "revoke" /\ action = "ban"
                   /\ sc[p] = "delete" => action = "delete"
  <1>1. CASE route = "bulk" /\ action \in {"ban", "unban", "delete", "resend"}
    <2>1. CASE action = "ban"
      BY <1>1, <2>1 DEF Script, BulkScript, CallAt, Calls
    <2>2. CASE action = "unban"
      BY <1>1, <2>2 DEF Script, BulkScript, CallAt, Calls
    <2>3. CASE action = "delete"
      BY <1>1, <2>3 DEF Script, BulkScript, CallAt, Calls
    <2>4. CASE action = "resend"
      BY <1>1, <2>4 DEF Script, BulkScript, CallAt, Calls
    <2> QED BY <1>1, <2>1, <2>2, <2>3, <2>4
  <1>2. CASE route = "user" /\ action \in {"ban", "unban", "delete", "resend", "reset"}
    <2>1. CASE action = "ban"
      BY <1>2, <2>1 DEF Script, UserScript, BanScript, CallAt, Calls
    <2>2. CASE action = "unban"
      BY <1>2, <2>2 DEF Script, UserScript, UnbanScript, CallAt, Calls
    <2>3. CASE action = "delete"
      BY <1>2, <2>3 DEF Script, UserScript, DeleteScript, CallAt, Calls
    <2>4. CASE action = "resend"
      BY <1>2, <2>4 DEF Script, UserScript, ResendScript, CallAt, Calls
    <2>5. CASE action = "reset"
      BY <1>2, <2>5 DEF Script, UserScript, ResetScript, CallAt, Calls
    <2> QED BY <1>2, <2>1, <2>2, <2>3, <2>4, <2>5
  <1>3. CASE route = "invite" /\ action = "invite"
    <2>1. Script(route, action) = <<"invite">>
      BY <1>3 DEF Script, UserScript, InviteScript
    <2>2. Len(<<"invite">>) = 1 /\ <<"invite">>[1] = "invite"
      OBVIOUS
    <2> QED BY <1>3, <2>1, <2>2 DEF CallAt, Calls
  <1> QED BY <1>1, <1>2, <1>3 DEF Routes

LEMMA RoutesTyped ==
    \A route, action : <<route, action>> \in Routes =>
      /\ route \in {"bulk", "user", "invite"}
      /\ action \in {"ban", "unban", "delete", "resend", "reset", "invite"}
  BY DEF Routes

\* Targets are accounts of the list, none of them twice.
LEMMA TargetsTyped ==
    ASSUME NEW ids \in Seq(Users), NEW route, NEW a, NEW t \in Targets(route, ids, a)
    PROVE  t \in Seq(Users)
  <1> DEFINE kept == Kept(route, ids, a)
  <1>1. /\ Len(ids) \in Nat /\ DOMAIN ids = 1..Len(ids) /\ kept \subseteq 1..Len(ids)
        /\ ids \in [1..Len(ids) -> Users]
    BY LenProperties DEF Kept
  <1>2. Cardinality(kept) \in Nat
    <2>1. IsFiniteSet(1..Len(ids))
      BY <1>1, FS_Interval
    <2>2. IsFiniteSet(kept)
      BY <1>1, <2>1, FS_Subset
    <2> QED BY <2>2, FS_CardinalityType
  <1> HIDE DEF kept
  <1>3. PICK f \in [1..Cardinality(kept) -> kept] : t = [k \in DOMAIN f |-> ids[f[k]]]
    BY DEF Targets, kept
  <1>4. t \in [1..Cardinality(kept) -> Users]
    BY <1>1, <1>3
  <1> QED BY <1>2, <1>4, SeqDef

LEMMA RecordFacts ==
    ASSUME NEW r, NEW u, FitsBut(r, u)
    PROVE  LET n == Len(r.ids)
           IN /\ n \in Nat /\ DOMAIN r.ids = 1..n /\ r.ids \in Seq(Users) /\ r \in Requested(n)
              /\ Len(Script(r.route, r.action)) \in 1..3
              /\ \A w \in Workers : r.at[w] # 0 => r.at[w] \in 1..n
              /\ r # Unsent
  <1>1. r \in Requested(Len(r.ids)) /\ <<r.route, r.action>> \in Routes
    BY DEF FitsBut
  <1>2. r.ids \in Seq(Users) /\ r.at \in [Workers -> 0..Len(r.ids)]
    BY <1>1 DEF Requested
  <1>3. Len(r.ids) \in Nat /\ DOMAIN r.ids = 1..Len(r.ids)
    BY <1>2, LenProperties
  <1>4. r # Unsent
    BY <1>1 DEF Requested, Unsent
  <1> QED BY <1>1, <1>2, <1>3, <1>4, ScriptFacts

\* What a worker's step leaves alone in the record of its request.
Same(r, m, w) ==
    /\ m.ids = r.ids /\ m.route = r.route /\ m.action = r.action /\ m.by = r.by
    /\ m.prov = r.prov /\ m.shown = r.shown /\ m.schools = r.schools /\ m.flushed = r.flushed
    /\ \A v \in Workers \ {w} : m.at[v] = r.at[v] /\ m.pc[v] = r.pc[v]

\* A new request: the first targets are in the workers' hands, the rest past the cursor.
LEMMA NewFits ==
    ASSUME NEW route, NEW action, <<route, action>> \in Routes, NEW a \in Admins,
           NEW t \in Seq(Users), NEW schools \in BOOLEAN, schools => route = "invite"
    PROVE  LET m == NewRequest(route, action, t, a, schools)
           IN Fits(m) /\ m.ids = t /\ m.prov = [k \in DOMAIN t |-> "none"] /\ m.flushed = {}
  <1> DEFINE m == NewRequest(route, action, t, a, schools)  n == Len(t)
  <1>0. Concurrency \in Nat \ {0} /\ Workers = 1..Concurrency
    BY UserAdminAssumption DEF Workers
  <1>1. n \in Nat /\ DOMAIN t = 1..n
    BY LenProperties
  <1>2. /\ m.route = route /\ m.action = action /\ m.by = a /\ m.ids = t
        /\ m.at = [w \in Workers |-> IF w <= n THEN w ELSE 0]
        /\ m.pc = [w \in Workers |-> 1] /\ m.next = 1 + (IF Concurrency < n THEN Concurrency ELSE n)
        /\ m.res = [k \in 1..n |-> "none"] /\ m.times = [k \in 1..n |-> 0]
        /\ m.prov = [k \in 1..n |-> "none"] /\ m.shown = [k \in 1..n |-> "none"]
        /\ m.answer = "pending" /\ m.schools = schools /\ m.flushed = {} /\ m.dead = FALSE
    BY <1>1 DEF NewRequest
  <1>3. m \in Requested(n)
    <2>1. m.next \in 1..(n + 1)
      BY <1>0, <1>1, <1>2
    <2>2. m.at \in [Workers -> 0..n] /\ m.pc \in [Workers -> Nat]
      BY <1>0, <1>1, <1>2
    <2>3. /\ m.res \in [1..n -> Results] /\ m.times \in [1..n -> 0..1]
          /\ m.prov \in [1..n -> Rolled] /\ m.shown \in [1..n -> Shown]
      BY <1>1, <1>2 DEF Results, Shown, Rolled
    <2> QED BY <1>1, <1>2, <2>1, <2>2, <2>3, RoutesTyped DEF NewRequest, Requested
  <1> HIDE DEF m
  <1>4. CallAt(route, action) \in 1..3 /\ 1 \in 1..Len(Script(route, action))
    BY ScriptFacts DEF CallAt
  <1>5. ASSUME NEW w \in Workers, m.at[w] # 0 PROVE m.times[m.at[w]] = Due(m, w)
    <2>1. m.at[w] = w /\ w \in 1..n
      BY <1>0, <1>1, <1>2, <1>5
    <2>2. m.times[w] = 0 /\ m.pc[w] = 1
      BY <1>2, <2>1
    <2>3. Due(m, w) = 0
      BY <1>2, <1>4, <2>2 DEF Due
    <2> QED BY <2>1, <2>2, <2>3
  <1>6. ASSUME NEW k \in 1..n, k < m.next PROVE \E w \in Workers : m.at[w] = k
    <2>1. k \in Workers
      BY <1>0, <1>1, <1>2, <1>6
    <2> QED BY <1>2, <2>1
  <1>7. \A w \in Workers : m.at[w] < m.next /\ (m.at[w] = 0 => m.next = n + 1)
    BY <1>0, <1>1, <1>2
  <1>8. ASSUME NEW w \in Workers PROVE FitsBut(m, w)
    BY <1>0, <1>1, <1>2, <1>3, <1>4, <1>5, <1>6, <1>7 DEF FitsBut
  <1> QED BY <1>1, <1>2, <1>5, <1>8 DEF Fits, m

\* A result is filed, and the worker takes the next target of the cursor or stops.
LEMMA FilesFits ==
    ASSUME NEW r, NEW w \in Workers, FitsBut(r, w), r.at[w] # 0,
           NEW result \in {"ok", "failed", "exists"}, result = "ok" => r.times[r.at[w]] = 1
    PROVE  LET m == Files(r, w, result) IN Fits(m) /\ Same(r, m, w)
  <1> DEFINE n == Len(r.ids)  m == Files(r, w, result)  more == r.next <= n
  <1>0. /\ n \in Nat /\ r \in Requested(n) /\ r.at[w] \in 1..n
        /\ <<r.route, r.action>> \in Routes /\ r.answer \notin {"provision", "results"}
    <2>1. n \in Nat /\ r \in Requested(n) /\ r.at[w] \in 1..n
      BY RecordFacts
    <2>2. <<r.route, r.action>> \in Routes /\ r.answer \notin {"provision", "results"}
      BY DEF FitsBut
    <2> QED BY <2>1, <2>2
  <1>1. /\ m.ids = r.ids /\ m.route = r.route /\ m.action = r.action /\ m.by = r.by
        /\ m.prov = r.prov /\ m.shown = r.shown /\ m.times = r.times /\ m.answer = r.answer
        /\ m.schools = r.schools /\ m.flushed = r.flushed
        /\ m.res = [r.res EXCEPT ![r.at[w]] = result]
        /\ m.at = [r.at EXCEPT ![w] = IF more THEN r.next ELSE 0]
        /\ m.pc = [r.pc EXCEPT ![w] = 1]
        /\ m.next = IF more THEN r.next + 1 ELSE r.next
    BY <1>0 DEF Files, Requested
  <1>2. /\ r.at \in [Workers -> 0..n] /\ r.pc \in [Workers -> Nat] /\ r.next \in 1..(n + 1)
        /\ r.res \in [1..n -> Results] /\ r.times \in [1..n -> 0..1]
    BY <1>0 DEF Requested
  <1>3. /\ m.next \in 1..(n + 1) /\ m.at \in [Workers -> 0..n] /\ m.pc \in [Workers -> Nat]
        /\ m.res \in [1..n -> Results]
    BY <1>0, <1>1, <1>2 DEF Results
  <1>4. m \in Requested(n)
    BY <1>0, <1>1, <1>3 DEF Files, Requested
  <1>5. Same(r, m, w)
    BY <1>1, <1>2 DEF Same
  <1> HIDE DEF m
  <1>6. \A v \in Workers \ {w} : m.at[v] = r.at[v] /\ m.pc[v] = r.pc[v] /\ Due(m, v) = Due(r, v)
    BY <1>1, <1>2 DEF Due
  <1>7. /\ m.at[w] = (IF more THEN r.next ELSE 0) /\ m.pc[w] = 1
        /\ \A k \in 1..n : k # r.at[w] => m.res[k] = r.res[k]
        /\ m.res[r.at[w]] = result
    BY <1>0, <1>1, <1>2
  <1>8. /\ \A v \in Workers : r.at[v] < r.next
        /\ \A k \in 1..n : r.next <= k => r.res[k] = "none" /\ r.times[k] = 0
        /\ \A v, x \in Workers : r.at[v] = r.at[x] /\ v # x => r.at[x] = 0
        /\ \A v \in Workers : r.at[v] # 0 => r.res[r.at[v]] = "none"
        /\ \A v \in Workers : v # w /\ r.at[v] # 0 => r.times[r.at[v]] = Due(r, v)
    BY DEF FitsBut
  <1>9. ASSUME NEW v \in Workers
        PROVE  /\ m.pc[v] \in 1..Len(Script(m.route, m.action)) /\ m.at[v] < m.next
               /\ m.at[v] # 0 => m.res[m.at[v]] = "none" /\ m.times[m.at[v]] = Due(m, v)
               /\ \A x \in Workers : m.at[v] = m.at[x] /\ v # x => m.at[x] = 0
    <2>1. m.pc[v] \in 1..Len(Script(m.route, m.action))
      BY <1>0, <1>1, <1>6, <1>7, ScriptFacts DEF FitsBut
    <2>2. m.at[v] < m.next
      BY <1>0, <1>1, <1>2, <1>6, <1>7, <1>8
    <2>3. ASSUME m.at[v] # 0 PROVE m.res[m.at[v]] = "none" /\ m.times[m.at[v]] = Due(m, v)
      <3>1. CASE v = w
        <4>1. CallAt(m.route, m.action) \in 1..3
          BY <1>0, <1>1, ScriptFacts DEF CallAt
        <4>2. Due(m, v) = 0
          BY <1>7, <3>1, <4>1 DEF Due
        <4>3. m.at[v] = r.next /\ r.next \in 1..n /\ r.next # r.at[w]
          BY <1>0, <1>2, <1>7, <1>8, <2>3, <3>1
        <4> QED BY <1>1, <1>2, <1>7, <1>8, <4>2, <4>3
      <3>2. CASE v # w
        <4>1. m.at[v] = r.at[v] /\ r.at[v] \in 1..n /\ r.at[v] # r.at[w]
          BY <1>0, <1>2, <1>6, <1>8, <2>3, <3>2
        <4> QED BY <1>1, <1>6, <1>7, <1>8, <3>2, <4>1
      <3> QED BY <3>1, <3>2
    <2>4. ASSUME NEW x \in Workers, m.at[v] = m.at[x], v # x PROVE m.at[x] = 0
      BY <1>2, <1>6, <1>7, <1>8, <2>4
    <2> QED BY <2>1, <2>2, <2>3, <2>4
  <1>10. ASSUME NEW k \in 1..n
         PROVE  /\ m.next <= k => m.res[k] = "none" /\ m.times[k] = 0
                /\ m.res[k] = "ok" => m.times[k] = 1
                /\ m.answer # "error" /\ k < m.next =>
                     m.res[k] # "none" \/ \E v \in Workers : m.at[v] = k
                /\ m.shown[k] = "ok" => m.prov[k] = "ok"
    <2>1. m.next <= k => m.res[k] = "none" /\ m.times[k] = 0
      BY <1>0, <1>1, <1>2, <1>7, <1>8
    <2>2. m.res[k] = "ok" => m.times[k] = 1
      BY <1>0, <1>1, <1>7 DEF FitsBut
    <2>3. ASSUME m.answer # "error", k < m.next, m.res[k] = "none"
          PROVE  \E v \in Workers : m.at[v] = k
      <3>1. k # r.at[w]
        BY <1>7, <2>3
      <3>2. CASE k = r.next
        BY <1>7, <3>2
      <3>3. CASE k # r.next
        <4>1. k < r.next /\ r.res[k] = "none" /\ r.answer # "error"
          BY <1>0, <1>1, <1>2, <1>7, <2>3, <3>1, <3>3
        <4>2. PICK v \in Workers : r.at[v] = k
          BY <4>1 DEF FitsBut
        <4> QED BY <1>6, <3>1, <4>2
      <3> QED BY <3>2, <3>3
    <2>4. m.shown[k] = "ok" => m.prov[k] = "ok"
      BY <1>1 DEF FitsBut
    <2> QED BY <2>1, <2>2, <2>3, <2>4
  <1>11. m.answer # "error" => \A v \in Workers : m.at[v] = 0 => m.next = n + 1
    <2> SUFFICES ASSUME m.answer # "error", NEW v \in Workers, m.at[v] = 0 PROVE m.next = n + 1
      OBVIOUS
    <2>1. CASE v = w
      BY <1>0, <1>1, <1>2, <1>7, <2>1
    <2>2. CASE v # w
      <3>1. r.next = n + 1
        BY <1>1, <1>6, <2>2 DEF FitsBut
      <3> QED BY <1>0, <1>1, <3>1
    <2> QED BY <2>1, <2>2
  <1>12. m.answer \notin {"provision", "results"}
    BY <1>0, <1>1
  <1>13. ASSUME NEW u \in Workers PROVE FitsBut(m, u)
    <2>1. /\ \A v \in Workers : m.pc[v] \in 1..Len(Script(m.route, m.action)) /\ m.at[v] < m.next
          /\ \A v, x \in Workers : m.at[v] = m.at[x] /\ v # x => m.at[x] = 0
          /\ \A v \in Workers : m.at[v] # 0 => m.res[m.at[v]] = "none"
          /\ \A v \in Workers : v # u /\ m.at[v] # 0 => m.times[m.at[v]] = Due(m, v)
      BY <1>9
    <2>2. /\ \A k \in 1..n : m.next <= k => m.res[k] = "none" /\ m.times[k] = 0
          /\ \A k \in 1..n : m.res[k] = "ok" => m.times[k] = 1
          /\ m.answer # "error" =>
               \A k \in 1..n : k < m.next => m.res[k] # "none" \/ \E v \in Workers : m.at[v] = k
          /\ \A k \in 1..n : m.shown[k] = "ok" => m.prov[k] = "ok"
      BY <1>10
    <2>3. /\ Len(m.ids) = n /\ <<m.route, m.action>> \in Routes
          /\ m.schools => m.route = "invite"
      BY <1>0, <1>1 DEF FitsBut
    <2> HIDE DEF n
    <2> QED BY <1>4, <1>11, <1>12, <2>1, <2>2, <2>3 DEF FitsBut
  <1> QED BY <1>5, <1>9, <1>13 DEF Fits, m

\* The call took effect: it is counted for the worker's target.
LEMMA CountsFits ==
    ASSUME NEW r, NEW w \in Workers, Fits(r), r.at[w] # 0,
           r.pc[w] = CallAt(r.route, r.action)
    PROVE  LET m == Counts(r, w)
           IN /\ FitsBut(m, w) /\ Same(r, m, w) /\ m.at = r.at /\ m.pc = r.pc
              /\ m.times[m.at[w]] = 1
  <1> DEFINE n == Len(r.ids)  m == Counts(r, w)
  <1>0. /\ n \in Nat /\ r \in Requested(n) /\ r.at[w] \in 1..n /\ FitsBut(r, w)
        /\ r.times[r.at[w]] = Due(r, w)
    BY RecordFacts DEF Fits
  <1>1. r.times[r.at[w]] = 0
    <2>1. r.pc[w] \in Nat
      BY <1>0 DEF Requested
    <2> QED BY <1>0, <2>1 DEF Due
  <1>2. /\ m.ids = r.ids /\ m.route = r.route /\ m.action = r.action /\ m.by = r.by
        /\ m.prov = r.prov /\ m.shown = r.shown /\ m.answer = r.answer
        /\ m.schools = r.schools /\ m.flushed = r.flushed
        /\ m.res = r.res /\ m.at = r.at /\ m.pc = r.pc /\ m.next = r.next
        /\ m.times = [r.times EXCEPT ![r.at[w]] = r.times[r.at[w]] + 1]
    BY <1>0 DEF Counts, Requested
  <1>3. /\ r.at \in [Workers -> 0..n] /\ r.times \in [1..n -> 0..1]
    BY <1>0 DEF Requested
  <1>4. m.times = [r.times EXCEPT ![r.at[w]] = 1]
    BY <1>1, <1>2
  <1>5. m \in Requested(n)
    <2>1. m.times \in [1..n -> 0..1]
      BY <1>3, <1>4
    <2> QED BY <1>0, <1>2, <2>1 DEF Counts, Requested
  <1> HIDE DEF m
  <1>6. /\ m.times[r.at[w]] = 1
        /\ \A k \in 1..n : k # r.at[w] => m.times[k] = r.times[k]
    BY <1>0, <1>3, <1>4
  <1>7. \A v \in Workers : Due(m, v) = Due(r, v)
    BY <1>2 DEF Due
  <1>8. ASSUME NEW v \in Workers, v # w, m.at[v] # 0 PROVE m.times[m.at[v]] = Due(m, v)
    <2>1. m.at[v] = r.at[v] /\ r.at[v] # r.at[w] /\ r.at[v] \in 1..n
      BY <1>0, <1>2, <1>3, <1>8 DEF FitsBut
    <2>2. r.times[r.at[v]] = Due(r, v)
      BY <1>0, <1>8, <2>1 DEF FitsBut
    <2> QED BY <1>6, <1>7, <2>1, <2>2
  <1>9. \A k \in 1..n : /\ m.next <= k => m.res[k] = "none" /\ m.times[k] = 0
                        /\ m.res[k] = "ok" => m.times[k] = 1
    <2>1. r.at[w] < r.next
      BY <1>0 DEF FitsBut
    <2>2. r.next \in Nat
      BY <1>0 DEF Requested
    <2> QED BY <1>0, <1>2, <1>6, <2>1, <2>2 DEF FitsBut
  <1>10. FitsBut(m, w)
    BY <1>0, <1>2, <1>5, <1>8, <1>9 DEF FitsBut
  <1> QED BY <1>2, <1>6, <1>10 DEF Same, m

\* The script goes on behind a step that is done, or ends with success.
LEMMA GoesFits ==
    ASSUME NEW r, NEW w \in Workers, FitsBut(r, w), r.at[w] # 0,
           r.times[r.at[w]] = IF CallAt(r.route, r.action) <= r.pc[w] THEN 1 ELSE 0
    PROVE  LET m == Goes(r, w)
           IN /\ Fits(m) /\ Same(r, m, w)
              /\ r.pc[w] < Len(Script(r.route, r.action)) => m.at = r.at /\ m.pc[w] = r.pc[w] + 1
  <1> DEFINE n == Len(r.ids)  len == Len(Script(r.route, r.action))
  <1>0. /\ n \in Nat /\ r \in Requested(n) /\ r.at[w] \in 1..n /\ len \in 1..3
    BY RecordFacts
  <1>1. r.pc \in [Workers -> Nat] /\ r.pc[w] \in 1..len /\ <<r.route, r.action>> \in Routes
    BY <1>0 DEF FitsBut, Requested
  <1>2. CallAt(r.route, r.action) \in 1..len
    BY <1>1, ScriptFacts
  <1>3. CASE r.pc[w] < len
    <2> DEFINE m == [r EXCEPT !.pc[w] = @ + 1]
    <2>1. Goes(r, w) = m
      BY <1>3 DEF Goes
    <2>2. /\ m.ids = r.ids /\ m.route = r.route /\ m.action = r.action /\ m.by = r.by
          /\ m.prov = r.prov /\ m.shown = r.shown /\ m.answer = r.answer
        /\ m.schools = r.schools /\ m.flushed = r.flushed
          /\ m.res = r.res /\ m.at = r.at /\ m.next = r.next /\ m.times = r.times
          /\ m.pc = [r.pc EXCEPT ![w] = r.pc[w] + 1]
      BY <1>0 DEF Requested
    <2>3. m \in Requested(n)
      <3>1. m.pc \in [Workers -> Nat]
        BY <1>1, <2>2
      <3> QED BY <1>0, <2>2, <3>1 DEF Requested
    <2> HIDE DEF m
    <2>4. /\ m.pc[w] = r.pc[w] + 1 /\ m.pc[w] \in 1..len
          /\ \A v \in Workers \ {w} : m.pc[v] = r.pc[v] /\ Due(m, v) = Due(r, v)
      BY <1>0, <1>1, <1>3, <2>2 DEF Due
    <2>5. m.times[m.at[w]] = Due(m, w)
      BY <1>1, <1>2, <2>2, <2>4 DEF Due
    <2>6. \A v \in Workers : m.at[v] # 0 => m.times[m.at[v]] = Due(m, v)
      BY <2>2, <2>4, <2>5 DEF FitsBut
    <2>7. \A v \in Workers : m.pc[v] \in 1..Len(Script(m.route, m.action))
      BY <2>2, <2>4 DEF FitsBut
    <2>8. ASSUME NEW u \in Workers PROVE FitsBut(m, u)
      BY <2>2, <2>3, <2>6, <2>7 DEF FitsBut
    <2>9. Same(r, m, w)
      BY <2>2, <2>4 DEF Same
    <2> QED BY <2>1, <2>2, <2>4, <2>6, <2>8, <2>9 DEF Fits
  <1>4. CASE ~(r.pc[w] < len)
    <2>1. Goes(r, w) = Files(r, w, "ok")
      BY <1>4 DEF Goes
    <2>2. r.times[r.at[w]] = 1
      BY <1>0, <1>1, <1>2, <1>4
    <2> QED BY <1>4, <2>1, <2>2, FilesFits
  <1> QED BY <1>3, <1>4

\* A call throws: the request is lost, the worker's target is left as it is.
LEMMA ThrowsFits ==
    ASSUME NEW r, NEW w \in Workers, Fits(r), r.at[w] # 0
    PROVE  LET m == Throws(r, w) IN Fits(m) /\ Same(r, m, w)
  <1> DEFINE n == Len(r.ids)  m == Throws(r, w)
  <1>0. /\ n \in Nat /\ r \in Requested(n) /\ r.at[w] \in 1..n /\ FitsBut(r, w)
        /\ Len(Script(r.route, r.action)) \in 1..3
    BY RecordFacts DEF Fits
  <1>1. r.answer \in {"pending", "error"}
    <2>1. r.answer \notin {"provision", "results"}
      BY <1>0 DEF FitsBut
    <2> QED BY <1>0, <2>1 DEF Requested
  <1>2. /\ m.ids = r.ids /\ m.route = r.route /\ m.action = r.action /\ m.by = r.by
        /\ m.prov = r.prov /\ m.shown = r.shown /\ m.answer = "error"
        /\ m.schools = r.schools /\ m.flushed = r.flushed
        /\ m.res = r.res /\ m.next = r.next /\ m.times = r.times
        /\ m.pc = [r.pc EXCEPT ![w] = 1] /\ m.at = [r.at EXCEPT ![w] = 0]
    BY <1>0, <1>1 DEF Throws, Requested
  <1>3. r.at \in [Workers -> 0..n] /\ r.pc \in [Workers -> Nat] /\ r.next \in 1..(n + 1)
    BY <1>0 DEF Requested
  <1>4. m.at \in [Workers -> 0..n] /\ m.pc \in [Workers -> Nat]
    BY <1>0, <1>2, <1>3
  <1>5. m \in Requested(n)
    BY <1>0, <1>2, <1>4 DEF Throws, Requested
  <1> HIDE DEF m
  <1>6. /\ m.pc[w] = 1 /\ m.at[w] = 0
        /\ \A v \in Workers \ {w} : m.at[v] = r.at[v] /\ m.pc[v] = r.pc[v] /\ Due(m, v) = Due(r, v)
    BY <1>2, <1>3 DEF Due
  <1>7. ASSUME NEW v \in Workers
        PROVE  /\ m.pc[v] \in 1..Len(Script(m.route, m.action)) /\ m.at[v] < m.next
               /\ m.at[v] # 0 => m.res[m.at[v]] = "none" /\ m.times[m.at[v]] = Due(m, v)
               /\ \A x \in Workers : m.at[v] = m.at[x] /\ v # x => m.at[x] = 0
    <2>1. m.pc[v] \in 1..Len(Script(m.route, m.action)) /\ m.at[v] < m.next
      BY <1>0, <1>2, <1>3, <1>6 DEF FitsBut
    <2>2. m.at[v] # 0 => v # w /\ m.res[m.at[v]] = "none"
      BY <1>0, <1>2, <1>6 DEF FitsBut
    <2>3. m.at[v] # 0 => m.times[m.at[v]] = Due(m, v)
      BY <1>0, <1>2, <1>6, <2>2 DEF FitsBut
    <2>4. \A x \in Workers : m.at[v] = m.at[x] /\ v # x => m.at[x] = 0
      BY <1>0, <1>6 DEF FitsBut
    <2> QED BY <2>1, <2>2, <2>3, <2>4
  <1>8. ASSUME NEW u \in Workers PROVE FitsBut(m, u)
    BY <1>0, <1>2, <1>5, <1>7 DEF FitsBut
  <1>9. Same(r, m, w)
    BY <1>2, <1>6 DEF Same
  <1> QED BY <1>7, <1>8, <1>9 DEF Fits, m

\* What the answer, the provisioning and the dialog change in a request is its answer and
\* what was provisioned and shown.
SameWork(r, m) ==
    /\ m.schools = r.schools /\ m.ids = r.ids /\ m.route = r.route /\ m.action = r.action /\ m.by = r.by
    /\ m.at = r.at /\ m.pc = r.pc /\ m.next = r.next /\ m.res = r.res /\ m.times = r.times

LEMMA AnswerFits ==
    ASSUME NEW r, NEW m, Fits(r), SameWork(r, m), m \in Requested(Len(r.ids)),
           m.answer # "error" => r.answer # "error" /\ \A w \in Workers : r.at[w] = 0,
           \A k \in 1..Len(r.ids) : m.shown[k] = "ok" => m.prov[k] = "ok",
           m.route = "invite" /\ m.answer = "results" =>
             \A k \in 1..Len(r.ids) : r.res[k] = "ok" => m.shown[k] \in {"ok", "failed"}
    PROVE  Fits(m)
  <1>1. \A w \in Workers : Due(m, w) = Due(r, w)
    BY DEF SameWork, Due
  <1>2. ASSUME NEW u \in Workers PROVE FitsBut(m, u)
    <2>1. FitsBut(r, u)
      BY DEF Fits
    <2> QED BY <1>1, <2>1 DEF FitsBut, SameWork
  <1> QED BY <1>1, <1>2 DEF Fits, SameWork

(***************************************************************************)
(* Types, and the requests one by one                                       *)
(***************************************************************************)
LEMMA RequestFits ==
    ASSUME TypeInv, NEW i \in Requests, Sent(i)
    PROVE  /\ Fits(req[i]) /\ \A w \in Workers : FitsBut(req[i], w)
           /\ Len(req[i].ids) \in Nat /\ DOMAIN req[i].ids = 1..Len(req[i].ids)
           /\ \A k \in 1..Len(req[i].ids) : req[i].ids[k] \in Users
           /\ req[i] \in Requested(Len(req[i].ids))
           /\ \A w \in Workers : req[i].at[w] # 0 =>
                req[i].at[w] \in 1..Len(req[i].ids) /\ Target(i, w) \in Users
  <1> DEFINE r == req[i]
  <1>1. Fits(r)
    BY DEF TypeInv
  <1>2. 1 \in Workers
    BY UserAdminAssumption DEF Workers
  <1>3. \A w \in Workers : FitsBut(r, w)
    BY <1>1 DEF Fits
  <1> HIDE DEF r
  <1>4. /\ Len(r.ids) \in Nat /\ DOMAIN r.ids = 1..Len(r.ids) /\ r.ids \in Seq(Users)
        /\ r \in Requested(Len(r.ids)) /\ \A w \in Workers : r.at[w] # 0 => r.at[w] \in 1..Len(r.ids)
    BY <1>2, <1>3, RecordFacts
  <1>5. \A k \in 1..Len(r.ids) : r.ids[k] \in Users
    BY <1>4, ElementOfSeq
  <1> QED BY <1>1, <1>3, <1>4, <1>5 DEF r, Target

\* A worker's step moves its request to another one that fits.
LEMMA WorkMoves ==
    ASSUME TypeInv, NEW i \in Requests, NEW w \in Workers,
           \/ LookUp(i, w) \/ Revoke(i, w)
           \/ \E step \in {"ban", "unban", "delete", "mail", "invite"} : Call(i, w, step)
    PROVE  /\ Sent(i) /\ req[i].at[w] # 0
           /\ \E m : req' = [req EXCEPT ![i] = m] /\ Fits(m) /\ Same(req[i], m, w)
  <1> DEFINE r == req[i]
  <1>1. Sent(i) /\ r.at[w] # 0
    BY DEF LookUp, Revoke, Call, Runs
  <1>2. Fits(r) /\ FitsBut(r, w) /\ r.times[r.at[w]] = Due(r, w) /\ <<r.route, r.action>> \in Routes
    BY <1>1, RequestFits DEF Fits, FitsBut
  <1>3. /\ r.pc[w] \in 1..Len(Script(r.route, r.action))
        /\ CallAt(r.route, r.action) \in 1..Len(Script(r.route, r.action))
        /\ Script(r.route, r.action)[r.pc[w]] \in Calls <=> r.pc[w] = CallAt(r.route, r.action)
        /\ Len(Script(r.route, r.action)) \in 1..3
    BY <1>2, ScriptFacts DEF FitsBut
  <1>4. CASE LookUp(i, w) \/ Revoke(i, w)
    <2>1. r.pc[w] # CallAt(r.route, r.action)
      BY <1>3, <1>4 DEF LookUp, Revoke, Runs, Calls
    <2>2. r.times[r.at[w]] = IF CallAt(r.route, r.action) <= r.pc[w] THEN 1 ELSE 0
      BY <1>2, <1>3, <2>1 DEF Due
    <2>3. \/ req' = [req EXCEPT ![i] = Goes(r, w)]
          \/ req' = [req EXCEPT ![i] = Files(r, w, "failed")]
          \/ req' = [req EXCEPT ![i] = Throws(r, w)]
      BY <1>4 DEF LookUp, Revoke
    <2> HIDE DEF r
    <2>4. /\ Fits(Goes(r, w)) /\ Same(r, Goes(r, w), w)
          /\ Fits(Files(r, w, "failed")) /\ Same(r, Files(r, w, "failed"), w)
          /\ Fits(Throws(r, w)) /\ Same(r, Throws(r, w), w)
      BY <1>1, <1>2, <2>2, GoesFits, FilesFits, ThrowsFits
    <2> QED BY <1>1, <2>3, <2>4 DEF r
  <1>5. ASSUME NEW step \in {"ban", "unban", "delete", "mail", "invite"}, Call(i, w, step)
        PROVE  \E m : req' = [req EXCEPT ![i] = m] /\ Fits(m) /\ Same(r, m, w)
    <2> DEFINE c == Counts(r, w)
    <2>1. r.pc[w] = CallAt(r.route, r.action)
      BY <1>3, <1>5 DEF Call, Runs, Calls
    <2>2. \/ req' = [req EXCEPT ![i] = Goes(c, w)]
          \/ req' = [req EXCEPT ![i] = Files(c, w, "failed")]
          \/ \E result \in {"exists", "failed"} : req' = [req EXCEPT ![i] = Files(r, w, result)]
      BY <1>5 DEF Call
    <2> HIDE DEF r
    <2>3. /\ FitsBut(c, w) /\ Same(r, c, w) /\ c.at = r.at /\ c.pc = r.pc
          /\ c.times[c.at[w]] = 1
      BY <1>1, <1>2, <2>1, CountsFits
    <2>4. c.at[w] # 0 /\ CallAt(c.route, c.action) <= c.pc[w]
      BY <1>1, <1>3, <2>1, <2>3 DEF Same
    <2> HIDE DEF c
    <2>5. /\ Fits(Goes(c, w)) /\ Same(c, Goes(c, w), w)
          /\ Fits(Files(c, w, "failed")) /\ Same(c, Files(c, w, "failed"), w)
      BY <2>3, <2>4, GoesFits, FilesFits
    <2>6. \A result \in {"exists", "failed"} :
            Fits(Files(r, w, result)) /\ Same(r, Files(r, w, result), w)
      BY <1>1, <1>2, FilesFits
    <2>7. Same(r, Goes(c, w), w) /\ Same(r, Files(c, w, "failed"), w)
      BY <2>3, <2>5 DEF Same
    <2> QED BY <2>2, <2>5, <2>6, <2>7
  <1> QED BY <1>1, <1>4, <1>5

LEMMA RequestMoves ==
    ASSUME TypeInv, NEW i \in Requests, NEW m, Fits(m), req' = [req EXCEPT ![i] = m]
    PROVE  DOMAIN req' = Requests /\ \A j \in Requests : (Sent(j) => Fits(req[j]))'
  BY DEF TypeInv, Sent

LEMMA EffectTyped ==
    ASSUME NEW acc \in Accounts, NEW step
    PROVE  /\ Effect(step, acc) \in Accounts
           /\ Spare(acc) \in Accounts /\ Spare(acc) = [acc EXCEPT !.session = Spare(acc).session]
  BY DEF Effect, Spare, Accounts

LEMMA TypeInvInit == Init => TypeInv
  <1> SUFFICES ASSUME Init PROVE TypeInv
    OBVIOUS
  <1>1. account \in [Users -> Accounts]
    BY DEF Init, Accounts
  <1> QED BY <1>1 DEF Init, TypeInv, Sent, RowsHaveAccounts

LEMMA SendMoves ==
    ASSUME TypeInv, NEW i \in Requests, NEW a \in Admins, Send(i, a)
    PROVE  /\ ~Sent(i)
           /\ \E m : /\ req' = [req EXCEPT ![i] = m] /\ Fits(m)
                     /\ m.prov = [k \in DOMAIN m.ids |-> "none"] /\ m.flushed = {}
  <1>1. PICK call \in Routes, ids \in Lists[i], schools \in BOOLEAN :
          \E t \in Targets(call[1], ids, a) :
            (schools => call[1] = "invite") /\ req' = [req EXCEPT ![i] = NewRequest(call[1], call[2], t, a, schools)]
    BY DEF Send
  <1>2. PICK t \in Targets(call[1], ids, a) :
          (schools => call[1] = "invite") /\ req' = [req EXCEPT ![i] = NewRequest(call[1], call[2], t, a, schools)]
    BY <1>1
  <1>3. t \in Seq(Users)
    BY <1>2, UserAdminAssumption, TargetsTyped
  <1>4. <<call[1], call[2]>> \in Routes
    BY DEF Routes
  <1> DEFINE m == NewRequest(call[1], call[2], t, a, schools)
  <1>5. Fits(m) /\ m.ids = t /\ m.prov = [k \in DOMAIN t |-> "none"] /\ m.flushed = {}
    BY <1>2, <1>3, <1>4, NewFits
  <1> QED BY <1>2, <1>5 DEF Send

LEMMA AnswerMoves ==
    ASSUME TypeInv, NEW i \in Requests, Answer(i)
    PROVE  \E m : req' = [req EXCEPT ![i] = m] /\ Fits(m) /\ SameWork(req[i], m)
                  /\ m.prov = req[i].prov /\ m.flushed = req[i].flushed
  <1> DEFINE r == req[i]  n == Len(r.ids)
  <1>1. Fits(r) /\ r \in Requested(n) /\ n \in Nat /\ DOMAIN r.ids = 1..n
        /\ \A w \in Workers : FitsBut(r, w)
    BY RequestFits DEF Answer, Returned
  <1>2. PICK lost \in BOOLEAN :
          req' = [req EXCEPT ![i].answer =
                    IF lost THEN "error"
                    ELSE IF r.route = "invite" /\ Invited(r) # {} THEN "provision" ELSE "results"]
    BY DEF Answer
  <1> DEFINE m == [r EXCEPT !.answer =
                    IF lost THEN "error"
                    ELSE IF r.route = "invite" /\ Invited(r) # {} THEN "provision" ELSE "results"]
  <1>3. req' = [req EXCEPT ![i] = m]
    BY <1>2
  <1>4. r.answer = "pending" /\ \A w \in Workers : r.at[w] = 0
    BY DEF Answer, Returned
  <1>5. /\ m \in Requested(n) /\ SameWork(r, m) /\ m.shown = r.shown /\ m.prov = r.prov
        /\ m.flushed = r.flushed
        /\ m.answer = "results" /\ m.route = "invite" => Invited(r) = {}
    BY <1>1 DEF Requested, SameWork
  <1> HIDE DEF m, r
  <1>6. 1 \in Workers
    BY UserAdminAssumption DEF Workers
  <1>7. \A k \in 1..n : m.shown[k] = "ok" => m.prov[k] = "ok"
    BY <1>1, <1>5, <1>6 DEF FitsBut
  <1>8. m.route = "invite" /\ m.answer = "results" =>
          \A k \in 1..n : r.res[k] = "ok" => m.shown[k] \in {"ok", "failed"}
    BY <1>1, <1>5 DEF Invited
  <1>9. Fits(m)
    BY <1>1, <1>4, <1>5, <1>7, <1>8, AnswerFits
  <1> QED BY <1>3, <1>5, <1>9 DEF r

\* What a step of the provisioning makes of the record of its request.
ProvFields(r, prov, flushed, dead) ==
    [r EXCEPT !.prov = prov, !.flushed = flushed, !.dead = dead]

LEMMA ProvFits ==
    ASSUME NEW r, Fits(r), NEW n \in Nat, n = Len(r.ids), r \in Requested(n),
           NEW prov \in [1..n -> Rolled], NEW flushed \in SUBSET (Users \X {"role"}), NEW dead \in BOOLEAN,
           \A k \in 1..n : r.prov[k] = "ok" => prov[k] = "ok"
    PROVE  LET m == ProvFields(r, prov, flushed, dead)
           IN /\ Fits(m) /\ SameWork(r, m) /\ m.answer = r.answer
              /\ m.prov = prov /\ m.flushed = flushed
  <1> DEFINE m == ProvFields(r, prov, flushed, dead)
  <1>1. /\ SameWork(r, m) /\ m.answer = r.answer /\ m.shown = r.shown
        /\ m.prov = prov /\ m.flushed = flushed
    BY DEF ProvFields, SameWork, Requested
  <1>2. m \in Requested(n)
    BY DEF ProvFields, Requested
  <1> HIDE DEF m
  <1>3. \A w \in Workers : Due(m, w) = Due(r, w)
    BY <1>1 DEF SameWork, Due
  <1>4. ASSUME NEW u \in Workers PROVE FitsBut(m, u)
    <2>1. FitsBut(r, u)
      BY DEF Fits
    <2> QED BY <1>1, <1>2, <1>3, <2>1 DEF FitsBut, SameWork
  <1> QED BY <1>1, <1>3, <1>4 DEF Fits, SameWork, m

\* What one step of bulk/provision does to the records of its request: to the one whose
\* turn it is, or, at the close of the session, to none.
Progress(i, m, k) ==
    LET r == req[i]
        u == r.ids[k]
    IN /\ Turn(i, k) /\ k \in 1..Len(r.ids)
       /\ \A j \in 1..Len(r.ids) : j # k => m.prov[j] = r.prov[j]
       /\ \/ /\ m.prov[k] = (IF r.schools THEN "role" ELSE "ok") /\ account[u].there
             /\ m.flushed = r.flushed \cup ({<<u, "role">>} \ granted) /\ granted' = granted
          \/ /\ r.prov[k] = "role" /\ m.prov[k] = "ok" /\ account[u].there /\ m.flushed = {}
             /\ granted' = granted \cup r.flushed \cup {<<u, "schools">>}
          \/ /\ m.prov[k] = "failed" /\ m.flushed \in {{}, r.flushed}
             /\ granted' \in {granted, granted \cup r.flushed}
Close(i, m) ==
    /\ m.prov = req[i].prov /\ m.flushed = {} /\ \A k \in Invited(req[i]) : Ended(req[i], k)
    /\ granted' \in {granted, granted \cup req[i].flushed}

LEMMA ProvisionMoves ==
    ASSUME TypeInv, NEW i \in Requests, Provision(i)
    PROVE  /\ Sent(i) /\ account' = account
           /\ \E m : /\ req' = [req EXCEPT ![i] = m] /\ Fits(m) /\ SameWork(req[i], m)
                     /\ m.answer = req[i].answer
                     /\ Close(i, m) \/ \E k : Progress(i, m, k)
  <1> DEFINE r == req[i]  n == Len(r.ids)
  <1>0. Sent(i) /\ account' = account
    BY DEF Provision, AssignRole, GrantSchools, AssignmentFails, CloseSession
  <1>1. Fits(r) /\ r \in Requested(n) /\ n \in Nat /\ DOMAIN r.ids = 1..n
        /\ \A k \in 1..n : r.ids[k] \in Users
    BY <1>0, RequestFits
  <1>2. r.prov \in [1..n -> Rolled] /\ r.flushed \in SUBSET (Users \X {"role"}) /\ r.dead \in BOOLEAN
    BY <1>1 DEF Requested
  <1>3. ASSUME NEW k \in DOMAIN r.ids, Turn(i, k), NEW x \in {"role", "ok", "failed"},
               NEW fl \in SUBSET (Users \X {"role"}), NEW d \in BOOLEAN,
               req' = [req EXCEPT ![i] = ProvFields(r, [r.prov EXCEPT ![k] = x], fl, d)],
               \/ /\ x = (IF r.schools THEN "role" ELSE "ok") /\ account[r.ids[k]].there
                  /\ fl = r.flushed \cup ({<<r.ids[k], "role">>} \ granted) /\ granted' = granted
               \/ /\ r.prov[k] = "role" /\ x = "ok" /\ account[r.ids[k]].there /\ fl = {}
                  /\ granted' = granted \cup r.flushed \cup {<<r.ids[k], "schools">>}
               \/ /\ x = "failed" /\ fl \in {{}, r.flushed}
                  /\ granted' \in {granted, granted \cup r.flushed}
        PROVE  \E m : /\ req' = [req EXCEPT ![i] = m] /\ Fits(m) /\ SameWork(r, m)
                      /\ m.answer = r.answer /\ Progress(i, m, k)
    <2> DEFINE p == [r.prov EXCEPT ![k] = x]
    <2>1. k \in 1..n /\ r.prov[k] # "ok"
      BY <1>1, <1>3 DEF Turn, Ended
    <2>2. p \in [1..n -> Rolled] /\ p[k] = x /\ \A j \in 1..n : j # k => p[j] = r.prov[j]
      BY <1>2, <1>3, <2>1 DEF Rolled, Shown
    <2> DEFINE m == ProvFields(r, p, fl, d)
    <2> HIDE DEF p, r, n
    <2>3. \A j \in 1..n : r.prov[j] = "ok" => p[j] = "ok"
      BY <2>1, <2>2
    <2>4. /\ Fits(m) /\ SameWork(r, m) /\ m.answer = r.answer /\ m.prov = p /\ m.flushed = fl
      BY <1>1, <2>2, <2>3, ProvFits DEF n
    <2>5. req' = [req EXCEPT ![i] = m]
      BY <1>3 DEF p
    <2> HIDE DEF m
    <2>6. Progress(i, m, k)
      BY <1>3, <2>1, <2>2, <2>4 DEF Progress, r, n
    <2> QED BY <2>4, <2>5, <2>6 DEF r
  <1>4. ASSUME NEW k \in DOMAIN r.ids, AssignRole(i, k)
        PROVE  \E m : /\ req' = [req EXCEPT ![i] = m] /\ Fits(m) /\ SameWork(r, m)
                      /\ m.answer = r.answer /\ Progress(i, m, k)
    <2> DEFINE x == IF r.schools THEN "role" ELSE "ok"
               fl == r.flushed \cup ({<<r.ids[k], "role">>} \ granted)
    <2>1. r.ids[k] \in Users
      BY <1>1
    <2>2. fl \in SUBSET (Users \X {"role"}) /\ x \in {"role", "ok", "failed"}
      BY <1>2, <2>1
    <2>3. req' = [req EXCEPT ![i] = [r EXCEPT !.flushed = fl, !.prov[k] = x]]
      BY <1>4 DEF AssignRole
    <2>4. [r EXCEPT !.flushed = fl, !.prov[k] = x]
             = ProvFields(r, [r.prov EXCEPT ![k] = x], fl, r.dead)
      BY <1>1 DEF ProvFields, Requested
    <2>5. Turn(i, k) /\ account[r.ids[k]].there /\ granted' = granted
      BY <1>4 DEF AssignRole
    <2> QED BY <1>2, <1>3, <2>2, <2>3, <2>4, <2>5
  <1>5. ASSUME NEW k \in DOMAIN r.ids, GrantSchools(i, k)
        PROVE  \E m : /\ req' = [req EXCEPT ![i] = m] /\ Fits(m) /\ SameWork(r, m)
                      /\ m.answer = r.answer /\ Progress(i, m, k)
    <2>1. PICK all \in BOOLEAN :
            /\ granted' = granted \cup r.flushed \cup (IF all THEN {<<r.ids[k], "schools">>} ELSE {})
            /\ req' = [req EXCEPT ![i].flushed = {}, ![i].prov[k] = IF all THEN "ok" ELSE "failed"]
      BY <1>5 DEF GrantSchools
    <2> DEFINE x == IF all THEN "ok" ELSE "failed"
    <2>2. req' = [req EXCEPT ![i] = [r EXCEPT !.flushed = {}, !.prov[k] = x]]
      BY <2>1
    <2>3. [r EXCEPT !.flushed = {}, !.prov[k] = x] = ProvFields(r, [r.prov EXCEPT ![k] = x], {}, r.dead)
      BY <1>1 DEF ProvFields, Requested
    <2>4. Turn(i, k) /\ account[r.ids[k]].there /\ r.prov[k] = "role"
      BY <1>5 DEF GrantSchools
    <2>5. {} \in SUBSET (Users \X {"role"}) /\ x \in {"role", "ok", "failed"}
      OBVIOUS
    <2>6. \/ x = "ok" /\ granted' = granted \cup r.flushed \cup {<<r.ids[k], "schools">>}
          \/ x = "failed" /\ granted' = granted \cup r.flushed
      BY <2>1
    <2> QED BY <1>2, <1>3, <2>2, <2>3, <2>4, <2>5, <2>6
  <1>6. ASSUME NEW k \in DOMAIN r.ids, AssignmentFails(i, k)
        PROVE  \E m : /\ req' = [req EXCEPT ![i] = m] /\ Fits(m) /\ SameWork(r, m)
                      /\ m.answer = r.answer /\ Progress(i, m, k)
    <2>1. Turn(i, k) /\ granted' = granted
      BY <1>6 DEF AssignmentFails
    <2>2. PICK fl \in {{}, r.flushed}, d \in BOOLEAN :
            req' = [req EXCEPT ![i] = ProvFields(r, [r.prov EXCEPT ![k] = "failed"], fl, d)]
      <3>1. CASE req' = [req EXCEPT ![i].prov[k] = "failed"]
        <4>1. req' = [req EXCEPT ![i] = [r EXCEPT !.prov[k] = "failed"]]
          BY <3>1
        <4>2. [r EXCEPT !.prov[k] = "failed"]
                = ProvFields(r, [r.prov EXCEPT ![k] = "failed"], r.flushed, r.dead)
          BY <1>1 DEF ProvFields, Requested
        <4> QED BY <1>2, <4>1, <4>2
      <3>2. CASE req' = [req EXCEPT ![i].prov[k] = "failed", ![i].flushed = {}, ![i].dead = TRUE]
        <4>1. req' = [req EXCEPT ![i] = [r EXCEPT !.prov[k] = "failed", !.flushed = {}, !.dead = TRUE]]
          BY <3>2
        <4>2. [r EXCEPT !.prov[k] = "failed", !.flushed = {}, !.dead = TRUE]
                = ProvFields(r, [r.prov EXCEPT ![k] = "failed"], {}, TRUE)
          BY <1>1 DEF ProvFields, Requested
        <4> QED BY <4>1, <4>2
      <3> QED BY <1>6, <3>1, <3>2 DEF AssignmentFails
    <2>3. fl \in SUBSET (Users \X {"role"})
      BY <1>2
    <2> QED BY <1>3, <2>1, <2>2, <2>3
  <1>7. CASE CloseSession(i)
    <2> DEFINE m == ProvFields(r, r.prov, {}, r.dead)
    <2>1. req' = [req EXCEPT ![i] = [r EXCEPT !.flushed = {}]]
      BY <1>7 DEF CloseSession
    <2>2. [r EXCEPT !.flushed = {}] = m
      BY <1>1 DEF ProvFields, Requested
    <2>3. Fits(m) /\ SameWork(r, m) /\ m.answer = r.answer /\ m.prov = r.prov /\ m.flushed = {}
      BY <1>1, <1>2, ProvFits
    <2> HIDE DEF m
    <2>4. Close(i, m)
      BY <1>7, <2>3 DEF Close, CloseSession
    <2> QED BY <1>0, <2>1, <2>2, <2>3, <2>4
  <1> QED BY <1>0, <1>4, <1>5, <1>6, <1>7 DEF Provision

LEMMA ShowMoves ==
    ASSUME TypeInv, NEW i \in Requests, ShowInvited(i)
    PROVE  \E m : req' = [req EXCEPT ![i] = m] /\ Fits(m) /\ SameWork(req[i], m)
                  /\ m.prov = req[i].prov /\ m.flushed = req[i].flushed /\ m.answer = "results"
  <1> DEFINE r == req[i]  n == Len(r.ids)
  <1>1. Fits(r) /\ r \in Requested(n) /\ n \in Nat /\ DOMAIN r.ids = 1..n
        /\ (\A w \in Workers : FitsBut(r, w)) /\ r.answer = "provision"
    BY RequestFits DEF ShowInvited
  <1>2. PICK failed \in BOOLEAN :
          /\ failed \/ \A k \in Invited(r) : Ended(r, k)
          /\ req' = [req EXCEPT ![i].answer = "results", ![i].shown = ShownAs(r, failed)]
    BY DEF ShowInvited
  <1> DEFINE m == [r EXCEPT !.answer = "results", !.shown = ShownAs(r, failed)]
  <1>3. req' = [req EXCEPT ![i] = m]
    BY <1>2
  <1>5. ASSUME NEW k \in 1..n
        PROVE  /\ ShownAs(r, failed)[k] \in Shown
               /\ ShownAs(r, failed)[k] = "ok" => r.prov[k] = "ok"
               /\ r.res[k] = "ok" => ShownAs(r, failed)[k] \in {"ok", "failed"}
    <2>1. CASE k \notin Invited(r)
      BY <1>1, <2>1 DEF ShownAs, Shown, Invited
    <2>2. CASE k \in Invited(r) /\ failed
      BY <1>1, <2>2 DEF ShownAs, Shown
    <2>3. CASE k \in Invited(r) /\ ~failed
      <3>1. ShownAs(r, failed)[k] = r.prov[k]
        BY <1>1, <2>3 DEF ShownAs
      <3>2. r.prov[k] \in {"ok", "failed"}
        BY <1>2, <2>3 DEF Ended
      <3> QED BY <3>1, <3>2 DEF Shown
    <2> QED BY <2>1, <2>2, <2>3
  <1>6. ShownAs(r, failed) \in [1..n -> Shown]
    <2>1. ShownAs(r, failed) = [k \in 1..n |-> ShownAs(r, failed)[k]]
      BY <1>1 DEF ShownAs
    <2> QED BY <1>5, <2>1
  <1>7. /\ SameWork(r, m) /\ m.shown = ShownAs(r, failed) /\ m.prov = r.prov
        /\ m.flushed = r.flushed /\ m.answer = "results" /\ m \in Requested(n)
    BY <1>1, <1>6 DEF Requested, SameWork
  <1>8. (\A w \in Workers : r.at[w] = 0) /\ 1 \in Workers
    BY <1>1, UserAdminAssumption DEF FitsBut, Workers
  <1> HIDE DEF m, r
  <1>9. Fits(m)
    BY <1>1, <1>5, <1>7, <1>8, AnswerFits
  <1> QED BY <1>3, <1>7, <1>9 DEF r

\* Where no account goes, its rows stay; and an account goes only when it has none that are
\* flushed, with those that are committed.
LEMMA RowsStay ==
    ASSUME TypeInv, NEW i \in Requests, NEW m, req' = [req EXCEPT ![i] = m],
           \/ m.flushed = {} \/ (Sent(i) /\ m.flushed \subseteq req[i].flushed),
           \/ There \subseteq There' /\ granted' \subseteq granted
           \/ \E u : /\ There \ {u} \subseteq There' /\ ~Locked(u)
                    /\ granted' = {g \in granted : g[1] # u}
    PROVE  RowsHaveAccounts'
  <1>1. /\ granted \subseteq There \X Parts /\ DOMAIN req = Requests
        /\ \A j \in Requests : Sent(j) => req[j].flushed \subseteq There \X {"role"}
    BY DEF TypeInv, RowsHaveAccounts
  <1>2. PICK S : /\ S \subseteq There' /\ granted' \subseteq S \X Parts
                 /\ \A j \in Requests : Sent(j) => req[j].flushed \subseteq S \X {"role"}
    <2>1. CASE There \subseteq There' /\ granted' \subseteq granted
      <3>1. /\ granted' \subseteq There \X Parts
            /\ \A j \in Requests : Sent(j) => req[j].flushed \subseteq There \X {"role"}
        BY <1>1, <2>1
      <3> QED BY <2>1, <3>1
    <2>2. ASSUME NEW u, There \ {u} \subseteq There', ~Locked(u), granted' = {g \in granted : g[1] # u}
          PROVE  /\ There \ {u} \subseteq There' /\ granted' \subseteq (There \ {u}) \X Parts
                 /\ \A j \in Requests : Sent(j) => req[j].flushed \subseteq (There \ {u}) \X {"role"}
      <3>1. ASSUME NEW g \in granted' PROVE g \in (There \ {u}) \X Parts
        BY <1>1, <2>2
      <3>2. ASSUME NEW j \in Requests, Sent(j), NEW g \in req[j].flushed
            PROVE  g \in (There \ {u}) \X {"role"}
        BY <1>1, <2>2, <3>2 DEF Locked
      <3> QED BY <2>2, <3>1, <3>2
    <2>3. CASE \E u : /\ There \ {u} \subseteq There' /\ ~Locked(u)
                      /\ granted' = {g \in granted : g[1] # u}
      <3>1. PICK u : /\ There \ {u} \subseteq There' /\ ~Locked(u)
                     /\ granted' = {g \in granted : g[1] # u}
        BY <2>3
      <3> QED BY <2>2, <3>1
    <2> QED BY <2>1, <2>3
  <1>3. granted' \subseteq There' \X Parts
    BY <1>2
  <1>4. ASSUME NEW j \in Requests, Sent(j)' PROVE req'[j].flushed \subseteq There' \X {"role"}
    <2>1. CASE j = i
      BY <1>1, <1>2, <2>1
    <2>2. CASE j # i
      <3>1. req'[j] = req[j] /\ Sent(j)
        BY <1>4, <2>2 DEF Sent
      <3> QED BY <1>2, <3>1
    <2> QED BY <2>1, <2>2
  <1> QED BY <1>3, <1>4 DEF RowsHaveAccounts

LEMMA TypeInvKept == TypeInv /\ [Next]_vars => TypeInv'
  <1> SUFFICES ASSUME TypeInv, [Next]_vars PROVE TypeInv'
    OBVIOUS
  <1>0. account \in [Users -> Accounts] /\ RowsHaveAccounts
    BY DEF TypeInv
  <1>1. ASSUME NEW i \in Requests, NEW a \in Admins, Send(i, a) PROVE TypeInv'
    <2>1. PICK m : req' = [req EXCEPT ![i] = m] /\ Fits(m) /\ m.flushed = {}
      BY <1>1, SendMoves
    <2>2. UNCHANGED <<account, granted>>
      BY <1>1 DEF Send
    <2>3. There' = There
      BY <2>2 DEF There
    <2>4. RowsHaveAccounts'
      BY <2>1, <2>2, <2>3, RowsStay
    <2> QED BY <1>0, <2>1, <2>2, <2>4, RequestMoves DEF TypeInv
  <1>2. ASSUME NEW i \in Requests, Work(i) PROVE TypeInv'
    <2>1. PICK w \in Workers : \/ LookUp(i, w) \/ Revoke(i, w)
                               \/ \E step \in {"ban", "unban", "delete", "mail", "invite"} : Call(i, w, step)
      BY <1>2 DEF Work
    <2>2. PICK m : Sent(i) /\ req' = [req EXCEPT ![i] = m] /\ Fits(m) /\ Same(req[i], m, w)
      BY <2>1, WorkMoves
    <2>3. DOMAIN req' = Requests /\ \A j \in Requests : (Sent(j) => Fits(req[j]))'
      BY <2>2, RequestMoves
    <2>4. Target(i, w) \in Users
      BY <2>1, WorkMoves, RequestFits
    <2> DEFINE u == Target(i, w)
               KeptRows == /\ account' \in [Users -> Accounts]
                        /\ \/ There \subseteq There' /\ granted' \subseteq granted
                           \/ \E x : /\ There \ {x} \subseteq There' /\ ~Locked(x)
                                    /\ granted' = {g \in granted : g[1] # x}
    <2>5. CASE UNCHANGED <<account, granted>>
      <3>1. There' = There
        BY <2>5 DEF There
      <3> QED BY <1>0, <2>2, <2>3, <2>5, <3>1, RowsStay DEF TypeInv, Same
    <2>6. ASSUME NEW acc \in Accounts, account' = [account EXCEPT ![u] = acc],
                 \/ granted' = granted /\ (acc.there \/ acc.there = account[u].there)
                 \/ ~Locked(u) /\ granted' = {g \in granted : g[1] # u}
          PROVE  KeptRows
      <3>1. account' \in [Users -> Accounts]
        BY <1>0, <2>6
      <3>2. ASSUME NEW x \in There PROVE x \in There' \/ x = u
        BY <1>0, <2>6, <3>2 DEF There
      <3>3. acc.there \/ acc.there = account[u].there => (u \in There => u \in There')
        BY <1>0, <2>4, <2>6 DEF There
      <3> QED BY <2>6, <3>1, <3>2, <3>3
    <2>7. ASSUME Revoke(i, w) PROVE KeptRows
      <3>1. account[u] \in Accounts
        BY <1>0, <2>4
      <3> DEFINE gone == [account[u] EXCEPT !.session = "none"]
      <3>2. /\ gone \in Accounts /\ gone.there = account[u].there
            /\ Spare(account[u]) \in Accounts /\ Spare(account[u]).there = account[u].there
        BY <3>1 DEF Spare, Accounts
      <3>3. \/ account' = [account EXCEPT ![u] = gone]
            \/ account' = [account EXCEPT ![u] = Spare(account[u])]
        BY <2>7 DEF Revoke
      <3>4. granted' = granted
        BY <2>7 DEF Revoke
      <3> HIDE DEF gone, u
      <3>5. PICK acc \in {gone, Spare(account[u])} : account' = [account EXCEPT ![u] = acc]
        BY <3>3
      <3>6. acc \in Accounts /\ acc.there = account[u].there
        BY <3>2
      <3> QED BY <2>6, <3>4, <3>5, <3>6
    <2>8. ASSUME NEW step \in {"ban", "unban", "delete", "mail", "invite"}, Call(i, w, step),
                 ~UNCHANGED <<account, granted>>
          PROVE  KeptRows
      <3>1. account[u] \in Accounts
        BY <1>0, <2>4
      <3> DEFINE done == Effect(step, account[u])
      <3>2. done \in Accounts /\ Spare(done) \in Accounts /\ Spare(done).there = done.there
        <4>1. done \in Accounts
          BY <3>1, EffectTyped
        <4> HIDE DEF done
        <4>2. Spare(done) \in Accounts /\ Spare(done) = [done EXCEPT !.session = Spare(done).session]
          BY <4>1, EffectTyped
        <4> QED BY <4>1, <4>2 DEF Accounts
      <3>3. Allowed(step, u) => \/ step # "delete" /\ done.there
                                \/ step = "delete" /\ ~Locked(u)
        BY <3>1 DEF Allowed, Effect, Accounts
      <3>4. /\ Allowed(step, u)
            /\ \/ account' = [account EXCEPT ![u] = done]
               \/ account' = [account EXCEPT ![u] = Spare(done)]
            /\ granted' = Without(step, u)
        BY <2>8 DEF Call
      <3>5. granted' = IF step = "delete" THEN {g \in granted : g[1] # u} ELSE granted
        BY <3>4 DEF Without
      <3> HIDE DEF done, u
      <3>6. PICK acc \in {done, Spare(done)} : account' = [account EXCEPT ![u] = acc]
        BY <3>4
      <3>7. acc \in Accounts /\ acc.there = done.there
        BY <3>2
      <3> QED BY <2>6, <3>3, <3>4, <3>5, <3>6, <3>7
    <2>9. CASE LookUp(i, w)
      BY <2>5, <2>9 DEF LookUp
    <2>10. ASSUME KeptRows PROVE TypeInv'
      <3>1. RowsHaveAccounts'
        BY <2>2, <2>10, RowsStay DEF Same
      <3> QED BY <2>3, <2>10, <3>1 DEF TypeInv
    <2> HIDE DEF KeptRows
    <2> QED BY <2>1, <2>5, <2>7, <2>8, <2>9, <2>10
  <1>3. ASSUME NEW i \in Requests, Answer(i) \/ ShowInvited(i) PROVE TypeInv'
    <2>1. PICK m : req' = [req EXCEPT ![i] = m] /\ Fits(m) /\ m.flushed = req[i].flushed
      BY <1>3, AnswerMoves, ShowMoves
    <2>2. Sent(i) /\ UNCHANGED <<account, granted>>
      BY <1>3 DEF Answer, Returned, ShowInvited
    <2>3. There' = There
      BY <2>2 DEF There
    <2>4. RowsHaveAccounts'
      BY <2>1, <2>2, <2>3, RowsStay
    <2> QED BY <1>0, <2>1, <2>2, <2>4, RequestMoves DEF TypeInv
  <1>4. ASSUME NEW i \in Requests, Provision(i) PROVE TypeInv'
    <2>1. PICK m : /\ Sent(i) /\ account' = account
                   /\ req' = [req EXCEPT ![i] = m] /\ Fits(m)
                   /\ Close(i, m) \/ \E k : Progress(i, m, k)
      BY <1>4, ProvisionMoves
    <2>2. There' = There
      BY <2>1 DEF There
    <2>3. /\ granted \subseteq There \X Parts
          /\ \A j \in Requests : Sent(j) => req[j].flushed \subseteq There \X {"role"}
      BY <1>0 DEF RowsHaveAccounts
    <2>4. req[i].flushed \subseteq There \X {"role"}
      BY <2>1, <2>3
    <2>5. granted' \subseteq There \X Parts /\ m.flushed \subseteq There \X {"role"}
      <3>1. CASE Close(i, m)
        BY <2>3, <2>4, <3>1 DEF Close, Parts
      <3>2. ASSUME NEW k, Progress(i, m, k)
            PROVE  granted' \subseteq There \X Parts /\ m.flushed \subseteq There \X {"role"}
        <4>1. k \in 1..Len(req[i].ids)
          BY <3>2 DEF Progress
        <4>2. account[req[i].ids[k]].there => req[i].ids[k] \in There
          BY <2>1, <4>1, RequestFits DEF There
        <4> DEFINE u == req[i].ids[k]  fl == req[i].flushed
        <4>3. \/ /\ u \in There /\ granted' = granted /\ m.flushed = fl \cup ({<<u, "role">>} \ granted)
              \/ /\ u \in There /\ m.flushed = {} /\ granted' = granted \cup fl \cup {<<u, "schools">>}
              \/ m.flushed \in {{}, fl} /\ granted' \in {granted, granted \cup fl}
          BY <3>2, <4>2 DEF Progress
        <4> HIDE DEF u, fl
        <4>4. fl \subseteq There \X {"role"} /\ fl \subseteq There \X Parts
          BY <2>4 DEF fl, Parts
        <4> QED BY <2>3, <4>3, <4>4 DEF Parts
      <3> QED BY <2>1, <3>1, <3>2
    <2>6. \A j \in Requests : Sent(j)' => req'[j].flushed \subseteq There' \X {"role"}
      BY <2>1, <2>2, <2>3, <2>5 DEF Sent, TypeInv
    <2>7. RowsHaveAccounts'
      BY <2>2, <2>5, <2>6 DEF RowsHaveAccounts
    <2> QED BY <1>0, <2>1, <2>7, RequestMoves DEF TypeInv
  <1>5. ASSUME NEW u \in Users, SignIn(u) PROVE TypeInv'
    <2>1. account' = [account EXCEPT ![u].session = "live", ![u].joined = TRUE]
      BY <1>5 DEF SignIn
    <2>2. account' \in [Users -> Accounts] /\ \A x \in Users : account'[x].there = account[x].there
      BY <1>0, <2>1 DEF Accounts
    <2>3. There' = There
      BY <2>2 DEF There
    <2> QED BY <1>0, <1>5, <2>2, <2>3 DEF SignIn, TypeInv, Sent, RowsHaveAccounts
  <1>6. CASE UNCHANGED vars
    BY <1>6 DEF vars, TypeInv, Sent, RowsHaveAccounts, There
  <1> QED BY <1>1, <1>2, <1>3, <1>4, <1>5, <1>6 DEF Next

LEMMA TypeInvHolds == Spec => []TypeInv
  <1> QED BY TypeInvInit, TypeInvKept, PTL DEF Spec

(***************************************************************************)
(* An answer has every target once                                          *)
(***************************************************************************)

\* The types of the accounts and of the requests hold in every state (users console,
\* mapPool and its shared cursor).
THEOREM UserAdminIsTyped == Spec => []UserAdminTypeOK
  <1>1. TypeInv => UserAdminTypeOK
    <2> SUFFICES ASSUME TypeInv PROVE UserAdminTypeOK
      OBVIOUS
    <2>1. ASSUME NEW i \in Requests, Sent(i)
          PROVE  /\ req[i].ids \in Seq(Users) /\ req[i].by \in Admins
                 /\ req[i].at \in [Workers -> 0 .. Len(req[i].ids)]
                 /\ req[i].next \in 1 .. Len(req[i].ids) + 1
                 /\ req[i].answer \in {"pending", "provision", "results", "error"}
      <3>1. req[i] \in Requested(Len(req[i].ids))
        BY <2>1, RequestFits
      <3> QED BY <3>1 DEF Requested
    <2> QED BY <2>1 DEF TypeInv, Accounts, UserAdminTypeOK, RowsHaveAccounts, There, Parts
  <1> QED BY <1>1, TypeInvHolds, PTL

\* Whatever the interleaving of the workers, no target is handled twice or by two of them,
\* and an answer with results has one for every target, success only where the call took
\* effect (mapPool and applyAction in the bulk and invite routes).
THEOREM AnswersAreWhole == Spec => []AnswerIsWhole
  <1>1. TypeInv => AnswerIsWhole
    <2> SUFFICES ASSUME TypeInv, NEW i \in Requests, Sent(i)
                 PROVE  /\ \A k \in DOMAIN req[i].ids : req[i].times[k] <= 1
                        /\ \A v, w \in Workers :
                             req[i].at[v] = req[i].at[w] /\ v # w => req[i].at[w] = 0
                        /\ req[i].answer \in {"provision", "results"} =>
                             \A k \in DOMAIN req[i].ids :
                               req[i].res[k] # "none" /\ (req[i].res[k] = "ok" => req[i].times[k] = 1)
      BY DEF AnswerIsWhole
    <2> DEFINE r == req[i]  n == Len(r.ids)
    <2>1. n \in Nat /\ DOMAIN r.ids = 1..n /\ r \in Requested(n) /\ \A w \in Workers : FitsBut(r, w)
      BY RequestFits
    <2>2. 1 \in Workers
      BY UserAdminAssumption DEF Workers
    <2>3. FitsBut(r, 1)
      BY <2>1, <2>2
    <2> HIDE DEF r
    <2>4. r.times \in [1..n -> 0..1] /\ r.next \in 1..(n + 1)
      BY <2>1 DEF Requested
    <2>5. \A k \in 1..n : r.times[k] <= 1
      BY <2>1, <2>4
    <2>6. ASSUME r.answer \in {"provision", "results"}, NEW k \in 1..n
          PROVE  r.res[k] # "none" /\ (r.res[k] = "ok" => r.times[k] = 1)
      <3>1. (\A w \in Workers : r.at[w] = 0) /\ r.answer # "error"
        BY <2>3, <2>6 DEF FitsBut
      <3>2. r.next = n + 1
        BY <2>2, <2>3, <3>1 DEF FitsBut
      <3>3. k < r.next /\ \A w \in Workers : r.at[w] # k
        BY <2>1, <3>1, <3>2
      <3> QED BY <2>3, <3>1, <3>3 DEF FitsBut
    <2>7. \A v, w \in Workers : r.at[v] = r.at[w] /\ v # w => r.at[w] = 0
      BY <2>3 DEF FitsBut
    <2> QED BY <2>1, <2>5, <2>6, <2>7 DEF r
  <1> QED BY <1>1, TypeInvHolds, PTL

(***************************************************************************)
(* What is shown as set up is provisioned                                   *)
(***************************************************************************)

\* What the steps keep of a request that was sent: its targets, and what it asks for.
LEMMA SentIsKept ==
    ASSUME TypeInv, [Next]_vars, NEW i \in Requests, Sent(i)
    PROVE  Sent(i)' /\ req'[i].ids = req[i].ids /\ req'[i].action = req[i].action
  <1>0. TypeInv'
    BY TypeInvKept
  <1>1. ASSUME NEW j \in Requests, NEW m, req' = [req EXCEPT ![j] = m], Fits(m),
               j # i \/ (m.ids = req[i].ids /\ m.action = req[i].action)
        PROVE  Sent(i)' /\ req'[i].ids = req[i].ids /\ req'[i].action = req[i].action
    <2>1. 1 \in Workers
      BY UserAdminAssumption DEF Workers
    <2>2. m # Unsent
      BY <1>1, <2>1, RecordFacts DEF Fits
    <2> QED BY <1>1, <2>2 DEF TypeInv, Sent
  <1>2. CASE UNCHANGED req
    BY <1>2 DEF Sent
  <1>3. ASSUME NEW j \in Requests, NEW a \in Admins, Send(j, a)
        PROVE  Sent(i)' /\ req'[i].ids = req[i].ids /\ req'[i].action = req[i].action
    BY <1>1, <1>3, SendMoves
  <1>4. ASSUME NEW j \in Requests, Work(j)
        PROVE  Sent(i)' /\ req'[i].ids = req[i].ids /\ req'[i].action = req[i].action
    <2>1. PICK w \in Workers : \/ LookUp(j, w) \/ Revoke(j, w)
                               \/ \E step \in {"ban", "unban", "delete", "mail", "invite"} : Call(j, w, step)
      BY <1>4 DEF Work
    <2>2. PICK m : req' = [req EXCEPT ![j] = m] /\ Fits(m) /\ Same(req[j], m, w)
      BY <2>1, WorkMoves
    <2> QED BY <1>1, <2>2 DEF Same
  <1>5. ASSUME NEW j \in Requests, Answer(j) \/ ShowInvited(j) \/ Provision(j)
        PROVE  Sent(i)' /\ req'[i].ids = req[i].ids /\ req'[i].action = req[i].action
    <2>1. PICK m : req' = [req EXCEPT ![j] = m] /\ Fits(m) /\ SameWork(req[j], m)
      BY <1>5, AnswerMoves, ShowMoves, ProvisionMoves
    <2> QED BY <1>1, <2>1 DEF SameWork
  <1> QED BY <1>2, <1>3, <1>4, <1>5 DEF Next, vars, SignIn

\* A deletion that was asked for stays asked for.
LEMMA DeletedIsKept ==
    ASSUME TypeInv, [Next]_vars, NEW u \in Deleted
    PROVE  u \in Deleted'
  <1>1. PICK j \in Requests : /\ Sent(j) /\ req[j].action = "delete"
                             /\ \E n \in DOMAIN req[j].ids : req[j].ids[n] = u
    BY DEF Deleted
  <1>2. Sent(j)' /\ req'[j].ids = req[j].ids /\ req'[j].action = req[j].action
    BY <1>1, SentIsKept
  <1> QED BY <1>1, <1>2 DEF Deleted

\* An account loses its role and memberships to a deletion only.
LEMMA GrantedIsKept ==
    ASSUME TypeInv, [Next]_vars, NEW g \in granted
    PROVE  g \in granted' \/ g[1] \in Deleted
  <1>1. CASE granted \subseteq granted'
    BY <1>1
  <1>2. ASSUME NEW i \in Requests, Work(i) PROVE g \in granted' \/ g[1] \in Deleted
    <2>1. PICK w \in Workers : \/ LookUp(i, w) \/ Revoke(i, w)
                               \/ \E step \in {"ban", "unban", "delete", "mail", "invite"} : Call(i, w, step)
      BY <1>2 DEF Work
    <2>2. CASE LookUp(i, w) \/ Revoke(i, w)
      BY <2>2 DEF LookUp, Revoke
    <2>3. ASSUME NEW step \in {"ban", "unban", "delete", "mail", "invite"}, Call(i, w, step)
          PROVE  g \in granted' \/ g[1] \in Deleted
      <3>1. \/ granted' = granted
            \/ step = "delete" /\ granted' = {h \in granted : h[1] # Target(i, w)}
        BY <2>3 DEF Call, Without
      <3>2. CASE step = "delete" /\ g[1] = Target(i, w)
        <4>1. Sent(i) /\ req[i].at[w] # 0 /\ Script(req[i].route, req[i].action)[req[i].pc[w]] = "delete"
          BY <2>3, <3>2 DEF Call, Runs
        <4>2. /\ req[i].at[w] \in DOMAIN req[i].ids /\ FitsBut(req[i], w)
              /\ Target(i, w) \in Users
          BY <4>1, RequestFits
        <4>3. req[i].action = "delete"
          BY <4>1, <4>2, ScriptFacts DEF FitsBut
        <4>4. req[i].ids[req[i].at[w]] = g[1]
          BY <3>2 DEF Target
        <4> QED BY <3>2, <4>1, <4>2, <4>3, <4>4 DEF Deleted
      <3> QED BY <3>1, <3>2
    <2> QED BY <2>1, <2>2, <2>3
  <1>3. ASSUME NEW i \in Requests, Provision(i) PROVE granted \subseteq granted'
    <2>1. PICK m : Close(i, m) \/ \E k : Progress(i, m, k)
      BY <1>3, ProvisionMoves
    <2>2. CASE Close(i, m)
      BY <2>2 DEF Close
    <2>3. ASSUME NEW k, Progress(i, m, k) PROVE granted \subseteq granted'
      BY <2>3 DEF Progress
    <2> QED BY <2>1, <2>2, <2>3
  <1> QED BY <1>1, <1>2, <1>3 DEF Next, vars, SignIn, Send, Answer, ShowInvited

\* The account that waits for its schools is the one whose turn it is.
LEMMA OneTurn ==
    ASSUME TypeInv, NEW i \in Requests, Sent(i), NEW k \in 1..Len(req[i].ids), RoleIsKept(i, k),
           req[i].prov[k] = "role", NEW n \in 1..Len(req[i].ids), Turn(i, n)
    PROVE  k = n
  <1>1. /\ k \in Invited(req[i]) /\ ~Ended(req[i], k)
        /\ \A j \in Invited(req[i]) : j < k => Ended(req[i], j)
    BY DEF RoleIsKept, Ended
  <1>2. /\ n \in Invited(req[i]) /\ ~Ended(req[i], n)
        /\ \A j \in Invited(req[i]) : j < n => Ended(req[i], j)
    BY DEF Turn
  <1>3. Len(req[i].ids) \in Nat
    BY RequestFits
  <1>4. ~(k < n) /\ ~(n < k)
    BY <1>1, <1>2
  <1> QED BY <1>3, <1>4

\* A step that leaves the provisioning of a target alone keeps what is kept.
LEMMA Undisturbed ==
    ASSUME TypeInv, ProvisionedIsGranted, [Next]_vars, NEW i \in Requests, Sent(i),
           NEW k \in 1..Len(req[i].ids),
           req'[i].ids = req[i].ids, req'[i].schools = req[i].schools, req'[i].prov = req[i].prov,
           \/ req[i].prov[k] # "role"
           \/ req'[i].res = req[i].res /\ req'[i].answer \in {"provision", "results"}
              /\ req'[i].flushed = req[i].flushed
    PROVE  RoleIsKept(i, k)' /\ SchoolsAreKept(i, k)'
  <1> DEFINE u == req[i].ids[k]
  <1>1. RoleIsKept(i, k) /\ SchoolsAreKept(i, k)
    BY DEF ProvisionedIsGranted
  <1>2. /\ u \in Deleted => u \in Deleted'
        /\ \A part : <<u, part>> \in granted => <<u, part>> \in granted' \/ u \in Deleted'
    BY DeletedIsKept, GrantedIsKept
  <1>3. SchoolsAreKept(i, k)'
    BY <1>1, <1>2 DEF SchoolsAreKept
  <1>4. CASE req[i].prov[k] # "role"
    BY <1>3, <1>4 DEF RoleIsKept
  <1>5. CASE /\ req[i].prov[k] = "role" /\ req'[i].res = req[i].res
             /\ req'[i].answer \in {"provision", "results"} /\ req'[i].flushed = req[i].flushed
    <2>1. Invited(req'[i]) = Invited(req[i]) /\ \A j : Ended(req'[i], j) <=> Ended(req[i], j)
      BY <1>5 DEF Invited, Ended
    <2> QED BY <1>1, <1>2, <1>3, <1>5, <2>1 DEF RoleIsKept
  <1> QED BY <1>4, <1>5

LEMMA ProvisionedIsGrantedKept ==
    ASSUME TypeInv, ProvisionedIsGranted, [Next]_vars
    PROVE  ProvisionedIsGranted'
  <1> SUFFICES ASSUME NEW i \in Requests, Sent(i)', NEW k \in 1..Len(req'[i].ids)
               PROVE  RoleIsKept(i, k)' /\ SchoolsAreKept(i, k)'
    BY DEF ProvisionedIsGranted
  <1> DEFINE Goal == RoleIsKept(i, k)' /\ SchoolsAreKept(i, k)'
  <1>0. DOMAIN req = Requests
    BY DEF TypeInv
  <1>1. CASE req'[i] = req[i]
    <2>1. Sent(i) /\ k \in 1..Len(req[i].ids)
      BY <1>1 DEF Sent
    <2>2. RoleIsKept(i, k)
      BY <2>1 DEF ProvisionedIsGranted
    <2> QED BY <1>1, <2>1, <2>2, Undisturbed DEF RoleIsKept
  <1>2. ASSUME NEW j \in Requests, NEW a \in Admins, Send(j, a) PROVE Goal
    <2>1. PICK m : /\ req' = [req EXCEPT ![j] = m] /\ Fits(m)
                   /\ m.prov = [x \in DOMAIN m.ids |-> "none"]
      BY <1>2, SendMoves
    <2>2. CASE j = i
      <3>1. req'[i] = m
        BY <1>0, <2>1, <2>2
      <3>2. 1 \in Workers
        BY UserAdminAssumption DEF Workers
      <3>3. DOMAIN m.ids = 1..Len(m.ids)
        BY <2>1, <3>2, RecordFacts DEF Fits
      <3>4. req'[i].prov[k] = "none"
        BY <2>1, <3>1, <3>3
      <3> QED BY <3>4 DEF RoleIsKept, SchoolsAreKept
    <2> QED BY <1>1, <2>1, <2>2
  <1>3. ASSUME NEW j \in Requests, Work(j) PROVE Goal
    <2>1. PICK w \in Workers : \/ LookUp(j, w) \/ Revoke(j, w)
                               \/ \E step \in {"ban", "unban", "delete", "mail", "invite"} : Call(j, w, step)
      BY <1>3 DEF Work
    <2>2. PICK m : Sent(j) /\ req[j].at[w] # 0 /\ req' = [req EXCEPT ![j] = m] /\ Same(req[j], m, w)
      BY <2>1, WorkMoves
    <2>3. CASE j = i
      <3>1. req'[i] = m /\ FitsBut(req[i], w)
        BY <1>0, <2>2, <2>3, RequestFits
      <3>2. k \in 1..Len(req[i].ids) /\ req[i].answer \notin {"provision", "results"}
        BY <2>2, <2>3, <3>1 DEF Same, FitsBut
      <3>3. req[i].prov[k] # "role"
        BY <2>2, <2>3, <3>2 DEF ProvisionedIsGranted, RoleIsKept
      <3> QED BY <2>2, <2>3, <3>1, <3>2, <3>3, Undisturbed DEF Same
    <2> QED BY <1>1, <2>2, <2>3
  <1>4. ASSUME NEW j \in Requests, Answer(j) \/ ShowInvited(j) PROVE Goal
    <2>1. PICK m : /\ req' = [req EXCEPT ![j] = m] /\ SameWork(req[j], m)
                   /\ m.prov = req[j].prov /\ m.flushed = req[j].flushed
                   /\ Answer(j) \/ m.answer = "results"
      BY <1>4, AnswerMoves, ShowMoves
    <2>2. /\ Sent(j)
          /\ req[j].answer \notin {"provision", "results"} \/ req'[j].answer = "results"
      <3>1. CASE Answer(j)
        BY <3>1 DEF Answer, Returned
      <3>2. CASE ShowInvited(j) /\ m.answer = "results"
        BY <1>0, <2>1, <3>2 DEF ShowInvited
      <3> QED BY <1>4, <2>1, <3>1, <3>2
    <2>3. CASE j = i
      <3>1. req'[i] = m /\ k \in 1..Len(req[i].ids)
        BY <1>0, <2>1, <2>3 DEF SameWork
      <3>2. req[i].prov[k] = "role" => req[i].answer \in {"provision", "results"}
        BY <2>2, <2>3, <3>1 DEF ProvisionedIsGranted, RoleIsKept
      <3> QED BY <2>1, <2>2, <2>3, <3>1, <3>2, Undisturbed DEF SameWork
    <2> QED BY <1>1, <2>1, <2>3
  <1>5. ASSUME NEW j \in Requests, Provision(j) PROVE Goal
    <2>1. PICK m : /\ Sent(j) /\ req' = [req EXCEPT ![j] = m] /\ SameWork(req[j], m)
                   /\ m.answer = req[j].answer
                   /\ Close(j, m) \/ \E n : Progress(j, m, n)
      BY <1>5, ProvisionMoves
    <2>2. CASE j = i /\ Close(i, m)
      <3>1. req'[i] = m /\ k \in 1..Len(req[i].ids)
        BY <1>0, <2>1, <2>2 DEF SameWork
      <3>2. req[i].prov[k] # "role"
        BY <2>1, <2>2, <3>1 DEF ProvisionedIsGranted, RoleIsKept, Close, Ended
      <3> QED BY <2>1, <2>2, <3>1, <3>2, Undisturbed DEF SameWork, Close
    <2>3. ASSUME j = i, NEW n, Progress(i, m, n) PROVE Goal
      <3> DEFINE r == req[i]  u == r.ids[k]
      <3>1. /\ req'[i] = m /\ k \in 1..Len(r.ids) /\ n \in 1..Len(r.ids) /\ Turn(i, n) /\ Sent(i)
            /\ m.schools = r.schools /\ m.ids = r.ids /\ m.res = r.res /\ m.answer = r.answer
        BY <1>0, <2>1, <2>3 DEF SameWork, Progress
      <3>2. RoleIsKept(i, k) /\ SchoolsAreKept(i, k) /\ RoleIsKept(i, n)
        BY <3>1 DEF ProvisionedIsGranted
      <3>3. /\ u \in Deleted => u \in Deleted'
            /\ granted \subseteq granted'
        <4>1. granted \subseteq granted'
          BY <2>3 DEF Progress
        <4> QED BY <4>1, DeletedIsKept
      <3>4. CASE k # n
        <4>1. m.prov[k] = r.prov[k]
          BY <2>3, <3>1, <3>4 DEF Progress
        <4>2. r.prov[k] # "role"
          BY <3>1, <3>2, <3>4, OneTurn
        <4>3. SchoolsAreKept(i, k)'
          BY <3>1, <3>2, <3>3, <4>1 DEF SchoolsAreKept
        <4> QED BY <3>1, <4>1, <4>2, <4>3 DEF RoleIsKept
      <3>5. CASE k = n
        <4>1. CASE /\ m.prov[k] = (IF r.schools THEN "role" ELSE "ok")
                   /\ m.flushed = r.flushed \cup ({<<u, "role">>} \ granted) /\ granted' = granted
          <5>1. <<u, "role">> \in granted' \cup m.flushed
            BY <4>1
          <5>2. /\ m.answer \in {"provision", "results"} /\ k \in Invited(m)
                /\ \A j2 \in Invited(m) : j2 < k => Ended(m, j2)
            <6>1. Invited(m) = Invited(r) /\ k \in Invited(r)
              BY <3>1, <3>5 DEF Invited, Turn
            <6>2. ASSUME NEW j2 \in Invited(m), j2 < k PROVE Ended(m, j2)
              <7>1. j2 \in 1..Len(r.ids) /\ Ended(r, j2) /\ j2 # n
                BY <3>1, <3>5, <6>1, <6>2, RequestFits DEF Turn, Invited
              <7> QED BY <2>3, <7>1 DEF Progress, Ended
            <6> QED BY <3>1, <6>1, <6>2 DEF Turn
          <5>3. RoleIsKept(i, k)'
            BY <3>1, <5>1, <5>2 DEF RoleIsKept
          <5>4. SchoolsAreKept(i, k)'
            BY <3>1, <4>1 DEF SchoolsAreKept
          <5> QED BY <5>3, <5>4
        <4>2. CASE /\ r.prov[k] = "role" /\ m.prov[k] = "ok"
                   /\ granted' = granted \cup r.flushed \cup {<<u, "schools">>}
          <5>1. <<u, "role">> \in granted' \/ u \in Deleted'
            BY <3>2, <3>3, <4>2 DEF RoleIsKept
          <5>2. <<u, "schools">> \in granted'
            BY <4>2
          <5> QED BY <3>1, <4>2, <5>1, <5>2 DEF RoleIsKept, SchoolsAreKept, Parts
        <4>3. CASE m.prov[k] = "failed"
          BY <3>1, <4>3 DEF RoleIsKept, SchoolsAreKept
        <4> QED BY <2>3, <3>5, <4>1, <4>2, <4>3 DEF Progress
      <3> QED BY <3>4, <3>5
    <2> QED BY <1>1, <2>1, <2>2, <2>3
  <1>6. CASE UNCHANGED req
    BY <1>1, <1>6
  <1> QED BY <1>2, <1>3, <1>4, <1>5, <1>6 DEF Next, vars, SignIn

\* What the dialog shows as invited and set up has its role and schools, unless a deletion
\* took the account away, whatever becomes of the two steps and their answers (the second
\* step of users.service.ts and FastAPI's bulk/provision).
THEOREM ShownAccountsAreProvisioned == Spec => []ShownIsProvisioned
  <1>1. Init => ProvisionedIsGranted
    BY DEF Init, ProvisionedIsGranted, Sent
  <1>2. TypeInv /\ ProvisionedIsGranted => ShownIsProvisioned
    <2> SUFFICES ASSUME TypeInv, ProvisionedIsGranted PROVE ShownIsProvisioned
      OBVIOUS
    <2> SUFFICES ASSUME NEW i \in Requests, Sent(i),
                        NEW k \in DOMAIN req[i].ids, req[i].answer = "results",
                        k \in Invited(req[i]), req[i].schools
                 PROVE  \/ req[i].shown[k] = "failed" \/ req[i].ids[k] \in Deleted
                        \/ {req[i].ids[k]} \X {"role", "schools"} \subseteq granted
      <3>1. ASSUME NEW i \in Requests, Sent(i), NEW k \in DOMAIN req[i].ids
            PROVE  req[i].ids[k] \in Users
        BY <3>1, RequestFits
      <3> QED BY <3>1 DEF ShownIsProvisioned, Deleted
    <2>1. 1 \in Workers
      BY UserAdminAssumption DEF Workers
    <2>2. FitsBut(req[i], 1) /\ k \in 1..Len(req[i].ids) /\ req[i].res[k] = "ok"
      BY <2>1, RequestFits DEF Invited
    <2>3. /\ req[i].shown[k] \in {"ok", "failed"}
          /\ req[i].shown[k] = "ok" => req[i].prov[k] = "ok"
      BY <2>2 DEF FitsBut
    <2>4. ASSUME req[i].shown[k] = "ok"
          PROVE  \/ req[i].ids[k] \in Deleted
                 \/ \A part \in {"role", "schools"} : <<req[i].ids[k], part>> \in granted
      BY <2>2, <2>3, <2>4 DEF ProvisionedIsGranted, SchoolsAreKept, Parts
    <2>5. (\A part \in {"role", "schools"} : <<req[i].ids[k], part>> \in granted)
            => {req[i].ids[k]} \X {"role", "schools"} \subseteq granted
      OBVIOUS
    <2> QED BY <2>3, <2>4, <2>5
  <1>3. TypeInv /\ ProvisionedIsGranted /\ [Next]_vars => ProvisionedIsGranted'
    BY ProvisionedIsGrantedKept
  <1> QED BY <1>1, <1>2, <1>3, TypeInvHolds, PTL DEF Spec

(***************************************************************************)
(* A banned account is signed out                                           *)
(***************************************************************************)

\* The worker that is about to revoke the sessions of an account does so, whatever happens
\* in between, and leaves no live session behind.
LEMMA RevokingGoesOn ==
    ASSUME TypeInv, [Next]_vars, NEW u \in BeingRevoked
    PROVE  u \in BeingRevoked' \/ u \notin BannedLive'
  <1>1. PICK i \in Requests, w \in Workers : Revoking(u, i, w)
    BY DEF BeingRevoked
  <1>2. /\ u \in Users /\ Sent(i) /\ req[i].at[w] # 0 /\ req[i].action = "ban"
        /\ Script(req[i].route, req[i].action)[req[i].pc[w]] = "revoke" /\ Target(i, w) = u
    BY <1>1 DEF BeingRevoked, Revoking, Runs
  <1>3. 1 \in Workers /\ DOMAIN req = Requests
    BY UserAdminAssumption DEF Workers, TypeInv
  \* The worker and its request are as they were.
  <1>4. ASSUME NEW m, req'[i] = m, m # Unsent, m.ids = req[i].ids, m.route = req[i].route,
               m.action = req[i].action, m.at[w] = req[i].at[w], m.pc[w] = req[i].pc[w]
        PROVE  u \in BeingRevoked'
    <2>1. Sent(i)' /\ Target(i, w)' = u
      BY <1>2, <1>4 DEF Sent, Target
    <2>2. Revoking(u, i, w)'
      BY <1>2, <1>4, <2>1 DEF Revoking, Runs
    <2> QED BY <1>2, <2>2 DEF BeingRevoked
  <1>5. CASE UNCHANGED req
    BY <1>2, <1>4, <1>5 DEF Sent
  <1>6. ASSUME NEW j \in Requests, NEW m, req' = [req EXCEPT ![j] = m], j # i
        PROVE  u \in BeingRevoked'
    <2>1. req'[i] = req[i]
      BY <1>6
    <2> QED BY <1>2, <1>4, <2>1 DEF Sent
  <1>7. ASSUME NEW j \in Requests, NEW a \in Admins, Send(j, a) PROVE u \in BeingRevoked'
    BY <1>2, <1>6, <1>7, SendMoves
  <1>8. ASSUME NEW j \in Requests, Answer(j) \/ ShowInvited(j) \/ Provision(j)
        PROVE  u \in BeingRevoked'
    <2>1. PICK m : req' = [req EXCEPT ![j] = m] /\ Fits(m) /\ SameWork(req[j], m)
      BY <1>8, AnswerMoves, ShowMoves, ProvisionMoves
    <2>2. m # Unsent
      BY <1>3, <2>1, RecordFacts DEF Fits
    <2>3. CASE j = i
      BY <1>3, <1>4, <2>1, <2>2, <2>3 DEF SameWork
    <2> QED BY <1>6, <2>1, <2>3
  <1>9. ASSUME NEW j \in Requests, Work(j) PROVE u \in BeingRevoked' \/ u \notin BannedLive'
    <2>1. PICK v \in Workers : \/ LookUp(j, v) \/ Revoke(j, v)
                               \/ \E step \in {"ban", "unban", "delete", "mail", "invite"} : Call(j, v, step)
      BY <1>9 DEF Work
    <2>2. PICK m : req' = [req EXCEPT ![j] = m] /\ Fits(m) /\ Same(req[j], m, v)
      BY <2>1, WorkMoves
    <2>3. m # Unsent
      BY <1>3, <2>2, RecordFacts DEF Fits
    <2>4. CASE j # i
      BY <1>6, <2>2, <2>4
    <2>5. CASE j = i /\ v # w
      BY <1>3, <1>4, <2>2, <2>3, <2>5 DEF Same
    <2>6. CASE j = i /\ v = w
      <3>1. Revoke(i, w)
        BY <1>2, <2>1, <2>6 DEF LookUp, Call, Runs
      <3>2. account[u] \in Accounts
        BY <1>2 DEF TypeInv
      <3>3. \/ account' = [account EXCEPT ![u].session = "none"]
            \/ account' = [account EXCEPT ![u] = Spare(account[u])]
        BY <1>2, <3>1 DEF Revoke
      <3>4. account'[u].session # "live"
        BY <1>2, <3>2, <3>3 DEF Spare, Accounts, TypeInv
      <3> QED BY <3>4 DEF BannedLive
    <2> QED BY <2>4, <2>5, <2>6
  <1> QED BY <1>5, <1>7, <1>8, <1>9 DEF Next, vars, SignIn

\* An account comes to be banned with a live session by a ban whose worker goes on to
\* revoke it, and by nothing else.
LEMMA BannedLiveNow ==
    ASSUME TypeInv, [Next]_vars, NEW u \in BannedLive'
    PROVE  u \in BannedLive \cup BeingRevoked'
  <1>0. u \in Users /\ account[u] \in Accounts /\ account \in [Users -> Accounts]
        /\ account'[u].banned /\ account'[u].session = "live"
    BY DEF BannedLive, TypeInv
  <1>1. CASE account'[u] = account[u]
    BY <1>0, <1>1 DEF BannedLive
  <1>2. ASSUME NEW x \in Users, SignIn(x) PROVE u \in BannedLive
    <2>1. CASE x = u
      BY <1>0, <1>2, <2>1 DEF SignIn, Accounts
    <2>2. CASE x # u
      BY <1>0, <1>1, <1>2, <2>2 DEF SignIn, BannedLive
    <2> QED BY <2>1, <2>2
  <1>3. ASSUME NEW i \in Requests, Work(i) PROVE u \in BannedLive \cup BeingRevoked'
    <2>1. PICK w \in Workers : \/ LookUp(i, w) \/ Revoke(i, w)
                               \/ \E step \in {"ban", "unban", "delete", "mail", "invite"} : Call(i, w, step)
      BY <1>3 DEF Work
    <2>2. CASE LookUp(i, w)
      BY <1>1, <2>2 DEF LookUp
    <2>3. CASE Revoke(i, w)
      <3>1. \/ account' = [account EXCEPT ![Target(i, w)].session = "none"]
            \/ account' = [account EXCEPT ![Target(i, w)] = Spare(account[Target(i, w)])]
        BY <2>3 DEF Revoke
      <3>2. CASE Target(i, w) = u
        BY <1>0, <3>1, <3>2 DEF Spare, Accounts
      <3>3. CASE Target(i, w) # u
        BY <1>0, <1>1, <3>1, <3>3
      <3> QED BY <3>2, <3>3
    <2>4. ASSUME NEW step \in {"ban", "unban", "delete", "mail", "invite"}, Call(i, w, step)
          PROVE  u \in BannedLive \cup BeingRevoked'
      <3> DEFINE r == req[i]  c == Counts(r, w)
      <3>1. CASE account'[u] # account[u]
        <4>1. Target(i, w) = u /\ Sent(i) /\ r.at[w] # 0 /\ Script(r.route, r.action)[r.pc[w]] = step
          BY <1>0, <2>4, <3>1 DEF Call, Runs
        <4>2. \/ account'[u] = Effect(step, account[u]) /\ req' = [req EXCEPT ![i] = Goes(c, w)]
              \/ account'[u] = IF step = "ban" THEN Spare(Effect(step, account[u]))
                                ELSE Effect(step, account[u])
          BY <1>0, <2>4, <3>1, <4>1 DEF Call
        <4>3. CASE step # "ban"
          BY <1>0, <4>2, <4>3 DEF Effect, Accounts, BannedLive
        <4>4. CASE step = "ban"
          <5>1. account'[u] # Spare(Effect(step, account[u]))
            BY <1>0, <4>4 DEF Effect, Spare, Accounts
          <5>2. req' = [req EXCEPT ![i] = Goes(c, w)]
            BY <4>2, <4>4, <5>1
          <5>3. /\ Fits(r) /\ <<r.route, r.action>> \in Routes
                /\ r.pc[w] \in 1..Len(Script(r.route, r.action))
            BY <4>1, RequestFits DEF Fits, FitsBut
          <5>4. /\ r.pc[w] < Len(Script(r.route, r.action)) /\ r.action = "ban"
                /\ Script(r.route, r.action)[r.pc[w] + 1] = "revoke"
                /\ r.pc[w] = CallAt(r.route, r.action)
            BY <4>1, <4>4, <5>3, ScriptFacts DEF Calls
          <5> HIDE DEF r
          <5>5. /\ FitsBut(c, w) /\ Same(r, c, w) /\ c.at = r.at /\ c.pc = r.pc
                /\ c.times[c.at[w]] = 1
            BY <4>1, <5>3, <5>4, CountsFits
          <5>6. /\ c.at[w] # 0 /\ c.route = r.route /\ c.action = r.action /\ c.ids = r.ids
                /\ CallAt(c.route, c.action) <= c.pc[w] /\ c.pc[w] < Len(Script(c.route, c.action))
            BY <4>1, <5>3, <5>4, <5>5 DEF Same
          <5> DEFINE m == Goes(c, w)
          <5> HIDE DEF c
          <5>7. Fits(m) /\ Same(c, m, w) /\ m.at = c.at /\ m.pc[w] = c.pc[w] + 1
            BY <5>5, <5>6, GoesFits
          <5> HIDE DEF m
          <5>8. m # Unsent
            BY <5>7, RecordFacts DEF Fits
          <5>9. req'[i] = m
            BY <5>2 DEF TypeInv, m, c, r
          <5>10. /\ m.ids = r.ids /\ m.route = r.route /\ m.action = "ban" /\ m.at[w] = r.at[w]
                 /\ m.pc[w] = r.pc[w] + 1 /\ r.action = "ban"
            BY <5>4, <5>5, <5>6, <5>7 DEF Same
          <5>11. Runs(i, w, "revoke")' /\ Target(i, w)' = u
            BY <4>1, <5>4, <5>8, <5>9, <5>10 DEF Runs, Sent, Target, r
          <5>12. Revoking(u, i, w)'
            BY <5>9, <5>10, <5>11 DEF Revoking
          <5> QED BY <1>0, <5>12 DEF BeingRevoked
        <4> QED BY <4>3, <4>4
      <3> QED BY <1>1, <3>1
    <2> QED BY <2>1, <2>2, <2>3, <2>4
  <1>4. ASSUME NEW i \in Requests, Provision(i) PROVE u \in BannedLive \cup BeingRevoked'
    BY <1>1, <1>4, ProvisionMoves
  <1> QED BY <1>1, <1>2, <1>3, <1>4 DEF Next, vars, Send, Answer, ShowInvited

\* However bans, revocations, unbans and sign-ins of several administrators and users
\* interleave, a banned account has a live session only while a ban is about to revoke it
\* or because a call failed (ban and revokeAllUserSessions in both ban routes).
THEOREM BannedAccountsAreSignedOut == Spec => []BannedIsSignedOut
  <1> DEFINE Inv == BannedLive \subseteq BeingRevoked
  <1>1. Init => Inv
    BY DEF Init, BannedLive
  <1>2. Inv => BannedIsSignedOut
    BY DEF BannedLive, BeingRevoked, Revoking, BannedIsSignedOut
  <1>3. TypeInv /\ Inv /\ [Next]_vars => Inv'
    <2> SUFFICES ASSUME TypeInv, Inv, [Next]_vars, NEW u \in BannedLive' PROVE u \in BeingRevoked'
      OBVIOUS
    <2>1. CASE u \in BannedLive
      BY <2>1, RevokingGoesOn
    <2> QED BY <2>1, BannedLiveNow
  <1> HIDE DEF Inv
  <1> QED BY <1>1, <1>2, <1>3, TypeInvHolds, PTL DEF Spec
=============================================================================

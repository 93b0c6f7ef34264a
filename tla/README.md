# GAINS platform: TLA+ models

The GAINS platform scrapes assessment exports from Schoology, lands them as raw
rows, rebuilds fact and cube tables from them and serves reports per school to
users who come in by e-mail, by invitation or from a learning platform. These
modules model the parts of it whose correctness depends on the order of things:
the ingestion path, the scraper's batch, LTI launches, the role hierarchy, the
administration of accounts, and the state of the reports dashboard.

Paths are relative to the repository root; `worker` stands for
`backend/app/services/ingestion_worker.py`, `repository` for
`backend/app/repositories/ingestion_run_repository.py`, `ingest` for
`backend/app/jobs/ingest_schoology.py`, `runner` for
`backend/app/transformations/runner.py`, `exporter` for
`scraper/schoology-exporter.js`.

## 1. Inventory

| component | state | operations | interacts with |
|---|---|---|---|
| Durable run queue (`repository`, `ingestion_dispatch.py`, `api/v1/ingestion.py`) | `ingestion_runs` rows: status, worker, heartbeat, attempts, `transforms_applied` | enqueue (coalescing), claim, heartbeat, requeue expired, mark, adopt, finish | scraper and admin requests write it, workers claim from it |
| Ingestion worker (`worker`, lifespan in `main.py`) | locals of the loop and of the batch; `warehouse_state` (dirty flag and token) | reap, claim, land, archive, read scope, gate, build, mark, purge | queue, landing, transform runner, storage |
| Landing and archive (`ingest`, `blob_client.py`, `worker._archive`) | bucket objects, `ingested_files`, raw tables, counters | list, hash check, parse and insert in a SAVEPOINT, commit, re-list, move | scraper overwrites keys at any moment |
| Scoped transform runner (`runner`) | staging, dims, fact, cubes | touched assessments, rename groups, roster gate, rebuild, recompute | called by the worker's gate in one transaction |
| Historic lock (`locked_sessions_repository.py`, migration `20260723100000`) | `locked_sessions` | lock, unlock, refuse, pre-prune, fingerprint slices | worker and runner read it, administrators write it |
| Scraper (`exporter`, `scraper/lib`) | per-school ledger, transfer history of an account, settings | discover by pages, log in, export, poll, download, upload, retry, POST, mail | Schoology, bucket, request handler |
| LTI 1.3 launch (`lti_service.py`, `api/lti/bridge/route.ts`) | launch states, identities, memberships, handoff tickets, magic links | login, consume state, provision, mint and consume ticket, link, session | learning platform, auth service, administrators |
| Roles and hierarchy (`role_service.py`, `user_role_service.py`, triggers) | roles with ranks, assignments, tokens | create, reorder, delete, assign, remove, sign up | every request's permission check |
| Sessions and user administration (`app/api/users/*`, `users.service.ts`, `user_provisioning_service.py`) | accounts, sessions, bans, invitations | ban, unban, delete, reset, resend, invite, provision | auth service, the console, users who sign in |
| School switcher and dashboard (`SelectedSchoolContext.tsx`, `DashboardPage.tsx`) | React state, URL, query cache | switch, link, adopt, mirror, defaults, Refresh | reports API, router |
| Other pages, reports API, tenancy policies, backup, schema | read models, layout | reads | - |

What is hard: two workers overlap during a rolling deploy (normally there is one
uvicorn process, `backend/railway.json`); a crash or an exception may come
between any two transactions; heartbeats die while the work goes on; clients
repeat POSTs whose first handler is still running; objects change between a
listing and a move; requests are READ COMMITTED transactions that check first and
write later; scripts of awaited calls interleave with sign-ins and with each
other, and an answer may be lost after the call took effect; effects copy one
state into another in an order that renders decide. What makes each component
correct:

* queue: a run is claimed by one worker, at most `INGESTION_MAX_ATTEMPTS` times,
  and what a client was promised is landed;
* worker: no row is deleted before it is folded in, verdicts are final and true,
  every queued run starts and ends;
* landing: nothing is archived that raw has not got, and everything acceptable
  is ingested although other files fail;
* runner: a run is promoted only when every assessment it contributed survived;
* lock: a locked slice never changes;
* scraper: a complete discovery is complete, files are stored under the
  assessment they come from, exit code 0 means that everything was shipped;
* LTI: one account per person, a ticket opens one session, a launch only adds;
* roles: ranks are 1..N, one super admin, nobody moves a senior;
* administration: a ban ends sessions, an answer covers every target once, what
  is shown as set up is set up;
* dashboard: choice and URL agree in the end, and the queries are enabled.

## 2. Modules

| module | models | code it stands for |
|---|---|---|
| `IngestionRuns` | each SQL statement that writes a row of `ingestion_runs`, as an operator on the row | `repository`, `ingest._adopt_run/_finish_run` |
| `RunLifecycle` | the abstract specification: what one run may do from request to verdict | - |
| `IngestionWorker` | the worker: EXTENDS `IngestionRuns`, implements `RunLifecycle` | `worker`, phases 1 to 3 of `run_ingestion`, the scope rules of `runner` |
| `RequestQueue` | scraper, request handler and worker around the queue: EXTENDS `IngestionRuns` | `ingestion_dispatch.py`, `api/v1/ingestion.py`, `postScraperComplete` |
| `StorageLanding` | one school's files: phase 2 blob by blob, and the archive | `ingest._process_blob`, `worker._archive`, `blob_client.py` |
| `CollectionWalk` | the walk over one paged collection | `scraper/lib/paginate.js`, discovery in `exporter` |
| `ScraperRun` | the batch: EXTENDS `CollectionWalk` | `exporter`, `scraper/lib/notify.js` |
| `LtiLaunch` | from the click in the learning platform to a session | `lti_service.py`, `user_school_service.py`, `lti_admin_service.py`, the bridge route |
| `RoleHierarchy` | roles, ranks, assignments, sign-up, tokens | `role_service.py`, `user_role_service.py`, `role_repository.py`, the RBAC migrations |
| `UserAdmin` | the console's requests against the auth service | `frontend/src/app/api/users`, `concurrency.ts`, `users.service.ts`, `user_provisioning_service.py` |
| `SchoolSwitch` | the school provider | `SelectedSchoolContext.tsx` |
| `Dashboard` | the page under it: EXTENDS `SchoolSwitch` | `DashboardPage.tsx`, `query-client.tsx` |
| `...Proofs` | theorems (section 4) | - |
| `MC...` | small schools, files, people and symmetry sets of the runs | - |

**IngestionWorker.** Variables `runs`, `started`, `dirty`, `raw`, `ingested`,
`built` are the database and survive a crash; `wk[w]` holds the locals of one
process and is lost. Every action is one transaction of the code or one local
decision between two: `Claim` is `claim_next`, `SetDirty`, `Adopt`, `TryLock`,
`Land` (the commit of phase 2), `Finish` (phase 3) and `Archive` follow
`_land_run` in order, `ReadScope`, `Gate`, `SkipClean`, `Build`, `Settle` (one mark
each) and `Purge` follow `_transform_batch`. The faults are actions of their own, one
per place where the code catches: `Escape` (outside `_land_run`'s `try`, caught
by `run_forever`), `LandingRaises`, `PhaseTwoRaises` (rollback, then phase 3
writes `failed` and re-raises), `GateRaises`, `Crash`. Time appears only as the
lease: `Lapse` turns a fresh heartbeat stale, either when no live worker beats it or,
with `LeaseCanLapse`, under a live worker whose heartbeat task died
(`_heartbeat_loop` ends on its first error) or was starved.
`started_at` is kept as ranks, because only `ORDER BY` reads it. Raw rows are
tracked per source file. `Build` abstracts the runner: which assessments its
roster gate prunes depends on data, so any set that contains the uncovered ones
is possible. Columns nobody reads back (`finished_at`, `error_details`) are left
out, as are the raw-row floor (unreachable: the scope of a pass is never empty)
and status `transforming` (declared by the schema, written by nobody).

**RequestQueue.** The handler reads and inserts in two steps, because READ
COMMITTED lets another handler in between, and a client that gives up leaves its
handler running. A scrape stands for the files it uploaded before its POST. The
worker is reduced to what the queue sees: a run ends as landed also when it refused
files (`refused`, its `error_count`), and then leaves everything it listed under the live
prefix; without refusals it moves the snapshot away or, when the re-list fails, does not.

**StorageLanding.** `live[k]` is content and upload time; contents are identified
by hash, as `ingested_files` does. A blob is downloaded as it is at that moment,
not as it was listed. `lost` is a file that no counter accounts for, what
the file-count belt of `_land_run` looks for.

**CollectionWalk, ScraperRun.** Schoology is an environment that pages as it likes:
it drops the building filter from its links, repeats a page, leaves one out,
states a total or does not. `Fill` puts the filter back as `paginate.js` does; items are
counted as they come, duplicates included, against the first total that was stated. The
listing may grow while a walk is under way (`Appears`): the newcomer takes a page and
others move on to the next one. `due`, `still` and `ordered` are history for the property:
what was listed when the walk began, whether the listing has stood still since,
whether the pages came one after the other. The nested walks over courses, sections and
assignments are one walk over the assessments that pass the filters. In the batch, `Group` is the set of schools
with the same credentials, `Busy` groups are those the pool works on, and `job[s]`
is the loop of one school. The transfer history is one page per account:
`pending` are rows that were asked for and do not show yet, and `RowAppears` shows a
row to every school of the account that watches the page. `RowsMayOutrun = FALSE`
says that a row that an earlier export asked for is on the page when the next one
looks; the exporter relies on it; section 3 says what happens otherwise.

**LtiLaunch.** `post[p]` is one POST of the signed token, so a token posted twice is
two posts of one launch. The state is read and consumed in two steps, the account,
identity and membership are written in one transaction whose unique keys are
checked at the write, and the ticket is minted in a second transaction. A `visit` is one
request of the bridge; reloads and prefetches bring the same ticket. Each person has
one outstanding magic link, the last that was generated; a bridge request may fail
before or after it has used that link up.

**RoleHierarchy.** `Begin...` is what a request reads and validates, `Commit...` what
it writes; in between other requests commit. `rankLock` is the advisory lock of
the rank operations. `claims` is the rank in the user's token, which changes only
when a token is issued. `Listed` is the page of `BaseRepository.list`.

**UserAdmin.** A route is a script of awaited calls per target, over the targets
that pass the route's filters, in list order (`Kept`); `mapPool`'s workers share a cursor. Each call may take effect, fail, or take effect and lose its answer;
the revocation's bare `fetch` may also throw, which rejects `Promise.all`. A session
that survives because a call failed is `spared`, so that the property about bans
can tell it from one that the order of calls left alive. The second step of an
invitation is FastAPI's `bulk/provision`: one database session, the accounts one after
another, a role that is only flushed, then the schools, each of which commits what is
flushed so far. A refused rank or school ends one account; a failed statement, such as
one for an account that is gone, ends the session, and what was flushed is lost.
The session closes after the answer, with a commit or without. A flushed role keeps its
account from being deleted, by the lock on the referenced row.

**SchoolSwitch, Dashboard.** `Render` is one render with its effects, the page's
before the provider's, each run only if one of its dependencies changed
(`seen...` are the values of the last render); renders are finished before the next
event. `router.replace` is a target that lands later and may be superseded.
Queries are cached per key and show the last data there was until the new key's
arrive; a failed refetch keeps its data beside the error, a key that failed is fetched
again when it is shown anew, and Refresh asks for everything under the reports key, a
list of schools that had failed included (the page is then loading again). Cached
answers are taken to be younger than their `staleTime` unless Refresh has invalidated them. `crossed` and `refreshed` are history variables for the properties.

## 3. Runs

| run | instance | shows |
|---|---|---|
| `SingleWorker` | 1 worker, 2 runs, 2 schools with an assessment each, 2 faults, lapsing leases, kill switch on or off | types, `RetryBudget`, `NoSubmissionLost`, `VerdictIsFinal` for the deployed configuration |
| `SingleWorkerLive` | 1 worker, 2 runs of a school, a submission and a question file of one assessment, 2 faults, transforms on | refines `RunLifecycle`, with its fairness; while nothing has gone wrong, `LandedRowsAreJudged` and `DirtyIsCleared` |
| `WorkerPair` | 2 workers that keep their leases, 2 faults | `ExclusiveLanding` |
| `StaleClaims` | 2 workers that may lose their leases | `RetryBudget`, `NeverStuckRunning` |
| `RequestQueue` | 2 scrapes of one school, one of which repeats its POST, 3 runs, 2 attempts each | `AcceptedIsLanded`, `AcceptedIsWorkedOn` |
| `StorageLanding` | 1 worker, 2 keys, 3 uploads of 3 contents (one refused), 2 faults | `ArchivedIsIngested`, `UploadIsIngested` |
| `StorageOverlap` | 2 runs of one school at once, 2 uploads (one content refused), 2 faults, deactivation, uploads during the moves | `LivePrefixDrains` |
| `ScraperRun` | 2 schools that may share an account, 3 assessments on 3 pages (one is added during a walk and has no submissions), 1 wanted and 1 other file, pool of 2, 1 retry, 3 polls | `DiscoveryIsWhole`, `FiledUnderItsAssessment`, `GreenIsShipped`, `BatchEnds` |
| `LtiLaunch` | 1 person, 2 launches into 2 schools, 3 posts (one token twice), 3 visits (one ticket twice), 2 free user ids, one school an administrator grants, another whose binding is disabled | `OneAccountPerPerson`, `TicketOpensOneSession`, `LaunchKeepsMemberships`, `OneTabGetsIn` |
| `RoleHierarchy` | 2 users, 3 custom roles, 2 requests at once, a list that shows every role | `RanksContiguous`, `SeniorsStayFrozen`, `OneSuperAdmin` |
| `UserAdmin` | 2 administrators (one super admin), 2 accounts to be invited, a first request over 3 targets with a repetition and a second one over one of two of them, with or without schools, 2 pool workers | `BannedIsSignedOut`, `AnswerIsWhole`, `ShownIsProvisioned`, `ConsoleIsReleased` |
| `Dashboard` | 2 schools with one default scope, a link to a foreign school, 2 scopes, 2 moves | `SwitchSettles`, `FirstVisitLoads`, `RefreshOpens` |

The runs have from 36,901 (`StorageLanding`) to 3,393,254 (`WorkerPair`) distinct states. Each property has a mutant in `PROJECT.json`, a
plausible bug in one definition that makes the same run fail.

Why the bounds are enough. A batch, a sweep and an overlap of two runs need two
runs; a prune of one assessment beside another needs two files; a retry that
meets its own leftovers needs one fault and two attempts; a second fault lets the
retry itself fail. Two workers are what a rolling deploy has. Overwriting a key
that another run has listed needs two uploads of one key, a third lets the other
key change. Confusing rows needs two exports on one page and a third assessment in
another school of the account; an item that is
pushed from a page to one that the walk has seen already, or has still to see, needs three
pages. Two posts of one token and two tickets of one person are what races a
state, an identity and a magic link; a third visit repeats a ticket. Two requests
with stale tokens and three roles let a reorder overlap a creation or deletion
on either side of the moved role. A list longer than the pool makes a worker take
its second target while another is inside a script, and lets a provisioning that fails
come after one whose role is flushed. Two moves let a switch meet a
link, a Refresh or another switch while the first one's answers are under way.
Symmetry is used only in runs without liveness properties.
`CHECK_DEADLOCK FALSE` is set where the system really may stop: every scrape
posted (`RequestQueue`), the batch mailed (`ScraperRun`), every request answered
(`UserAdmin`), no move left (`Dashboard`), no role left to create and no request
open (`RoleHierarchy`).

Fairness. `FairSpec` of the worker assumes that the event loop keeps running the
loop (`WF` of `WorkerStep`), that the host restarts a dead process (`WF` of
`Start`, the restart policy of `railway.json`) and that time passes (`WF` of
`Lapse`). Faults, requests and administrators get none. Faults are bounded, so liveness is said of what happens
once they stop. `RequestQueue` is fair to the worker only, `StorageLanding` to
the steps of a run. `ScraperRun` is fair to each school's loop and to `main`,
because every wait of the exporter has a timeout; it is not fair to the rows of the
history, which may never show. `LtiLaunch` is fair to bridge requests that have
begun; nobody has to launch, and failures there are not bounded but remembered in
`faulty`. `UserAdmin` is fair to each request's route and to the console that waits for it, since
calls return or throw; of `bulk/provision` nothing is asked, the console shows the call as
failed if no answer comes. `ConsoleIsReleased` says that again and again there is a moment
when no administrator waits.
`Dashboard` is fair to renders, to navigations that land and to answers, since
react-query gives up after its retry; the user owes nothing.

### Where the code and its documentation disagree

The properties above hold under the assumptions that the constants and the
properties name. These are the places where a comment of the code promises more; the
models have each of these behaviours, and TLC shows it when the constant or the
antecedent in brackets is dropped, except where only the reading of the code is cited.

* A 0-row landing with a dirty flag from a crash is said to transform
  (`worker`, on the economics of the gate). `set_warehouse_dirty` overwrites
  `dirty_token` with the landing run's id, so the retry of a crashed run owns the
  token, lands nothing (its files are known by hash), skips the transform, clears
  the flag and is reported succeeded with rows that are in no cube.
  [`LandedRowsAreJudged` without its condition on faults.]
* The re-drive "if NOTHING landed this poll" is there so that orphans are built. It
  needs the dirty flag, which the gate clears in the transaction of the rebuild,
  before the marks: a crash between the two leaves a landed run that no poll looks at
  until another one lands. [The same.]
* A requeue is said to be safe because a retry is idempotent. Writes are not scoped to
  the claim: a worker whose lease was reaped lands rows into a run that another one
  took to succeeded and applied, the purge deletes them unread, and the hash
  index keeps their files out. [`NoSubmissionLost` with two workers and
  `LeaseCanLapse`; `VerdictIsFinal` fails with two workers as well.]
* Raw of "failed / pruned / landed runs" is said to be retained. A run that brought
  only the question data of a pruned assessment is promoted with the others and
  its question data is purged: only student rows are held to account.
* The archive is gated on a clean landing. A run that finds the school's lock taken,
  or its school deactivated, counts neither a file nor an error and archives its
  whole snapshot. [`ArchivedIsIngested` with two workers, with
  `MayDeactivate`, or without `QuietArchive`, which is an upload between the re-list and a
  move.]
* Rows of a run that a raised gate failed are in no later scope until other rows of
  their assessment land.
* `BaseRepository.list` returns 100 rows by default and `MAX_CUSTOM_ROLES` is 500. From the
  99th custom role on, a reorder validates and renumbers only the roles of its page,
  and two roles share a rank. [`RanksContiguous` and `SeniorsStayFrozen` with
  `ListLimit = 4`.]
* The handoff ticket is documented as mirroring a single-statement guard of
  `_consume_state`; that one is a SELECT and an UPDATE, and one state can be consumed
  by two posts. What keeps accounts single is the unique identity. A second school as
  primary, and primaries granted at the same time, run into the index on
  primaries and fail the launch whole; a revoked staff membership comes back with the
  next launch.
* The bulk route promises "200 with per-target results even on partial failure". A
  revocation that throws rejects `Promise.all`: 500 for all targets, while other
  workers go on. A ban whose answer is lost leaves the sessions alive and no
  audit entry; an invitation whose answer is lost and which is accepted before the retry
  reads `already_exists` and is never provisioned. A refused revocation is only
  logged.
* `user_provisioning_service.py` says that each assignment is applied independently and
  that one user's failure never aborts the rest. An invitation that gives a role and no
  school commits nothing before the session closes: when a later account makes a
  statement fail, the roles of the earlier ones are rolled back although they were
  reported `ok`. [`ShownIsProvisioned` without `schools`.]
* `paginate.js` is there so that a partial collection is never taken for a whole one. What
  it can tell is a repeated URL, a missing body and a count below the total. A page that is
  left out of a collection without a total goes unnoticed, and while the listing grows
  an item that moved on and was served twice fills the count of one that was missed.
  [`DiscoveryIsWhole` without `still`, `ordered` or `counted`.]
* `SelectedSchoolContext.tsx` calls its effects idempotent and loop-free. A Back or a
  link to another school than the chosen one, or a switch back before the
  replace has landed, makes effects 1 and 3 send choice and URL past each other for
  ever. [`SwitchSettles` without `crossed`.]
* `DashboardPage.tsx` says that `defaultsReady` flips on every exit path. When a
  switch goes to a school with the same default scope and its overview answers before
  its sessions and grades, the scoped queries stay disabled until Refresh or
  another filter; that the defaults fire once is not so on a switch either, and a
  quick switch to another school and back may keep that school's subject.
  [`RefreshOpens` says that Refresh gets out of it.]
* `exporter` suppresses the mail of a run that ends without its upload settings when
  mails are for failures only: exit code 1, but no fatal error is recorded. Two entries
  of the map that spell one account differently run at once and may file each other's
  rows. Uploads of a first attempt stay unannounced if the retry finds nothing
  to export. [`FiledUnderItsAssessment` with `RowsMayOutrun`.]

Pages without a guard against late answers, found while reading and not modelled:
`AdminRBACPage` takes the permissions of whichever role answers last and a save may
answer after the role was switched; `useUserManagement` loads lists without
cancelling and keeps ids selected that are no longer visible; `SchoolAccessDialog` reloads
unguarded; two filter toggles before the URL lands lose one (`filters.ts`);
`mfa-check` reads an error as "no second factor".

## 4. Proofs

Each theorem holds for every value of the constants that satisfies the
`ASSUME`s of the modules it extends.

**`IngestionWorkerProofs`** (any number of workers, runs, schools, files, faults and
attempts): `TypeCorrect`, `RetryBudgetHolds`, and `ExclusiveLandingHolds` if
`~ LeaseCanLapse`. `RetryBudget` is not inductive. A pending run has an attempt left
because the reaper looked, but the worker writes `running`, `landed` and `failed`
into the run it holds without looking, so the argument needs that it only holds
runs that exist, at the places of the loop where it does hold one. `IInv` is `TypeOK /\
RetryBudget /\ Holds`, where `Holds` ties the locals of each worker to its place: a
run is held exactly at the landing steps, it beats only while it is held, and a
batch is settled only with a verdict. `ExclusiveLanding` needs the table as well:
`Held` says that the row of a held run names its holder, that its heartbeat is fresh,
and that it is neither pending nor absent.

The second half of the module assumes `OneProcess` (any two workers are the same
one, the deployment of section 1); leases may lapse and there may be any number of
faults: `VerdictIsFinalHolds`, `NoSubmissionLostHolds` and
`ImplementsLifecycleSafely` (`Spec => Lifecycle!Safety`, the refinement without its
fairness). The three rest on `Unjudged`: what the worker keeps in its locals is still
open in the table, since marks write by `run_id` without looking at the status. It
holds because the reaper, the only statement that closes runs behind a worker's back,
runs when its own worker has nothing in hand; that is where a second process
breaks it. `NoSubmissionLost` needs `Accounted` as well: an applied row is a
succeeded one and its student rows are in the fact; and from the commit of the
transform to the last mark, the runs still to be promoted are covered by it.
`UndisturbedPollsCatchUp` is the safety half of two liveness properties: as long as
there has been no fault, a worker with transforms begins each poll with a clean
warehouse and no landed run that has rows in raw. `OwedFits` follows the runs that owe a
verdict through the loop (in the batch or in hand, then among those to be marked),
`RowsFit` says that a run has no rows before its phase 2 has committed, `DirtyFits` that
the flag is on only between that commit and the gate of the same batch. Without the
hypothesis a crash between the rebuild and the marks breaks it.

**`RequestQueueProofs`** (any number of scrapes, schools, runs and attempts):
`QueueIsTyped` and `TheAcceptedAreLanded`. `AcceptedIsLanded` speaks of landed runs only, and of the files they did not refuse;
the inductive invariant carries the promise from the handler's answer on.
`Covers(r, c)`: the run is of the scrape's school and, once the worker has listed
the files for it, has those of the scrape among them or they are landed; once it is landed,
they are landed or refused. It is
established when the handler answers (the run is pending, so the worker has not
listed for it), and kept because `ClientsFit` puts the files of whoever has posted in
`live \cup landed`, and because files leave `live` only into `landed`. `JobFits` says
that the worker's run is the only running one, so a reap touches no other.

**`StorageLandingProofs`**: `StorageIsTyped` for any number of overlapping runs, and
`TheArchivedIsIngested` under `Undisturbed` (runs do not overlap, no upload
between a re-list and its moves, the school stays active). `Fits` follows the objects of
the snapshot through the run: in phase 2 an object that is still the one the
snapshot saw is waiting to be processed, or ingested, unless a counter has ended the
archive; at the re-list it is ingested; at the moves, so is whatever lies under the
keys. Uploads stamp later than the snapshot, so the comparison of the re-list
drops what was overwritten. `CommitsBringWhatTheySaw` needs none of the three hypotheses,
only that no call has failed: in phase 2 a readable object that the snapshot saw and nobody
has overwritten waits for its turn or is recorded (`Sees`), so a refused
file does not keep the others of its school out.

**`RoleHierarchyProofs`** (any number of roles, users and requests):
`RolesAreTyped`, `OneSuperAdminHolds`, `RanksAreContiguous` and `SeniorsAreFrozen`. The
last two are of the form `RoleSpec /\ []FitsOnAPage => []...`: they speak of every
behaviour in which the roles there are fit on one page of the list (`Custom + 2 <=
ListLimit`, with the two roles of the system). The limits of the code, 500 custom roles and a page of 100,
satisfy it as long as there are at most 98 custom roles; beyond it both properties fail
(section 3). `TypeInv` adds to the types that only the holder of the advisory
lock has a rank operation open, and where a creation is about to insert. `RankInv` adds
`ReorderFits`: the renumbering that an open reorder has validated still is a
numbering of the live roles, and leaves the caller's seniors where they are, when
it is written; nothing else moves a rank while the lock is held. `SuperInv` needs no such
hypothesis: `SignupsFit` says that one sign-up at a time decides and that its decision
is still right when it commits, `GiftsFit` that no open request names the role.

**`LtiLaunchProofs`** (any number of persons, launches, posts, visits and schools):
`LtiRowsAreTyped`, `OneAccountEach`, `TicketsAreSingleUse`, `LaunchesOnlyAdd`, from
`LtiInv`: the types, `OneAccountPerPerson`, one primary school per user, a post that
is about to write has read the account that the identity names or found none, no
ticket before its post has redirected, and one visit at most past each ticket, which
is used by then. `OneTabAlwaysGotIn` adds `LinkIsHeld`: generating a magic link
invalidates the person's earlier one, but then it is the new visit that has the good link, so
the last to generate always gets in, or a service has failed.

**`ScraperRunProofs`** (any number of schools, accounts, assessments, pages, files,
retries and polls): `ScraperRunIsTyped` and `WalksAreWhole` from types that carry what
a walk knows (`WalkFits`: its URLs keep the filter and none is asked for twice. `StillFits`:
while the listing stands still the walk has found just what is listed on the pages it has
visited, each item once, so that a full count means a full set. `OrderFits`: while the
pages come in order, what is still to be found is on a later page, wherever it moves)
and what a loop has at each place (`JobFits`). `AccountsTakeTurns` says that of the schools
of one group at most one is between login and the end of its loop; the transfer
history is shared by exactly these. Under `RowsMayOutrun = FALSE`, the assumption of
section 2, `FilesAreUnderTheirAssessment` and `GreenRunsHaveShipped` follow from
`ExportInv`: the rows that a loop sees as new on the page are its own export's (`RowsAreOwn`,
which needs the turns: another school of the account would add rows to the same page), what
is in the bucket is filed right, a loop with nothing to excuse has put into the bucket
whatever it is through with (`ShipsInOrder`), a school that is closed as good has it all
announced to the backend (`ClosedIsReported`), and exit code 0 is given only if all
schools are (`ZeroIsGood`). Without the hypothesis
a row of an earlier, given-up export is taken for the next one's.

**`UserAdminProofs`** (any number of administrators, requests, pool workers and
accounts, lists of any length): `UserAdminIsTyped` and `AnswersAreWhole` from `TypeInv`.
Its `Fits`, about each request by itself, says where the workers of `mapPool` are: every
target before the cursor is answered or in the hands of one worker, none beyond it is
touched, and an answer says success only with the effect done.
`ShownAccountsAreProvisioned` needs that what is granted or flushed belongs to accounts
that are there (`RowsHaveAccounts`) and follows an account through the second step: from
the flush of its role to its schools the role is flushed or committed
(`RoleIsKept`; it is the account's turn, so that nobody else's failure comes in between), and
afterwards role and schools are committed (`SchoolsAreKept`), unless a
deletion was asked for, which `Deleted` collects. `BannedAccountsAreSignedOut` needs `BannedLive \subseteq
BeingRevoked`: whoever is banned with a live session is the current target of a worker that has
banned and not yet revoked, or is `spared`; a sign-in in between is refused because the
ban is there first, which is why the order of the two calls matters.

**`DashboardProofs`** (any list of schools, any scopes, any number of moves):
`DashboardIsTyped`, and the safety halves of the liveness properties, what holds
whenever the dashboard is quiet, that is, when no effect is due and no navigation or answer
is under way: the provider has choice and URL on one accessible school
(`ProviderRestsSettled`), the page has applied the default scope of that school or its
dimensions failed (`QuietPagesAreInited`), and the scoped queries of a page that nobody has
touched, or that was refreshed last with its list of schools there, are enabled
(`QuietPagesAreOpen`). That it
becomes quiet is the liveness half and TLC's. The provider's half holds for crossing moves as
well: they can only keep it from coming to rest. It says nothing about a page after an ordinary switch, where
section 3 has the counterexample. The inductive invariant reads the effects backwards: an effect whose
dependencies have not changed since the last render has done its work. `Reconciled` says it of the
provider's effects, `Uncrossed` of the URL on its way, `Asked` of the queries (a key
that is shown without data is being fetched) and of the flags, `Gated` of
`defaultsReady`.

What stays with TLC: all liveness (`LandedRowsAreJudged`, `DirtyIsCleared`,
`NeverStuckRunning`, `AcceptedIsWorkedOn`, `UploadIsIngested`, `LivePrefixDrains`,
`BatchEnds`, `OneTabGetsIn`, `ConsoleIsReleased`, the three of `Dashboard`, and the
fairness of `RunLifecycle`), because fairness is `ENABLED`, which the prover cannot expand.
For
`LandedRowsAreJudged`, `DirtyIsCleared`, `UploadIsIngested`, `OneTabGetsIn` and the three of
`Dashboard` the safety halves above say what holds wherever the system comes to rest; that it
gets there is TLC's.
Every invariant and action property of the runs is proved, with the hypotheses named
above. The inductive invariants were model-checked on the constants of the runs
before they were proved.

## 5. Not modelled

* The parsers and the CLI modes of `ingest` (whole tree, `commit_every`, several
  schools per run, inline transforms) and the local and GCS blob clients. Shutdown
  (`worker.stop()` and a cancelled task) is covered by `Crash`. Admin triggers
  enqueue through the same `enqueue` as the scraper's POST.
* `runner`'s SQL: which assessments a rename joins and what a prune drops is decided
  by set-oriented statements over the contents of raw; `Build` keeps the
  outcomes. The fingerprints of the historic lock compare contents of cube rows,
  which the models do not carry.
* The exporter's selectors, its local-file mode and the shape of rows and names.
* The permissions and metadata of a role (`assign_permissions` deletes and
  re-inserts; two at once leave the union), the metadata of sessions, rate limits.
* Backup: one process with one dump, one upload and one prune a day; the thread that
  outlives its timeout ends with the process.
* The reports API, the tenancy policies, seeds and schema: reads, predicates that the
  database evaluates per statement, and declarations.
* The rest of the frontend, which is most of the repository's lines: markup, column
  definitions, CSV and PDF layout, functions of their props without behaviour over
  time. This is why the map covers a small share of all lines.

# Formal model of the asset graph backend

The program is a FastAPI backend that serves a graph of financial assets and
rebuilds it on request. Several instances of it share one durable database
(`ASSET_GRAPH_DATABASE_URL`); the code that decides which instance may rebuild,
when a rebuild becomes durable, who cleans up after a dead instance and what each
instance serves meanwhile is the first subject of the modules in this directory. The
second is the relationships that people propose and review: assertions, whose events
several users append at a time and which every rebuild projects onto the graph it
publishes. Around them stand what a graph consists of and how it is stored, the start of
a replica, the accounts, and the operator commands that migrate a database or judge a
hosted one. Paths are those of the repository, whose root is the directory `src/` beside
this one.

## 1. Inventory

### Components, their state and their operations

| Component | Code | State | Operations |
| --- | --- | --- | --- |
| Lock row | `CoordinationLockRepository` (`src/data/repository.py`) | one row of `distributed_locks`: holder, expiry, token | `acquire_lock`, `refresh_lock` (= acquire), `renew_owned_lock`, `release_lock`, `get_lock_state` |
| `DistributedLock` | `src/data/distributed_lock.py` | holder id, `_state` (LOST suppresses release) | `acquire` (with or without retries), `refresh`, `release`, `check_state` |
| Rebuild jobs | `AssetGraphRepository` | `rebuild_jobs`: status, `last_heartbeat_at`, execution id | create, mark running / succeeded / failed / cancel requested / cancelled, heartbeat, checkpoint |
| Executor thread | `_perform_rebuild_and_persist_sync`, `_run_rebuild_pipeline` (`api/routers/graph_admin.py`) | its position, its open transaction | acquire, gate, create and start the job, build, publish, fail, cancel, release |
| Heartbeat thread | `_heartbeat_keeper`, `_orchestrate_heartbeat` | position, `lock_lost`, `cancel_event`, `stop_event` | refresh the lease, update the heartbeat, diagnose a failure |
| Admission | `_RebuildRuntime`, `rebuild_graph`, `_run_rebuild_in_executor` | asyncio lock, one-thread executor | claim, submit, completion callback, client disconnect |
| Runtime graph | `api/graph_lifecycle.py` | lifecycle state, served graph, `last_synced_job_id` | initialise, `begin_rebuild`, `complete_rebuild`, `synchronize_runtime_graph`, `sync_with_latest_rebuild`, shutdown |
| Recovery gate | `src/logic/recovery_gate.py` | `lock_was_reacquired` | consume a plan, block or reset |
| Engine, evaluator, detection | `src/logic/reconciliation_engine.py`, `rebuild_drift_evaluator.py`, `rebuild_failure_detection.py` | none (pure) | classify lock, job and heartbeat into a plan |
| Reconciliation loop | `src/logic/reconciliation_loop.py` | back-off | one gate pass per interval while READY |
| Startup and shutdown | `api/app_factory.py` | background tasks | startup gate, graph initialisation, sync / SLO / reconciliation tasks, orderly shutdown |
| Governed assertions | `src/governance/`, `src/data/relationship_assertion_repository.py`, `api/routers/assertions.py` | append-only events, sequence numbers | propose, accept, reject, withdraw, dispute, retract, supersede, publish a projection |
| Projection and overlay | `src/logic/relationship_projection.py` | none (pure) | project as of `known_at`, overlay on legacy edges |
| Governed index | `api/services/relationship_index.py` | caches, generation, graph bindings | load by publication, invalidate |
| Relationship rules, graph | `src/logic/asset_graph.py`, `src/models/` | assets, relationships, events of one graph | build, add |
| Graph tables | `AssetGraphRepository` (`src/data/repository.py`) | `assets`, `asset_relationships`, `regulatory_events` | `save_graph`, `load_graph`, single rows |
| Data fetcher | `src/data/real_data_fetcher.py`, `sample_data.py` | the cache file | fetch, cache, fall back |
| Read endpoints | `api/routers/`, `api/services/relationship_index.py`, `src/visualizations/` | graph bindings | answer with provenance, explain an edge |
| Credential store | `api/database.py`, `api/auth.py`, `api/routers/auth.py` | accounts; a shared connection, a guard of the verification | verify at startup, log in, authorise, seed through a binding |
| Migration command | `scripts/migrate_database.py`, `scripts/postgresql_ledger.py` | manifest, files, binding document; versions in each database | validate, plan, execute, verify, seed, report |
| Hosted preflight | `scripts/postgresql_preflight.py`, `scripts/postgresql_drift.py` | permit, repository head | prove identity, five checks, report |
| Runtime authority | `src/data/database.py`, `api/database.py`, `src/data/runtime_role_membership.py` | none: reads the catalog | verify schema, roles, policies, grants, logins |
| Everything else | rate limits, metrics, SLOs, reports, Gradio app, frontend, maintenance scripts | | see `PROJECT.json`, `components` |

### How they interact

A request claims the process (lifecycle REBUILDING and the asyncio lock) and
submits work to a one-thread executor. The executor thread takes the lock row,
passes the recovery gate, creates and starts a job, starts a heartbeat thread and
builds. It publishes in one REPEATABLE READ transaction that renews the lease three
times (start, before success, before commit), stages the graph, marks the job
SUCCEEDED and records the publication. Heartbeat and executor communicate through
two events only. Other instances see nothing but the two tables: their
reconciliation loop resets an orphaned RUNNING job, their synchronisation loop
loads a newer graph, anybody may ask for a cancellation.

A replica starts after one pass of the recovery gate over the same rows, and after its
credential store has been verified in a thread that its event loop may abandon. A read
takes the served graph and then asks the database for the publication of the rebuild it
is bound to. The migration command and the preflight are processes of their own: the
former creates the tables that startup, rebuilds and logins rely on, the latter reads what
administrators may have changed since.

### What is hard

1. The lease may run out under a live owner (stall, slow build, skewed clocks), and
   `refresh_lock` is `acquire_lock`, so it also takes back a row that was lost.
2. Every host judges expiry and staleness on its own clock.
3. Rows are checked in one transaction and used in another: gate before create,
   heartbeat inspected before `mark_rebuild_job_failed`, status diagnosed after a
   failed heartbeat.
4. Any step may meet a database error; any process may die at any step.
5. A heartbeat thread may outlive the two-second join and run after the release.
6. In the process: a disconnected client frees the asyncio lock while its work still
   runs; three threads publish runtime graphs.
7. Assertions: events, evidence links and publications get their times from clocks
   that differ, before they commit, and each must come after what others wrote; a
   supersession changes two streams at three times; row locks, unique keys, an
   advisory lock and foreign keys meet in different orders.
8. Startup: lock and jobs are read in two transactions either of which may fail, and what
   one replica leaves behind decides whether another may start.
9. Store: rows of three generations (rules, projection, legacy rows written by hand) meet
   under one key, and a provider answers for some symbols only.
10. Operators: files are validated and read again later to be executed; two commands run
    side by side; several URLs name one database; a preflight takes minutes over a database
    that nobody holds still.
11. Authority: what a login may do follows from grants, inheritance, SET ROLE, ownership
    and PUBLIC together.

The list with lines and covering properties is `hazards` in `PROJECT.json`.

### What makes each component correct

* Lock row: one owner of the publication at a time, and a lease always comes back.
* Jobs: the life cycle of `RebuildJobStatus`; a job is SUCCEEDED exactly when its
  graph became durable.
* Executor and heartbeat: the writer owns the lease up to its commit; every attempt
  ends; an abort is recorded as a cancellation only for a cancelled job.
* Recovery: only a job that is still RUNNING is failed; an orphan is always failed.
* Runtime graph: a replica never goes back to an older graph through
  synchronisation, and catches up with the durable one.
* Reads: a graph is answered for with its own provenance.
* Assertions: no event is lost or reordered by concurrent writers; a publication
  projects exactly the events known at its `known_at`.
* Startup: a start resets nothing, a reset ends only jobs of silent owners wherever their
  heartbeats fall; a replica comes up once faults end, beside a peer.
* Store: what is published can be loaded, explained and saved again; an outage of the
  provider empties nothing.
* Accounts: an abandoned verification does no more work and is never believed; a request
  is admitted for an account that was enabled since it arrived.
* Migration: only reviewed bytes run, wherever edits fall between the reads; a history is the beginning of one profile's ledger;
  what a report says is so.
* Preflight: a pass is honest, a drift has a cause, an accepted login can do its contract.

## 2. Modules

| Module | What it models |
| --- | --- |
| `CoordinationLock` | the lock row and what each SQL statement reads and writes in it, relative time, clock skew |
| `RebuildJobs` | the abstract job table: the promise of the control plane |
| `RebuildCoordination` | executor and heartbeat threads, reconciliation passes, cancellation, crashes, errors, time; implements `RebuildJobs` |
| `RebuildCoordination_proofs` | the theorems about it |
| `RuntimeGraph` | one process: rebuild handler, executor, synchronisation loop, startup and shutdown, and the runtime graph they share |
| `RuntimeReads` | `RuntimeGraph` and a read beside it |
| `RuntimeReads_proofs` | the theorems about both |
| `RecoveryDecision` | detection, drift evaluator, engine and the gate's reading of a plan, as operators |
| `StartupGate` | replicas that start, serve, reconcile, rebuild and die: three kinds of callers of the gate over one lock row |
| `StartupGate_proofs` | the theorems about it |
| `AssertionLifecycle` | the transition matrix, who may take which transition, which streams of events resolve |
| `AssertionBook` | the abstract repository: one transition a step, a supersession in one |
| `GovernedAssertions` | the transactions on assertions, the publication that projects them, their locks and times; implements `AssertionBook` |
| `GovernedAssertions_proofs` | the theorems about it |
| `GraphStore` | rules, sources, overlay, tables, index: what is in a graph and what comes back |
| `GraphStore_proofs` | the theorems about it |
| `LedgerPlan` | valid manifests, profiles, binding documents, plans, the write barrier, as operators |
| `MigrationLedger` | operators' runs of the migration command over several databases |
| `MigrationLedger_proofs` | the theorems about it |
| `RuntimeAuthority` | the runtime authority contract and the queries that verify it, over catalogs |
| `MigrationPreflight` | one preflight of a hosted database; uses `LedgerPlan` and `RuntimeAuthority` |
| `MigrationPreflight_proofs` | the theorems about it and about the authority queries |
| `AccountStore` | credentials, startup verification, logins and requests, seeding through a binding |
| `AccountStore_proofs` | the theorems about it |
| `MC...` | the instances TLC checks |

### `RebuildCoordination` and the code

An *attempt* `a` is one `POST /api/graph/rebuild` that reached the executor. The
holder id of its `DistributedLock`, its job id and its execution id are UUIDs made
for it, so one name stands for the three. `pc[a]` is the position of the executor
thread, `hb[a]` of the heartbeat thread, `signal[a]` the event the latter has set.
`lock`, `status`, `age` and `truth` are committed rows: the lock row, the job
statuses, the time since each heartbeat, the job whose graph is durable. `txn[a]`
is the lease as renewed inside the open publication transaction of `a`.

One action is one database transaction of the code (each repository call runs in
its own `session_scope`). The exception is the publication, which keeps row locks
over several Python steps: `OpenPublication` (first renewal), `SucceedJob`
(projection, staging, second renewal, `mark_rebuild_job_succeeded`), `PreCommit`
(third renewal and the last look at the events), `Commit`. While it is open,
`LockRowFree` and `JobRowFree` make other UPDATEs of the same rows wait, and reads
see the committed rows: what PostgreSQL does. The failure of a job by
`_reset_active_job` also holds the job row between its UPDATE (`RecReset`) and its
commit (`RecCommit`).

`Error(a)` is an exception at any step and goes where the `except` and `finally`
clauses take it; `Crash(a)` is the death of the process, which rolls back its
transaction and ends its threads. A commit whose outcome is unknown to the client
is `Commit` followed by `Error` or `Crash`.

Time is relative: the row stores what is left of the lease, a job the age of its
heartbeat. `Tick` makes all of it one older and saturates at the bounds `Expired`
and `Stale`, past which no guard tells values apart, so no run cuts time off. The clock
of a holder's host is `Skew[h]` ticks ahead.

A reconciliation pass makes a new holder id each time; a row that a pass leaves
behind is renamed to `Gone`, a holder nobody answers for.

### `RuntimeGraph` and the code

The module takes one process and the sequence of durable rebuilds, which
`RebuildCoordination` explains: `durable` counts the publications, `WorkCommit` is
the `Commit` of this process's own attempt, `OtherPublishes` that of another
instance. The name of a rebuild is its number in this order, so "older" and "newer"
compare numbers. A graph is the number of the rebuild it comes from and whether it
carries the governed overlay (`publication_graph`) or not (`graph`, as built).

`lifecycle`, `graph` and `synced` are the fields of `graph_state`; `booted` and
`sync` the locals of startup and of `sync_with_latest_rebuild`; `holder` the asyncio
lock, `queue` the one-thread executor; `handler[q]` and `work[q]` where the request
and its work are. One action is what runs under one hold of `graph_lock`, one
database session, or what the event loop runs between two awaits:

* `Claim` is `_claim_rebuild_or_raise`, the acquisition of the free asyncio lock and
  the submission to the executor: no await suspends between them.
* `OnDone` is the callback of the executor's future. It is registered before the
  one of `asyncio.shield`, so it runs before the handler resumes (`Resume`), and both
  call `complete_rebuild`.
* `Disconnect` is a `CancelledError` in the handler. The shielded work goes on, the
  lifecycle becomes FAILED and the asyncio lock free, so a second request is
  admitted and queues behind the first work.
* `WorkPublish` and `WorkPublishBuilt` are the two calls of
  `synchronize_runtime_graph` at the end of a successful rebuild.
* `SyncLook`, `SyncQuery`, `SyncExpect`, `SyncLoad`, `SyncPublish` are the five places
  at which `sync_with_latest_rebuild` looks at shared state.
* Startup holds `graph_lock` over its two database sessions. Nobody else runs at
  that time (`StartsAlone`), so no waiting is modelled. A startup that fails is a
  `Restart`: the application does not start then.
* `begin_shutdown` passes through SHUTTING_DOWN under the lock; nobody ever reads it. It is
  called after the server has finished its handlers, hence `holder = NoRequest`.

### `GovernedAssertions` and the code

The module takes the database the coordination modules leave out: assertions, their
events and evidence links, and the published revisions. `events[a]`, `links[a]` and
`pubs` are committed rows; a stream is the sequence of its events, and an event's
`sequence` its place. `log[w]` and `link[w]` are what the open transaction `w` has
written, `rows[w]` the rows it has locked `FOR UPDATE`, `todo[w]` those that
`_lock_supersession_graph` has still to lock, `pub` the transaction that publishes.

One action is one statement, or the statements and planning between two lock waits:

* `Decide` and `RegisterEvidence` are a whole request up to its commit: the one wait is
  for the row. `Propose` plans and stamps, and `InsertProposal` is its insert, which
  waits for another insert of the same id (`_insert_new_proposal`).
* `LockGraph`, `LockRow`, `PlanSuccessor`, `InsertProposal`, `AcceptSuccessor`,
  `HandOver` are the parts of `supersede_atomic`. Floors are queried at each of the
  three stamps, and other transactions commit between them.
* `StagePublication` reads the projection source and plans the revision, all in one
  snapshot; `InsertEdge` inserts an edge, whose foreign key takes a share lock on the row of the
  assertion; `CommitPublication` follows, or `AbortPublication`. There is one
  publication at a time: `RebuildCoordination` shows why (`SingleWriter`).
* `Commit` appends the log to the streams. `Abort` is any exception, crash or
  disconnect: `session_scope` rolls back. A request that is refused before it holds a lock
  another could wait for changes nothing and is no step; one that is refused later is
  `Refuse`.
* `Deadlock` and `BreakDeadlock` are PostgreSQL's detector, which fails one of the two.

`Stamp(floor)` is `_next_assertion_time`: the clock, which is read before the floor is
queried and possibly on a host that is behind (`Lag`), or one after the latest time in
the floor. `seen` is not in the database: it records how many publications had committed
when an event or a link was stamped, for `PublishedPastIsClosed` to speak about.
`Operation` restricts what the clients of an instance ask for; `Seed` and `Published`
are the rows it starts with.

### `RuntimeReads` and the code

`read` holds the locals of one handler of relationships or of the visualisation, which
has no await: `Capture` is `get_graph`, `Bind` `_runtime_graph_publication_binding`,
`QueryBinding` and `LoadSnapshot` the two transactions of
`load_governed_relationship_snapshot`. While it is busy the event loop does nothing else,
the executor, the synchronisation loop and other processes go on. `read.current` says
whether the object taken is still the served one. Two objects that are equal under one
label are one graph here.

### `RecoveryDecision` and the code

An `Observation` is what one pass can find: the lock state as `check_state` returns it, no
job, a job with its owner and the age of its heartbeat, several RUNNING jobs (the
`ValueError`), a database error or another one. `Inconsistency`, `Severity`, `Drift` are
detection and evaluator, `PlanFor` the engine, `Consume` the gate, `LegacyAction` the table
of `rebuild_recovery.py`, which the API does not call. `Decision` is the whole function,
computed once; `StartupGate` looks decisions up in it.

### `StartupGate` and the code

A `Gate` is one caller of the recovery gate: the startup check of a replica, its periodic
reconciliation, its rebuild. All three follow `LookAtLock` and `ReadJobs`; the `...Fails`
actions are the database errors that evaluator and gate turn into answers. `Kind` decides
`Automatic` (`enable_automatic_recovery`), which is false except in the loop.

* A reset is `EnsureLock`, `VerifyLock` and then `_perform_reset_recovery` statement by
  statement: `ReadTarget` (the job, with the age of its heartbeat in `heard`), `JudgeTarget`
  (`check_state` in its own session, staleness of the copy), `UpdateTarget`
  (`mark_rebuild_job_failed`, which asks for RUNNING and not for the heartbeat),
  `ConfirmLease` (a second `check_state`) and `CommitReset`. Reads wait for nobody. From the
  UPDATE to the end of the transaction the row of the job is locked (`JobRowFree`), and the
  owner's heartbeat or end waits.
* `Start`, `StartupEnds`, `StartupError` are the part of `lifespan` around
  `_perform_startup_reconciliation`. A start holds no lock, so the gate always blocks it;
  `clean` is `_handle_reconciliation_blocked`, which lets a start pass whose only trouble is
  that. An error ends the process, or degrades it (`Degraded`: hosted previews) unless it
  is a `SchemaCompatibilityError`, which a degraded start raises again.
* `Ask` to `RebuildEnds` are a rebuild as far as its peers see it; the rest is
  `RebuildCoordination`. Its heartbeat thread is `Refresh` (the lock) and `Beat` (the job),
  two transactions; it may be in the middle of an iteration when the rebuild ends and outlive
  its join (`hb`). `RebuildEnds` leaves the lock row when the lock object is LOST: after a
  look that was not valid, or a refresh that failed. `Long` names the rebuilds that outlast
  the heartbeat interval; the others beat once, when the job is created.
* `late` is a history variable: the last heartbeat of a job was written when the lock row no
  longer belonged to its owner.
* `Shutdown` and `Stopped` are the orderly shutdown, which waits for the pass and the rebuild
  under way; `Crash` is any other end. `Redeployed` names the replicas that are stopped in
  order.
* `Stabilize` is the point after which no fault happens. It is a history variable for
  the liveness property and not in the code.

### `GraphStore` and the code

A graph is a set of assets, of edges, of events; the tables have the same with legacy rows
that stand for both directions. A rebuild is three steps: where the graph comes
from (`ReadCache`, `FetchLive`, `UseSample`: `build_rebuild_graph` and the fetcher, whose
answer about each symbol is a price, nothing or an error), `Publish` or `Abort`. `Build` is
the three relationship rules, `Expand`, `FailsClosed`, `Scopes`, `Overlay` are
`relationship_projection`, `Saved` and `Load` are `save_graph` and `load_graph` with the
order in which rows are read, `Accepts` the keys and foreign keys of the tables.
`Index`, `EdgeId`, `Explanation` are what the read endpoints make of a publication.
`Boot` and `SaveGraph` are the fallback of `graph_lifecycle.py` when nothing is stored, the
rest are the repository's operations on single rows. `untouched` says that no such operation has
followed the last publication.

### `LedgerPlan`, `MigrationLedger` and the code

`LedgerPlan` is `postgresql_ledger.py` as functions: `DigestMatches`, `SqlPasses`,
`DirectoryMatches` and `GlobalOrder` (digests, SQL guard, directory closure, timestamps; each
of one look at the working tree), `Plannable` and `PlanFor` (binding documents: who may read
them, the manifest they pin, aliases of one database), `WriteAllowed` (the barrier). A
digest stands for the bytes, a fingerprint for the identity, SQL for its keywords outside
quotes and comments.

`MigrationLedger` is one process per operator: `Start` (settings), `LoadManifest` (the one
read of the manifest), for each component in turn `CheckDigest`, `CheckSql` and `CheckInventory`,
then `ResolvePlan`, then for each target `Project` (copy, rechecking digests), the external tool
(`ListPending`, `ApplyFile`, `RecordVersion`), `TargetDone`; then `VerifyStore`,
`VerifyAuth`, `SeedCredentials`, `RequireUsable`. `EditFile`, `ReviseManifest`,
`ReplaceBindings` are people at work meanwhile. The tool is external: a file's transaction
commits before its version is recorded, so a crash between the two leaves tables whose
version is missing, and every later run on that database is refused by the tool: a person
has to repair it. `HistoryIsProfilePrefix` allows this state and nothing beyond it. It is a
property of operators who bring one ledger to a database, or one and another that it begins
(`OneLedgerPerDatabase`). Nothing in the code enforces that: when a run of the graph's own ledger
dies before it records its file, and the binding document is then replaced by one for the
combined ledger, the next run finds no version and creates the credentials' tables beside the
graph's, with neither file recorded.

The validation reads each file twice, once for its digest and once for the SQL guard, and lists
the directory afterwards; the projection reads it a third time and compares the digest only. An
edit before the second read that is taken back after it leaves a manifest that pins bytes no
guard has seen, and these are executed. The docstring of `_validate_migration_sql` calls the
guard heuristic and the digest the authority, and that is what `OnlyReviewedBytesRun` says: the
bytes executed are those the operators pinned, always; their SQL is guarded when the tree was
at rest during the run's validation (`settled`). A report
names the profiles done, like the command's; the model adds what `ProgressIsTrue` compares
them with, the files of the profile and the URL it was brought to.

### `RuntimeAuthority`, `MigrationPreflight` and the code

A catalog is a set of facts about roles and objects. `Held`, `Inherited`, `Settable`,
`Assumable` are what PostgreSQL makes of them; `SafeRole`, `RlsCatalog`, `RoleGrants`,
`AuthPosture`, `Schema`, `Restricted`, `Memberships`, `LoginGrants` are the queries, one
operator each, in the order in which the code asks them. One table stands for all with the
same contract. `Closure` adds to a set of roles those that its members are members of
(`Beyond`) until there are no more, as the recursive queries of the code do.

`MigrationPreflight` is one run: `Start` (permit, head, target), `Connect`, `ProveRoutes`,
`ReadHistory`, `ReadCatalog`, one `Query` at a time for compatibility and authority,
`GateParity`, `Parity`, `Report`. History and catalog are statements of one READ COMMITTED
transaction. Until the report the worktree moves, the permit expires, a version is recorded,
an administrator changes a fact (`Administer`), or the database is restored under a new OID.
`lasting` and `met` are history variables: what deviated all the time, and at some time.

A failing dependency is not the same everywhere. The inspection connection, the account store and
the command line tool leave their check `NotEvaluated`. The queries of the graph and the coordination
store are asked inside `verify_database_schema` and `verify_runtime_database_authority`
(`src/data/database.py`), which turn every exception into a `SchemaCompatibilityError`: the
check reports drift, and `run.failed` remembers for the properties that this is why. Only what
lies outside these two functions (an engine that cannot be made, a failing `dispose`) leaves such a
check not evaluated.

### `AccountStore` and the code

Three processes share the accounts. The API starts: its thread takes one connection per
statement (`CreateConnection`, `Register`, `Execute`, `Release`: the operation guard of
`api/database.py`), its loop settles or gives up (`GiveUp`, `CloseTaken`, `EndDrain`). Once it
serves, `Login` issues tokens and a request passes `GetCurrentUser`, `GetActiveUser`,
`GetOperator`, between which others run. The operators' command binds the helpers to a
target of its own (`EnterBinding` to `LeaveBinding`); `managers`, `db`, `open` are the module
globals of `api/database.py` and the connections there are. `Administer` is somebody who
disables or removes an account. `enabled` is a history field.

* Only the PostgreSQL branch of `get_connection` (`database.py:700-715`) registers its connections
  with the guard, and this is the store whose verification is modelled. That of an SQLite store
  (`:716-729`) registers nothing: a cancellation has nothing to close and the thread runs on.
* `GetOperator` compares names without the whitespace around them (`Stripped`), as
  `get_current_rebuild_operator_user` does; accounts are looked up and seeded under the names as
  they are.
* `LeaveBinding` may fail: when the connection of the bound target cannot be closed
  (`database.py:576-579`), nothing is restored and the exception ends the command (`broken`).

## 3. Runs

| Run | Instance | What it shows |
| --- | --- | --- |
| `coordination` | two attempts, one reconciler, TTL 1, no skew | the safety properties, the inductive invariant and the refinement of `RebuildJobs` |
| `coordination_live` | one attempt, one reconciler a tick ahead, TTL 2, fairness | with clocks that disagree attempts end, leases come back, orphans are recovered |
| `runtime` | two requests, one foreign rebuild, one read at a time, fairness | the inductive invariants of process and reads, synchronisation only forward; REBUILDING ends, the label catches up |
| `assertions` | two assertions that conflict, one accepted and published; two transactions, clocks that differ by one | streams that resolve, no gap in a supersession, the inductive invariant with its closed past, and the refinement of `AssertionBook` |
| `assertions_live` | three assertions, two accepted; two transactions and a publication, fairness | every transaction ends |
| `startup` | two replicas, one rebuild with heartbeats, TTL 1; one replica degraded, one redeployed | a start resets nothing, resets hit the silent and the late only |
| `startup_live` | two replicas, one rebuild that beats once, TTL 1; one replica degraded; fairness | replicas start beside a serving peer |
| `claim_one_owner` | two replicas, a rebuild on each | a violation: two RUNNING jobs at once |
| `store` | three assets, one event, two predicates of one edge type, three assertions, two legacy rows | what is stored can be loaded, explained, saved again, and is not emptied |
| `migration` | two runs and an edit, or one run and two edits; two operators, five databases | prefix histories, true reports, provisioned targets, reviewed bytes only, guarded when the tree was at rest |
| `preflight` | one project, combined or graph profile, two changes | honest passes, drift only with a cause, exact authority |
| `accounts` | two names, one with a blank, one request at a time, one binding | the verification's cancellation, admission, the binding |

*Bounds of coordination and runtime.* Two attempts and a third party are enough for every
pair of actors and for a row that changes hands twice (attempt, pass, attempt). A TTL of one
tick gives the three cases of a lease (fresh, on the boundary where neither `<` nor `>`
holds, expired), which is all a guard distinguishes; with skew the boundary differs between
hosts. Two requests are what it takes for one to run and a second to be admitted and queued
after a disconnect, or refused; a restart ends those under way. A process that has restarted,
or has just started without a label (an error of `BootLabel`), finds an earlier local rebuild as it would
find a foreign one, so one foreign rebuild is enough for one to be found and another to overtake its
load. `MaxOther` bounds foreign rebuilds only, and each request makes at most one, so `durable`
is bounded without a cut in the guards of the program. One read at a time is all there is: its handler occupies the event loop. Attempts
are symmetric in these instances because all of them have the same skew; the liveness runs
use no symmetry. The proofs cover all values.

*Bounds of assertions.* In `assertions` the second id is free, so it is the rival a proposal,
a supersession and a publication all want; two transactions and a publication are three
actors on two rows. One earlier publication and one more put an event before, between and
after two `known_at`s. The database clock starts at 2, past the times of the seed (0 and 1),
and reaches 3, with a lag of one, so that clocks stand still, fall behind and overtake;
`MaxTime = 4` lets the "one after the floor" branch run, and run out (`datetime.max`).
Evidence is registered for the second assertion (`Documented`): its link is stamped and
locked as any event is. `MaxEvents` only refuses requests for a stream of three events,
enough for a dispute or a retraction or a supersession of each.
`assertions_live` has no ticks, because no lock depends on time, and no decisions, which
take the locks `register` takes; it needs a second accepted row and edges inserted
against the order of the ids (`EdgeRank`), without which there is no deadlock to break:
edges are ordered by the ids of their assets (`_edge_sort_key`).

*Bounds of startup.* Two replicas are one that leaves a row and one that meets it; a third
adds nothing a gate tells apart, since it sees one lock row and whether there is none, one
or several jobs. There is one builder: with two, a rebuild that stalls past its lease adds a
second RUNNING job (`claim_one_owner`), and then every look is an `evaluation_failed`, which
blocks every start and every reset for ever (`rebuild_drift_evaluator.py:64`), so
`StartsBesidePeer` does not hold. It holds beside a *serving* peer only: when every replica
is down and a RUNNING job is left, no start passes. A healthy process takes less than one
tick from its lock to the commit of its reset; before `Stabilize` it may take any time.
`startup_live` leaves out the heartbeat thread and the orderly shutdown (`startup` has both),
which keeps its graph within reach of the liveness check; a rebuild whose owner dies with its
first heartbeat, or before it, is what a start has to get past.

*Bounds of store.* `a` and `b` are in one sector and linked as issuer and bond, so that a rule,
a predicate from `b` to `a` and a bidirectional one meet on one pair and one edge type; `c` is
an asset the sample lacks. The two legacy rows point at each other, one for both directions.
Three assertions allow a conflict of keys, an ambiguous pair and an assertion about an absent
asset.

*Bounds of the operators' runs.* `migration`: seven configurations (one database under two
spellings of its URL, an alias that leads elsewhere, three databases, credentials only,
local stores, hosted) and seven documents (five as they should be or mislabelled, one that
others may read, one with a malformed identity). Settings agree with the documents about
identities, except for the one alias; the first database is aimed at by the credentials' ledger
and by the combined one, which it begins, and each of the others by its own (TLC evaluates
`OneLedgerPerDatabase`). Each component has one file, so a combined ledger has three. `MaxTotal`
bounds runs and edits together: two runs, which may overlap or follow each other, with one edit,
which is enough to separate what was validated from what is projected and to replace a binding
document between runs; or one run with two edits, which is what it takes to show the guard another
file than the two digests see, since each run validates for itself. One content is refused by
the guard; the two operators are symmetric. `preflight`:
two changes of eleven kinds (grants, memberships, ownership, a policy, a superuser, an
administrator of a capability role, a foreign object), so one can mend what another broke; five
settings: a login per component, one URL for graph and coordination, one login behind two URLs
(verified with each as if it served nothing else, which the contract refuses), the graph alone,
and a stray inspection route; deviations of existing tables only. What roles that cannot log in are members of
is not counted as a deviation, unless they may grant a capability role. `accounts`: one verification query before the one for users,
one slot for a request, a token that lives one tick, one binding; the administrator is
configured without the blank that one of the two names has.

*Fairness.* Threads of a live process run (`WF` heartbeat, `SF` executor: a database session
that waits for a row lock gets it eventually, although the lock is taken and given back
meanwhile), the clock advances, and a reconciliation loop keeps passing. Its passes may fail
any number of times but not all at the same step for ever: this is what the `SF` conjuncts
on the successful outcome of each step say. Crashes, errors and cancellations are never
forced. In `RuntimeGraph` the event loop, the executor and startup get `WF`; the steps of a
synchronisation get `SF`, because a database error (`SyncError`), a local rebuild or a
restart interrupts them any number of times, but not the same step for ever; and
`<>[][~Restart]_vars` says that the process is not restarted for ever. A shutdown is never
forced, nor is a request or a publication. A read that has begun gets `WF`: its handler never waits. In `GovernedAssertions` a transaction under way
gets `SF` (`Proceed`), and so does the publication (`Publish`): PostgreSQL queues those who
wait for a row, so that a lock that is given back again and again is obtained at last. `WF`
on `BreakDeadlock` is the detector, which runs after `deadlock_timeout`. Requests and aborts
are not forced. In `StartupGate` the main thread of each replica (which starts, restarts and
reconciles) and the rebuild thread get `WF`, and the clock `SF`: it stands still only while a
healthy reset is under way. Faults, requests, heartbeats and `Stabilize` are not forced. In `AccountStore` the verification thread and the event loop get
`WF`: connecting and each statement of a guarded operation have a timeout, and every wait of
the loop is bounded.

Deadlock is checked except where the actors really finish: a migration command and a
preflight end, and so does everything in `accounts` when its clock has reached its bound. Where
`Tick` is always possible the check adds little.

*The claim.* `claim_one_owner` is the statement of
`docs/governance/state-machine-and-operating-authority.md` that only one active rebuild
owner may exist per graph persistence boundary. `_perform_rebuild_and_persist_sync` creates
and starts its job without another look at the lock, so a thread that stalls past its lease
after the gate adds a second RUNNING job to that of the new holder. The publication is not
in danger: its transaction renews the lease and holds the row (`SingleWriter`, proved).

## 4. Proofs

`RebuildCoordination_proofs` proves for any set of attempts and reconcilers, any TTL and any
skew, from the two assumptions on the constants (`LockAssumption`,
`CoordinationAssumption`):

* `Safety`: `Spec => []SafetyInvariant`, and from it `TypeCorrect`, `OneWriter`
  (`SingleWriter`), `WriterIsOwner`, `RecoveryIsCurrent`, `CancellationIsReal`;
* `OwnerPublishes`: the action property `PublishedByOwner`;
* `Refinement`: the job table is a `RebuildJobs`.

`SingleWriter` is not inductive. What makes it so is the link between the open
transaction and the committed row: an open transaction means that its owner is the holder in the
row (`WriterOwnsLease`), so two open ones have the same holder. To keep that, every
action that rewrites the row must wait for `LockRowFree`, or find the row its own
and its owner outside a transaction (`TxnWhilePublishing` says where transactions are open).
`OneRowWriter` does the same for the job row, with `TargetChosen` naming the row a
pass has locked; together they give `ResetHitsRunning` and the RUNNING half of
`WriterOwnsLease`. `NoJobYet` lets `CreateJob` be a step of the abstract table.
`CancelSignalSound` is preserved because `cancel_requested` only leads to `cancelled`.

`RuntimeReads_proofs` proves of the process alone (`RuntimeGraph`), for any set of requests and
any number of foreign rebuilds, from `RuntimeAssumption`:

* `Invariance`: `Spec => []RuntimeInvariant`;
* `ForwardOnly`: the action property `SyncMovesForward`;
* `ShutdownSticks`: the action property `StoppedStaysQuiet`.

`SyncMovesForward` is about one step, `SyncPublish`, that uses what four earlier steps
read. `SyncKnows` carries it: while the loop holds a loaded graph, *as long as the label
is still the expected one* the served graph is no newer than the loaded one. The
condition is the point. A local rebuild publishes its own number, which is either
another label, and then the comparison in `synchronize_runtime_graph` rejects the
synchronisation, or the expected one, and then `sync.expected <= sync.loaded` bounds its
graph (this needs `job` to be no newer than `durable`, `NothingNewer`, and the graph of a
rebuild and its label to be the same number). `StartsAlone` excludes a startup that would
write the graph under a running synchronisation, and gives
`ShutdownSticks` nothing to do: there a case split on the action is enough.

`GovernedAssertions_proofs` proves for any set of assertions and users, any number of
transactions, any clocks and any initial rows, from `AssertionAssumption`,
`SeedAssumption` and `PublishedAssumption`:

* `Invariance`: `Spec => []AssertionInvariant`;
* `PastIsClosed`: `Spec => []PublishedPastIsClosed`;
* `HandoverIsComplete`: `Spec => []HandoverHasNoGap`;
* `Refinement`: the committed rows are an `AssertionBook`.

`PublishedPastIsClosed`, which the run checks as a part of `AssertionInvariant`, speaks of committed rows, but a time is chosen when a
transaction writes and is committed later, maybe after more publications. So the
invariant says the same of the logs of open transactions (`TimesFollowPublications`),
with `seen` fixed when the time is chosen. It also says that `seen` is at most the number
of publications: the next one would otherwise be among those already seen, with a
`known_at` nobody compared with. Every floor contains the `known_at` of every committed
publication (`FloorTimes`) and `Stamp` exceeds its floor (`StampAfter`), which closes the
step. `RequestNamesRows` and `LogOfSuccessor` are there for the types: `HandOver` reads
the second event that the transaction has written for the successor, and what it reads is an
event only because the two steps before have written two.

What a transaction has read when it plans, and commits only steps later, is what the other
two theorems are about. `PlansStand` says that the plan still fits when it commits: a row is
held by one transaction and an inserted key belongs to one (`RowsExclusive`, `KeysExclusive`); the
log of every kind of request is the step of the book that it is going to be, on streams whose rows it
holds (`PlanStands`: a proposal alone, one move along the matrix from the state the stream still
has, or the three entries of a supersession, whose times ascend after the predecessor's last event);
and the key it has inserted names an empty stream (`KeyStands`). `HandoverHasNoGap`
needs in addition that a successor in a committed event exists. `ImplementsBook` maps
a commit to the move its log describes, a publication and everything else to a stutter.
That the times of every stream ascend strictly (`StreamsResolve`) is checked in `assertions` and not
proved.

`RuntimeReads_proofs` proves of the process with a read beside it:

* `ReadsRefine`: `ReadSpec => Spec`. A read changes nothing of the process, so
  `RuntimeInvariant` and the action properties hold next to it;
* `ReadsOwnProvenance`: `ReadSpec => []ReadInvariant`.

A read asks for its label after others may have published. `BindingKnown` carries the argument:
an object that is still served has the label it was taken with, because graph and label
are replaced together, so both branches of `Bind` give the remembered label; and no label is
newer than `durable`, so its publication is found.

`AccountStore_proofs` proves for any accounts, requests, statements, targets and settings of
the operators, from `AccountAssumption` (among others: the empty name stripped is empty) and
`SeedsAssumption`:

* `Invariance`: `Spec => []AccountInvariant`;
* `AbandonedStops`: `Spec => []AbandonedWorkStops`;
* `AdmissionSound`: `Spec => []AdmittedWasEnabled`;
* `BindingLeavesNoTrace`: `Spec => []BindingRestored`.

The first is one conjunct for each of the three processes. The startup's carries the second
theorem: while the loop cancels, a connection with a statement on it is among those it took
(`guard.taken`), so closing these is enough, and a thread that registers later
finds `cancelled` set. `AdmissionSound` says of an operator's request what the stripped comparison
gives, not that its account is the configured one. A request's account was enabled when its token was checked or
is so now, which needs the history field `enabled`. The command's conjunct says which connections are open *because of* which
binding; without it `LeaveBinding` could leave one that belongs to nobody.

`StartupGate_proofs` proves for any replicas, kinds of deployment and TTL, from `GateAssumption`:

* `Invariance`: `Spec => []StartInvariant`;
* `OnlySilentOwnersAreReset`: the action property `OnlySilentReset`.

The decision table is dealt with first: from what an evaluation sees and the kind of its caller,
what follows. A start passes only a block that is not the gate's, so `PassedUnderLease` needs
that a start has never seen a lease (`StartsHoldNothing`), and `JobsAreRebuilds` says who may have a job
at all. The second theorem is about `CommitReset`, three transactions after the read. `TargetsSilent`
carries what was read across them: while the lock row is the gate's, a heartbeat that arrives is
late by definition of the row, so either the age is still at least what was read or the beat was
late; the row of the lock cannot leave the gate and come back, since only `EnsureLock` takes it
(`LockStep`); and from UPDATE to commit the row lock keeps the owner out, of which
`ConfirmLease` needs only that the row was still the gate's (`TargetsRunning`, `OneJobWriter`).
That the job is not the gate's own follows from the two parts above: only a periodic pass
resets, and only a rebuild has a job.

`GraphStore_proofs` proves for any assets, edges, predicates, assertions and hand-written rows, from
`StoreAssumption` and `HandRowAssumption`:

* `Invariance`: `Spec => []StoreInvariant`;
* `LoadingIsStable`: `Spec => []LoadIsStable`;
* `PublicationsAreExplained`: `Spec => []GovernedEdgesExplained`;
* `GovernedStaysGoverned`, `OutagesAreRefused`: the action properties `LegacyStaysOut`, `NeverEmptied`.

What a load returns is determined by the tables, so the invariant is about these
(`TablesStand`, `PublicationStands`) and what it says of a load follows (`EdgesHaveNodes`). Rows with unique keys
load into edges with unique keys, though a legacy row gives two: the lemmas on `Load` say
which row wins. A published row points one way, so no row gives way and the governed ones are
the projection's. The binding of an edge is found by its key because `Overlay` refuses a
projection in which two edges share one.

`MigrationLedger_proofs` proves for any files, manifests, bindings, settings and databases and any
number of operators, from `LedgerAssumption` and `MigrationAssumption`:

* `Invariance`: `Spec => []MigrationInvariant`;
* `ProgressReportsAreTrue`: `Spec => []ProgressIsTrue`;
* `ReviewedBytesOnly`, `SuccessMeansProvisioned`: the action properties `OnlyReviewedBytesRun`,
  `SuccessIsProvisioned`;
* `HistoriesArePrefixes`: `OneLedgerPerDatabase` implies `Spec => []HistoryIsProfilePrefix`.

A run works from copies: the manifest it loaded, the plan it resolved, the bytes it projected. The
invariant ties each to what it was copied from. `ReviewedPlan`: the copy of the manifest is in
global order and is the one the operators' document pins, which is why the document is replaced
only between runs. What the validation has inspected (`Inspected`) is guarded for as long as no edit
was counted since it began: between the two reads of a file its content is then still the pinned
one, so that what the guard reads is what the digest was taken of. An edit ends this for good, and
`settled` keeps whether there was one. `LedgerExecuted`: the bytes are the manifest's for the
*whole* ledger of the profile, what is not pending any more is recorded in the target's
database, and so is every target before it in the plan. Versions are never taken back, so a
target that was done stays done whatever other operators run there; this gives
`ProgressIsTrue`, whose reports outlive the run. `VerifiedStands` says what has been verified of
the targets, and that tables do not vanish. The lemmas show that sorting by a
distinct key lists every migration once (`LedgerAssumption` makes the timestamps numbers,
`GlobalOrder` makes them distinct), and that a plan has one entry for every group of aliases,
each with a writable class. `MigrationAssumption` says of a manifest that it
names one file for a component, with bytes that exist.

`HistoryIsProfilePrefix` relates a database to ledgers, and no run knows which runs were there
before it. Its invariant (`Lasting`) speaks of all ledgers that documents and settings can aim at the
database (`Aimed`): every file whose tables are there belongs to one of them, and in each of them to which it
belongs what precedes it is recorded (`Follows`). Of the runs it says that their plans are aimed
(`Directed`) and that what is pending is in the order of the timestamps (`InOrder`), so that the file about to
be executed is the earliest one left, and the rest of the ledger before it is in the history.
For the other ledgers aimed there the hypothesis is needed: if theirs begins the run's, it asks
for less; if the run's begins theirs, nothing precedes the file there that does not precede
it here. At the end one ledger must be found for all the files: the combined one if it is aimed there,
and otherwise only one component's can be, since neither of two begins the other. The
hypothesis also says that revising the manifest renames no file, since the history is compared with the manifest
of the moment. Without it the property is false, as the example in section 2 shows; it is a
hypothesis of this theorem and not an assumption of the module.

`MigrationPreflight_proofs` proves for any roles and logins, permits, settings, catalogs and changes
of them, from `RoleAssumption` (finitely many roles; the capability roles are neither logins nor
other roles, and none is called `PUBLIC`) and `PreflightAssumption` (a setting names URLs whose login is
known; the owner of the tables is no login; the manifest's timestamps are distinct and follow the
receipts, which `load_and_validate_manifest` checks before a run gets this far; a change is of one
of the kinds a catalog has facts of, and only roles have members):

* `ChecksInTurn`: `Spec => []PreflightInvariant`;
* `DriftIsFirst`: `Spec => []DriftMasksNothing`, the half of `DriftIsProven` that is about the report;
* `DriftIsWitnessed`: `Spec => []DriftIsProven`;
* `VerifiedAuthorityIsExact`: `Spec => []AuthorityIsExact`;
* `PassMissesNothing`: `Spec => []PassMissesNothingEvident`, what remains of `PassIsHonest` when
  nothing is known of the changes.

`PreflightInvariant` is inductive. What remains to be queried belongs to one check, and a check that
has not had its turn is `NotEvaluated`; so the runtime checks find nothing decided when the
catalog has been read, and parity is reached with everything else passed. That the lists of
queries are of one check each and never empty, for every set of components and every sharing of
logins, is what the lemmas on `CompatibilityTodo` and `AuthorityTodo` say.

`AuthorityIsExact` speaks of what a session *can do*, which no query asks: each asks for one
thing, of one role. The queries pass on an arbitrary catalog. Since a role can become itself
and no elevated role is assumable, the login is no superuser, and what it can become is what it
inherits or can set: itself and the roles of its components (`Memberships`). The login holds its contract
(`LoginGrants`; for the credentials, whose sequence no query of grants names,
`Restricted`), each of its roles no more than that (`RoleGrants`), and none anything foreign
(`Restricted`). `ClosureIs` says what the recursion computes: the smallest set of roles that contains the
role and is closed under the memberships. It is proved by a minimal counterexample: of the sets from
which the recursion is wrong, one with the fewest roles left has a larger one after it that is wrong too.

`DriftIsWitnessed` says that a drift has a cause: whoever reports it has seen the database deviate, or
could not ask. Its invariant (`Witnessed`) is that whatever deviates now has been noted in `met`, that what is
still to be queried is the rest of the two lists of the plan (`Scheduled`), and that a check in
drift is one of `run.failed` or has something noted. The step of a check that finds drift needs the converse of what
the check is for: a catalog in which nothing deviates passes it. For the queries this is a statement
about an arbitrary catalog that agrees with `Provisioned` in everything but the memberships of
roles that cannot log in, and it is proved query by query: in such a catalog a login assumes itself and its capability
roles only, a capability role itself only, nobody is elevated, and what each holds is the contract.
That a login serves what it is verified with is part of it: of two URLs with one login, each
is refused by the other's grants, and the model counts that login as the deviation (`Shared`).

`PassIsHonest` cannot be proved in the same way, for nothing holds the database still: of a
deviation that lasts, the sign that a query looks for may be masked, while it looks, by another
that comes and goes. `PassMissesNothing` is about those that nothing can mask, because the check that covers them shows the
fact itself (`Evident`): a version, a managed object or privilege, an object of neither the
profile nor the provider; a capability role that logs in, is a superuser, is a member of anything or has an
administrator; a login that is a superuser, owns its relations, or is a member of a role that is not its
own. Its invariant (`Honest`): what lasts deviates now, and nothing that lasts is of the kind
that a check that has passed, or an authority query that has held, would have shown.

Only model-checked:

* the liveness properties (fairness and ENABLED are outside the prover's reach);
* `PassIsHonest` beyond `PassMissesNothing`. A missing membership, for one, is found because the
  login lacks privileges, and with enough changes at the right moments others could stand in
  for them whenever a query looks. The run's `Deviations` are single facts, at most two
  changes a run; the property is one of these and not of all catalogs;
* the functions of `RecoveryDecision` and `RuntimeAuthority`, which
  are evaluated for every input of their instances. What is proved of `RecoveryDecision`, `LedgerPlan`
  and `AssertionLifecycle` are the lemmas the theorems above rest on.

## 5. Not modelled, and why

* Two databases (`coordination_database_url`): the default is one. With two, the renewals of
  a publication are committed elsewhere and later (`graph_admin.py:1673`), and the argument
  of `SingleWriter`, which rests on the row lock of one transaction, does not apply.
* The fencing token: written, never compared, and restarted when the row is deleted
  (`distributed_lock.py:328`).
* Checkpoints: a job is created for each attempt, so none is ever found.
* SQLite in the coordination modules: it serialises writers more strictly than the row locks
  there. `GovernedAssertions` is PostgreSQL only: SQLite ignores `FOR UPDATE`.
* In `GovernedAssertions`: the unique index on assertion and sequence and the second
  validation in `_append_event`, which the row lock never lets bite; the predecessor itself
  being created between the listing of the graph and its locking; several pieces of evidence
  for one assertion; the client's parameters, which are chosen when the code looks at them;
  effective windows, the assets of a graph and method registration, which together are
  `EligibleSet`; the collisions of runtime relationships, which fail the projection as a
  conflict does (they are in `GraphStore`); hashes and redaction.
* In `GraphStore`: prices, other columns, layouts, metrics, formulas, charts and schema
  reports, which are functions of one graph; who publishes when.
* In `MigrationLedger` and `MigrationPreflight`: the text of SQL and of URLs, JSON parsing,
  connection set-up; the command line tool's own work beyond its use here.
* In `AccountStore`: password hashing, cookies and rate limits; the verification of an SQLite store.
* Serialization failures of REPEATABLE READ are `Error` steps of the publication.
* The caching of `reset_graph`, `set_graph` and graph factories: tests and administration
  use them, the hosted process does not.
* The answer a client gets: a rebuild that the runtime rejects after its commit is reported
  as failed although its job is SUCCEEDED (`graph_admin.py:1806`).
* That the latest job is chosen by `completed_at` of the hosts (`repository.py:1573`):
  `RuntimeGraph` takes the order of the commits, which is the same with synchronous clocks.
* The SLO evaluator, metrics and middleware only observe; the Gradio application and the
  frontend show what the read endpoints return; the maintenance scripts work on the
  repository.
* HTTP statuses, audit logs.

## 6. Where code and documents part, without a run

Met while modelling; each is in the models as the code has it, and none is a property.

* A disconnected client's rebuild may be recorded as failed by the handler and as succeeded
  by the callback (`graph_admin.py:580-630`, `672-733`).
* After the publication of the graph with its overlay the pipeline publishes the graph as
  built once more (`graph_admin.py:1056`), so that the instance that rebuilt serves it
  without the governed edges (`WorkPublishBuilt`).
* `graph_lifecycle.py:743` loads the tables after the latest job has been read: a
  publication between them is served under the label of the one before, until the next pass.
* What a rebuild has fetched goes to the cache file before the database accepts it
  (`graph_lifecycle_providers.py:310`): a partial answer that the foreign keys refuse is
  what the next rebuild reads when the file also serves as the graph cache (`FetchLive`,
  `ReadCache`).
* `FreshOwner` in the reset repeats what the evaluator has decided; without skew it never
  decides alone.
* A hosted replica never degrades because of a graph that fails to load:
  `graph_lifecycle_providers.py:187-190` raises a `RuntimeError`, and
  `app_factory.py:311-325` catches database and OS errors only.
* With an in-memory graph URL the startup reconciliation fails, where `load_persisted_graph`
  would skip it with a warning. `app_factory.py` (near line 105) does not strip
  `coordination_database_url`, `graph_admin.py` and the background tasks do.
* Graph and coordination as two aliases of one database cannot be planned: an alias group is
  one target or all three.
* `postgresql_drift.py:853-855` speaks of one snapshot; the transaction is READ COMMITTED
  and each of its statements has its own.
* The docstring of `_connect` (`api/database.py:618`) promises to follow a changed
  `DATABASE_PATH`; it does so only for a cached connection.
* A start that loads the graph before a publication and asks for the latest job after it labels
  the older graph with the newer job (`BootLoad`, `BootLabel`); nothing corrects this before the
  next rebuild. `LabelCatchesUp` is about the label and holds all the same.
* `docs/governance/state-machine-and-operating-authority.md` (sixth invariant) and
  `docs/testing/distributed-hosting-invariants.md` say that a RUNNING job with a fresh heartbeat from
  another worker is not reset. A reset judges the copy of the job that it has read
  (`recovery_gate.py:585`, `526`), and its UPDATE (`:535`) does not ask for the heartbeat again. An
  owner that stalls past its lease, so that the reset may take the lock, and then writes its
  heartbeat between the read and the UPDATE loses its job with a heartbeat just written. What does
  hold is `OnlySilentReset`: such an owner was late, the lock row had already passed on when it
  beat. The second look at the lock is what this rests on (`ConfirmNothing` drops it).
* A comment in `_runtime_authority` (`postgresql_preflight.py:733`) says that dependency and provider
  failures are no proof of drift. A graph or coordination store that does not answer one query is
  reported as drift although nothing deviates (`src/data/database.py:1031-1034`, `1169-1172`). What
  does hold is `DriftIsProven`: no other failure is taken for drift, and a drift in a check
  without such an outage comes from a deviation that was there during the run.
* The docstring of `get_current_rebuild_operator_user` (`api/auth.py:631`) allows only the configured
  administrator. Names are stripped for this comparison and nowhere else, so two accounts that
  differ by surrounding whitespace are both operators; `AdmittedWasEnabled` says so.
* Startup accepts a credential store whose users are all disabled; the migration command
  requires an enabled one.
* The verification of a login that serves the graph only looks at its own relations and the
  credentials; what it may do to the coordination tables is not looked at.
* The explanation of a published edge may show another state than the projection saw, when a
  decision stamped before `known_at` commits between the snapshot and the insertion of the
  edges. `PublishedPastIsClosed` bounds this to transactions under way when the publication
  committed.

## 7. Plan

Done: all modules above. Left, in this order:

1. The separate coordination database, as a second lock row whose transaction commits after
   the domain's.
2. Several pieces of evidence for one assertion, and the order of `completed_at` with skewed
   clocks.

# A TLA+ development for Trestle

Trestle is a single-binary backend server: administrators define collections,
clients create and query records over HTTP, and every change has durable
consequences (an event, an audit fact, webhook and Lambda jobs). It runs
standalone on SQLite or PostgreSQL, or as a cluster in which every node applies
a raft log to its own SQLite database.

This directory holds TLA+ modules translated from the Go source, TLC
configurations that check them on small instances, and TLAPS proofs that the
safety properties hold for every value of the constants. `PROJECT.json` maps
every definition to the lines it models.

## 1. Inventory

| Component | State it keeps | Operations | Interacts with |
|---|---|---|---|
| Replicated state machine (`replicated/`) | product tables, `_trestle_meta` (durable index, operation digests), applied map and failure flag in memory | `Propose`, `Apply`/`materialize`, `NewFSM`, `Snapshot`/`Persist`, `Restore` | raft (gantry-core, hashicorp/raft) calls it; handlers propose through the controller |
| Job queue (`jobs/`) | `_trestle_jobs`: status, attempts, available_at, lease | enqueue, tick (release, claim, execute, finish), cancel, retry | records enqueue; webhooks and functions execute; leader gate; transitions through the log in a cluster |
| Collections (`collections/`) | `_trestle_collections`, `_trestle_fields`, one physical table per collection | create, update (rebuild), delete | records, rules, state machine |
| Records (`records/`) | rows of the physical tables, `_trestle_record_idempotency` | create (keyed, batch), update with version, delete, list, bulk | events, audit, jobs in the same transaction; state machine in a cluster |
| Events (`events/`) | `_trestle_events` | emit, replay from a cursor, SSE stream | records, clients |
| Audit (`audit/`) | `_trestle_audit` | append, list | every administrative handler, state machine |
| Webhooks, functions | definitions | create, enable/disable, deliver | jobs, state machine |
| Files (`files/`) | `_trestle_files`, `_trestle_file_deletions`, `.staging`, object store | upload, download, delete, recovery worker, orphan cleanup | disk or S3; backup |
| Application users (`appauth/`, `appreg/`) | registration policy, users, invitations, access requests, sessions | register, invite, accept, request access, approve, reject, reissue, log in, refresh, log out, disable | records' access rules, audit |
| Administrators (`adminauth/`, `identities/`) | accounts, roles, sessions, service and personal credentials; the account model in memory | set-up, log in, change password, manage users and roles, issue and revoke credentials | all admin handlers |
| Rules and queries (`rules/`, `query/`) | one expression per collection and operation | evaluate, validate | records, events |
| Pairing and transport (`cluster/`) | members, invitations, join requests (inbound, outbound), nonces | invite, join, decide, poll, enable, revoke, remove, rotate, signed request | HTTP between nodes |
| Propagation (`propagation/`) | proposals and applied configuration | propose, apply | gantry-core manager, collections |
| Backup (`backup/`) | archives, staged restore, portable bundles | back up, restore to a directory or a database, migrate | store, files |
| Store (`store/`) | connections, migration history and its mirror, dialect | open, migrate, seed, transaction, write serialisation | everything |
| Runtime, server, launcher, service, configuration | wiring and start-up | join guard, forwarding to the leader, routing | everything |

What is hard to test here:

- a crash between any two statements, followed by a replay of the whole log over
  a database that is ahead of it;
- proposals checked in the tables of a lagging replica and applied after other
  operations;
- a caller's retry under an operation id that was rejected before;
- a snapshot read table by table while entries go on being applied, and replay
  over what it restored;
- a job executed twice because its lease ran out, a deposed leader's claim, a
  result written after a cancellation, and a job that nobody looks at again;
- two tables that must agree (records and idempotency rows, operations and
  their events, batches and their jobs);
- checks and writes of concurrent requests that one connection serializes on
  SQLite and that only row locks serialize on PostgreSQL (policy changes,
  invitations, decisions, the last administrator, join requests);
- storage and database that cannot change together: uploads, deletions, backups
  and migrations cut off between two of their steps;
- a model in memory that is read in several queries beside the changes it should
  show;
- answers that are lost, repeated or late, and clocks that disagree, between
  nodes that pair; copies of one signed request that are authenticated beside each
  other while nonces are purged.

`PROJECT.json` lists these as hazards, each at the line where it bites.

What makes each component correct: for the state machine, every replica's
durable state is the one the log defines at its durable index, consequences are
exact, cursors portable; for the queue, a claim excludes, attempts are bounded,
everything settles; for records and collections, versions move by one,
idempotency keys point at live records and a schema change never loses a
neighbour's data; for events, no client misses one; for files, no row without
an object and no object for ever without a row; for accounts, nobody gets in by a
way that was closed and what is revoked stays revoked; for administrators, one
always remains; for pairing, an invitation admits one peer and both sides agree;
for opening a database, no crash and no neighbour makes it unusable; for backup,
an archive is whole and no deployment is imported twice.

## 2. Modules

| Module | Models |
|---|---|
| `ConsensusTables` | The product tables and every operation of `materialize`, as operators from tables to an outcome (`ok`, `conflict`, `fatal`) and new tables. |
| `ReplicatedFSM` | The cluster: proposals, the committed log, one replica's `Apply` with each of its returns, crash and `NewFSM`. |
| `ReplicatedSnapshots` | Extends it with `Snapshot`, the stepwise `Persist`, `Restore`, snapshot installation and restart from a snapshot. |
| `JobQueue` | The worker loop, standalone and replicated, with leases, crashes, elections and the administrator. |
| `RecordRequests` | The record handlers of a standalone node on SQLite or PostgreSQL, request by request, and a subscriber of the event stream. |
| `AppAccounts` | Registration, invitations, access requests and sessions of application users as concurrent requests on either database. |
| `AdminAccounts` | Set-up, sessions, passwords, users, roles and credentials of administrators, and the account model in memory. |
| `FileLifecycle` | Abstract: the life of a file, absent, available, deleting, erased. |
| `FileStore` | Uploads, deletions, recovery and cleanup, with crashes and storage failures; implements `FileLifecycle`. |
| `SchemaStartup` | Opening a database: history, mirror, migrations and seed, by several processes and releases. |
| `Backup` | Extends it with archives, restores and migrations beside a working server. |
| `Pairing` | Invitation, join, decision and poll between nodes, membership changes, signed requests. |
| `ReplicatedFSMProofs`, `JobQueueProofs`, `FileStoreProofs`, `AppAccountsProofs`, `AdminAccountsProofs`, `PairingProofs`, `BackupProofs`, `RecordRequestsProofs` | TLAPS proofs about the module of that name; `ReplicatedFSMProofs` covers `ReplicatedSnapshots` and `BackupProofs` covers `SchemaStartup` too. |
| `MC_*` | Instances for TLC. |

### ConsensusTables (`replicated/fsm.go`, `collections/physical.go`)

`tables` is a record of sets of rows, one per SQL table. Each function of
`fsm.go` that runs inside the transaction is an operator of the same name:
`applyCollection` with its rebuild of the physical table, `deleteCollection`
with the foreign-key cascade, `putRecord`, `deleteRecord`, `emitEvent`,
`emitAudit`, `enqueueJobs`, `applyJobClaim`, `applyJobComplete`,
`applyJobReleaseStale`, `applyJobCancel`, `applyJobRetry`. A `conflict` is the
code's `semanticConflict`; every other error is `fatal`. Because the code
rolls the transaction back, an outcome other than `ok` carries the old tables.

Values are abstract. A collection has a *shape*: `plain` and `unique` (one
field, without or with UNIQUE) or `empty` (no fields), which is enough to tell a
rebuild that drops a column, a rebuild that fails on duplicates, and a column
that does not exist. Webhooks and functions are one kind of definition (a
*hook*), for the state machine treats them alike. Dedup keys are pairs of
operation id and ordinal in the batch, as in the code; event sequence numbers
and audit ids are the code's `MAX + 1`.

### ReplicatedFSM (`replicated/fsm.go`, `replicated/controller.go`)

`log` is the sequence of committed entries with their leader's timestamp; raft
is external and is just this sequence. `db[r]` is what replica `r` has on disk:
the tables, the durable index and the digests of applied operations. `mem[r]`
is the volatile FSM: raft's position `next`, the `applied` map, `index`, the
`persisted` index read at start and the failure flag.

`Propose` is a handler that has looked at its own replica's tables and calls the
controller; `Lose` is a forwarded proposal that never commits; `Commit` appends
one. `FSM.Apply` has one action per return: `ApplyFenced`, `ApplyReused` (known
id, other digest), `ApplyDuplicate` (with the index update outside a
transaction, which may fail), `ApplyReplay`, `ApplyMaterialize`,
`ApplyConflict`, `ApplyFatal` and `ApplyError`. `Restart` is a crash followed
by `NewFSM`, possible in every state.

`canon` is an auxiliary variable: `canon[i]` is what the first `i` entries mean
to a replica that never restarts and never meets a database error.

### ReplicatedSnapshots (`replicated/fsm.go`)

`Snapshot` copies index and map on the apply goroutine; `PersistNames`,
`PersistDefinition`, `PersistRecords`, `PersistEvents`, `PersistAudit`,
`PersistJobs` and `PersistHooks` are the queries of `Persist` in order, each a
step that other steps may come between. `RestoreTables` is
`replaceConsensusTables` after the collections and records have gone through
`applyCollection` and `putRecord`. `have[r]` is the length of a replica's own
raft log, needed to say when raft installs a snapshot. A replica that cannot
restore its newest snapshot does not start.

### JobQueue (`jobs/handler.go`, `replicated/fsm.go`)

A worker moves through `idle`, `scan`, `claim` (replicated), `execute`, `read`
(standalone `finish` reads the attempts in a statement of its own, whose error it
ignores: attempts and maximum are then both zero, which reads as used up) and `write`.
Time is abstract: `queue` is the order of `available_at` among jobs whose
`available_at` has passed, `Ripen` ends a backoff, `Expire` a lease. `Elect`
moves the leader gate while the old leader may be anywhere in its tick.
`reopened` is an auxiliary count of releases and manual retries.

### RecordRequests (`records/handler.go`, `events/handler.go`)

Each concurrent request walks through its handler: the lookup of its key and the
replay of its record, or the read an update merges into, both outside the
transaction; then `Begin`, the row's INSERT, UPDATE or DELETE, the event with its
jobs and audit fact, the key, `Commit`. A batch repeats write and emit. On SQLite
an open transaction holds the only connection, so everything else waits. On
PostgreSQL transactions overlap: `WaitsFor` says who waits for whose row or key,
`Victim` is its deadlock detection (external), and sequence numbers are drawn
before they are visible and not given back. `Abort` is a client or process that
goes away before the commit, `CommitUnseen` one whose answer is lost. The
subscriber reads pages by cursor and may lose its connection inside one.
An If-Match version is one the client can have seen: `saw` is the event by which it
knows it. A batch has at least one record (`handler.go:384`). Field validation is left out:
the requests are valid, and the schema does not change.

### AppAccounts (`appauth/handler.go`, `appreg/service.go`)

A request is a process. What it reads before it locks anything is one step
(`RegisterLock`, `AcceptRead`, `SubmitLock`, `ApproveLock`, `ReissueLock`,
`LoginRead`, `RefreshRead`, `DisableScan`), what it writes and commits another
(`Register`, `Accept`, `SubmitAccessRequest`, `ApproveRequest`,
`ReissueInvitation`, `Issue`, `Rotate`, `Disable`). `conn` is SQLite's only
connection, `locks` are PostgreSQL's row locks on the policy and on an access
request. `Abort` is a client that goes away, `Elapse` the lifetimes that end,
`ListSweep` the sweep of old requests that listing and submitting do, at most
`CleanupBatch` rows a time. A session's chain is the login it descends from;
`Authenticate` is the check of an access token, with the look at the user.
`users[e].under` and `requests[r].under` are auxiliary: the policy at the commit.

### AdminAccounts (`adminauth/`, `identities/handler.go`)

`SetupCount` and `SetupCommit` are the first set-up, over HTTP or from the
command line, the latter in another process. `Authorize`, `BeginMutation` and
`CommitMutation` are an administrative change: the session is looked up in the
database and the capability in the account model, the change is checked
(`CanDemote`) and made in a transaction. After the commit, at every login and for the
set-up status the model is read again, in autocommitted queries of which other
changes and reloads may come between any two: `LoadAccounts` (accounts without
roles), `AccountRoles` (one for each account), `LoadRoles`, and `Install`, which
replaces the model; `load[p]` is what a reload has read so far. gantry-core's model is
external and is a copy of the tables. Whether its `Reload` lets two callers read at
once cannot be seen in this repository, so `exclusive` is chosen at the start and both
cases are checked and proved. `changes`, `fresh` and `missed` are auxiliary: the number
of committed changes, the one after which the load of the installed model began, and
the last one that nobody in this process reloads after. A password is a number that
grows with every change, and a session remembers the one it was born under.

### FileStore and FileLifecycle (`files/`)

An upload reads the sum of sizes, stages its bytes, puts the object and inserts
the row; a deletion marks the row and records an intent in one transaction,
deletes the object and settles the intent; the worker adopts deleted rows without
an intent, selects the pending ones and carries each out; the cleanup reads
the keys, lists the objects and removes those it does not know. Between any two
of these steps the process may crash or the other requests may run, and storage
and database calls may fail, some of them after they took effect. A crash keeps rows, intents, objects and staged bytes; `Restart` is the
recovery before the first request.

`FileLifecycle` says what this is for. The refinement mapping `Status` reads a
file's state off its row, its intent and its object: a deleted row is *deleting*
until object and intent are settled. `FilesLive` is `FileLifecycle!Spec` under
this mapping, with the fairness of `Erase`: a recorded deletion is carried out.

### SchemaStartup and Backup (`store/`, `backup/`)

A process that opens a database takes PostgreSQL's advisory lock (`Lock`), reads
the history, compares SQLite's `user_version` (`ReadMirror`) and applies the
missing migrations one transaction at a time (`Apply`); the identity row that
`ensureIdentity` adds at the end is left out. Three versions stand for
the 24: the foundation, the registration policy, whose seed depends on the
version found at the start, and the administrators' roles. `fresh`, `unmarked`
and `disturbed` are auxiliary: databases created here, that came without a
mirror, and whose set-up was interrupted or shared.

`Backup` composes this with a server at work on `source` that makes an archive in
five steps (snapshot, portable export, list of files, their contents,
publication) while it goes on writing, and with operators who restore into a
directory, import into the `target` or migrate to it. An archive holds the objects of
local storage only (`storage`, `handler.go:101`). Operators may also bring the bundle of
another deployment (`Foreign`) to the same target. The databases that several
processes can open are opened by the steps of `SchemaStartup`; a restored copy that
nobody else sees is migrated in one (`Upgraded`). `Imported` is what an import makes
of a database: the rows come `Beside` those that are there, `importRoles` replaces
roles and assignments, and `RestorePolicy` revokes sessions and invitations and adds
the notices of a cluster. `owners` is whose administrators a database holds: an insert
fails on an equal key (`Collides`), which two bundles of one deployment always have in
common and those of two have not, unless numbered events or audit rows happen to meet
(`MayCollide`). `MigrateVerify` comes after the commit and ends in `ok`, in `mismatch`, or
in `unverified` when the second export or its validation fails; `verdicts` records the
outcome with the target as it then was.

### Pairing (`cluster/`)

`Invite`, `BeginOutbound`, `SubmitJoin`, `DecideJoin`, `PollJoin` and
`CollectOutbound` are the handlers of the two sides. A handler arrives, when the
clock is read and, on PostgreSQL, the row, and later commits; `raced` collects
the rows for which two such transactions crossed on PostgreSQL, where the
row counts of the updates are not looked at. `Lose` is a lost call or answer.
A secret is named by the request and the side that drew it. `Do` signs a request
with the sender's clock, which is off by up to `ClockSkew`. The receiver works in
statements of their own, each with a reading of the clock: `Authenticate` checks time,
member and secret, `PurgeNonces` deletes old nonces (or fails, which is ignored),
`InsertNonce` refuses a nonce that is there or whose member has gone, and lets the
request in otherwise; `Drop` is a copy given up in between. Copies of a request
(`auths`) are at work beside each other and beside joins, revocations and removals, which
take a member's nonces along. Times are stored as text in RFC3339Nano, which drops
trailing zeros, so that within one second the order is either one (`Tied`). Identities,
endpoints and protocol versions are taken as given.

## 3. Runs

| Run | Expect | Shows |
|---|---|---|
| `fsm_tables` | pass | Two replicas that lag, crash, replay and meet a database error, in one of two stories (`OneStory`): creates, a batch, an update, a delete, a webhook definition and a schema change; or collection deletes, a rival definition of the same name and keyed creates that share an operation id. `DurablePrefix`: the disk is the log's state at the durable index. `CaughtUp`: so is what a healthy replica serves at its raft position. `ConsequencesMatchOps`: events and audit facts exist exactly for applied operations, and no job is of any other. `EventCursor`: sequence numbers have no gap and replicas' event tables are prefixes of each other. `IdempotencyRowsLive`: every idempotency row points at a live record of a live collection and no key at two. `VersionStep`: versions move by one, and never in a replay. |
| `fsm_jobs` | pass | A batch's jobs through claim, failure, release, cancel, retry and a changing webhook under two clocks. `BatchObligations`: the records of a batch owe alike. `ObligationsKept`: no obligation is lost. `IndInv`, the invariant of the proofs, for leases and backoffs: a replay computes the same ones. |
| `fsm_reject_replay` | violation | Finding 1. |
| `snap_records` | pass | A create, an update and a drop while a snapshot is read. `RestoredConverges`: whoever serves after a restore has the log's collections, records, events and audit facts. `CursorPortable`: a sequence number never means two events. `ConsequencesOnce`: no replica has an event, audit fact or job twice, or a gap in its numbers. |
| `snap_recreate` | violation | Finding 2. |
| `records_requests` | pass | Two concurrent requests, both databases. `KeyedCreateOnce`: a key creates once. `JournalMatchesRows`: the last event of a record tells its state, and nothing rolled back leaves a trace. `MergedOverCurrent`: no update is lost although the merge reads before the transaction and the version it read is compared with nothing. `SqliteNothingSkipped`: a subscriber misses nothing. `EventuallyAnswered`: nobody waits for ever. |
| `jobs` | pass | Two workers, standalone or through the log, with a crash, an election, lost proposals, a slow execution and an administrator. `ClaimExcludes`: two workers execute one job only if it was released or retried in between. `AttemptsBounded`: attempts, plus one for each release and retry. `DeadLetterEarned`: in a cluster no job is dead-lettered with attempts left. `EventuallySettled`: every job is. |
| `app_accounts` | pass | Two concurrent requests at a time, both databases. `AdmittedByPolicy`: the policy that admitted a registration or a request still holds at its commit. `UsersAudited`: an account has exactly one creation fact. `InvitationNamesUser` (SQLite): an invitation made the account it names and no other. `OneActivation`: at most one usable activation per request. `OneLiveSession`: a refresh token has one successor. `DisabledStaysOut`: no token of a disabled user is accepted, and on SQLite no session but one that a racing login left is live. `DecisionsStand` (SQLite): a sweep or another decision never overrides one. `AlwaysAnswered`: no refusal keeps a lock or the connection. |
| `admin_accounts` | pass | Two administrators act on each other, while the model is reloaded query by query. `OneSetup`: a set-up has one winner. `AdministratorRemains` (SQLite): an enabled administrator is always left. `ModelFollows`: the model in memory is the database's unless somebody who changed it is still reloading, the reload after a change failed or was another process's, or, where reloads do not exclude each other, an older reading was installed over a newer one. `PasswordChangeEvicts` (SQLite): a password change ends all other sessions. |
| `files` | pass | Two uploads, a deletion, the worker, a cleanup, crashes and failures. `UploadKept`: an upload answered 201 stays downloadable. `AnsweredErased`: a deletion answered 204 left nothing. `QuotaOvershootBounded`: parallel uploads exceed the quota by no more than what was in flight, or nothing but a restored archive exceeds it. `FilesLive`: the refinement, with liveness. |
| `backup` | pass | Two servers and two operators, releases 1 and 3, this deployment and another, a crash or a failure. `NewStartsClosed`: a new database that one opener set up is closed to registration. `TogetherTheyStart`: on PostgreSQL only a newer schema refuses a server. `MirrorAgrees`: no crash leaves `user_version` and history in contradiction. `ArchiveHoldsFiles` (local storage): an archive has the files of its rows. `RestoredUsable`: a restored directory is at the newest schema, with managing administrators and its files. `ImportedOnce`: of imports of one deployment that race only one fills the target. `MigrationVerdict`: whatever a migration reports after its import, its rows are in the target; success means that no others are, and a reported difference has one of three causes, with the exception for roles of section 5. |
| `pairing` | pass | Two nodes, strangers or already paired. `InvitationAdmitsOne`: one join request per invitation. `AnswersTrue`: what a joiner was told stays true. `RejectedStaysOut`: no member comes from a rejected request. `PairsAgree`: rows that come from one request match in both directions. `DeliveredOnce`: a signed request is let in once, although copies of it are authenticated side by side and its member may be removed and paired again; three exceptions, of section 5. `RevokedNeedsNew`: a revoked member returns with a new credential only. |

Closely related invariants are checked, and named in the cfg, as one conjunction,
which also carries the module's type invariant: `RequestsExact` is
`KeyedCreateOnce` and `JournalMatchesRows`; `AttemptsHonest` is `AttemptsBounded`
and `DeadLetterEarned`; `AccountsJustified` is `AdmittedByPolicy` and
`UsersAudited`; `InvitationsSpentOnce` is `InvitationNamesUser` and
`OneActivation`; `SessionsEnd` is `OneLiveSession` and `DisabledStaysOut`;
`AdministratorAlways` is `OneSetup` and `AdministratorRemains`; `AnswersStand` is
`UploadKept` and `AnsweredErased`; `StartupSound` is `NewStartsClosed`,
`TogetherTheyStart` and `MirrorAgrees`; `ArchivesWhole` is `ArchiveHoldsFiles` and
`RestoredUsable`; `DecisionsConsistent` is `AnswersTrue` and `RejectedStaysOut`.

Each property of a passing run has a mutant in `PROJECT.json`: a variant of a
mapped definition with a plausible bug, under which TLC finds it violated.

### Bounds, and why they are enough

- Two replicas (one in `fsm_jobs`): every property compares a replica with the
  log or with one other replica, and replicas interact through the log only.
  `fsm_jobs` is about what operations do to one replica's tables under replay.
- `MaxLog` is at least the length of the longest chain a property needs: define
  a collection and a hook, create, then two more operations that race (4 or 5).
  Once the log is full, replicas still crash and replay without bound.
- `MaxInflight` bounds proposals checked in one state and applied in another.
  1 is enough for stale checks: a replica that lags checks in any earlier state,
  also in one that another check was made in. `fsm_reject_replay` has 2.
- `OneStory` keeps the two sets of operations of `fsm_tables` apart: a behaviour
  proposes from one of them, which keeps the run within minutes.
- `MaxFaults` bounds database errors. A fenced replica stays fenced until it
  restarts, and one error is enough to separate memory from disk. In
  `JobQueue` it bounds crashes and losses, beside `MaxElections`: one of each
  lets a claim be lost *and* the leader change.
- `MaxRequests` is 4 in `records_requests`: create, delete, create again and an
  update that was reading meanwhile; two requesters are enough for every race
  between two requests and for a circular wait.
- `MaxSnapshots` is 1: a second snapshot starts from a state that the first
  one's restore already reaches.
- `MaxAttempts` is 2, the smallest number at which a failed job is tried again.
- `Times` has two instants only where leases and backoffs matter.
- `PageSize` is 2, so that three events do not fit on a page.
- `app_accounts`: one email, because requests about two emails share only the
  policy row and the connection; five requests (`MaxOps`) make the longest chain,
  request access, approve, reissue, reissue, accept; `CleanupBatch` is 1 so that a
  sweep of two rows takes two; three invitations and three sessions, so that a
  successor is replaced in its turn.
- `admin_accounts`: two accounts, who can demote each other; three requests
  (`MaxOps`), of which two are served at once, so that a login's reload can span a
  change and the reload of its author; two changes, two sessions, one failed reload.
  `OneStory` follows credentials in behaviours without a change of accounts, which
  they do not meet, and lets sessions expire around the first change only.
- `files`: two uploads of size 2 under a quota of 2, so that two in flight exceed
  it; one restored row without an intent; one deletion, one cleanup and the
  worker; two faults, so that a failure can be followed by a crash.
- `backup`: releases at schema 1 and 3 with the policy at 2 and the roles at 3, so
  that an old database needs both and a new one seeds between; two servers and two
  operators for every race of two; four operations (`MaxOps`), one archive, one fault.
  Another deployment comes with and without rows. `OneStory` tells four stories apart:
  two servers that open the source, one that makes backups, restores and migrations
  of this deployment, and up to three imports of which some are another deployment's,
  with no server; local storage goes with SQLite, S3 with PostgreSQL.
- `pairing`: two nodes; two invitations and two join requests, so that an old
  request meets a new one; two handlers and two copies of a signed request at once; one
  signed request, since requests share nothing but the purge, which its copies make too. `ClockSkew` is 2 and
  `MaxClock` 5, so that a nonce reaches the age of twice `ClockSkew` while a copy of the
  request, stamped by a clock that is ahead, is still within its window. `OneStory` tells three
  stories: strangers that pair, with one event (a fault, a lifetime's end, a change to
  a member) beside the steps of a join; members whose rows change, with two; and members
  of which one has sent a request on SQLite, while the other may revoke it, remove it and
  pair with it again. In the last one lifetimes do not end and one handler works at a time.
- Replicas, administrators, servers and nodes are symmetric; no liveness is
  checked under symmetry.

Deadlock is checked in every run: a replica can always crash and replay, a
worker always ticks, a subscriber always polls and an idle server stays idle, so
no bound stops the system.

### Fairness

`JobQueue` states weak fairness of each worker's step (`Start`
ticks every 500 ms for as long as the process lives), of `Ripen` and of
`Expire` (time passes). Crashes, elections, lost proposals, slow executions and
administrative requests have none, and the code promises nothing about them.

`RecordRequests` states strong fairness of each request's steps, because
`database/sql` and PostgreSQL queue whoever waits for a connection or a lock, and
weak fairness of deadlock detection. Arrivals, aborts and polls have none.
`AppAccounts` states strong fairness of each request's steps for the same reason.

`FileStore` states weak fairness of the recovery worker (`handler.go` runs it at
start and on a ticker) and of the restart of a crashed process (the installed
service has `Restart=on-failure`, `service/service.go:427`). Requests, crashes and
failures have none; the number of failures is bounded, so that the worker's retry
eventually meets none.

## 4. Proofs

The proofs hold for every value of the constants: any number of replicas,
workers, files, requests in flight, accounts, nodes, servers and operators, and any
number of crashes, errors and races. The `Max...` bounds are constants like the
others, so no theorem depends on their values.

| Module | Theorem | Statement |
|---|---|---|
| `ReplicatedFSMProofs` | `Inductive`, `TypeCorrect` | `Spec => []IndInv`, `Spec => []TypeOK` |
| | `DurableStateIsCanonical`, `HealthyReplicaIsCanonical` | `Spec => []DurablePrefix`, `Spec => []CaughtUp` |
| | `ReplicasAgree` | two healthy replicas at one raft position hold the same tables |
| | `LedgerHolds` | `Spec => []LedgerInv` |
| | `ConsequencesAreOfOperations`, `CursorIsDenseAndShared`, `IdempotencyKeysLive`, `BatchesOweAlike` | `Spec => []` of `ConsequencesMatchOps`, `EventCursor`, `IdempotencyRowsLive`, `BatchObligations` |
| | `ObligationsNeverLost`, `VersionsMoveByOne` | `Spec => ObligationsKept`, `Spec => VersionStep`, action properties |
| | `ConsequencesNeverTwice` | `SSpec => []ConsequencesOnce`, with snapshots |
| `JobQueueProofs` | `ClaimExcludesAlways` | `Spec => []ClaimExcludes` |
| | `AttemptsHonestAlways` | `Spec => []AttemptsHonest` |
| `FileStoreProofs` | `AnswersStandAlways` | `Spec => []AnswersStand` |
| | `QuotaOvershootBoundedAlways` | `Spec => []QuotaOvershootBounded` |
| | `ImplementsLifecycle` | `Spec => Lifecycle!Safety`: every step is a step of `FileLifecycle` or a stutter |
| `AppAccountsProofs` | `AccountsJustifiedAlways`, `InvitationsSpentOnceAlways`, `SessionsEndAlways` | `Spec => []` of the property of that name |
| | `DecisionsStandAlways` | `Spec => DecisionsStand`, an action property |
| `AdminAccountsProofs` | `AdministratorAlwaysHolds`, `ModelFollowsAlways`, `PasswordChangeEvictsAlways` | `Spec => []` of `AdministratorAlways`, `ModelFollows`, `PasswordChangeEvicts` |
| `PairingProofs` | `DecisionsConsistentAlways`, `InvitationAdmitsOneAlways`, `PairsAgreeAlways`, `DeliveredOnceAlways` | `Spec => []` of the property of that name |
| | `RevokedNeedsNewAlways` | `Spec => RevokedNeedsNew`, an action property |
| `BackupProofs` | `StartupSoundAlways`, `ArchivesWholeAlways`, `ImportedOnceAlways`, `MigrationVerdictAlways` | `Spec => []` of the property of that name |
| `RecordRequestsProofs` | `RequestsExactAlways`, `SqliteNothingSkippedAlways` | `Spec => []` of the property of that name |
| | `MergedOverCurrentAlways` | `Spec => MergedOverCurrent`, an action property |

Assumptions on constants are the named `ASSUME`s of the modules, which TLC
evaluates in the runs: bounds are naturals; `Workers` and `Files` are finite
(their sizes are counted and summed); there is at least one possible
administrator; a batch is not empty and a page holds something;
operations of the state machine are of the kinds `materialize` knows, and a record put
of several records creates them all at version 1, as the only handler that sends one
does (`records/handler.go:398`, `OpsAssumption`); `Nobody`, `NoJob` and `NoFile` are none of the real ones; in
`Backup` servers and operators are disjoint, there are the two databases, and
versions and releases lie between 1 and `Current`.

Each proof states an inductive invariant, a lemma that `Init` implies it, one lemma
per action that it is preserved, and derives the properties from it. None of the
properties is inductive as it stands. What is added, and why:

- **`ReplicatedFSM`, `IndInv`.** To see that an entry is treated like in the log's
  own history one must know what the replica remembers. `CanonInv`: `canon` is the
  fold of `CanonStep` over the log. `MemoryInv`: the order of `next`, `persisted` and
  the durable index during and after a replay, and that the memory holds everything
  durably applied and beyond that only entries replayed at or below the index it
  booted with. `ReplicaInv`: the disk is canonical at the durable index, and at the
  raft position once a healthy replica is past its boot index. An entry found in
  memory and not on disk was rejected before the boot index, so under
  `NoReuseAfterReject` (no operation id is committed again after it was rejected) its
  id does not come again; finding 1 shows that the theorems fail without that
  hypothesis. `materialize` is not expanded here: these theorems hold whatever an
  operation does to the tables.
- **`ReplicatedFSM`, `LedgerInv`.** What `materialize` keeps, on every replica and in
  every canonical state. `TablesOf`: the dedup keys of events, audit facts and jobs are
  those of the recorded operations; events are finite and numbered from 1; a record
  has one row, at a positive version, in a live collection (`RowsInv`), which is what
  makes a key's record findable (`KeysLive`). There is one lemma per operation and
  `MaterializeKeeps` for the switch: an operation with an unknown id turns tables that
  fit the operations `ops` into tables that fit `ops` and itself, and moves no record
  by more than one version. That `Apply` only materializes unknown ids comes from
  `IndInv`, so `LedgerInv` is inductive relative to it. Inside a batch neither
  `BatchOwed` nor the versions follow from the state alone: the lemma for one put
  carries that the events of this operation owe what the hooks match (`OwedByHooks`),
  since no hook changes in between, and for more than one put that rows were only
  created, so that a record cannot move twice. The recursive function of
  `applyRecordBatch` is unfolded by showing that a chain of states exists (`ChainExists`)
  and is what its `CHOOSE` takes (`BatchAsChain`), by induction in set form
  (`InductionOnNat`). The strengthening found that `KeysLive` must speak of the
  collection too.
- **`ReplicatedSnapshots`, `SnapshotInv`.** A restored snapshot keeps no history to
  compare the tables with, and entries are replayed over tables that already hold some
  of their consequences. So nothing relates tables to operations here: `Carries` says
  of tables, of a stored envelope and of one under way alike that numbers have no gap
  and keys are unique. Each table of an envelope is read in one step from tables that
  satisfy it, `Restore` replaces all of them, and `MaterializeCarries` shows that every
  operation keeps it whatever was applied before. A gap-free table stays so because a
  known key inserts nothing and a new one takes the next number.
- **`JobQueue`, `QueueInv`.** Both properties count. A job that awaits a claim counts
  like one that is held (`ClaimsCounted`: holders plus one if it is pending are at
  most one more than the reopenings); once its attempts are used up, what it can
  still be claimed for is that it is pending or that a standalone worker will make it
  pending on a reading of its attempts that is out of date (`AttemptsCounted`). The
  cardinality lemmas come from `FiniteSetTheorems`.
- **`FileStore`, `FilesInv`.** What each upload, deletion, recovery and cleanup under
  way knows: which of row, intent, object and staged bytes exist at each of its steps
  and which of them another process may still change. A cleanup's list is disjoint
  from what it knows, and an upload that it could not know is `exposed`.
  `QuotaInv` says that some upload in flight (`Charged`) has read a sum that misses
  no more than the others in flight. The sum of sizes is a function on finite sets;
  its laws are proved by well-founded induction in set form (`NatSetInduction`,
  `SubsetInduction`: the predicate is a set, so that the first-order provers can
  instantiate it).
- **`AppAccounts`, `AppInv`.** `LocksInv`: who is inside a transaction holds SQLite's
  connection, and on PostgreSQL the row locks on what it relies on; two holders of one
  row are one process. `Sound`: what a request has read and nobody may have changed
  since. `UsedInv` relates invitations and accounts one to one on SQLite;
  `InvitesInv` keeps at most one outstanding activation for each access request.
- **`AdminAccounts`, `AdminInv`.** The same for administrators: the result of
  `canDemote` still holds when SQLite's transaction writes, who is in the first
  set-up holds the connection or the advisory lock, and enabled accounts exist.
  `CopiesInv` and `FollowInv`, inductive relative to it, are about the account model. A
  reload that began after the last change has read what the tables hold, as far as it
  has come (`ReadSound`), so a model whose load began after the last change is the tables.
  Where reloads exclude each other, the model is that fresh, or the last change was
  missed, or its author will still read (`Pending`), and no reload under way is older than the
  installed model, so that installing it never goes back.
- **`Pairing`, `PairingInv`.** Where a secret may stand (`OutSound`, `InSound`) tells how
  far its request has come; a request that no handlers raced for has one credential
  (`OneCredential`); what a handler on PostgreSQL has read is out of date only in the
  direction in which rows move (`Since`). `OnceSound` is `DeliveredOnce` made
  inductive. The secret of a request that was let in or is being authenticated cannot be
  handed out again (`Settled`). A request that was let in is `Remembered` by a nonce
  noted no earlier than its time allows, or it is `Unusable`: a copy let in now would be
  one of the exceptions, or the member's secret is another and only copies verified
  under the row that was removed are at work. A purge takes a remembered nonce only
  when the clock has come to the end of the window, which is where the margin of
  2 * `ClockSkew` is used up; a removal takes it with the secret and marks the copies at
  work.
- **`Backup`, `BackupInv`.** `OpenSound`: on PostgreSQL an opener past the history
  holds the advisory lock and has read the version that the database still has;
  `FreshSound`: a new database that nobody disturbed is taken past `PolicyVersion` by
  one opener who found it empty. `MakingInv` and `ArchivesInv` follow the file of a
  snapshot through the steps of a backup: it is listed and copied, or the source has
  deleted it. `TargetInv`: the target holds the rows and administrators of every import
  that was committed and nobody else's, and the policy of one of them; so an import
  whose administrators are there already collides, which is `ImportedOnce`. `TaskSound`
  says of an operator between import and verdict that the target still is what its
  bundle made of it (`Holds`), unless another deployment was imported beside it
  (`Delivered`): only bundles without administrators can otherwise have come.
- **`RecordRequests`, `RequestsInv`.** `OpenSound` says what a transaction under way has
  written: every record it touched is announced by one event, but for the one just
  written (`TxSound`); its events are newer than the committed ones about the same
  records, and the row an update matched is still there (`DataSound`). Two open
  transactions touch no common record or key and draw different numbers (`ApartInv`):
  that is what the waits for rows and keys give on PostgreSQL, while on SQLite there
  is only one. There the open transaction drew the last numbers and the cursor is
  behind them (`SqliteSound`), so taking them back or committing them skips nothing.
  `VersionsInv` and `Reads` bound the version an update has read between the one its
  client saw and the row's, so that a matching If-Match pins all three.

Writing these invariants changed the models where they were wrong: `DeliveredOnce`,
`MigrationVerdict` and `MergedOverCurrent` have exceptions that the runs had not
reached or the model had hidden, an import keeps the rows of its target, and a migration
of several versions is defined in closed form.

Only model-checked: liveness under fairness (`EventuallySettled`,
`EventuallyAnswered`, `AlwaysAnswered`, and the fairness half of `FilesLive`), which is
outside what the prover supports; and of `ReplicatedSnapshots` the properties
`RestoredConverges` and `CursorPortable`, which hold for the operations of
`snap_records` and not for every set of operations: the attempt to prove them led to
finding 2.

## 5. Findings

1. `fsm_reject_replay` — a restarted replica remembers the digest of an entry
   that was rejected (`fsm.go:211`), a running one does not. When a caller
   retries under the same Idempotency-Key with another payload, the restarted
   replica answers "reused" and the others apply: replicas diverge.
2. `snap_recreate` — a snapshot has the applied map of one log position and rows and
   events of later ones (`fsm.go:1078`). A create of an existing record is refused and
   the record is deleted while the snapshot is read; a replica that is restored from
   it replays the refused create, which now succeeds, with an event and an audit fact
   that no other replica has, where `docs/clustering/contract.md:46` says that it
   "reconstructs identical state and stays cursor-aligned". With one more event the two
   replicas give one sequence number to two events, so that `CursorPortable` fails too
   (a log of five entries, beyond the bound of the run). What does survive is
   `ConsequencesOnce`: no operation has its consequences twice on one replica.

Met while modelling, without a run of their own.

Records, state machine and jobs:

- a UNIQUE violation of a committed create is a driver error and not a
  `semanticConflict` (`fsm.go:664`), so two creates that were each valid where they
  were checked fence every replica, although the comment at `fsm.go:61` says that
  callers' conflicts must not;
- `Restore` writes records through `putRecord` (`fsm.go:974`), which takes a
  missing record at version 1 only: a snapshot holding an updated record cannot be
  restored on an empty replica;
- on PostgreSQL an event becomes visible after one with a larger sequence number
  (`events/handler.go:122`); a subscriber whose cursor has passed it never gets it
  and is not told of the gap, where `API.md:90` promises one or the other;
- a job at the head of the queue that this node cannot execute hides all later
  ones (`jobs/handler.go:187`);
- a delete of an absent record succeeds and emits `record.deleted` in a cluster;
  standalone it answers 412 and emits nothing;
- `Persist` leaves the idempotency keys out of the snapshot, so a restored
  replica has lost them;
- a worker's result overwrites the cancellation of a running job;
- standalone `finish` ignores the error of its reading of attempts
  (`jobs/handler.go:235`); both numbers are then zero, and the job is dead-lettered with
  attempts left;
- a standalone delete keeps the record's idempotency row, so its key answers 409
  from then on, where a cluster forgets the key;
- a standalone update never compares the version it read with If-Match
  (`records/handler.go:678`): when the record is deleted and created again under
  the same id since the client saw the version, the patch can be merged into
  another life's values, for versions repeat (`MergedOverCurrent` names this
  exception; the proof attempt found its extent);
- a fenced replica goes on taking snapshots, and raft labels them with the
  index of entries that it refused;
- a hook definition read into a snapshot before its log position matches
  records replayed after the restore; and an absent-delete replayed over a
  snapshot removes a record that a later batch created, which is then rejected.
  Like finding 2, these are why `RestoredConverges` is checked for creates, updates
  and drops.

Accounts:

- `canDemote` counts and updates without a lock: on PostgreSQL two administrators
  who demote each other at once can both succeed, which leaves none;
- the account model is read in several queries outside any transaction
  (`accounts.go:22`). Unless gantry-core lets only one reload read at a time, a login that
  began to read before a demotion can install the older model after the one that the
  demotion's own reload installed, and the old capabilities hold until the next reload
  (`ModelFollows` names this exception);
- `mutateUser` shadows `err` in its "create" case (`manage.go:163`), so on SQLite
  an INSERT that is refused is answered 204, with an audit fact;
- `inviteAccept` reads the invitation without FOR UPDATE: on PostgreSQL one that is
  revoked meanwhile still makes an account;
- `ListAccessRequests` sweeps without a lock and on PostgreSQL can overwrite an
  approval that commits meanwhile;
- a login or a refresh that races `disable` leaves a live session row, which
  `Authenticate` refuses while the user is disabled;
- a logout with a refresh token that has been rotated succeeds and ends nothing;
- a disabled administrator's personal credential still authenticates, the sessions
  of one who is enabled again are live again, and a login that checked the old
  password may insert its session after a password change;
- a failed `Commit` of the serialized SQLite transaction returns the connection
  without a ROLLBACK (`serialize.go:105`).

Files:

- a cleanup beside an upload that has put its object and not yet inserted its row
  removes the object; so does one whose list of keys was cut short, because
  `rows.Err` is not looked at. `UploadKept` excepts both (`exposed`);
- an INSERT that took effect and reported an error is undone by deleting the
  object only, which leaves a live row without one;
- `lookup` treats errors other than "no rows" as found, with an empty key;
- the S3 listing stops at its first page, and a failed S3 put may leave an orphan.

Opening, backup and migration:

- a first set-up of a database that is interrupted between its migrations, or on
  SQLite shared with another process, is resumed as an upgrade, and seeds `open`
  where `serialize.go:25` says that a new database starts closed;
- two processes that open a SQLite database without `user_version` race to restore
  it and can leave the two in contradiction;
- the digest that verifies a migration discounts neither revoked invitations nor
  the notices of a restore, so `Migrate` reports a failure after it has committed
  the import; it does so too when the second export or its validation fails
  (`migrate.go:196`). The target is not empty from then on, so that the migration
  cannot be repeated into it;
- an archive from before the roles leaves its administrators without one, although
  the comment at `importRoles` says that they keep theirs;
- the destination is checked for emptiness before the transaction of the import
  (`portable.go:390`): what keeps two imports apart is the collision of their rows, and
  `insertRows` fails on equal keys only. Archives of two different deployments that are
  imported at once can therefore both commit, unless their numbered events or audit rows
  meet: the target then holds the administrators and rows of both, where the comment at
  `portable.go:777` says that "an archive can never silently merge with existing durable
  state" and `docs/postgres/parity-matrix.json:668` that "concurrent import produces one
  winner and no partial merge". `ImportedOnce` is what does hold;
- a backup of a deployment on S3 holds no objects (`handler.go:101`), and a restore of it
  relies on the bucket;
- `importRoles` deletes the destination's roles and assignments whenever the bundle
  has roles, and every bundle of the newest schema has the built-in one: an import of
  a deployment without administrators that checked the target before another import
  filled it commits afterwards and leaves the administrators without a role; the
  digest that verifies the other migration leaves roles out and agrees
  (`MigrationVerdict` names this exception, `RolesLost`);
- a portable restore drops the objects of `files/`, and a restore of the SQLite
  snapshot does not apply the restore policy.

Pairing:

- a poll's answer that is lost leaves the request "used" and the joiner pending for
  ever; the "already collected" branch is unreachable, and of two polls at once the
  second's "used" sets the joiner back to pending;
- on PostgreSQL row counts are not looked at: one invitation can make two requests,
  two polls can each issue a credential, and an approval and a rejection that cross
  leave an active member with a rejected request;
- a decision begun before the expiry can commit after the joiner was told that the
  request had expired;
- an older approved request that is polled late overwrites the newer credential, and
  two nodes that join each other at once end with credentials that do not match
  (`PairsAgree` speaks of rows that come from one request);
- after two PostgreSQL polls have raced for one approval, revoking and removing the
  member deletes its nonces while the other poll's answer can still install the old
  key: a signed request is then let in a second time within `ClockSkew`
  (`DeliveredOnce` names this exception; the proof attempt found it);
- a nonce is kept for 2 * `ClockSkew` (`transport.go:66`), exactly the width of the window
  in which its request is accepted, and verification, purge and insert are separate
  statements: a copy that was verified in time and inserted when the window closes, after
  another request's purge, is let in a second time. The comparison of times as text moves the
  boundary within a second. So is a copy let in again whose member was removed after it
  was verified, and paired again before its insert (`outlived` collects both);
- `Rotate` changes one side's secret and no endpoint installs it at the peer;
- `PollJoin` issues a credential even if the member was revoked or removed since.

## 6. Not modelled

Raft (terms, elections, log matching) is external. Payload encoding, digests,
HTTP wording, signing and encryption are abstracted. Operating-system
integration, routing, static assets and the command line keep no state that a
model would add to; `service/service.go` and the CLI in `cmd/trestle` are
sequences of such calls. Access rules and queries are functions of record values,
which the modules abstract to one or two. Configuration propagation is driven by
gantry-core, outside this repository. Rate limiters, CSRF tokens, token formats,
password hashing, archive encryption and listing endpoints are left out of the
account, backup and pairing modules. `SchemaStartup` leaves out damaged histories
and a server of an older release that goes on serving while a newer one migrates.
A serialized transaction that meets a busy lock is rolled back and run again
(`serialize.go:127`); in the account modules an attempt that is rolled back is one of the
ways in which `Abort` ends a request, and its repetition is another request. `Pairing`
takes identities as given.

## 7. Plan

1. **Records and collections**: the PATCH merge on a lagging follower, a schema
   that changes under a request, the standalone collection handlers.
2. **State machine**: the local writers of the audit table, an update that
   proposes while it holds the connection its own apply needs.
3. **Abstract specification** of the cluster: a log of applied operations with
   exactly-once consequences, which `ReplicatedFSM` refines under
   `NoReuseAfterReject`.

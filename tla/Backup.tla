------------------------------- MODULE Backup -------------------------------
(***************************************************************************)
(* Backup archives, their restore, and the migration of a deployment from  *)
(* one database provider to the other (internal/backup), composed with the *)
(* opening of the databases involved (SchemaStartup).                      *)
(*                                                                         *)
(* A server at work on "source" writes while it makes backups; operators   *)
(* restore an archive into a new data directory or into the PostgreSQL     *)
(* "target", or migrate "source" to "target", two at once, beside others   *)
(* who bring another deployment's bundle to the same target, and with      *)
(* crashes anywhere.  Of a database's contents the model keeps what the    *)
(* restore treats differently: whose administrators are in it, rows that   *)
(* are copied, a session (standing for webhooks too), an invitation,       *)
(* cluster membership, the notices of a restore, and one file.             *)
(***************************************************************************)
EXTENDS SchemaStartup

CONSTANTS Servers, Operators,  \* the processes of the two kinds
          Rows,                \* rows the server adds
          Foreign,             \* bundles of other deployments
          MaxOps,              \* bound on starts, changes, restores and migrations
          MaxArchives,         \* bound on backups
          MaxFaults            \* bound on crashes and failures

ASSUME BackupAssumption ==
    /\ Procs = Servers \cup Operators /\ Servers \cap Operators = {}
    /\ Databases = {"source", "target"}
    /\ {MaxOps, MaxArchives, MaxFaults} \subseteq Nat

(* The deployment on the source. *)
Here == "here"

Deployments == {Here} \cup UNION {f.content.owners : f \in Foreign}
AllRows     == Rows \cup UNION {f.content.rows : f \in Foreign}

Content == [owners : SUBSET Deployments, rows : SUBSET AllRows, session : {"none", "live", "revoked"},
            invitation : {"none", "outstanding", "revoked"}, cluster : BOOLEAN, notice : BOOLEAN,
            file : {"none", "live", "deleted"}]

(* Other deployments have other administrators; their bundles are of the    *)
(* newest schema.                                                           *)
ASSUME ForeignAssumption ==
    /\ Foreign \subseteq [version : {Current}, policy : Policies, admin : {"roled"}, content : Content,
                          notice : BOOLEAN]
    /\ \A f \in Foreign : f.content.owners # {} /\ Here \notin f.content.owners /\ ~ f.content.cluster

VARIABLES
    storage,   \* "local" or "s3": fixed at start
    object,    \* whether the source's storage holds the file's bytes
    making,    \* the backup being made: [pc, snapshot, portable, listed, object]
    archives,  \* the archives published
    directory, \* the restored data directory, or None
    task,      \* [kind, pc, bundle, staging] of each operator
    verdicts,  \* auxiliary: [bundle, target, outcome] of migrations
    imports,   \* auxiliary: bundles committed to the target
    ops, faults

budgets    == <<ops, faults>>
backupVars == <<storage, object, making, archives, directory, task, verdicts, imports, budgets>>
vars       == <<startupVars, backupVars>>

Empty == [owners |-> {}, rows |-> {}, session |-> "none", invitation |-> "none", cluster |-> FALSE,
          notice |-> FALSE, file |-> "none"]

ASSUME NothingAssumption == Nothing = Empty

None     == [none |-> TRUE]
NoBackup == [pc |-> "idle", snapshot |-> None, portable |-> None, listed |-> FALSE, object |-> FALSE]
NoTask   == [kind |-> "none", pc |-> "idle", bundle |-> None, staging |-> None]

Fault   == faults < MaxFaults /\ faults' = faults + 1
NoFault == UNCHANGED faults
Count   == ops < MaxOps /\ ops' = ops + 1

(* A deployment of some release, with an administrator and a live session,  *)
(* or a database nobody has opened; a target that is new, or initialized   *)
(* by the newest release.                                                  *)
InUse(v, m, c) == [version |-> v, mirror |-> m, policy |-> IF v < PolicyVersion THEN "none" ELSE "closed",
                   admin |-> IF v < RolesVersion THEN "unroled" ELSE "roled",
                   content |-> c]

SignedIn  == [Empty EXCEPT !.owners = {Here}, !.session = "live"]
Contents  == {[SignedIn EXCEPT !.file = "live"], [SignedIn EXCEPT !.invitation = "outstanding", !.cluster = TRUE]}
Sources   == {NewDatabase} \cup {InUse(v, m, c) : v \in Releases, m \in 0 .. Current, c \in Contents}
Targets   == {NewDatabase, Upgraded(NewDatabase, Current)}

(* Only SQLite keeps a mirror, and old databases lack it. *)
Found(source, target) ==
    /\ source.mirror \in IF provider["source"] = "sqlite" THEN {0, source.version} ELSE {0}
    /\ db = [source |-> source,
             target |-> IF provider["target"] = "sqlite" THEN target ELSE [target EXCEPT !.mirror = 0]]

Init ==
    /\ provider \in {[source |-> "sqlite", target |-> "postgres"],
                     [source |-> "postgres", target |-> "sqlite"]}
    /\ \E source \in Sources, target \in Targets : Found(source, target)
    /\ lock = [d \in Databases |-> Nobody]
    /\ open = [p \in Procs |-> Closed]
    /\ fresh = {d \in Databases : db[d].version = 0}
    /\ unmarked = {d \in Databases \ fresh : db[d].mirror = 0}
    /\ disturbed = {}
    /\ storage \in {"local", "s3"}
    /\ object = (db["source"].content.file = "live")
    /\ making = NoBackup
    /\ archives = {}
    /\ directory = None
    /\ task = [p \in Operators |-> NoTask]
    /\ verdicts = {} /\ imports = {}
    /\ ops = 0 /\ faults = 0

-----------------------------------------------------------------------------
(* The server on the source.  Several may open it; those of an older       *)
(* release, whose code is not this one, come no further than that.         *)
Source      == db["source"].content
Serving(p)  == p \in Servers /\ At(p, "opened") /\ open[p].release = Current
SetSource(c) == db' = [db EXCEPT !["source"].content = c]

Start(p) ==
    /\ p \in Servers
    /\ \E release \in Releases : Begin(p, "source", release)
    /\ Count
    /\ UNCHANGED <<storage, object, making, archives, directory, task, verdicts, imports, faults>>

(* The first administrator; without one nothing else is written.           *)
Setup(p) ==
    /\ Serving(p) /\ db["source"].admin = "none" /\ Count
    /\ db' = [db EXCEPT !["source"].admin = "roled", !["source"].content.owners = {Here}]
    /\ UNCHANGED <<provider, lock, open, fresh, unmarked, disturbed, storage, object, making, archives, directory,
                   task, verdicts, imports, faults>>

(* What requests change: a row, and a file, whose object is stored before  *)
(* its row is written and erased after the row is marked.                  *)
Write(p) ==
    /\ Serving(p) /\ db["source"].admin # "none"
    /\ Count
    /\ \/ \E r \in Rows \ Source.rows : SetSource([Source EXCEPT !.rows = @ \cup {r}]) /\ UNCHANGED object
       \/ Source.file = "none" /\ ~ object /\ object' = TRUE /\ UNCHANGED db
       \/ Source.file = "none" /\ object /\ SetSource([Source EXCEPT !.file = "live"]) /\ UNCHANGED object
       \/ Source.file = "live" /\ SetSource([Source EXCEPT !.file = "deleted"]) /\ UNCHANGED object
       \/ Source.file = "deleted" /\ object /\ object' = FALSE /\ UNCHANGED db
    /\ UNCHANGED <<provider, lock, open, fresh, unmarked, disturbed, storage, making, archives, directory, task,
                   verdicts, imports, faults>>

-----------------------------------------------------------------------------
(* Export: one coherent snapshot.  Members and identity stay out of it and *)
(* leave a notice.                                                         *)
Export(rec) ==
    [version |-> rec.version, policy |-> rec.policy, admin |-> rec.admin,
     content |-> [rec.content EXCEPT !.cluster = FALSE],
     notice |-> rec.content.cluster]

DropSessions(content, notice) ==
    [content EXCEPT !.session    = "none",
                    !.invitation = IF @ = "outstanding" THEN "revoked" ELSE @,
                    !.notice     = @ \/ notice]

(* applyRestorePolicy and importRestoreNotices. *)
RestorePolicy(content, notice) ==
    [content EXCEPT !.session    = IF @ = "live" THEN "revoked" ELSE @,
                    !.invitation = IF @ = "outstanding" THEN "revoked" ELSE @,
                    !.notice     = @ \/ notice]

(* The rows of a bundle inserted beside those that are there. *)
Beside(old, new) ==
    [owners     |-> old.owners \cup new.owners,
     rows       |-> old.rows \cup new.rows,
     session    |-> IF new.session = "none" THEN old.session ELSE new.session,
     invitation |-> IF new.invitation = "none" THEN old.invitation ELSE new.invitation,
     cluster    |-> old.cluster \/ new.cluster,
     notice     |-> old.notice \/ new.notice,
     file       |-> IF new.file = "none" THEN old.file ELSE new.file]

(* importRoles replaces the roles and their assignments by those of a       *)
(* bundle that has roles, as all have from RolesVersion on: administrators  *)
(* that are there already lose theirs.                                      *)
importRoles(admin, bundle) ==
    IF admin = "none" THEN bundle.admin
    ELSE IF bundle.admin # "none" \/ bundle.version >= RolesVersion THEN "unroled" ELSE admin

(* What Import makes of a database: the rows, importRoles and              *)
(* restoreRegistrationPolicy.                                              *)
Imported(rec, bundle) ==
    [rec EXCEPT !.policy  = IF bundle.version >= PolicyVersion THEN bundle.policy ELSE "open",
                !.admin   = importRoles(@, bundle),
                !.content = RestorePolicy(Beside(@, bundle.content), bundle.notice)]

(* ValidateEmptyDestination. *)
Vacant(rec) == rec.version = Current /\ rec.admin = "none" /\ rec.content = Empty

(* An insert fails on a key that is there already.  Two bundles of one      *)
(* deployment have the keys of its administrators in common, those of two   *)
(* have not.                                                                *)
NoCollision(rec, bundle) == FALSE

Collides(rec, bundle) == rec.content.owners \cap bundle.content.owners # {}

(* Events and audit rows are numbered in each deployment: those of two may  *)
(* have the same number.                                                    *)
MayCollide(rec, bundle) == rec.content.rows # {} /\ bundle.content.rows # {}

(* SemanticDigest: what a bundle says once the marks that a restore        *)
(* changes are left out: those of sessions, not those of invitations.      *)
SemanticDigest(bundle) ==
    <<bundle.policy, bundle.content.owners, bundle.content.rows, bundle.content.session # "none",
      bundle.content.invitation, bundle.content.notice, bundle.content.file>>

-----------------------------------------------------------------------------
(* create: on SQLite a copy of the database, then the portable export, then *)
(* the objects of local storage (none of S3's), and the rename that         *)
(* publishes the archive.                                                   *)
BackupVars == <<startupVars, storage, object, directory, task, verdicts, imports, ops>>

BackupSnapshot(p) ==
    /\ Serving(p) /\ making.pc = "idle" /\ Cardinality(archives) < MaxArchives
    /\ making' = [NoBackup EXCEPT !.pc = "snapshot",
                     !.snapshot = IF provider["source"] = "sqlite" THEN db["source"] ELSE None]
    /\ UNCHANGED <<BackupVars, archives, faults>>

BackupExport ==
    /\ making.pc = "snapshot"
    /\ \/ NoFault /\ making' = [making EXCEPT !.pc = "export", !.portable = Export(db["source"])]
       \/ Fault /\ making' = NoBackup
    /\ UNCHANGED <<BackupVars, archives>>

BackupList ==
    /\ making.pc = "export"
    /\ making' = [making EXCEPT !.pc = "list", !.listed = object /\ storage = "local"]
    /\ UNCHANGED <<BackupVars, archives, faults>>

(* An object that has gone since, or cannot be read, ends the backup. *)
BackupSkips ==
    /\ making.pc = "list"
    /\ \/ NoFault /\ making' = [making EXCEPT !.pc = "publish", !.object = making.listed /\ object]
       \/ Fault /\ making' = [making EXCEPT !.pc = "publish"]
    /\ UNCHANGED <<BackupVars, archives>>

BackupObjects ==
    /\ making.pc = "list"
    /\ \/ /\ making.listed => object
          /\ NoFault /\ making' = [making EXCEPT !.pc = "publish", !.object = making.listed]
       \/ /\ IF making.listed => object THEN Fault ELSE NoFault
          /\ making' = NoBackup
    /\ UNCHANGED <<BackupVars, archives>>

BackupPublish ==
    /\ making.pc = "publish"
    /\ archives' = archives \cup {[snapshot |-> making.snapshot, portable |-> making.portable,
                                   object |-> making.object]}
    /\ making' = NoBackup
    /\ UNCHANGED <<BackupVars, faults>>

-----------------------------------------------------------------------------
(* The operators' offline commands, all of the newest release.             *)
SetTask(p, rec)  == task' = [task EXCEPT ![p] = rec]
TaskIs(p, k, pc) == task[p].kind = k /\ task[p].pc = pc
NewTask(p)       == task[p].pc = "idle" /\ Count
Unfinished       == <<storage, object, making, archives, verdicts>>

(* Restore into a new data directory: the target must not exist; the       *)
(* snapshot with its objects is extracted and opened, or the portable      *)
(* archive imported, in a staging directory.                               *)
RestoreStage(p, a) ==
    /\ NewTask(p) /\ directory = None
    /\ SetTask(p, [kind |-> "restore", pc |-> "publish", bundle |-> a.portable,
          staging |-> IF a.snapshot # None
                      THEN [db |-> Upgraded(a.snapshot, Current), object |-> a.object, from |-> "snapshot"]
                      ELSE [db |-> Imported(Upgraded(NewDatabase, Current), a.portable),
                            object |-> FALSE, from |-> "portable"]])
    /\ UNCHANGED <<startupVars, Unfinished, directory, imports, faults>>

RestorePublish(p) ==
    /\ TaskIs(p, "restore", "publish")
    /\ directory' = IF directory = None THEN task[p].staging ELSE directory
    /\ SetTask(p, NoTask)
    /\ UNCHANGED <<startupVars, Unfinished, imports, ops, faults>>

(* restoreLogicalToPostgres: the destination must be current and empty     *)
(* before it is opened.                                                    *)
RestoreLogical(p, bundle) ==
    /\ NewTask(p) /\ provider["target"] = "postgres" /\ Vacant(db["target"])
    /\ SetTask(p, [NoTask EXCEPT !.kind = "logical", !.pc = "open", !.bundle = bundle])
    /\ Begin(p, "target", Current)
    /\ UNCHANGED <<Unfinished, directory, imports, faults>>

(* Migrate: the source is read at the newest release's version and never   *)
(* written; the target is opened, which may initialize it.  Others migrate *)
(* another deployment.                                                     *)
MigrateExport(p) ==
    /\ NewTask(p)
    /\ \E bundle \in Foreign \cup {Export(rec) : rec \in {s \in {db["source"]} : s.version = Current}} :
          SetTask(p, [NoTask EXCEPT !.kind = "migrate", !.pc = "open", !.bundle = bundle])
    /\ Begin(p, "target", Current)
    /\ UNCHANGED <<Unfinished, directory, imports, faults>>

(* Import's check of the destination comes before its transaction.         *)
ImportCheck(p) ==
    /\ p \in Operators /\ At(p, "opened") /\ task[p].pc = "open"
    /\ IF Vacant(db["target"])
       THEN SetTask(p, [task[p] EXCEPT !.pc = "import"]) /\ UNCHANGED <<open, lock>>
       ELSE SetTask(p, NoTask) /\ MoveTo(p, Closed) /\ Unlock(p)
    /\ UNCHANGED <<provider, db, fresh, unmarked, disturbed, Unfinished, directory, imports, ops, faults>>

ImportCommit(p) ==
    /\ p \in Operators /\ task[p].pc = "import"
    /\ \/ /\ ~ Collides(db["target"], task[p].bundle) /\ NoFault
          /\ db' = [db EXCEPT !["target"] = Imported(@, task[p].bundle)]
          /\ imports' = imports \cup {[by |-> p, bundle |-> task[p].bundle]}
          /\ fresh' = fresh \ {"target"}
          /\ SetTask(p, IF task[p].kind = "migrate" THEN [task[p] EXCEPT !.pc = "verify"] ELSE NoTask)
          /\ IF task[p].kind = "migrate" THEN UNCHANGED <<open, lock>> ELSE MoveTo(p, Closed) /\ Unlock(p)
       \/ /\ IF Collides(db["target"], task[p].bundle) \/ MayCollide(db["target"], task[p].bundle)
             THEN NoFault ELSE Fault
          /\ SetTask(p, NoTask) /\ MoveTo(p, Closed) /\ Unlock(p)
          /\ UNCHANGED <<db, imports, fresh>>
    /\ UNCHANGED <<provider, unmarked, disturbed, Unfinished, directory, ops>>

(* The target exported again, and its digest compared with the source's.   *)
(* The migration is reported as failed if they differ, and also if the     *)
(* export or its validation fails; the import is committed all the same.   *)
MigrateVerify(p) ==
    /\ p \in Operators /\ TaskIs(p, "migrate", "verify")
    /\ \E outcome \in {"ok", "mismatch", "unverified"} :
          /\ IF outcome = "unverified" THEN Fault
             ELSE /\ NoFault
                  /\ outcome = "ok" <=> SemanticDigest(Export(db["target"])) = SemanticDigest(task[p].bundle)
          /\ verdicts' = verdicts \cup {[bundle |-> task[p].bundle, target |-> db["target"], outcome |-> outcome]}
    /\ SetTask(p, NoTask) /\ MoveTo(p, Closed) /\ Unlock(p)
    /\ UNCHANGED <<provider, db, fresh, unmarked, disturbed, storage, object, making, archives, directory,
                   imports, ops>>

-----------------------------------------------------------------------------
(* A server stops or crashes, and with it the backup it is making; an      *)
(* operator's command is killed, and its transaction rolled back.          *)
Stop(p) ==
    /\ p \in Servers /\ End(p)
    /\ IF At(p, "opened") THEN NoFault ELSE Fault
    /\ making' = IF Serving(p) THEN NoBackup ELSE making
    /\ UNCHANGED <<storage, object, archives, directory, task, verdicts, imports, ops>>

Kill(p) ==
    /\ p \in Operators /\ Fault
    /\ \/ End(p)
       \/ task[p].kind = "restore" /\ UNCHANGED startupVars
    /\ SetTask(p, NoTask)
    /\ UNCHANGED <<storage, object, making, archives, directory, verdicts, imports, ops>>

(* A command whose destination refuses to open ends. *)
GiveUp(p) ==
    /\ p \in Operators /\ At(p, "refused") /\ task[p].pc = "open"
    /\ SetTask(p, NoTask)
    /\ UNCHANGED <<startupVars, storage, object, making, archives, directory, verdicts, imports, budgets>>

Idle == UNCHANGED vars

Server(p)   == Start(p) \/ Setup(p) \/ Write(p) \/ BackupSnapshot(p) \/ Stop(p)
Operator(p) == \/ \E a \in archives : RestoreStage(p, a)
               \/ \E bundle \in Foreign \cup {a.portable : a \in archives} : RestoreLogical(p, bundle)
               \/ RestorePublish(p) \/ MigrateExport(p) \/ ImportCheck(p) \/ ImportCommit(p)
               \/ MigrateVerify(p) \/ Kill(p) \/ GiveUp(p)

Next ==
    \/ \E p \in Procs : StartupStep(p) /\ UNCHANGED backupVars
    \/ \E p \in Servers : Server(p)
    \/ \E p \in Operators : Operator(p)
    \/ BackupExport \/ BackupList \/ BackupObjects \/ BackupPublish
    \/ Idle

Spec == Init /\ [][Next]_vars

-----------------------------------------------------------------------------
TypeOK ==
    /\ StartupTypeOK
    /\ \A d \in Databases : db[d].content \in Content
    /\ making.pc \in {"idle", "snapshot", "export", "list", "publish"}
    /\ \A p \in Operators : task[p].kind \in {"none", "restore", "logical", "migrate"}

(* A published archive is whole: the file of every live row in its         *)
(* database is in it, whatever was uploaded and deleted while it was made, *)
(* unless that file has been deleted since.  With local storage only: an   *)
(* archive has no objects of S3.                                           *)
ArchiveHoldsFiles ==
    storage = "local" =>
        \A a \in archives : a.snapshot # None /\ a.snapshot.content.file = "live" /\ ~ a.object
                                 => Source.file = "deleted"

(* A restored directory is the deployment that was backed up, at the       *)
(* newest schema: its administrators can manage it and its files are       *)
(* there.  Portable archives are excepted where they fall short: they      *)
(* carry no objects, and those older than the roles leave administrators   *)
(* without one.  The files are those of local storage.                     *)
RestoredUsable ==
    directory # None =>
        /\ directory.db.version = Current
        /\ directory.from = "snapshot" => directory.db.admin # "unroled"
        /\ storage = "local" /\ directory.from = "snapshot" /\ directory.db.content.file = "live" /\ ~ directory.object
              => Source.file = "deleted"

(* Archives are whole and what is restored from them can be used, although *)
(* they are made in several steps beside a server at work.                 *)
ArchivesWhole == TypeOK /\ ArchiveHoldsFiles /\ RestoredUsable

(* A deployment is restored or migrated into a target once: of two imports *)
(* that both found it empty and race on, one fails on the other's rows.    *)
(* That protects a deployment against itself only.  Two imports of         *)
(* different deployments have no key in common unless events or audit rows *)
(* have the same numbers, and may both commit, each as one transaction     *)
(* (ValidateEmptyDestination before it, insertRows).                       *)
ImportedOnce ==
    \A i, j \in imports : i # j => i.bundle.content.owners \cap j.bundle.content.owners = {}

(* An import without administrators committed, and took those of the target *)
(* their roles.                                                            *)
RolesLost == \E i \in imports : i.bundle.admin = "none"

Administers(target, bundle) ==
    target.admin = bundle.admin \/ (RolesLost /\ target.admin = "unroled")

(* Nothing with accounts or another policy was imported beside a bundle. *)
Alone(bundle) ==
    \A i \in imports : /\ i.bundle.content.owners \in {{}, bundle.content.owners}
                       /\ i.bundle.policy = bundle.policy

(* What a migration's report is worth.  Whatever it says, the rows and     *)
(* administrators of the source are in the target: a failure after the     *)
(* import, of the export or of the comparison, takes nothing back.  If it  *)
(* reports success, no other rows and administrators are there and these   *)
(* have their roles, unless an empty deployment's import slipped in: the   *)
(* digest leaves roles out.  If it reports a difference, there is one: a   *)
(* bundle of somebody else, an outstanding invitation, which restoring     *)
(* revokes, or a cluster, which leaves a notice; the digest discounts      *)
(* neither.                                                                *)
MigrationVerdict ==
    \A v \in {w \in verdicts : w.bundle.content.owners # {}} :
        LET source == v.bundle.content
            target == v.target.content
        IN  /\ source.rows \subseteq target.rows /\ source.owners \subseteq target.owners
            /\ v.outcome = "ok" => source.rows = target.rows /\ source.owners = target.owners
                                   /\ Administers(v.target, v.bundle)
            /\ v.outcome = "mismatch" =>
                  v.bundle.notice \/ source.invitation = "outstanding" \/ ~ Alone(v.bundle)
=============================================================================

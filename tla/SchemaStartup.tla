---------------------------- MODULE SchemaStartup ----------------------------
(***************************************************************************)
(* Opening a database (internal/store): the migration history is read and  *)
(* checked, the missing migrations are applied one transaction at a time,  *)
(* and the provider is recorded.  Servers, command-line tools and offline  *)
(* operations open databases, several at once, with binaries of different  *)
(* releases, and any of them can crash between two transactions.           *)
(*                                                                         *)
(* Three of the 24 migrations matter here and stand for all: the           *)
(* foundation (1), the registration policy (PolicyVersion) and the         *)
(* administrators' roles (RolesVersion).  Applied versions are contiguous, *)
(* so a history is its last version; damaged histories are left out.       *)
(***************************************************************************)
EXTENDS Integers, FiniteSets

CONSTANTS Procs,          \* processes that open databases
          Nobody,         \* no process
          Databases,      \* databases
          Current,        \* the schema version of the newest release
          PolicyVersion,  \* registrationMigrationVersion
          RolesVersion,   \* the migration that gives administrators roles
          Releases,       \* the schema versions of the releases in use
          Nothing         \* the contents of a new database

ASSUME StartupAssumption ==
    /\ Nobody \notin Procs
    /\ Current \in Nat /\ PolicyVersion \in 1 .. Current /\ RolesVersion \in 1 .. Current
    /\ Releases \subseteq 1 .. Current

VARIABLES
    provider,  \* "sqlite" or "postgres" for each database: fixed at start
    db,        \* [version, mirror, policy, admin, content] of each database
    lock,      \* who holds PostgreSQL's advisory lock 839201347561
    open,      \* [pc, db, release, version, start] of each process
    fresh,     \* auxiliary: databases that began empty, in releases with a policy
    unmarked,  \* auxiliary: databases that began without the version mirror
    disturbed  \* auxiliary: databases whose set-up was interrupted or shared

startupVars == <<provider, db, lock, open, fresh, unmarked, disturbed>>

(* admin: no administrator, one without a role, one with a role.           *)
Admins   == {"none", "unroled", "roled"}
Policies == {"none", "closed", "open"}

NewDatabase == [version |-> 0, mirror |-> 0, policy |-> "none", admin |-> "none", content |-> Nothing]

Closed == [pc |-> "idle", db |-> Nobody, release |-> 0, version |-> 0, start |-> 0]

Opening(d) == {p \in Procs : open[p].pc \in {"lock", "history", "mirror", "apply"} /\ open[p].db = d}

At(p, pc)      == open[p].pc = pc
Mine(p)        == open[p].db
MoveTo(p, rec) == open' = [open EXCEPT ![p] = rec]
Unlock(p)      == lock' = [d \in Databases |-> IF lock[d] = p THEN Nobody ELSE lock[d]]
Refuse(p)      == MoveTo(p, [open[p] EXCEPT !.pc = "refused"]) /\ Unlock(p)

-----------------------------------------------------------------------------
(* A database that others are opening too is disturbed, unless the         *)
(* advisory lock keeps them apart.                                         *)
Begin(p, d, release) ==
    /\ open[p].pc \in {"idle", "refused"}
    /\ MoveTo(p, [Closed EXCEPT !.pc = "lock", !.db = d, !.release = release])
    /\ disturbed' = IF provider[d] = "sqlite" /\ Opening(d) # {} THEN disturbed \cup {d} ELSE disturbed
    /\ fresh' = IF release < PolicyVersion THEN fresh \ {d} ELSE fresh
    /\ UNCHANGED <<provider, db, lock, unmarked>>

Lock(p) ==
    /\ At(p, "lock")
    /\ IF provider[Mine(p)] = "postgres"
       THEN lock[Mine(p)] = Nobody /\ lock' = [lock EXCEPT ![Mine(p)] = p]
       ELSE UNCHANGED lock
    /\ MoveTo(p, [open[p] EXCEPT !.pc = "history"])
    /\ UNCHANGED <<provider, db, fresh, unmarked, disturbed>>

(* readHistory: a history newer than the release is refused. *)
ReadHistory(p) ==
    /\ At(p, "history")
    /\ LET v == db[Mine(p)].version IN
       IF v > open[p].release THEN Refuse(p)
       ELSE /\ MoveTo(p, [open[p] EXCEPT !.pc = IF provider[Mine(p)] = "sqlite" THEN "mirror" ELSE "apply",
                                         !.version = v, !.start = v])
            /\ UNCHANGED lock
    /\ UNCHANGED <<provider, db, fresh, unmarked, disturbed>>

(* sqliteVersion: PRAGMA user_version must agree with the history read     *)
(* before it; where it is missing it is written.                           *)
ReadMirror(p) ==
    /\ At(p, "mirror")
    /\ LET d == Mine(p)
           v == open[p].version
           m == db[d].mirror
       IN IF m \notin {0, v}
          THEN Refuse(p) /\ UNCHANGED db
          ELSE /\ db' = [db EXCEPT ![d].mirror = IF m = 0 THEN v ELSE @]
               /\ MoveTo(p, [open[p] EXCEPT !.pc = "apply"]) /\ UNCHANGED lock
    /\ UNCHANGED <<provider, fresh, unmarked, disturbed>>

-----------------------------------------------------------------------------
seedRegistrationPolicy(start) == IF start > 0 THEN "open" ELSE "closed"

(* The migrations that bring rec to version v, one or several: of all of   *)
(* them, these two change rows.                                            *)
Migrated(rec, v, start) ==
    LET brings(w) == rec.version < w /\ w <= v
    IN [rec EXCEPT !.version = v,
                   !.policy  = IF brings(PolicyVersion) THEN seedRegistrationPolicy(start) ELSE @,
                   !.admin   = IF brings(RolesVersion) /\ @ = "unroled" THEN "roled" ELSE @]

(* All the migrations a release has and a database lacks, on a copy that   *)
(* nobody else sees.                                                       *)
Upgraded(rec, release) ==
    LET v == IF release < rec.version THEN rec.version ELSE release
    IN [Migrated(rec, v, rec.version) EXCEPT !.mirror = v]

ApplyUnmirrored(p) ==
    /\ At(p, "apply") /\ open[p].version < open[p].release
    /\ LET d == Mine(p)
           v == open[p].version + 1
       IN IF db[d].version # v - 1
          THEN Refuse(p) /\ UNCHANGED db
          ELSE /\ db' = [db EXCEPT ![d] = Migrated(db[d], v, open[p].start)]
               /\ MoveTo(p, [open[p] EXCEPT !.version = v]) /\ UNCHANGED lock
    /\ UNCHANGED <<provider, fresh, unmarked, disturbed>>

(* apply: schema, policy seed, history and mirror in one transaction; a    *)
(* migration that another process has applied meanwhile fails.             *)
Apply(p) ==
    /\ At(p, "apply") /\ open[p].version < open[p].release
    /\ LET d == Mine(p)
           v == open[p].version + 1
       IN IF db[d].version # v - 1
          THEN Refuse(p) /\ UNCHANGED db
          ELSE /\ db' = [db EXCEPT ![d] = [Migrated(db[d], v, open[p].start) EXCEPT
                                              !.mirror = IF provider[d] = "sqlite" THEN v ELSE @]]
               /\ MoveTo(p, [open[p] EXCEPT !.version = v]) /\ UNCHANGED lock
    /\ UNCHANGED <<provider, fresh, unmarked, disturbed>>

(* The end of initialize; ensureIdentity's row is left out. *)
Opened(p) ==
    /\ At(p, "apply") /\ open[p].version >= open[p].release
    /\ MoveTo(p, [open[p] EXCEPT !.pc = "opened"])
    /\ Unlock(p)
    /\ UNCHANGED <<provider, db, fresh, unmarked, disturbed>>

(* The process ends, in order or not; its session's lock goes with it.     *)
End(p) ==
    /\ open[p].pc \notin {"idle", "refused"}
    /\ MoveTo(p, Closed) /\ Unlock(p)
    /\ disturbed' = IF p \in Opening(Mine(p)) THEN disturbed \cup {Mine(p)} ELSE disturbed
    /\ UNCHANGED <<provider, db, fresh, unmarked>>

StartupStep(p) ==
    \/ Lock(p) \/ ReadHistory(p) \/ ReadMirror(p) \/ Apply(p) \/ Opened(p)

-----------------------------------------------------------------------------
StartupTypeOK ==
    /\ provider \in [Databases -> {"sqlite", "postgres"}]
    /\ \A d \in Databases : /\ db[d].version \in 0 .. Current /\ db[d].mirror \in 0 .. Current
                            /\ db[d].policy \in Policies /\ db[d].admin \in Admins
    /\ lock \in [Databases -> Procs \cup {Nobody}]
    /\ open \in [Procs -> [pc : {"idle", "lock", "history", "mirror", "apply", "opened", "refused"},
                           db : Databases \cup {Nobody}, release : 0 .. Current,
                           version : 0 .. Current, start : 0 .. Current]]
    /\ fresh \subseteq Databases /\ unmarked \subseteq Databases /\ disturbed \subseteq Databases

(* A new database starts closed to registration.  The seed is chosen by    *)
(* the version its opener found, so this needs one opener to take it from  *)
(* empty past PolicyVersion: only a set-up that was interrupted, or on     *)
(* SQLite shared with another process, may leave a new database open.      *)
NewStartsClosed ==
    \A d \in fresh \ disturbed : db[d].version >= PolicyVersion => db[d].policy # "open"

(* Servers started together on one PostgreSQL database all come up: the    *)
(* only database a release is refused is one of a newer release.           *)
TogetherTheyStart ==
    \A p \in Procs : At(p, "refused") /\ provider[Mine(p)] = "postgres"
                        => db[Mine(p)].version > open[p].release

(* No crash and no race leaves a SQLite database whose mirror contradicts  *)
(* its history, which every later start would refuse; a database that came *)
(* without a mirror is excepted, because the first starts race to add it.  *)
MirrorAgrees ==
    \A d \in Databases \ unmarked : provider[d] = "sqlite" => db[d].mirror = db[d].version

(* No crash and no other process spoils the opening of a database          *)
(* (initializePostgres, sqliteVersion, applyMigration, the seed).          *)
StartupSound == StartupTypeOK /\ NewStartsClosed /\ TogetherTheyStart /\ MirrorAgrees
=============================================================================
